-------------------------------- MODULE Proxy --------------------------------
(***************************************************************************)
(* One request on its way through the proxy: the local application's SOCKS5 *)
(* or HTTP handshake with the client, the stream that carries the target to *)
(* the server, the outbound that reaches it (directly, through the resolver *)
(* cache and a race of connections, or through an upstream SOCKS5 proxy),   *)
(* and, for a UDP association, the two relays that carry datagrams over the *)
(* stream until either side ends it.                                        *)
(*                                                                         *)
(* How a stream is opened, framed and torn down is the business of the      *)
(* session modules; here it is a pair of FIFO pipes with a per-stream       *)
(* window.  A TCP request ends where its relay starts.                      *)
(***************************************************************************)
EXTENDS Target, Sequences, FiniteSets, SequencesExt

CONSTANTS
    ServerConfigs,         \* routing rules and outbounds of a server
    Users, InboundTag,     \* user names, and the tag of the inbound they connect to
    Socks5Requests,        \* requests of applications: header, cmd, atyp, text, port
    HttpRequests,          \* line within limits, method, slash in the target, authority
    Answers,               \* the sets of addresses the resolver may return
    Sources,               \* sockets a datagram can reach the client's UDP socket from
    ClientIp,              \* the address of the application on its control connection
    AppDatagrams,          \* the datagrams applications send, without their number
    Origins,               \* sockets a datagram can reach the server's UDP socket from
    OriginDatagrams,       \* the datagrams they send
    UpstreamIp,            \* the address of the upstream SOCKS5 proxy
    UpstreamReplies,       \* its answers to a command: ok, atyp, text, port
    UDP_CHANNEL_CAPACITY,
    Window, WuThreshold,   \* the per-stream window and the consumption that sends an update
    MaxDatagrams           \* bound: datagrams received at each end

VARIABLES
    proto, outbound,       \* the inbound's protocol; the outbound the routing chose
    cpc, asked, told,      \* client task, what the application asked, what it was told
    wire, fin, synack,     \* the stream: first frame, FIN by each end, SYNACK
    spc, target, race,     \* server task, decoded target, connections still racing
    dns,                   \* the resolver cache's entry for the target
    dest,                  \* what the outbound reached
    relay,                 \* upstream relay address of a UDP association
    alive, armed,          \* control connection of the association at each end, as it
                           \* is, and as the select of the server's loop last saw it
    peer,                  \* the source the association is locked onto
    held, chan,            \* receive task's packet, and the channel to the relay loop
    at, writing,           \* relay loop: "off", "select", "write" or "done"
    pipe, credit, owed,    \* per direction: packets, sender's credit, consumption to return
    unreturned,            \* credit of bytes no one will ever note as consumed
    log, out               \* datagrams received at each end, and sent on by each end

client == <<proto, cpc, asked, told>>
server == <<outbound, spc, target, race, dns, dest, relay>>
stream == <<wire, fin, synack>>
assoc == <<alive, armed, peer, held, chan, at, writing, pipe, credit, owed, unreturned, log, out>>
vars == <<client, server, stream, assoc>>

Sides == {"c", "s"}
Other(x) == IF x = "c" THEN "s" ELSE "c"
TargetLen == 1

SumLen(packets) == FoldSeq(LAMBDA p, n : n + PacketLen(p), 0, packets)

(***************************************************************************)
(* Routing.  The first rule that names the inbound, and the user if it names *)
(* users at all, gives the outbound's tag; without one the first outbound is *)
(* used.  A tag no outbound has ends the connection before any stream.       *)
(***************************************************************************)
find_routing_rule(rules, tag, user) ==
    LET matches(rule) == tag \in rule.inbound /\ (rule.users = {} \/ user \in rule.users)
    IN  SelectInSeq(rules, matches)

resolve_server_outbound(config, tag, user) ==
    LET n == find_routing_rule(config.rules, tag, user)
        k == IF n = 0 THEN 1 ELSE SelectInSeq(config.outbounds, LAMBDA ob : ob.tag = config.rules[n].outbound)
    IN  IF k \in DOMAIN config.outbounds THEN config.outbounds[k].kind ELSE None

(***************************************************************************)
(* Inbound handshakes.                                                      *)
(***************************************************************************)
Greetings == {"version", "methods", "auth_only", "no_auth"}

read_address(atyp, text) ==
    CASE atyp = 1 /\ text \in V4 -> Ipv4(text)
      [] atyp = 4 /\ text \in V6 -> Ipv6(text)
      [] atyp = 3 /\ text \notin {EmptyText, LongText} -> Domain(text)
      [] OTHER -> None

Tell(message) == told' = Append(told, message)
ClientEnds == cpc' = "done" /\ UNCHANGED asked

\* Socks5 greeting: version, method count, and "no authentication" among the methods.
Socks5Greeting(g) ==
    /\ proto = "socks5" /\ cpc = "start"
    /\ CASE g = "no_auth"   -> Tell("method") /\ cpc' = "request" /\ UNCHANGED asked
         [] g = "auth_only" -> Tell("no_acceptable") /\ ClientEnds
         [] OTHER           -> ClientEnds /\ UNCHANGED told
    /\ UNCHANGED <<proto, server, stream, assoc>>

\* The request: header and address first, then the command.
Socks5Request(r) ==
    LET host == read_address(r.atyp, r.text)
    IN  /\ proto = "socks5" /\ cpc = "request"
        /\ IF ~r.header \/ host = None THEN ClientEnds /\ UNCHANGED told
           ELSE IF r.cmd \in {1, 3}
           THEN /\ asked' = IF r.cmd = 1 THEN tcp(host, r.port) ELSE udp(host, r.port)
                /\ cpc' = "open"
                /\ UNCHANGED told
           ELSE Tell("unsupported") /\ ClientEnds
        /\ UNCHANGED <<proto, server, stream, assoc>>

\* The request line and header block, within their limits; only CONNECT is served.
HttpRequest(r) ==
    LET parsed == parse_connect_target(r)
    IN  /\ proto = "http" /\ cpc = "start"
        /\ IF ~r.line THEN ClientEnds /\ UNCHANGED told
           ELSE IF r.method # "CONNECT" THEN Tell("405") /\ ClientEnds
           ELSE IF parsed = None THEN ClientEnds /\ UNCHANGED told
           ELSE asked' = tcp(HostFrom(parsed.text), parsed.port) /\ cpc' = "open" /\ UNCHANGED told
        /\ UNCHANGED <<proto, server, stream, assoc>>

\* LOCAL_PROTOCOL_TIMEOUT_SECS, or the application closes its connection.
HandshakeFails ==
    /\ cpc \in {"start", "request"}
    /\ ClientEnds
    /\ UNCHANGED <<proto, told, server, stream, assoc>>

(***************************************************************************)
(* handle_inbound_connection.  A CONNECT is answered as soon as the stream  *)
(* exists; a UDP association only after the server's SYNACK.                *)
(***************************************************************************)
OpenConnect ==
    /\ cpc = "open" /\ asked.network = "tcp"
    /\ wire' = encode_wire(asked)
    /\ Tell("success")
    /\ cpc' = "relay"
    /\ UNCHANGED <<proto, asked, server, fin, synack, assoc>>

OpenAssociation ==
    /\ cpc = "open" /\ asked.network = "udp"
    /\ wire' = encode_wire(asked)
    /\ credit' = [credit EXCEPT !["c"] = @ - TargetLen]
    /\ unreturned' = [unreturned EXCEPT !["c"] = @ + TargetLen]
    /\ cpc' = "wait"
    /\ UNCHANGED <<proto, asked, told, server, fin, synack,
                   alive, armed, peer, held, chan, at, writing, pipe, owed, log, out>>

\* The pool has no tunnel for the stream.
OpenFails ==
    /\ cpc = "open"
    /\ ClientEnds
    /\ UNCHANGED <<proto, told, server, stream, assoc>>

WaitOpen ==
    /\ cpc = "wait" /\ (synack \/ fin["s"])
    /\ IF synack
       THEN Tell("success") /\ cpc' = "relay" /\ at' = [at EXCEPT !["c"] = "select"] /\ UNCHANGED fin
       ELSE cpc' = "done" /\ fin' = [fin EXCEPT !["c"] = TRUE] /\ UNCHANGED <<told, at>>
    /\ UNCHANGED <<proto, asked, server, wire, synack,
                   alive, armed, peer, held, chan, writing, pipe, credit, owed, unreturned, log, out>>

(***************************************************************************)
(* handle_server_stream: the first payload of the stream is the target; an  *)
(* error at any point closes the stream.                                    *)
(***************************************************************************)
ServerEnds == spc' = "done" /\ fin' = [fin EXCEPT !["s"] = TRUE] /\ UNCHANGED synack

FirstData ==
    LET decoded == decode_wire(wire)
    IN  /\ spc = "first" /\ wire # None
        /\ target' = decoded
        /\ IF decoded = None THEN ServerEnds
           ELSE IF decoded.network = "udp"
           THEN synack' = TRUE /\ spc' = "associate" /\ UNCHANGED fin
           ELSE spc' = "connect" /\ UNCHANGED <<fin, synack>>
        /\ UNCHANGED <<client, outbound, race, dns, dest, relay, wire, assoc>>

\* The first payload does not come within first_data_timeout, or the stream ends first.
FirstDataFails ==
    /\ spc = "first" /\ wire # None
    /\ ServerEnds
    /\ UNCHANGED <<client, outbound, target, race, dns, dest, relay, wire, assoc>>

(***************************************************************************)
(* resolve_remote_target: an address is checked; a name is resolved through *)
(* the cache and the blocked addresses are left out.  None is an error.     *)
(***************************************************************************)
\* A slip: the addresses of a name are used as the resolver gave them.
allowed_unfiltered(host, port, answer) ==
    IF host.kind = "domain" THEN {Socket(ip, port) : ip \in answer}
    ELSE LET addr == Socket(host.text, port)
         IN  IF is_blocked_destination(addr) THEN {} ELSE {addr}

allowed(host, port, answer) ==
    LET candidates == IF host.kind = "domain" THEN {Socket(ip, port) : ip \in answer}
                      ELSE {Socket(host.text, port)}
    IN  {addr \in candidates : ~is_blocked_destination(addr)}

\* dns::resolve: an unexpired entry, or a lookup whose non-empty answer is stored.  A
\* failed lookup is an empty answer to the caller and is not stored either.
resolve(host, answer) ==
    IF host.kind # "domain" THEN UNCHANGED dns
    ELSE IF dns # None THEN answer = dns /\ UNCHANGED dns
    ELSE dns' = IF answer = {} THEN None ELSE answer

\* An entry expires, and another stream's lookup of the same name may store a new one.
CacheTurns(answer) ==
    /\ spc = "connect" /\ target.host.kind = "domain" /\ outbound = "direct"
    /\ dns' = IF dns # None THEN None ELSE answer
    /\ UNCHANGED <<client, outbound, spc, target, race, dest, relay, stream, assoc>>

\* DirectOutbound::connect: every allowed address is tried at once.
DirectConnect(answer) ==
    /\ spc = "connect" /\ outbound = "direct"
    /\ resolve(target.host, answer)
    /\ race' = allowed(target.host, target.port, answer)
    /\ IF race' = {} THEN ServerEnds ELSE spc' = "race" /\ UNCHANGED <<fin, synack>>
    /\ UNCHANGED <<client, outbound, target, dest, relay, wire, assoc>>

RaceWins(addr) ==
    /\ spc = "race" /\ addr \in race
    /\ dest' = [host |-> HostFrom(addr.ip), port |-> addr.port]
    /\ race' = {}
    /\ synack' = TRUE
    /\ spc' = "relay"
    /\ UNCHANGED <<client, outbound, target, dns, relay, wire, fin, assoc>>

RaceFails(addr) ==
    /\ spc = "race" /\ addr \in race
    /\ race' = race \ {addr}
    /\ IF race' = {} THEN ServerEnds ELSE UNCHANGED <<spc, fin, synack>>
    /\ UNCHANGED <<client, outbound, target, dns, dest, relay, wire, assoc>>

(***************************************************************************)
(* Socks5Outbound: method negotiation, authentication, command.  The        *)
(* upstream may refuse, or not answer within the timeout, at every step.    *)
(***************************************************************************)
Upstream == outbound \in {"socks5", "socks5_auth"}

UpstreamConnect ==
    /\ Upstream
    /\ \/ spc = "connect"
       \/ spc = "associate"
    /\ IF /\ spc = "connect" /\ target.host.kind # "domain"
          /\ is_blocked_destination(Socket(target.host.text, target.port))
       THEN ServerEnds
       ELSE spc' = "method" /\ UNCHANGED <<fin, synack>>
    /\ UNCHANGED <<client, outbound, target, race, dns, dest, relay, wire, assoc>>

UpstreamMethod(method) ==
    /\ spc = "method"
    /\ IF method # (IF outbound = "socks5" THEN "no_auth" ELSE "user_pass") THEN ServerEnds
       ELSE /\ spc' = IF outbound = "socks5" THEN "command" ELSE "auth"
            /\ UNCHANGED <<fin, synack>>
    /\ UNCHANGED <<client, outbound, target, race, dns, dest, relay, wire, assoc>>

UpstreamAuth(ok) ==
    /\ spc = "auth"
    /\ IF ok THEN spc' = "command" /\ UNCHANGED <<fin, synack>> ELSE ServerEnds
    /\ UNCHANGED <<client, outbound, target, race, dns, dest, relay, wire, assoc>>

\* socks5_send_connect.
UpstreamTcp(ok) ==
    /\ spc = "command" /\ target.network = "tcp"
    /\ IF ~ok \/ target.host.text = HugeText THEN ServerEnds /\ UNCHANGED dest
       ELSE /\ dest' = [host |-> target.host, port |-> target.port]
            /\ synack' = TRUE /\ spc' = "relay" /\ UNCHANGED fin
    /\ UNCHANGED <<client, outbound, target, race, dns, relay, wire, assoc>>

\* resolve_zero_bind: an unspecified relay address means the proxy itself.
resolve_zero_bind(addr) == IF addr.ip \in Unspecified THEN Socket(UpstreamIp, addr.port) ELSE addr

StartServerRelay == spc' = "relay" /\ at' = [at EXCEPT !["s"] = "select"] /\ UNCHANGED <<fin, synack>>

\* read_socks5_reply_addr: a refusal, or the bound address.
read_socks5_reply_addr(rep) ==
    CASE ~rep.ok        -> None
      [] rep.atyp = 3   -> Domain(rep.text)
      [] OTHER          -> HostFrom(rep.text)

\* socks5_send_udp_associate; a relay named by its domain is resolved and filtered.
UpstreamUdp(rep, answer) ==
    LET host == read_socks5_reply_addr(rep)
        addrs == IF host = None THEN {}
                 ELSE IF host.kind = "domain" THEN allowed(HostFrom(host.text), rep.port, answer)
                 ELSE {Socket(host.text, rep.port)}
    IN  /\ spc = "command" /\ target.network = "udp"
        /\ IF \A addr \in addrs : resolve_zero_bind(addr).port = 0
           THEN ServerEnds /\ UNCHANGED <<relay, at>>
           ELSE /\ relay' \in {resolve_zero_bind(addr) : addr \in addrs}
                /\ StartServerRelay
        /\ UNCHANGED <<client, outbound, target, race, dns, dest, wire,
                       alive, armed, peer, held, chan, writing, pipe, credit, owed, unreturned, log, out>>

\* No answer to the ASSOCIATE within the timeout, or a failed bind.
AssociateFails ==
    /\ \/ spc = "command" /\ target.network = "udp"
       \/ spc = "associate" /\ outbound = "direct"
    /\ ServerEnds
    /\ UNCHANGED <<client, outbound, target, race, dns, dest, relay, wire, assoc>>

DirectUdp ==
    /\ spc = "associate" /\ outbound = "direct"
    /\ StartServerRelay
    /\ UNCHANGED <<client, outbound, target, race, dns, dest, relay, wire,
                   alive, armed, peer, held, chan, writing, pipe, credit, owed, unreturned, log, out>>

(***************************************************************************)
(* The receive tasks of the two UDP relays.  A task that holds a packet for *)
(* a full channel receives nothing.  The n-th datagram a task accepts is    *)
(* entry n of its log.                                                      *)
(***************************************************************************)
Numbered(d, x) == [d EXCEPT !.data = [len |-> d.data, id |-> Len(log[x]) + 1]]

Receiving(x) == at[x] \in {"select", "write"} /\ held[x] = None /\ Len(log[x]) < MaxDatagrams

\* A slip: the association is open to every socket of the client's host.
SourceAcceptedHost(src) == src.ip = ClientIp

\* The association is locked onto the source of its first valid datagram.
SourceAccepted(src) == IF peer = None THEN src.ip = ClientIp ELSE src = peer

\* A datagram of another source, or one that does not decode, is skipped; one too large
\* for a frame still locks the association onto its source.
LocalRecv(src, d) ==
    LET decoded == decode_socks5_udp(Numbered(d, "c"))
    IN  /\ Receiving("c")
        /\ IF ~SourceAccepted(src) \/ decoded = None THEN UNCHANGED <<peer, held, log>>
           ELSE /\ peer' = IF peer = None THEN src ELSE peer
                /\ held' = [held EXCEPT !["c"] = encode_udp_packet(decoded.data, decoded.addr)]
                /\ log' = [log EXCEPT !["c"] = Append(@, [src |-> src, dgram |-> d])]
        /\ UNCHANGED <<client, server, stream, alive, armed, chan, at, writing, pipe, credit, owed, unreturned, out>>

\* UdpRelay::recv: directly any datagram; from upstream only what its relay sends, decoded.
OriginRecv(src, d) ==
    LET numbered == Numbered(d, "s")
        decoded == IF outbound = "direct" THEN [addr |-> src, data |-> numbered.data]
                   ELSE IF src # relay THEN None ELSE decode_socks5_udp(numbered)
    IN  /\ Receiving("s")
        /\ IF decoded = None THEN UNCHANGED <<held, log>>
           ELSE /\ held' = [held EXCEPT !["s"] = encode_udp_packet(decoded.data, decoded.addr)]
                /\ log' = [log EXCEPT !["s"] = Append(@, [src |-> src, dgram |-> d])]
        /\ UNCHANGED <<client, server, stream, alive, armed, peer, chan, at, writing, pipe, credit, owed,
                       unreturned, out>>

ChannelSend(x) ==
    /\ at[x] \in {"select", "write"} /\ held[x] # None
    /\ Len(chan[x]) < UDP_CHANNEL_CAPACITY
    /\ chan' = [chan EXCEPT ![x] = Append(@, held[x])]
    /\ held' = [held EXCEPT ![x] = None]
    /\ UNCHANGED <<client, server, stream, alive, armed, peer, at, writing, pipe, credit, owed, unreturned, log, out>>

(***************************************************************************)
(* The relay loops: one task per end that selects between the stream, the   *)
(* channel, the control connection and the idle timer.  While a write waits *)
(* for credit the loop selects nothing else.  tokio evaluates the branch    *)
(* condition on the upstream control connection when a select begins, so    *)
(* each turn of the server's loop records what it saw in armed.             *)
(***************************************************************************)
NextTurn(x) == armed' = IF x = "s" THEN ~alive["s"] ELSE armed


\* note_consumed: the whole packet, returned in one WINDOW_UPDATE past the threshold.
NoteConsumed(x, packet) ==
    LET total == owed[x] + PacketLen(packet)
    IN  IF total >= WuThreshold
        THEN owed' = [owed EXCEPT ![x] = 0] /\ credit' = [credit EXCEPT ![Other(x)] = @ + total]
        ELSE owed' = [owed EXCEPT ![x] = total] /\ UNCHANGED credit

Emit(x, to, addr, data) == out' = [out EXCEPT ![x] = Append(@, [to |-> to, addr |-> addr, data |-> data])]

\* Server: the datagram goes to its address unless that is blocked, either way credited.
ServerForward(packet) ==
    LET d == decode_udp_packet(packet)
    IN  /\ IF is_blocked_destination(d.addr) THEN UNCHANGED out
           ELSE Emit("s", IF outbound = "direct" THEN d.addr ELSE relay, d.addr, d.data)
        /\ NoteConsumed("s", packet)
        /\ UNCHANGED unreturned

\* Client: the datagram goes to the locked peer; before there is one it is dropped, and
\* its bytes are not credited.
ClientForward(packet) ==
    LET d == decode_udp_packet(packet)
    IN  IF peer # None
        THEN Emit("c", peer, d.addr, d.data) /\ NoteConsumed("c", packet) /\ UNCHANGED unreturned
        ELSE /\ unreturned' = [unreturned EXCEPT !["s"] = @ + PacketLen(packet)]
             /\ UNCHANGED <<out, owed, credit>>

ReadPacket(x) ==
    /\ at[x] = "select" /\ pipe[Other(x)] # <<>>
    /\ IF x = "s" THEN ServerForward(Head(pipe["c"])) ELSE ClientForward(Head(pipe["s"]))
    /\ pipe' = [pipe EXCEPT ![Other(x)] = Tail(@)]
    /\ NextTurn(x)
    /\ UNCHANGED <<client, server, stream, alive, peer, held, chan, at, writing, log>>

TakePacket(x) ==
    /\ at[x] = "select" /\ chan[x] # <<>>
    /\ writing' = [writing EXCEPT ![x] = Head(chan[x])]
    /\ chan' = [chan EXCEPT ![x] = Tail(@)]
    /\ at' = [at EXCEPT ![x] = "write"]
    /\ UNCHANGED <<client, server, stream, alive, armed, peer, held, pipe, credit, owed, unreturned, log, out>>

\* Stream::write: all of the packet's credit, then the packet as one frame.
WritePacket(x) ==
    /\ at[x] = "write" /\ credit[x] >= PacketLen(writing[x])
    /\ credit' = [credit EXCEPT ![x] = @ - PacketLen(writing[x])]
    /\ pipe' = [pipe EXCEPT ![x] = Append(@, writing[x])]
    /\ writing' = [writing EXCEPT ![x] = None]
    /\ at' = [at EXCEPT ![x] = "select"]
    /\ NextTurn(x)
    /\ UNCHANGED <<client, server, stream, alive, peer, held, chan, owed, unreturned, log, out>>

\* The loop breaks: the receive task is aborted and the stream dropped or closed.
LoopEnds(x) ==
    /\ at' = [at EXCEPT ![x] = "done"]
    /\ fin' = [fin EXCEPT ![x] = TRUE]
    /\ held' = [held EXCEPT ![x] = None]
    /\ chan' = [chan EXCEPT ![x] = <<>>]
    /\ IF x = "c" THEN cpc' = "done" /\ UNCHANGED spc ELSE spc' = "done" /\ UNCHANGED cpc
    /\ UNCHANGED <<proto, asked, told, outbound, target, race, dns, dest, relay, wire, synack,
                   alive, armed, peer, writing, pipe, credit, owed, unreturned, log, out>>

\* The write ends in an error: the session under the stream is gone.
WriteFails(x) == at[x] = "write" /\ LoopEnds(x)

\* The peer's FIN, read after everything before it.
ReadEof(x) == at[x] = "select" /\ pipe[Other(x)] = <<>> /\ fin[Other(x)] /\ LoopEnds(x)

\* The application's control connection is read in every turn of the client's loop.
ControlClosed == at["c"] = "select" /\ ~alive["c"] /\ LoopEnds("c")

\* The 500 ms sleep of the server's loop exists only in a turn that began with a dead
\* control connection.
ControlLost == at["s"] = "select" /\ armed /\ LoopEnds("s")

\* UDP_RELAY_IDLE_TIMEOUT since the last traffic; a packet that comes just then loses the
\* select to the timer.
IdleTimeout(x) == at[x] = "select" /\ LoopEnds(x)

ControlDies(x) ==
    /\ at[x] \in {"select", "write"} /\ alive[x]
    /\ x = "s" => Upstream
    /\ alive' = [alive EXCEPT ![x] = FALSE]
    /\ UNCHANGED <<client, server, stream, armed, peer, held, chan, at, writing, pipe, credit, owed, unreturned,
                   log, out>>

Init ==
    /\ proto \in {"socks5", "http"}
    /\ \E config \in ServerConfigs, user \in Users :
          outbound = resolve_server_outbound(config, InboundTag, user)
    /\ outbound # None
    /\ cpc = "start" /\ asked = None /\ told = <<>>
    /\ wire = None /\ synack = FALSE
    /\ fin = [x \in Sides |-> FALSE]
    /\ spc = "first" /\ target = None /\ race = {} /\ dest = None /\ relay = None
    /\ dns = None
    /\ alive = [x \in Sides |-> TRUE] /\ armed = FALSE
    /\ peer = None
    /\ held = [x \in Sides |-> None] /\ writing = [x \in Sides |-> None]
    /\ chan = [x \in Sides |-> <<>>] /\ pipe = [x \in Sides |-> <<>>]
    /\ at = [x \in Sides |-> "off"]
    /\ credit = [x \in Sides |-> Window] /\ owed = [x \in Sides |-> 0]
    /\ unreturned = [x \in Sides |-> 0]
    /\ log = [x \in Sides |-> <<>>] /\ out = [x \in Sides |-> <<>>]

Handshake ==
    \/ \E g \in Greetings : Socks5Greeting(g)
    \/ \E r \in Socks5Requests : Socks5Request(r)
    \/ \E r \in HttpRequests : HttpRequest(r)
    \/ HandshakeFails

Open == OpenConnect \/ OpenAssociation \/ OpenFails \/ WaitOpen

Reach ==
    \/ FirstData \/ FirstDataFails
    \/ \E answer \in Answers : DirectConnect(answer)
    \/ \E addr \in race : RaceWins(addr) \/ RaceFails(addr)
    \/ UpstreamConnect
    \/ \E m \in {"no_auth", "user_pass", "refused"} : UpstreamMethod(m)
    \/ \E ok \in BOOLEAN : UpstreamAuth(ok) \/ UpstreamTcp(ok)
    \/ \E rep \in UpstreamReplies, answer \in Answers : UpstreamUdp(rep, answer)
    \/ AssociateFails \/ DirectUdp

Turn(x) ==
    ReadPacket(x) \/ TakePacket(x) \/ WritePacket(x) \/ WriteFails(x) \/ ReadEof(x) \/ IdleTimeout(x)

Next ==
    \/ Handshake \/ Open \/ Reach
    \/ \E answer \in Answers \ {{}} : CacheTurns(answer)
    \/ \E src \in Sources, d \in AppDatagrams : LocalRecv(src, d)
    \/ \E src \in Origins, d \in OriginDatagrams : OriginRecv(src, d)
    \/ \E x \in Sides : ChannelSend(x) \/ Turn(x) \/ ControlDies(x)
    \/ ControlClosed \/ ControlLost

Spec == Init /\ [][Next]_vars

-----------------------------------------------------------------------------

\* No connection the server makes itself, and no datagram it sends, goes to a reserved
\* address, whether the client named it, the resolver returned it, the cache kept it or an
\* IPv4-mapped address hides it.
NothingBlocked ==
    LET reserved(ip) == ip \in Reserved \/ (ip \in DOMAIN Mapped /\ Mapped[ip] \in Reserved)
    IN  /\ dest # None => ~reserved(dest.host.text)
        /\ \A n \in 1 .. Len(out["s"]) : ~reserved(out["s"][n].addr.ip)

\* Datagrams cross the two relays unchanged, in order and at most once: what the server
\* sends on is what the one application the association is locked onto sent, to the address
\* that application named, and what the client hands back goes to that application alone
\* and names the origin it came from.
DatagramsFaithful ==
    /\ \A x \in Sides : \A m, n \in 1 .. Len(out[x]) : m < n => out[x][m].data.id < out[x][n].data.id
    /\ \A n \in 1 .. Len(out["s"]) :
          LET sent == out["s"][n]  got == log["c"][sent.data.id]
          IN  /\ got.src = peer /\ got.src.ip = ClientIp
              /\ got.dgram.frag = 0 /\ got.dgram.atyp # 3
              /\ sent.addr = got.dgram.addr /\ sent.data.len = got.dgram.data
              /\ sent.to = IF outbound = "direct" THEN sent.addr ELSE relay
    /\ \A n \in 1 .. Len(out["c"]) :
          LET sent == out["c"][n]  got == log["s"][sent.data.id]
          IN  /\ sent.to = peer /\ sent.data.len = got.dgram.data
              /\ IF outbound = "direct" THEN sent.addr = got.src
                 ELSE got.src = relay /\ sent.addr = got.dgram.addr

=============================================================================
