------------------------------- MODULE MCProxy -------------------------------
(* Small instances of Proxy: one name, a public, a private and an unspecified *)
(* IPv4 address, a public IPv6 address and one that maps the private one.     *)
EXTENDS Proxy

CONSTANTS name, pub, priv, zero, six, map, local, up

MCOutbound(tag, kind) == [tag |-> tag, kind |-> kind]
MCRule(users, tag) == [inbound |-> {"in"}, users |-> users, outbound |-> tag]
MCServerConfigs ==
    {[rules |-> <<MCRule({"alice"}, "up"), MCRule({}, "out")>>,
      outbounds |-> <<MCOutbound("out", "direct"), MCOutbound("up", "socks5")>>],
     [rules |-> <<MCRule({"alice"}, "gone")>>, outbounds |-> <<MCOutbound("up", "socks5_auth")>>]}

MCV4 == {pub, priv, zero}
MCV6 == {six, map}
MCMapped == [a \in {map} |-> priv]
MCAnswers == {{}, {priv}, {pub, map, six}}
MCSources == {[ip |-> local, port |-> 1], [ip |-> local, port |-> 2], [ip |-> pub, port |-> 1]}

MCDatagram(frag, atyp, ip, port, len) ==
    [reserved |-> 0, frag |-> frag, atyp |-> atyp, addr |-> [ip |-> ip, port |-> port], data |-> len]

MCAppDatagrams ==
    {MCDatagram(1, 1, pub, 1, 1), MCDatagram(0, 3, pub, 1, 1), MCDatagram(0, 1, pub, 0, 1),
     MCDatagram(0, 4, map, 1, 1), MCDatagram(0, 4, six, 1, 1), MCDatagram(0, 1, pub, 1, 3)}
MCOrigins == {[ip |-> pub, port |-> 1], [ip |-> up, port |-> 1]}
MCReply(ok, atyp, text, port) == [ok |-> ok, atyp |-> atyp, text |-> text, port |-> port]
MCUpstreamReplies ==
    {MCReply(TRUE, 1, zero, 1), MCReply(TRUE, 3, name, 1), MCReply(TRUE, 1, pub, 0), MCReply(FALSE, 1, zero, 0)}

MCSocks5Request(cmd, atyp, text, port) ==
    [header |-> TRUE, cmd |-> cmd, atyp |-> atyp, text |-> text, port |-> port]
MCConnects ==
    {MCSocks5Request(1, atyp, text, port) : atyp \in {3}, text \in Texts \ {HugeText}, port \in {0, 1}}
    \cup {MCSocks5Request(1, 1, text, 1) : text \in MCV4} \cup {MCSocks5Request(1, 4, text, 1) : text \in MCV6}
MCSocks5Requests ==
    MCConnects \cup
    {MCSocks5Request(3, 1, zero, 0), MCSocks5Request(2, 1, pub, 1), MCSocks5Request(1, 0, pub, 1),
     [MCSocks5Request(1, 1, pub, 1) EXCEPT !.header = FALSE]}
MCHttpRequests ==
    [line : BOOLEAN, method : {"CONNECT", "GET"}, slash : BOOLEAN,
     authority : [brackets : BOOLEAN, text : Texts, port : {0, 1, None}]]
MCOriginDatagrams == {MCDatagram(0, 1, pub, 1, 2), MCDatagram(1, 1, pub, 1, 2)}
=============================================================================
