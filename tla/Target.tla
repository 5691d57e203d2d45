------------------------------- MODULE Target -------------------------------
(***************************************************************************)
(* The pure part of the proto crate: the target of a request, the text the  *)
(* client puts in the first frame of a stream and the server reads back,    *)
(* the destination filter, and the two datagram formats (SOCKS5 UDP between *)
(* the application and the client, UoT between client and server).          *)
(*                                                                         *)
(* The printed form of an address is the address itself, so a host text is  *)
(* a name, an address, or one of the two degenerate texts.  Sizes count     *)
(* units: a UoT header with an IPv4 address is 1 (9 bytes), with IPv6 2     *)
(* (21 bytes).                                                              *)
(***************************************************************************)
EXTENDS Naturals

CONSTANTS
    Names,          \* domain names
    V4, V6,         \* addresses
    Mapped,         \* the IPv4-mapped IPv6 addresses, with the IPv4 address each carries
    Reserved,       \* private, loopback, link-local, multicast, unspecified... addresses
    Unspecified,    \* 0.0.0.0 and ::
    MAX_PAYLOAD_LEN, \* the payload of one PSH frame
    None

\* An empty host, a name of 254 or 255 bytes, and one of 256 bytes or more.
EmptyText == "empty"
LongText == "long"
HugeText == "huge"

ASSUME TargetConstants ==
    /\ Mapped \in [DOMAIN Mapped -> V4] /\ DOMAIN Mapped \subseteq V6
    /\ Reserved \subseteq V4 \cup V6 /\ Unspecified \subseteq Reserved
    /\ MAX_PAYLOAD_LEN \in Nat

Ips == V4 \cup V6
Texts == Names \cup Ips \cup {EmptyText, LongText, HugeText}

Domain(text) == [kind |-> "domain", text |-> text]
Ipv4(ip) == [kind |-> "v4", text |-> ip]
Ipv6(ip) == [kind |-> "v6", text |-> ip]

\* From<&str> for Host: a text that parses as an address is that address.
HostFrom(text) ==
    IF text \in V4 THEN Ipv4(text) ELSE IF text \in V6 THEN Ipv6(text) ELSE Domain(text)

tcp(host, port) == [host |-> host, port |-> port, network |-> "tcp"]
udp(host, port) == [host |-> host, port |-> port, network |-> "udp"]

(***************************************************************************)
(* encode_wire: "host:port", an IPv6 host in brackets, "udp:" in front of a *)
(* UDP target.  decode_wire undoes it.                                      *)
(***************************************************************************)
authority(target) ==
    [brackets |-> target.host.kind = "v6", text |-> target.host.text, port |-> target.port]
encode_wire(target) == [udp |-> target.network = "udp", authority |-> authority(target)]

\* A missing or unparsable port is None.
parse_authority(a, allowZeroPort) ==
    IF \/ a.port = None
       \/ a.port = 0 /\ ~allowZeroPort
       \/ ~a.brackets /\ a.text = EmptyText
    THEN None
    ELSE [text |-> a.text, port |-> a.port]


\* The host of a UDP first frame is a placeholder, so its port may be 0.
decode_wire(bytes) ==
    LET parsed == parse_authority(bytes.authority, bytes.udp)
    IN  IF parsed = None THEN None
        ELSE [host |-> HostFrom(parsed.text), port |-> parsed.port,
              network |-> IF bytes.udp THEN "udp" ELSE "tcp"]

\* parse_connect_target: the request target of an HTTP CONNECT.
parse_connect_target(request) ==
    IF request.slash THEN None ELSE parse_authority(request.authority, FALSE)

is_blocked_destination(addr) ==
    IF addr.ip \in DOMAIN Mapped THEN Mapped[addr.ip] \in Reserved ELSE addr.ip \in Reserved

(***************************************************************************)
(* Datagrams.  The application's SOCKS5 datagram carries a reserved field,  *)
(* a fragment number, an address type, the address and the data; a UoT      *)
(* packet the address, the length of the data and the data.                 *)
(***************************************************************************)
Socket(ip, port) == [ip |-> ip, port |-> port]

encode_socks5_udp(data, addr) ==
    [reserved |-> 0, frag |-> 0, atyp |-> IF addr.ip \in V4 THEN 1 ELSE 4, addr |-> addr, data |-> data]

\* Fragments, domain addresses and port 0 are dropped.
decode_socks5_udp(d) ==
    IF d.reserved # 0 \/ d.frag # 0 \/ d.atyp \notin {1, 4} \/ d.addr.port = 0
    THEN None
    ELSE [addr |-> d.addr, data |-> d.data]

HeaderLen(addr) == IF addr.ip \in V4 THEN 1 ELSE 2

encode_udp_packet(data, addr) ==
    IF data.len + HeaderLen(addr) > MAX_PAYLOAD_LEN
    THEN None
    ELSE [addr |-> addr, len |-> data.len, data |-> data]

\* The bytes of a packet on its stream.
PacketLen(packet) == HeaderLen(packet.addr) + packet.len

decode_udp_packet(packet) ==
    IF packet.addr.port = 0 THEN None ELSE [addr |-> packet.addr, data |-> packet.data]
=============================================================================
