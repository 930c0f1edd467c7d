------------------------------ MODULE Packets ------------------------------
(***************************************************************************)
(* otter-net-proto: Ethernet, ARP, IPv4, ICMP echo, UDP, DHCP and DNS      *)
(* packets, built and read byte by byte; the names of otter-netlogic's DNS *)
(* look-up with their compression; and its ARP cache.  Offsets count from  *)
(* 0 as in the code; numbers wider than 16 bits stay sequences of bytes.   *)
(***************************************************************************)
EXTENDS Integers, Sequences, SequencesExt, FiniteSetsExt

CONSTANTS
    MAX_JUMPS,                      \* pointers parse_name follows (11)
    SEEN,                           \* offsets a LoopDetector remembers (16)
    MAX_NAME, MAX_LABEL,            \* 253 and 63
    ENTRY_LIFE, REQUEST_AGAIN, REQUESTS, QUEUE      \* the ARP cache: 60000, 1000, 3 and 8

At(d, i) == d[i + 1]
Slice(d, from, to) == SubSeq(d, from + 1, to)
Behind(d, from) == SubSeq(d, from + 1, Len(d))
Be16(n) == <<n \div 256, n % 256>>
U16(d, i) == 256 * At(d, i) + At(d, i + 1)
Zeros(n) == [i \in 1 .. n |-> 0]
\* A field of a layout: its offset and its length.
Field(d, layout, name) == Slice(d, layout[name][1], layout[name][1] + layout[name][2])
WithU16(d, i, n) == [d EXCEPT ![i + 1] = n \div 256, ![i + 2] = n % 256]

-----------------------------------------------------------------------------
(* Checksum *)

RECURSIVE Fold(_)
Fold(sum) == IF sum >= 65536 THEN Fold((sum % 65536) + (sum \div 65536)) ELSE sum
Checksum(d) ==
    LET word(i) == 256 * d[i] + (IF i < Len(d) THEN d[i + 1] ELSE 0)
    IN  65535 - Fold(FoldLeft(LAMBDA sum, i : IF i % 2 = 1 THEN sum + word(i) ELSE sum, 0, [i \in DOMAIN d |-> i]))
Verify(d) == Checksum(d) = 0

-----------------------------------------------------------------------------
(* Ethernet and ARP *)

Broadcast == <<255, 255, 255, 255, 255, 255>>
NoMac == Zeros(6)
EthernetLayout == [dst |-> <<0, 6>>, src |-> <<6, 6>>, ethertype |-> <<12, 2>>]
IsEthernet(d) == Len(d) >= 14
EthernetPayload(d) == Behind(d, 14)
BuildEthernet(dst, src, ethertype, payload) == dst \o src \o Be16(ethertype) \o payload

ArpLayout == [hwtype |-> <<0, 2>>, ptype |-> <<2, 2>>, hwlen |-> <<4, 1>>, plen |-> <<5, 1>>, oper |-> <<6, 2>>,
              sha |-> <<8, 6>>, spa |-> <<14, 4>>, tha |-> <<18, 6>>, tpa |-> <<24, 4>>]
IsArp(d) == Len(d) >= 28
ArpHead == Be16(1) \o Be16(2048) \o <<6, 4>>
ArpRequest(mac, ip, target) == ArpHead \o Be16(1) \o mac \o ip \o NoMac \o target
ArpReply(mac, ip, targetMac, target) == ArpHead \o Be16(2) \o mac \o ip \o targetMac \o target

-----------------------------------------------------------------------------
(* IPv4, ICMP and UDP *)

Ipv4Layout == [total_length |-> <<2, 2>>, identification |-> <<4, 2>>, ttl |-> <<8, 1>>, protocol |-> <<9, 1>>, checksum |-> <<10, 2>>,
               src |-> <<12, 4>>, dst |-> <<16, 4>>]
HeaderLen(d) == 4 * (At(d, 0) % 16)
IsIpv4(d) == /\ Len(d) >= 20
             /\ HeaderLen(d) >= 20 /\ Len(d) >= HeaderLen(d)
             /\ U16(d, 2) >= HeaderLen(d) /\ U16(d, 2) <= Len(d)
\* The packet ends where its length says, whatever padding follows.
Ipv4Packet(d) == Slice(d, 0, U16(d, 2))
Ipv4Payload(p) == Behind(p, HeaderLen(p))
VerifyIpv4(p) == Verify(Slice(p, 0, HeaderLen(p)))
Flags(p) == At(p, 6) \div 32
FragOffset(p) == 256 * (At(p, 6) % 32) + At(p, 7)
\* The length is cut to 16 bits.
BuildIpv4(src, dst, protocol, payload) ==
    LET d == <<69, 0, 0, 0, 0, 0, 0, 0, 64, protocol, 0, 0>> \o src \o dst \o payload
        sized == WithU16(d, 2, Len(d) % 65536)
    IN  WithU16(sized, 10, Checksum(Slice(sized, 0, 20)))

EchoLayout == [icmp_type |-> <<0, 1>>, code |-> <<1, 1>>, checksum |-> <<2, 2>>, identifier |-> <<4, 2>>, sequence |-> <<6, 2>>]
IsEcho(d) == Len(d) >= 8
BuildEcho(type, identifier, sequence, payload) ==
    LET d == <<type, 0, 0, 0>> \o Be16(identifier) \o Be16(sequence) \o payload IN WithU16(d, 2, Checksum(d))

UdpLayout == [src_port |-> <<0, 2>>, dst_port |-> <<2, 2>>, length |-> <<4, 2>>, checksum |-> <<6, 2>>]
IsUdp(d) == Len(d) >= 8 /\ U16(d, 4) >= 8 /\ U16(d, 4) <= Len(d)
UdpPacket(d) == Slice(d, 0, U16(d, 4))
UdpPayload(p) == Behind(p, 8)
Pseudo(src, dst, p) == src \o dst \o <<0, 17>> \o Field(p, UdpLayout, "length") \o p
VerifyUdp(p, src, dst) == U16(p, 6) = 0 \/ Verify(Pseudo(src, dst, p))
BuildUdp(srcPort, dstPort, payload, src, dst) ==
    LET d == Be16(srcPort) \o Be16(dstPort) \o Zeros(4) \o payload
        sized == WithU16(d, 4, Len(d) % 65536)
    IN  WithU16(sized, 6, Checksum(Pseudo(src, dst, sized)))

-----------------------------------------------------------------------------
(* DHCP *)

DhcpLayout == [opcode |-> <<0, 1>>, hwtype |-> <<1, 1>>, hwlen |-> <<2, 1>>, hops |-> <<3, 1>>, xid |-> <<4, 4>>, secs |-> <<8, 2>>,
               flags |-> <<10, 2>>, ciaddr |-> <<12, 4>>, yiaddr |-> <<16, 4>>, siaddr |-> <<20, 4>>, giaddr |-> <<24, 4>>,
               chaddr |-> <<28, 6>>, magic_cookie |-> <<236, 4>>]
Cookie == <<99, 130, 83, 99>>
IsDhcp(d) == Len(d) >= 240
Options(d) == Behind(d, 240)
BuildDhcp(xid, mac, options) == <<1, 1, 6, 0>> \o xid \o Zeros(20) \o mac \o Zeros(202) \o Cookie \o FlattenSeq(options)
WithMessageType(type) == <<53, 1, type>>
WithRequestedIp(ip) == <<50, 4>> \o ip
WithServerId(ip) == <<54, 4>> \o ip
WithEnd == <<255>>

\* The type of the message: -1 if the options do not tell.
RECURSIVE MessageTypeAt(_, _)
MessageTypeAt(opts, i) ==
    IF i >= Len(opts) \/ At(opts, i) = 255 THEN -1
    ELSE IF At(opts, i) = 0 THEN MessageTypeAt(opts, i + 1)
    ELSE IF i + 1 >= Len(opts) THEN -1
    ELSE IF At(opts, i) = 53 /\ At(opts, i + 1) = 1 /\ i + 2 < Len(opts) THEN At(opts, i + 2)
    ELSE MessageTypeAt(opts, i + 2 + At(opts, i + 1))
GetMessageType(d) == MessageTypeAt(Options(d), 0)

-----------------------------------------------------------------------------
(* DNS *)

DnsLayout == [id |-> <<0, 2>>, flags |-> <<2, 2>>, qdcount |-> <<4, 2>>, ancount |-> <<6, 2>>, nscount |-> <<8, 2>>, arcount |-> <<10, 2>>]
IsDns(d) == Len(d) >= 12
IsPointer(b) == b >= 192
Target(d, pos) == 256 * (At(d, pos) % 64) + At(d, pos + 1)
NoName == [ok |-> FALSE]

\* DnsQuery::parse_name: the position it ends with is behind the last label it read, which
\* need not be behind the name.
RECURSIVE NameFrom(_, _, _, _)
NameFrom(d, pos, name, jumps) ==
    LET byte == At(d, pos)
        dotted == IF name = <<>> THEN name ELSE Append(name, 46)
    IN  IF pos >= Len(d) THEN NoName
        ELSE IF IsPointer(byte)
             THEN IF pos + 1 >= Len(d) \/ jumps >= MAX_JUMPS THEN NoName ELSE NameFrom(d, Target(d, pos), name, jumps + 1)
        ELSE IF byte = 0 THEN [ok |-> TRUE, pos |-> pos + 1, name |-> name]
        ELSE IF pos + 1 + byte > Len(d) \/ Len(dotted) + byte > 255 THEN NoName
        ELSE NameFrom(d, pos + 1 + byte, dotted \o Slice(d, pos + 1, pos + 1 + byte), jumps)
ParseName(d, offset) == NameFrom(d, offset, <<>>, 0)
\* qtype and qclass, from where the name ended; -1 if they are not there.
QType(d, offset) ==
    LET n == ParseName(d, offset) IN IF ~n.ok THEN -1 ELSE IF n.pos + 1 >= Len(d) THEN -1 ELSE U16(d, n.pos)
QClass(d, offset) ==
    LET n == ParseName(d, offset) IN IF ~n.ok THEN -1 ELSE IF n.pos + 3 >= Len(d) THEN -1 ELSE U16(d, n.pos + 2)

LabelsText(labels) == FlattenSeq([i \in DOMAIN labels |-> <<Len(labels[i])>> \o labels[i]]) \o <<0>>
\* DnsBuilder, for labels that are not too long.
BuildDnsQuery(id, labels, qtype, qclass) == Be16(id) \o <<0, 0, 0, 1, 0, 0, 0, 0, 0, 0>> \o LabelsText(labels) \o Be16(qtype) \o Be16(qclass)

\* NameBuf::parse: the labels of a name; no name is an empty sequence.
NameChars == (65 .. 90) \cup (97 .. 122) \cup (48 .. 57) \cup {95, 45}
Labels(name) ==
    LET dots == {i \in DOMAIN name : name[i] = 46}
        ends == dots \cup {Len(name) + 1}
        start(e) == Max({0} \cup {d \in dots : d < e}) + 1
    IN  [n \in 1 .. Cardinality(ends) |-> LET e == CHOOSE e \in ends : Cardinality({f \in ends : f <= e}) = n IN SubSeq(name, start(e), e - 1)]
ParseNameBuf(text) ==
    LET name == IF text # <<>> /\ Last(text) = 46 THEN Front(text) ELSE text
        labels == Labels(name)
    IN  IF Len(name) \in 1 .. MAX_NAME /\ \A i \in DOMAIN labels : Len(labels[i]) \in 1 .. MAX_LABEL /\ ToSet(labels[i]) \subseteq NameChars
        THEN labels ELSE <<>>

\* parse_name_at, one turn of its loop.  The detector forgets what it has no room for.
NameAt(offset) == [at |-> offset, labels |-> <<>>, next |-> -1, seen |-> {}, out |-> "go"]
NameTurn(d, s) ==
    LET byte == At(d, s.at)
        to == Target(d, s.at)
        jumped == [s EXCEPT !.at = to, !.next = IF @ < 0 THEN s.at + 2 ELSE @,
                            !.seen = IF Cardinality(@) < SEEN THEN @ \cup {to} ELSE @]
    IN  IF s.at >= Len(d) THEN [s EXCEPT !.out = "error"]
        ELSE IF IsPointer(byte) THEN IF s.at + 1 >= Len(d) THEN [s EXCEPT !.out = "error"]
                                     ELSE IF to \in s.seen THEN [s EXCEPT !.out = "error"]
                                     ELSE jumped
        ELSE IF byte = 0 THEN [s EXCEPT !.out = "name", !.next = IF @ < 0 THEN s.at + 1 ELSE @]
        ELSE IF byte > MAX_LABEL \/ s.at + 1 + byte > Len(d) THEN [s EXCEPT !.out = "error"]
        ELSE [s EXCEPT !.labels = Append(@, Slice(d, s.at + 1, s.at + 1 + byte)), !.at = s.at + 1 + byte]
\* The loop, for at most n turns.
RECURSIVE NameTurns(_, _, _)
NameTurns(d, s, n) == IF n = 0 \/ s.out # "go" THEN s ELSE NameTurns(d, NameTurn(d, s), n - 1)

LowerByte(b) == IF b \in 65 .. 90 THEN b + 32 ELSE b
Lowered(labels) == [i \in DOMAIN labels |-> [j \in DOMAIN labels[i] |-> LowerByte(labels[i][j])]]
NamesEqual(a, b) == Lowered(a) = Lowered(b)

-----------------------------------------------------------------------------
(* The ARP cache.  An entry without a MAC waits for the reply. *)

NewArpCache(mac, ip) == [entries |-> <<>>, pending |-> <<>>, mac |-> mac, ip |-> ip]
Without(f, key) == [k \in DOMAIN f \ {key} |-> f[k]]
With(f, key, value) == [k \in DOMAIN f \cup {key} |-> IF k = key THEN value ELSE f[k]]
Since(now, then) == IF now > then THEN now - then ELSE 0
Forget(c, ip) == [c EXCEPT !.entries = Without(@, ip), !.pending = Without(@, ip)]
Known(c, ip) == ip \in DOMAIN c.entries /\ c.entries[ip].mac # NoMac

Asking(c, ip, e) == [c |-> [c EXCEPT !.entries = With(@, ip, e)], actions |-> <<BuildEthernet(Broadcast, c.mac, 2054, ArpRequest(c.mac, c.ip, ip))>>]
ArpTimeout == <<"failed">>
ResolveArp(cache, ip, packet, now) ==
    LET fresh == Known(cache, ip) /\ Since(now, cache.entries[ip].inserted) < ENTRY_LIFE
        c == IF Known(cache, ip) THEN Forget(cache, ip) ELSE cache
        waiting == ip \in DOMAIN c.entries
        queue == IF ip \in DOMAIN c.pending THEN c.pending[ip] ELSE <<>>
        queued == [c EXCEPT !.pending = With(@, ip, IF Len(queue) < QUEUE THEN Append(queue, packet) ELSE queue)]
        e == c.entries[ip]
    IN  IF fresh THEN [c |-> cache, actions |-> <<>>]
        ELSE IF ~waiting THEN Asking(queued, ip, [mac |-> NoMac, inserted |-> now, asked |-> now, count |-> 1])
        ELSE IF Since(now, e.asked) < REQUEST_AGAIN THEN [c |-> queued, actions |-> <<>>]
        ELSE IF e.count >= REQUESTS THEN [c |-> Forget(queued, ip), actions |-> <<ArpTimeout>>]
        ELSE Asking(queued, ip, [e EXCEPT !.asked = now, !.count = @ + 1])

\* A reply is believed, asked for or not; what waited for it is dropped with the queue.
HandleArp(c, frame, now) ==
    LET arp == EthernetPayload(frame)
        sha == Field(arp, ArpLayout, "sha")
        spa == Field(arp, ArpLayout, "spa")
    IN  IF ~IsEthernet(frame) \/ U16(frame, 12) # 2054 THEN [c |-> c, actions |-> <<>>]
        ELSE IF ~IsArp(arp) THEN [c |-> c, actions |-> <<>>]
        ELSE IF U16(arp, 6) = 2
             THEN [c |-> [c EXCEPT !.entries = With(@, spa, [mac |-> sha, inserted |-> now, asked |-> now, count |-> 0]), !.pending = Without(@, spa)],
                   actions |-> <<>>]
        ELSE IF U16(arp, 6) = 1 /\ Field(arp, ArpLayout, "tpa") = c.ip
             THEN [c |-> c, actions |-> <<BuildEthernet(sha, c.mac, 2054, ArpReply(c.mac, c.ip, sha, spa))>>]
        ELSE [c |-> c, actions |-> <<>>]

TickArp(c, now) ==
    LET expired == {ip \in DOMAIN c.entries : Since(now, c.entries[ip].inserted) >= ENTRY_LIFE}
    IN  [c |-> FoldSet(LAMBDA ip, a : Forget(a, ip), c, expired),
         actions |-> [i \in 1 .. Cardinality(expired \cap DOMAIN c.pending) |-> ArpTimeout]]
GetMac(c, ip) == {c.entries[k].mac : k \in DOMAIN c.entries \cap {ip}}
=============================================================================
