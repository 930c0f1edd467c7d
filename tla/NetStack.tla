------------------------------ MODULE NetStack ------------------------------
(***************************************************************************)
(* Look-ups, sockets, ARP and the blocking calls of the network stack:     *)
(* net-rx files what arrives (net/rx.rs, net/udp.rs) while application     *)
(* threads resolve names and ping (net/dns.rs, net/udp.rs, net/mod.rs).    *)
(*                                                                         *)
(* A transmission (module VirtioNet) may fail or spoil the frame, and so   *)
(* may the network: here a frame leaves or it does not.  A frame that has  *)
(* left stays in sent: an answer to it may arrive at any time, any number  *)
(* of times, or never.  The hosts on the network and the clock are         *)
(* external.  One host is both gateway and name server, in the subnet of   *)
(* the interface.                                                          *)
(***************************************************************************)
EXTENDS Naturals, Sequences, FiniteSets

CONSTANTS
    Apps,        \* application threads
    Static,      \* the address before the first lease
    Leased,      \* addresses a lease may bring
    FirstPort, LastPort, \* the ephemeral ports (49152..65535)
    SockCap,     \* datagrams a socket keeps (64)
    Zone,        \* the names the server knows: [type, value] by name
    Unknown,     \* a name the server does not know
    Seqs,        \* sequence numbers of pings
    MaxOps,      \* bound: operations of the applications
    MaxSends,    \* bound: retransmissions of one lookup
    MaxMoves,    \* bound: leases applied
    MaxHops,     \* CNAME hops allowed in one lookup (8 in the code)
    IdMod        \* query ids wrap here (2^16 in the code)

None   == "none"
NoPort == 0
\* What resolve returns when it has no address.
Failures == {"notfound", "loop", "failure", "timeout", "inuse"}

ASSUME NetAssumption ==
    /\ SockCap \in Nat \ {0}
    /\ FirstPort \in Nat \ {0} /\ LastPort \in Nat /\ FirstPort <= LastPort
    /\ IsFiniteSet(DOMAIN Zone) /\ Unknown \notin DOMAIN Zone
    /\ \A n \in DOMAIN Zone : Zone[n].type \in {"A", "CNAME"}
    /\ MaxHops \in Nat \ {0} /\ IdMod \in Nat \ {0}
    \* addresses, names and sequence numbers are told from each other and from the rest
    /\ \A n \in DOMAIN Zone : Zone[n].type = "A" => Zone[n].value \notin Failures \cup {None}
    /\ (DOMAIN Zone \cup {Unknown}) \cap (Seqs \cup {None}) = {}

VARIABLES
    ip,        \* NetIf::ipv4
    arp,       \* arp_cache holds the host's address
    pings,     \* ping_waiters: the keys in the map
    sockets,   \* UDP_SOCKETS: port -> queue of datagrams
    nextPort,  \* NEXT_EPHEMERAL_PORT
    app,       \* app[t]: the operation thread t is in, or the result of its last one
    sent,      \* frames that have left
    ops, moves

netVars == <<ip, arp, pings, sockets, nextPort, app, sent, ops, moves>>

-----------------------------------------------------------------------------
(* The DNS lookup of crates/otter-netlogic/src/dns.rs as a value: a record *)
(* with the name being resolved (current_name), the id of the query        *)
(* (current_id), the CNAME hops taken and the latched result.  Messages    *)
(* are records: what the parser makes of their bytes.  The clock appears   *)
(* as the outcome of its two comparisons, deadline and retransmission.     *)

NoResult == "none"

\* Lookup::start: the first query carries id.
StartLookup(name, id) == [name |-> name, id |-> id, hops |-> 0, result |-> NoResult]

\* The query build_query encodes.
Query(l) == [id |-> l.id, name |-> l.name]

-----------------------------------------------------------------------------
(* parse_response.  A response has the id and the question of a query, the *)
(* response code (a truncated one counts as a failure), and the records of *)
(* the answer section; whole is FALSE when any of it does not parse or it  *)
(* is not a response to a standard query.                                  *)

\* Where the records stand that matter for a name; the scan finds the first.
Owned(resp, name) ==
    {i \in DOMAIN resp.records :
        resp.records[i].owner = name /\ resp.records[i].type \in {"A", "CNAME"}}

\* One round of the loop over the answer section: at is the name looked for, seen
\* the names visited in this response.
ChainStep(resp, c) ==
    LET own == Owned(resp, c.at)
        r == resp.records[CHOOSE i \in own : \A j \in own : i <= j]
    IN  IF own = {} THEN [c EXCEPT !.out = "end"]
        ELSE IF r.type = "A" THEN [c EXCEPT !.out = "address", !.addr = r.value]
        ELSE IF r.value \in c.seen \/ c.hops + 1 > MaxHops THEN [c EXCEPT !.out = "loop"]
        ELSE [c EXCEPT !.at = r.value, !.hops = c.hops + 1, !.seen = c.seen \cup {r.value}]

\* The loop: it takes at most one round per hop left, and a last one.
ChainStart(name, hops) == [at |-> name, hops |-> hops, seen |-> {name}, out |-> "go", addr |-> NoResult]
ChainRounds(resp, name, hops) ==
    LET Go(c) == IF c.out = "go" THEN ChainStep(resp, c) ELSE c
        round[k \in 0 .. MaxHops + 1] == IF k = 0 THEN ChainStart(name, hops) ELSE Go(round[k - 1])
    IN  round
FollowChain(resp, name, hops) == ChainRounds(resp, name, hops)[MaxHops + 1]

\* Mutant: the question section is not compared.
Matches_IdOnly(l, resp) == resp.whole /\ resp.id = l.id

\* The response is an answer to the query that is out.
Matches(l, resp) == resp.whole /\ resp.id = l.id /\ resp.name = l.name

\* What parse_response returns for a response that matches.
ParseResponse(l, resp) ==
    LET c == FollowChain(resp, l.name, l.hops)
    IN  CASE resp.code = "failure" -> [act |-> "failure", hops |-> l.hops]
          [] resp.code = "nxdomain" -> [act |-> "notfound", hops |-> l.hops]
          [] OTHER ->
               IF c.out = "address" THEN [act |-> "address", addr |-> c.addr, hops |-> c.hops]
               ELSE IF c.out = "loop" THEN [act |-> "loop", hops |-> c.hops]
               ELSE IF c.at = l.name THEN [act |-> "notfound", hops |-> c.hops]
               ELSE [act |-> "follow", name |-> c.at, hops |-> c.hops]

-----------------------------------------------------------------------------
\* Lookup::on_response: the lookup after it.  A follow-up query takes the next id;
\* what does not match changes nothing.
OnResponse(l, resp) ==
    IF l.result # NoResult \/ ~Matches(l, resp) THEN l
    ELSE LET p == ParseResponse(l, resp)
         IN  CASE p.act = "address" -> [l EXCEPT !.result = p.addr]
               [] p.act = "follow" ->
                    IF p.hops > MaxHops
                    THEN [l EXCEPT !.hops = p.hops, !.result = "loop"]
                    ELSE [l EXCEPT !.hops = p.hops, !.name = p.name, !.id = (l.id + 1) % IdMod]
               [] OTHER -> [l EXCEPT !.result = p.act]

\* on_response returned Send: a follow-up query goes out.
AsksAgain(l, resp) == LET m == OnResponse(l, resp) IN m.result = NoResult /\ m.name # l.name

\* Lookup::poll after the deadline.
Expired(l) == IF l.result # NoResult THEN l ELSE [l EXCEPT !.result = "timeout"]

-----------------------------------------------------------------------------
(* Frames, as the parsers of otter-net-proto see them: one that does not   *)
(* parse, fails its checksum or is of no interest changes nothing here.    *)

WhoHas         == [kind |-> "who-has"]
Echo(seq)      == [kind |-> "echo", seq |-> seq]
Ask(q, from, port) == [kind |-> "query", q |-> q, from |-> from, port |-> port]

\* The records of a name's chain of aliases, as far as the zone has it.
ZoneRecord(n) == [owner |-> n, type |-> Zone[n].type, value |-> Zone[n].value]
HasMore(s) ==
    /\ s # <<>> /\ s[Len(s)].type = "CNAME" /\ s[Len(s)].value \in DOMAIN Zone
    /\ \A i \in 1 .. Len(s) : s[i].owner # s[Len(s)].value
Longer(s) == IF HasMore(s) THEN Append(s, ZoneRecord(s[Len(s)].value)) ELSE s
Chains(name) ==
    LET chain[k \in 0 .. Cardinality(DOMAIN Zone)] ==
            IF k > 0 THEN Longer(chain[k - 1])
            ELSE IF name \in DOMAIN Zone THEN <<ZoneRecord(name)>> ELSE <<>>
    IN  chain
ChainOf(name) == Chains(name)[Cardinality(DOMAIN Zone)]

\* The name server answers a query with the chain or the first part of it.
Responses(q) ==
    LET full == ChainOf(q.name)
    IN  {[whole |-> TRUE, id |-> q.id, name |-> q.name, records |-> SubSeq(full, 1, k),
          code |-> IF full = <<>> THEN "nxdomain" ELSE "ok"] :
            k \in {Len(full)} \cup 1 .. Len(full)}

NoApp == [pc |-> "idle", op |-> None, lookup |-> None, port |-> NoPort, src |-> None,
          sends |-> 0, asked |-> None, result |-> None]

NetInit ==
    /\ ip = Static /\ arp = FALSE /\ pings = {}
    /\ sockets = <<>> /\ nextPort = FirstPort
    /\ app = [t \in Apps |-> NoApp]
    /\ sent = {} /\ ops = 0 /\ moves = 0

-----------------------------------------------------------------------------
(* What net-rx does with a frame. *)

\* handle_arp: a reply, or a request for this interface, fills the cache.
RecvArp ==
    /\ WhoHas \in sent /\ ~arp
    /\ arp' = TRUE
    /\ UNCHANGED <<ip, pings, sockets, nextPort, app, sent, ops, moves>>

\* handle_icmp_echo for a reply: the key goes into the map, whoever waits or not.
RecvEcho(seq) ==
    /\ Echo(seq) \in sent
    /\ pings' = pings \cup {seq}
    /\ UNCHANGED <<ip, arp, sockets, nextPort, app, sent, ops, moves>>

\* handle_udp past the checksum: a datagram for another address, for a port nobody
\* has, or for a full socket is dropped.
RecvUdp(f, m) ==
    /\ f.from = ip
    /\ f.port \in DOMAIN sockets /\ Len(sockets[f.port]) < SockCap
    /\ sockets' = [sockets EXCEPT ![f.port] = Append(@, m)]
    /\ UNCHANGED <<ip, arp, pings, nextPort, app, sent, ops, moves>>

\* apply_lease for the ACK in a frame (module Dhcp): the address changes under
\* whatever the applications are doing.
ApplyLease ==
    /\ moves < MaxMoves
    /\ ip' \in Leased
    /\ moves' = moves + 1
    /\ UNCHANGED <<arp, pings, sockets, nextPort, app, sent, ops>>

-----------------------------------------------------------------------------
(* The application: resolve and ping.                                      *)

\* The scan of UdpSocket::bind(0) over the ports first .. last: the first free one from
\* next on, wrapping; NoPort (AddressInUse) when it comes back to where it began.
NextOf(first, last, p) == IF p = last THEN first ELSE p + 1
EphemeralPort(first, last, next, taken) ==
    LET n == last - first
        at[k \in 0 .. n] == IF k = 0 THEN next ELSE NextOf(first, last, at[k - 1])
        free == {k \in 0 .. n : at[k] \notin taken}
    IN  IF free = {} THEN NoPort ELSE at[CHOOSE k \in free : \A j \in free : k <= j]

IsPing(t) == app[t].op \in Seqs

\* The operation is over: the socket is dropped, and the result is what the caller sees.
Return(t, res) ==
    /\ app' = [app EXCEPT ![t] = [NoApp EXCEPT !.asked = app[t].op, !.result = res]]
    /\ sockets' = [p \in DOMAIN sockets \ {app[t].port} |-> sockets[p]]

\* resolve_via up to the first send_to (resolve gives it the server of the lease).
Resolve(t, name, id) ==
    /\ app[t].pc = "idle" /\ ops < MaxOps
    /\ ops' = ops + 1
    /\ LET port == EphemeralPort(FirstPort, LastPort, nextPort, DOMAIN sockets)
       IN  IF port = NoPort
           THEN /\ app' = [app EXCEPT ![t] = [NoApp EXCEPT !.asked = name, !.result = "inuse"]]
                /\ UNCHANGED <<sockets, nextPort>>
           ELSE /\ sockets' = [p \in DOMAIN sockets \cup {port} |->
                                 IF p = port THEN <<>> ELSE sockets[p]]
                /\ nextPort' = NextOf(FirstPort, LastPort, port)
                /\ app' = [app EXCEPT ![t] =
                     [NoApp EXCEPT !.pc = "send", !.op = name, !.port = port,
                                   !.lookup = StartLookup(name, id), !.src = ip]]
    /\ UNCHANGED <<ip, arp, pings, sent, moves>>

Ping(t, seq) ==
    /\ app[t].pc = "idle" /\ ops < MaxOps
    /\ ops' = ops + 1
    /\ app' = [app EXCEPT ![t] = [NoApp EXCEPT !.pc = "send", !.op = seq]]
    /\ UNCHANGED <<ip, arp, pings, sockets, nextPort, sent, moves>>

\* arp_resolve broadcasts a request while the host's address is not in the cache.
ArpResolve(t) ==
    /\ app[t].pc = "send" /\ ~arp
    /\ sent' = sent \cup {WhoHas}
    /\ UNCHANGED <<ip, arp, pings, sockets, nextPort, app, ops, moves>>

\* arp_resolve gives up: a ping fails; a lookup goes on to wait for what cannot come.
ArpTimeout(t) ==
    /\ app[t].pc = "send" /\ ~arp /\ WhoHas \in sent
    /\ IF IsPing(t) THEN Return(t, "timeout")
       ELSE app' = [app EXCEPT ![t].pc = "wait"] /\ UNCHANGED sockets
    /\ UNCHANGED <<ip, arp, pings, nextPort, sent, ops, moves>>

\* send_to, or ping's frame, with the host's address at hand.  The datagram keeps the
\* source address send_to read before it waited for ARP.  A ping whose transmission
\* fails reports TooLarge; a lookup ignores it.
SendTo(t) ==
    /\ app[t].pc = "send" /\ arp
    /\ \/ /\ sent' = sent \cup {IF IsPing(t) THEN Echo(app[t].op)
                                ELSE Ask(Query(app[t].lookup), app[t].src, app[t].port)}
          /\ app' = [app EXCEPT ![t].pc = "wait"]
          /\ UNCHANGED sockets
       \/ IsPing(t) /\ Return(t, "toolarge") /\ UNCHANGED sent
    /\ UNCHANGED <<ip, arp, pings, nextPort, ops, moves>>

\* Lookup::poll found the retransmission due.
Resend(t) ==
    /\ app[t].pc = "wait" /\ ~IsPing(t) /\ app[t].sends < MaxSends
    /\ app' = [app EXCEPT ![t].pc = "send", ![t].src = ip, ![t].sends = @ + 1]
    /\ UNCHANGED <<ip, arp, pings, sockets, nextPort, sent, ops, moves>>

\* recv_from and on_response: done, a follow-up query, or still waiting.
RecvFrom(t) ==
    /\ app[t].pc = "wait" /\ ~IsPing(t) /\ sockets[app[t].port] # <<>>
    /\ LET m == Head(sockets[app[t].port])
           l == OnResponse(app[t].lookup, m)
       IN  IF l.result # NoResult
           THEN Return(t, l.result)
           ELSE /\ app' = IF AsksAgain(app[t].lookup, m)
                          THEN [app EXCEPT ![t].lookup = l, ![t].pc = "send", ![t].src = ip]
                          ELSE app
                /\ sockets' = [sockets EXCEPT ![app[t].port] = Tail(@)]
    /\ UNCHANGED <<ip, arp, pings, nextPort, sent, ops, moves>>

\* The reply's key is in the map: this ping's, or a late one's of the same number.
PingAnswered(t) ==
    /\ app[t].pc = "wait" /\ IsPing(t) /\ app[t].op \in pings
    /\ pings' = pings \ {app[t].op}
    /\ Return(t, "ok")
    /\ UNCHANGED <<ip, arp, nextPort, sent, ops, moves>>

GiveUp(t) ==
    /\ app[t].pc = "wait"
    /\ Return(t, IF IsPing(t) THEN "timeout" ELSE Expired(app[t].lookup).result)
    /\ UNCHANGED <<ip, arp, pings, nextPort, sent, ops, moves>>

NetNext ==
    \/ RecvArp \/ ApplyLease
    \/ \E seq \in Seqs : RecvEcho(seq)
    \/ \E f \in sent : f.kind = "query" /\ \E m \in Responses(f.q) : RecvUdp(f, m)
    \/ \E t \in Apps :
          \/ \E name \in DOMAIN Zone \cup {Unknown}, id \in 0 .. IdMod - 1 : Resolve(t, name, id)
          \/ \E seq \in Seqs : Ping(t, seq)
          \/ ArpResolve(t) \/ ArpTimeout(t) \/ SendTo(t) \/ Resend(t)
          \/ RecvFrom(t) \/ PingAnswered(t) \/ GiveUp(t)

NetSpec == NetInit /\ [][NetNext]_netVars

-----------------------------------------------------------------------------
\* The name's true answer: the addresses at the end of its chain of aliases.
Truth(name) ==
    LET c == ChainOf(name)
    IN  {c[i].value : i \in {j \in 1 .. Len(c) : c[j].type = "A"}}

\* What resolve returns is true of the name that was asked for: neither an answer to
\* an earlier lookup that reached a reused port with the same id, nor a repeated or
\* partial one, is taken for it.
AnswerIsTrue ==
    \A t \in Apps : app[t].asked \in DOMAIN Zone \cup {Unknown} =>
        /\ app[t].result \in {"notfound", "loop"} => Truth(app[t].asked) = {}
        /\ \/ app[t].result \in Failures
           \/ app[t].result \in Truth(app[t].asked)
=============================================================================
