-------------------------------- MODULE Dhcp --------------------------------
(***************************************************************************)
(* The DHCP client of crates/otter-netlogic/src/lib.rs, driven by the      *)
(* network thread (kernel/src/net/rx.rs, udp.rs) which applies what it     *)
(* obtains to the interface (kernel/src/net/dhcp.rs), and servers          *)
(* (external) at the other end of a network that loses, duplicates, delays *)
(* and reorders: a message sent stays in wire, and an answer to it may     *)
(* arrive at any time, any number of times, or never.                      *)
(*                                                                         *)
(* Time passes in units of the one-second retransmission gap.  The client  *)
(* is handed the uptime in milliseconds cut down to a u32, which wraps     *)
(* every 49.7 days: clock, modulo MsMax + 1.  It subtracts its stamps from *)
(* it with saturating_sub, so a stamp from before the wrap seems to be of  *)
(* this moment, until the clock has come round to it again.                *)
(***************************************************************************)
EXTENDS Naturals

CONSTANTS
    Addresses,    \* what the server may give out
    NoAddress,    \* Ipv4Addr::zeros
    Fallback,     \* the static configuration before the first lease
    Leases,       \* lease times servers grant, in units
    DefaultLease, \* the one in force before the first OFFER (an hour)
    Backoff,      \* Backoff[n]: wait after the n-th DISCOVER (4, 8, 16 in the code)
    MsMax,        \* last unit a u32 of milliseconds can show
    MaxDelay      \* bound: units a tick that is due may be late

Gap   == 1                  \* 1000 ms between two REQUESTs
Tries == 3                  \* REQUESTs of one stay in a state
Rounds == 3                 \* DISCOVERs after the first

T1(l) == l \div 2
T2(l) == (l * 7) \div 8

\* The kernel is built with overflow checks: lease_ms * 7 must fit a u32, which
\* holds for leases of up to seven days.
ASSUME DhcpAssumption ==
    /\ MsMax \in Nat
    /\ NoAddress \notin Addresses /\ Fallback \notin Addresses
    /\ \A l \in Leases : l \in Nat \ {0} /\ l * 7 <= MsMax
    /\ Backoff \in [0 .. Rounds - 1 -> Nat \ {0}]
    /\ DefaultLease \in Leases
    /\ MaxDelay \in Nat

\* How long an address may be held after the ACK, see OverstayBounded.
MaxHold(l) == T1(l) + Tries * Gap + l + (Tries + 3) * MaxDelay

VARIABLES
    st,        \* DhcpClient::state
    clock,     \* uptime_ms() as u32, the now_ms of the calls
    entered,   \* state_entered_at
    asked,     \* last_request_at
    discovers, \* discover_count
    tries,     \* request_count
    cip,       \* DhcpClient::ip
    offered,   \* offered_ip
    lease,     \* lease_ms
    nifIp,     \* NetIf::ipv4
    nifLease,  \* NetIf::dhcp_lease (its lease time), 0 before the first
    wire,      \* messages the client has sent
    overdue,   \* units since a tick became due
    held       \* history: the true age of the last ACK that was accepted

dhcpVars == <<st, clock, entered, asked, discovers, tries, cip, offered, lease, nifIp, nifLease,
              wire, overdue, held>>

States == {"Init", "Selecting", "Requesting", "Bound", "Renewing", "Rebinding"}

\* The states in which the client takes the address for its own.
Holding == {"Bound", "Renewing", "Rebinding"}

Discover    == [kind |-> "DISCOVER"]
Request(a)  == [kind |-> "REQUEST", ip |-> a]
Offer(a, l) == [kind |-> "OFFER", ip |-> a, lease |-> l]
Ack(a, l)   == [kind |-> "ACK", ip |-> a, lease |-> l]
Nak         == [kind |-> "NAK"]

\* DhcpClient::new
DhcpInit ==
    /\ st = "Init"
    /\ clock = 0 /\ entered = 0 /\ asked = 0 /\ discovers = 0 /\ tries = 0
    /\ cip = NoAddress /\ offered = NoAddress
    /\ lease = DefaultLease
    /\ nifIp = Fallback /\ nifLease = 0
    /\ wire = {}
    /\ overdue = 0 /\ held = 0

\* now_ms.saturating_sub(stamp)
Elapsed(stamp) == IF stamp <= clock THEN clock - stamp ELSE 0

\* What a step of the client does to the time stamps and to the network.
Goto(s) == st' = s /\ entered' = clock
Send(m) == wire' = wire \cup {m}
Silent  == UNCHANGED wire

\* build_request asks for offered_ip, whatever address the client has now.
SendRequest == Send(Request(offered))

-----------------------------------------------------------------------------
(* DhcpClient::tick, one action per state and branch. *)

TickInit ==
    /\ st = "Init"
    /\ Goto("Selecting")
    /\ discovers' = 0
    /\ Send(Discover)
    /\ UNCHANGED <<asked, tries, cip, offered, lease, nifIp, nifLease, held>>

TickSelecting ==
    /\ st = "Selecting"
    /\ discovers < Rounds /\ Elapsed(entered) >= Backoff[discovers]
    /\ discovers' = discovers + 1
    /\ Goto("Selecting")
    /\ Send(Discover)
    /\ UNCHANGED <<asked, tries, cip, offered, lease, nifIp, nifLease, held>>

\* Requesting and Renewing send again after a gap, and once more for each try left.
AskAgain ==
    /\ Elapsed(asked) >= Gap /\ tries < Tries
    /\ tries' = tries + 1
    /\ asked' = clock
    /\ SendRequest
    /\ UNCHANGED <<st, entered>>

\* Mutant: after the last REQUEST went unanswered the client waits on.
TickRequesting_Waits ==
    /\ st = "Requesting"
    /\ AskAgain
    /\ UNCHANGED <<discovers, cip, offered, lease, nifIp, nifLease, held>>

TickRequesting ==
    /\ st = "Requesting"
    /\ \/ AskAgain
       \/ /\ tries >= Tries
          /\ Goto("Init")
          /\ Silent
          /\ UNCHANGED <<tries, asked>>
    /\ UNCHANGED <<discovers, cip, offered, lease, nifIp, nifLease, held>>

TickBound ==
    /\ st = "Bound"
    /\ \/ Elapsed(entered) >= T2(lease) /\ Goto("Rebinding")
       \/ Elapsed(entered) < T2(lease) /\ Elapsed(entered) >= T1(lease) /\ Goto("Renewing")
    /\ tries' = 0 /\ asked' = clock
    /\ Silent
    /\ UNCHANGED <<discovers, cip, offered, lease, nifIp, nifLease, held>>

TickRenewing ==
    /\ st = "Renewing"
    /\ \/ AskAgain
       \/ /\ tries >= Tries
          /\ Goto("Rebinding")
          /\ tries' = 0 /\ asked' = clock
          /\ Silent
    /\ UNCHANGED <<discovers, cip, offered, lease, nifIp, nifLease, held>>

\* Mutant: every REQUEST restarts the clock the lease is measured by.
TickRebinding_Restarts ==
    /\ st = "Rebinding"
    /\ Elapsed(entered) >= Gap
    /\ tries' = tries
    /\ asked' = clock
    /\ SendRequest
    /\ Goto("Rebinding")
    /\ UNCHANGED <<discovers, cip, offered, lease, nifIp, nifLease, held>>

\* The lease is measured from the moment Rebinding was entered, and so is the gap
\* before the REQUESTs.  On expiry the interface keeps its configuration.
TickRebinding ==
    /\ st = "Rebinding"
    /\ \/ /\ Elapsed(entered) >= lease
          /\ Goto("Init")
          /\ discovers' = 0
          /\ Silent
          /\ UNCHANGED <<tries, asked>>
       \/ /\ Elapsed(entered) < lease
          /\ Elapsed(entered) >= Gap /\ tries < Tries
          /\ tries' = tries + 1
          /\ asked' = clock
          /\ SendRequest
          /\ UNCHANGED <<st, entered, discovers>>
    /\ UNCHANGED <<cip, offered, lease, nifIp, nifLease, held>>

TickStep ==
    TickInit \/ TickSelecting \/ TickRequesting \/ TickBound \/ TickRenewing \/ TickRebinding

Tick == TickStep /\ overdue' = 0 /\ UNCHANGED clock

\* A tick would do something now.
TickDue ==
    \/ st = "Init"
    \/ st = "Selecting" /\ discovers < Rounds /\ Elapsed(entered) >= Backoff[discovers]
    \/ st \in {"Requesting", "Renewing"} /\ (Elapsed(asked) >= Gap \/ tries >= Tries)
    \/ st = "Bound" /\ (Elapsed(entered) >= T1(lease) \/ Elapsed(entered) >= T2(lease))
    \/ st = "Rebinding" /\ (Elapsed(entered) >= lease \/ (Elapsed(entered) >= Gap /\ tries < Tries))

-----------------------------------------------------------------------------
(* DhcpClient::handle_packet, and apply_lease for what it returns. *)

\* An OFFER is taken in Selecting only; one without a server id never is.
OnOffer(m) ==
    /\ st = "Selecting" /\ m.kind = "OFFER"
    /\ cip' = m.ip /\ offered' = m.ip /\ lease' = m.lease
    /\ Goto("Requesting")
    /\ tries' = 0 /\ asked' = clock
    /\ Send(Request(m.ip))
    /\ UNCHANGED <<discovers, nifIp, nifLease, held>>

\* An ACK is taken whatever address and server it is from.
OnAck(m) ==
    /\ st \in {"Requesting", "Renewing", "Rebinding"} /\ m.kind = "ACK"
    /\ cip' = m.ip /\ lease' = m.lease
    /\ nifIp' = m.ip /\ nifLease' = m.lease
    /\ Goto("Bound")
    /\ held' = 0
    /\ Silent
    /\ UNCHANGED <<asked, discovers, tries, offered>>

OnNak(m) ==
    /\ st \in {"Requesting", "Renewing", "Rebinding"} /\ m.kind = "NAK"
    /\ Goto("Init")
    /\ discovers' = 0
    /\ Silent
    /\ UNCHANGED <<asked, tries, cip, offered, lease, nifIp, nifLease, held>>

\* What the servers (external) may answer to the messages that were ever sent.
Replies ==
    {Offer(a, l) : a \in IF Discover \in wire THEN Addresses ELSE {}, l \in Leases}
    \cup {Ack(a, l) : a \in {b \in Addresses : Request(b) \in wire}, l \in Leases}
    \cup (IF \E a \in Addresses : Request(a) \in wire THEN {Nak} ELSE {})

HandlePacket == /\ \E m \in Replies : OnOffer(m) \/ OnAck(m) \/ OnNak(m)
                /\ UNCHANGED <<clock, overdue>>

-----------------------------------------------------------------------------
(* The clock. *)

\* A unit of time passes.  The network thread ticks every millisecond, but a frame
\* it transmits may hold it up: a tick that is due comes at most MaxDelay late.  The
\* history stops counting when the clock has surely wrapped.
Pass ==
    /\ TickDue => overdue < MaxDelay
    /\ overdue' = IF TickDue THEN overdue + 1 ELSE 0
    /\ clock' = (clock + 1) % (MsMax + 1)
    /\ held' = IF st \notin Holding THEN 0 ELSE IF held <= MsMax THEN held + 1 ELSE held
    /\ UNCHANGED <<st, entered, asked, discovers, tries, cip, offered, lease, nifIp, nifLease, wire>>

DhcpNext == Tick \/ HandlePacket \/ Pass

DhcpSpec == DhcpInit /\ [][DhcpNext]_dhcpVars

\* The network thread runs for ever (rx.rs: a loop around sleep_ms(1)) and time passes.
DhcpFairness == WF_dhcpVars(Tick) /\ WF_dhcpVars(Pass)

-----------------------------------------------------------------------------
\* The clock has not wrapped since the ACK: it shows at least the age of it.
Unwrapped == held <= clock

\* No address is held longer than this after its ACK: half the lease, the tries of
\* Renewing, and a whole lease counted anew from the entry into Rebinding.  That is
\* so until the clock wraps; a lease that meets the wrap has no such bound, see Lost.
OverstayBounded == st \in Holding /\ Unwrapped => held <= MaxHold(lease)

\* A REQUEST is sent at most so long after the one before; Renewing is left by then.
Late(n)     == n * (Gap + MaxDelay)
RenewEnd(l) == T1(l) + MaxDelay + Late(Tries) + MaxDelay

\* The client asks, by a stamp the clock has passed and with time enough for all its
\* tries, and for a whole lease, before the clock wraps.
AsksIn(s) ==
    /\ st = s
    /\ (IF s = "Rebinding" THEN entered ELSE asked) <= clock
    /\ clock + Late(Tries) + MaxDelay + lease + MaxDelay <= MsMax

\* The client does not get stuck between two states: asking for an address or for
\* more time ends with an address or a new start, whatever is lost, unless the clock
\* wraps on the way.
AskingEnds ==
    \A s \in {"Requesting", "Renewing", "Rebinding"} : AsksIn(s) ~> st \in {"Bound", "Init"}

\* An ACK has come too shortly before the clock wraps for the timers to run out: the
\* client stays Bound for ever (proved in NetProofs).
Lost == st = "Bound" /\ entered + T1(lease) > MsMax

-----------------------------------------------------------------------------
(* The inductive invariant behind OverstayBounded (proved in NetProofs):   *)
(* how long the address can have been held at each point of the client.    *)

DhcpTypes ==
    /\ st \in States
    /\ clock \in 0 .. MsMax /\ entered \in 0 .. MsMax /\ asked \in 0 .. MsMax
    /\ discovers \in 0 .. Rounds /\ tries \in 0 .. Tries
    /\ cip \in Addresses \cup {NoAddress} /\ offered \in Addresses \cup {NoAddress}
    /\ nifIp \in Addresses \cup {Fallback}
    /\ lease \in Leases /\ nifLease \in Leases \cup {0}
    /\ wire \subseteq {Discover} \cup {Request(a) : a \in Addresses \cup {NoAddress}}
    /\ overdue \in 0 .. MaxDelay
    /\ held \in 0 .. MsMax + 1

HeldInBound ==
    IF Elapsed(entered) < T1(lease) THEN held <= Elapsed(entered) ELSE held <= T1(lease) + overdue

HeldInRenewing ==
    LET since == T1(lease) + MaxDelay + Late(tries)
    IN  /\ asked <= clock
        /\ tries = Tries => held <= since + overdue
        /\ tries < Tries /\ Elapsed(asked) < Gap => held <= since /\ overdue = 0
        /\ tries < Tries /\ Elapsed(asked) >= Gap => held <= since + Gap + overdue

HeldInRebinding ==
    IF Elapsed(entered) < lease THEN held <= RenewEnd(lease) + Elapsed(entered)
                                ELSE held <= RenewEnd(lease) + lease + overdue

\* As long as the clock has not wrapped since the ACK, it has passed the stamps.
HeldFits ==
    /\ entered <= clock
    /\ st = "Bound" => HeldInBound
    /\ st = "Renewing" => HeldInRenewing
    /\ st = "Rebinding" => HeldInRebinding

DhcpInv == DhcpTypes /\ (st \in Holding /\ Unwrapped => HeldFits)
=============================================================================
