------------------------------- MODULE MCNet -------------------------------
(***************************************************************************)
(* The network for TLC.  The DHCP client, the network card and the sockets *)
(* meet in one place only, the address a lease brings (Dhcp!OnAck and      *)
(* NetStack!ApplyLease), so each is explored beside the others at rest:    *)
(* subject says which one runs.                                            *)
(***************************************************************************)
EXTENDS Dhcp, VirtioNet, NetStack, MCInputs

VARIABLE subject

vars == <<subject, dhcpVars, nicVars, netVars>>

Init ==
    /\ subject \in {"dhcp", "nic", "sockets"}
    /\ DhcpInit /\ NicInit /\ NetInit

DhcpRuns    == subject = "dhcp" /\ DhcpNext /\ UNCHANGED <<subject, nicVars, netVars>>
NicRuns     == subject = "nic" /\ NicNext /\ UNCHANGED <<subject, dhcpVars, netVars>>
SocketsRun  == subject = "sockets" /\ NetNext /\ UNCHANGED <<subject, dhcpVars, nicVars>>

Next == DhcpRuns \/ NicRuns \/ SocketsRun

\* Fairness is DHCP's: the network thread ticks for ever and time passes.
Spec == /\ Init /\ [][Next]_vars
        /\ WF_vars(DhcpRuns /\ Tick) /\ WF_vars(DhcpRuns /\ Pass)

\* A short backoff keeps the order of the gaps in the code (4, 8 and 16 seconds).
BackoffDef == (0 :> 1) @@ (1 :> 2) @@ (2 :> 3)

\* One alias and the host it stands for.
ZoneDef == ("alias" :> [type |-> "CNAME", value |-> "host"]) @@
           ("host" :> [type |-> "A", value |-> "addr"])

-----------------------------------------------------------------------------
(* Checks of the pure operators over bounded inputs. *)

\* UdpSocket::bind(0) gives a free port of the range if there is one (the scan starts
\* anywhere in it and wraps), and says so only if there is none.
ScanIsComplete ==
    \A last \in 3 .. 6 : \A next \in 3 .. last : \A taken \in SUBSET (3 .. last) :
        LET p == EphemeralPort(3, last, next, taken)
        IN  IF taken = 3 .. last THEN p = NoPort ELSE p \in (3 .. last) \ taken

\* The chain in a response is followed to the address it ends in, whatever the order
\* of its records; a ring of aliases is found to be one.
Rec(o, v) == [owner |-> o, type |-> IF v = "addr" THEN "A" ELSE "CNAME", value |-> v]
ChainIsFollowed ==
    \A rs \in [1 .. 3 -> [o : {"x", "y", "z"}, v : {"x", "y", "z", "addr"}]] :
        LET recs == [i \in 1 .. 3 |-> Rec(rs[i].o, rs[i].v)]
            c    == FollowChain([records |-> recs], "x", 0)
            step(n) == LET own == SelectSeq(recs, LAMBDA r : r.owner = n)
                       IN  IF own = <<>> THEN "end" ELSE own[1].value
            n1 == step("x")  n2 == step(n1)  n3 == step(n2)
        IN  CASE n1 = "addr" \/ n2 = "addr" \/ n3 = "addr" -> c.out = "address" \/ (c.hops = MaxHops /\ c.out = "loop")
              [] n1 = "end" \/ n2 = "end" \/ n3 = "end" -> c.out = "end" \/ (c.hops = MaxHops /\ c.out = "loop")
              [] OTHER -> c.out = "loop"

ASSUME ScanIsComplete /\ ChainIsFollowed
=============================================================================
