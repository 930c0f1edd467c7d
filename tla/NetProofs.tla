----------------------------- MODULE NetProofs -----------------------------
(***************************************************************************)
(* Proofs about the DHCP client (module Dhcp), the network card (module    *)
(* VirtioNet) and look-ups (module NetStack): how long an address outlives *)
(* its lease, and when for ever; that no receive buffer is lost or used    *)
(* twice; what a transmission that reports success has done; and that a    *)
(* look-up returns what is true of the name it was asked for.              *)
(***************************************************************************)
EXTENDS Dhcp, VirtioNet, NetStack, QueueLemmas, FiniteSetTheorems, TLAPS

----------------------------------------------------------------------------
(* The DHCP client. *)

\* The two timers of a lease, and the steps of Late.
LEMMA Timers ==
    ASSUME NEW l \in Leases
    PROVE  /\ l \in Nat \ {0}
           /\ T1(l) \in Nat /\ T2(l) \in Nat /\ T1(l) <= T2(l) /\ T1(l) <= l
  BY DhcpAssumption DEF T1, T2

LEMMA LateSteps ==
    /\ MaxDelay \in Nat
    /\ Late(0) = 0 /\ Late(1) = 1 + MaxDelay /\ Late(2) = 2 + 2 * MaxDelay /\ Late(3) = 3 + 3 * MaxDelay
    /\ \A n \in 0 .. 2 : Late(n) \in Nat /\ Late(n + 1) = Late(n) + 1 + MaxDelay
<1>1. MaxDelay \in Nat
  BY DhcpAssumption
<1>2. Late(0) = 0 /\ Late(1) = 1 + MaxDelay /\ Late(2) = 2 + 2 * MaxDelay /\ Late(3) = 3 + 3 * MaxDelay
  BY <1>1 DEF Late, Gap
<1>3. \A n \in 0 .. 2 : n = 0 \/ n = 1 \/ n = 2
  OBVIOUS
<1> QED BY <1>1, <1>2, <1>3

LEMMA DhcpStarts == DhcpInit => DhcpInv
  BY DhcpAssumption DEF DhcpInit, DhcpInv, DhcpTypes, States, Gap, Rounds, Tries, Holding

\* What a reply can be.
LEMMA RepliesTyped ==
    \A m \in Replies : /\ m.kind \in {"OFFER", "ACK"} => m.ip \in Addresses /\ m.lease \in Leases
  BY DEF Replies, Offer, Ack, Nak

\* The clock goes one on, or wraps.
LEMMA NextClock ==
    ASSUME NEW c \in 0 .. MsMax
    PROVE  (c + 1) % (MsMax + 1) = IF c < MsMax THEN c + 1 ELSE 0
  BY DhcpAssumption

LEMMA TypesStep == DhcpTypes /\ [DhcpNext]_dhcpVars => DhcpTypes'
<1> SUFFICES ASSUME DhcpTypes, [DhcpNext]_dhcpVars PROVE DhcpTypes'
  OBVIOUS
<1> USE DhcpAssumption
    DEF DhcpTypes, Gap, Tries, Rounds, States, Send, SendRequest, Silent, Goto, AskAgain
<1>1. CASE Tick
  <2>1. overdue' = 0 /\ clock' = clock
    BY <1>1 DEF Tick
  <2>2. CASE TickInit
    BY <2>1, <2>2 DEF TickInit
  <2>3. CASE TickSelecting
    BY <2>1, <2>3 DEF TickSelecting
  <2>4. CASE TickRequesting
    BY <2>1, <2>4 DEF TickRequesting
  <2>5. CASE TickBound
    BY <2>1, <2>5 DEF TickBound
  <2>6. CASE TickRenewing
    BY <2>1, <2>6 DEF TickRenewing
  <2>7. CASE TickRebinding
    BY <2>1, <2>7 DEF TickRebinding
  <2> QED BY <1>1, <2>2, <2>3, <2>4, <2>5, <2>6, <2>7 DEF Tick, TickStep
<1>2. CASE HandlePacket
  <2>1. PICK m \in Replies : (OnOffer(m) \/ OnAck(m) \/ OnNak(m)) /\ overdue' = overdue /\ clock' = clock
    BY <1>2 DEF HandlePacket
  <2>2. CASE OnOffer(m)
    BY <2>1, <2>2, RepliesTyped DEF OnOffer
  <2>3. CASE OnAck(m)
    BY <2>1, <2>3, RepliesTyped DEF OnAck
  <2>4. CASE OnNak(m)
    BY <2>1, <2>4 DEF OnNak
  <2> QED BY <2>1, <2>2, <2>3, <2>4
<1>3. CASE Pass
  <2>1. clock' \in 0 .. MsMax
    BY <1>3, NextClock DEF Pass
  <2>2. overdue' \in 0 .. MaxDelay
    BY <1>3 DEF Pass
  <2>3. held' \in 0 .. MsMax + 1
    BY <1>3 DEF Pass
  <2> QED BY <1>3, <2>1, <2>2, <2>3 DEF Pass
<1>4. CASE UNCHANGED dhcpVars
  BY <1>4 DEF dhcpVars
<1> QED BY <1>1, <1>2, <1>3, <1>4 DEF DhcpNext

\* A tick, an answer or a unit of time keeps to the bounds on held.
LEMMA HeldStep ==
    ASSUME DhcpInv, DhcpTypes', DhcpNext, st' \in Holding, Unwrapped'
    PROVE  HeldFits'
<1>1. /\ DhcpTypes /\ lease \in Nat \ {0} /\ T1(lease) \in Nat /\ T2(lease) \in Nat
      /\ T1(lease) <= T2(lease) /\ T1(lease) <= lease
  BY Timers DEF DhcpInv, DhcpTypes
<1>2. /\ MaxDelay \in Nat /\ overdue \in 0 .. MaxDelay /\ tries \in 0 .. 3 /\ Gap = 1 /\ Tries = 3
      /\ MsMax \in Nat /\ clock \in 0 .. MsMax /\ entered \in 0 .. MsMax /\ asked \in 0 .. MsMax
      /\ held \in 0 .. MsMax + 1
  BY <1>1, LateSteps, DhcpAssumption DEF DhcpTypes, Gap, Tries
<1>3. CASE Tick
  <2>1. overdue' = 0 /\ clock' = clock
    BY <1>3 DEF Tick
  <2>2. \A x \in 0 .. MsMax : x = clock => Elapsed(x)' = 0
    BY <1>2, <2>1 DEF Elapsed
  <2>3. CASE TickInit \/ TickSelecting \/ TickRequesting
    BY <2>3 DEF TickInit, TickSelecting, TickRequesting, AskAgain, Goto, Holding
  <2>4. st \in Holding /\ held' = held /\ lease' = lease => HeldFits
    BY <2>1 DEF DhcpInv, Unwrapped
  <2>5. CASE TickBound
    <3>1. /\ st = "Bound" /\ tries' = 0 /\ asked' = clock /\ lease' = lease /\ held' = held /\ entered' = clock
          /\ st' \in {"Renewing", "Rebinding"} /\ Elapsed(entered) >= T1(lease)
      BY <1>1, <1>2, <2>5 DEF TickBound, Goto, Elapsed
    <3>2. HeldInBound /\ Elapsed(entered)' = 0 /\ Elapsed(asked)' = 0 /\ Elapsed(entered) \in Nat
      BY <1>2, <2>1, <2>4, <3>1 DEF HeldFits, Holding, Elapsed
    <3>3. held <= T1(lease) + MaxDelay
      BY <1>1, <1>2, <3>1, <3>2 DEF HeldInBound
    <3>4. HeldInRenewing'
      BY <1>1, <1>2, <2>1, <3>1, <3>2, <3>3, LateSteps DEF HeldInRenewing
    <3>5. HeldInRebinding'
      BY <1>1, <1>2, <2>1, <3>1, <3>2, <3>3, LateSteps DEF HeldInRebinding, RenewEnd
    <3> QED BY <1>2, <2>1, <3>1, <3>4, <3>5 DEF HeldFits
  <2>6. CASE TickRenewing
    <3>1. /\ st = "Renewing" /\ lease' = lease /\ held' = held
      BY <2>6 DEF TickRenewing
    <3>2. HeldInRenewing /\ entered <= clock /\ Elapsed(asked) \in Nat
      BY <1>2, <2>4, <3>1 DEF HeldFits, Holding, Elapsed
    <3>3. CASE AskAgain
      <4>1. /\ Elapsed(asked) >= 1 /\ tries \in 0 .. 2 /\ tries' = tries + 1 /\ asked' = clock /\ st' = st
            /\ entered' = entered
        BY <1>2, <3>3 DEF AskAgain
      <4>2. held <= T1(lease) + MaxDelay + Late(tries) + 1 + overdue
        BY <1>2, <3>2, <4>1 DEF HeldInRenewing
      <4>3. Late(tries) \in Nat /\ Late(tries') = Late(tries) + 1 + MaxDelay
        BY <4>1, LateSteps
      <4>4. held <= T1(lease) + MaxDelay + Late(tries')
        BY <1>1, <1>2, <4>2, <4>3
      <4>5. Late(tries') \in Nat /\ Elapsed(asked)' = 0
        BY <1>2, <2>1, <4>1, <4>3 DEF Elapsed
      <4>6. HeldInRenewing'
        BY <1>1, <1>2, <2>1, <3>1, <4>1, <4>4, <4>5 DEF HeldInRenewing
      <4> QED BY <2>1, <3>1, <3>2, <4>1, <4>6 DEF HeldFits
    <3>4. CASE tries >= Tries /\ st' = "Rebinding" /\ entered' = clock
      <4>1. held <= T1(lease) + MaxDelay + Late(3) + overdue
        BY <1>2, <3>2, <3>4 DEF HeldInRenewing
      <4>2. Elapsed(entered)' = 0
        BY <1>2, <2>1, <3>4 DEF Elapsed
      <4>3. HeldInRebinding'
        BY <1>1, <1>2, <2>1, <3>1, <3>4, <4>1, <4>2, LateSteps DEF HeldInRebinding, RenewEnd
      <4> QED BY <1>2, <2>1, <3>4, <4>3 DEF HeldFits
    <3> QED BY <2>6, <3>3, <3>4 DEF TickRenewing, Goto
  <2>7. CASE TickRebinding
    <3>1. /\ st = "Rebinding" /\ st' = st /\ lease' = lease /\ held' = held /\ entered' = entered
          /\ Elapsed(entered) < lease
      BY <2>7 DEF TickRebinding, Goto, Holding
    <3>2. HeldInRebinding /\ entered <= clock /\ Elapsed(entered)' = Elapsed(entered)
      BY <2>1, <2>4, <3>1 DEF HeldFits, Holding, Elapsed
    <3>3. HeldInRebinding'
      BY <3>1, <3>2 DEF HeldInRebinding
    <3> QED BY <2>1, <3>1, <3>2, <3>3 DEF HeldFits
  <2> QED BY <1>3, <2>3, <2>5, <2>6, <2>7 DEF Tick, TickStep
<1>4. CASE HandlePacket
  <2>1. PICK m \in Replies : (OnOffer(m) \/ OnAck(m) \/ OnNak(m)) /\ overdue' = overdue /\ clock' = clock
    BY <1>4 DEF HandlePacket
  <2>2. CASE OnOffer(m)
    BY <2>2 DEF OnOffer, Goto, Holding
  <2>3. CASE OnNak(m)
    BY <2>3 DEF OnNak, Goto, Holding
  <2>4. CASE OnAck(m)
    <3>1. st' = "Bound" /\ held' = 0 /\ entered' = clock /\ lease' \in Leases
      BY <2>4 DEF OnAck, Goto, DhcpTypes
    <3>2. T1(lease') \in Nat /\ overdue' \in Nat
      BY <1>2, <2>1, <3>1, Timers
    <3>3. Elapsed(entered)' = 0
      BY <1>2, <2>1, <3>1 DEF Elapsed
    <3>4. HeldInBound'
      BY <1>2, <2>1, <3>1, <3>2, <3>3 DEF HeldInBound
    <3> QED BY <1>2, <2>1, <3>1, <3>4 DEF HeldFits
  <2> QED BY <2>1, <2>2, <2>3, <2>4
<1>5. CASE Pass
  <2>1. /\ st' = st /\ lease' = lease /\ tries' = tries /\ entered' = entered /\ asked' = asked
        /\ IF TickDue THEN overdue < MaxDelay /\ overdue' = overdue + 1 ELSE overdue' = 0
        /\ clock' = (clock + 1) % (MsMax + 1)
        /\ held' = IF held <= MsMax THEN held + 1 ELSE held
    BY <1>5 DEF Pass
  \* A wrap leaves the history ahead of the clock.
  <2>2. clock < MsMax /\ clock' = clock + 1 /\ held <= clock /\ held' = held + 1
    <3>1. clock' = IF clock < MsMax THEN clock + 1 ELSE 0
      BY <1>2, <2>1, NextClock
    <3> QED BY <1>2, <2>1, <3>1 DEF Unwrapped
  <2>3. HeldFits /\ entered <= clock
    BY <2>1, <2>2 DEF DhcpInv, Unwrapped, HeldFits
  <2>4. Elapsed(entered) \in Nat /\ Elapsed(entered)' = Elapsed(entered) + 1
    BY <1>2, <2>1, <2>2, <2>3 DEF Elapsed
  <2>5. CASE st = "Bound"
    <3>1. HeldInBound
      BY <2>3, <2>5 DEF HeldFits
    <3>2. TickDue <=> Elapsed(entered) >= T1(lease)
      BY <1>1, <2>4, <2>5 DEF TickDue
    <3>3. HeldInBound'
      BY <1>1, <1>2, <2>1, <2>2, <2>4, <3>1, <3>2 DEF HeldInBound
    <3> QED BY <1>2, <2>1, <2>2, <2>3, <2>5, <3>3 DEF HeldFits
  <2>6. CASE st = "Renewing"
    <3>1. HeldInRenewing
      BY <2>3, <2>6 DEF HeldFits
    <3>2. asked <= clock /\ Elapsed(asked) \in Nat /\ Elapsed(asked)' = Elapsed(asked) + 1
      BY <1>2, <2>1, <2>2, <3>1 DEF Elapsed, HeldInRenewing
    <3>3. TickDue <=> Elapsed(asked) >= 1 \/ tries = 3
      BY <1>2, <2>6 DEF TickDue
    <3>4. Late(tries) \in Nat
      <4>1. tries \in 0 .. 2 \/ tries = 3
        BY <1>2
      <4> QED BY <4>1, LateSteps
    <3>5. HeldInRenewing'
      <4>1. CASE tries = 3
        BY <1>1, <1>2, <2>1, <2>2, <3>1, <3>2, <3>3, <3>4, <4>1 DEF HeldInRenewing
      <4>2. CASE tries # 3
        BY <1>1, <1>2, <2>1, <2>2, <3>1, <3>2, <3>3, <3>4, <4>2 DEF HeldInRenewing
      <4> QED BY <4>1, <4>2
    <3> QED BY <1>2, <2>1, <2>2, <2>3, <2>6, <3>5 DEF HeldFits
  <2>7. CASE st = "Rebinding"
    <3>1. HeldInRebinding
      BY <2>3, <2>7 DEF HeldFits
    <3>2. Elapsed(entered) >= lease => TickDue
      BY <2>7 DEF TickDue
    <3>3. RenewEnd(lease) \in Nat
      BY <1>1, <1>2, LateSteps DEF RenewEnd
    <3>4. HeldInRebinding'
      BY <1>1, <1>2, <2>1, <2>2, <2>4, <3>1, <3>2, <3>3 DEF HeldInRebinding
    <3> QED BY <1>2, <2>1, <2>2, <2>3, <2>7, <3>4 DEF HeldFits
  <2> QED BY <2>1, <2>5, <2>6, <2>7 DEF Holding
<1> QED BY <1>3, <1>4, <1>5 DEF DhcpNext

\* The client's stamps and counters stay in their ranges, and until the clock wraps
\* the time it measures keeps step with the time the address has been held.
THEOREM DhcpInvariant == DhcpSpec => []DhcpInv
<1>1. DhcpInv /\ [DhcpNext]_dhcpVars => DhcpInv'
  <2> SUFFICES ASSUME DhcpInv, [DhcpNext]_dhcpVars PROVE DhcpInv'
    OBVIOUS
  <2>1. DhcpTypes'
    BY TypesStep DEF DhcpInv
  <2>2. CASE DhcpNext
    BY <2>1, <2>2, HeldStep DEF DhcpInv
  <2>3. CASE UNCHANGED dhcpVars
    BY <2>1, <2>3 DEF dhcpVars, DhcpInv, Unwrapped, HeldFits, HeldInBound, HeldInRenewing, HeldInRebinding,
                      Elapsed
  <2> QED BY <2>2, <2>3
<1> QED BY <1>1, DhcpStarts, PTL DEF DhcpSpec

\* Until the clock wraps, an address is never held longer after its ACK than half its
\* lease, the retries of Renewing and one more lease, whatever the network loses, delays
\* or repeats and however late the ticks come (up to MaxDelay each).
THEOREM LeaseOverstayIsBounded == DhcpSpec => []OverstayBounded
<1>1. DhcpInv => OverstayBounded
  <2> SUFFICES ASSUME DhcpInv, st \in Holding, Unwrapped PROVE held <= MaxHold(lease)
    BY DEF OverstayBounded
  <2>1. /\ lease \in Nat /\ T1(lease) \in Nat /\ T1(lease) <= lease
        /\ MaxDelay \in Nat /\ held \in Nat /\ overdue \in 0 .. MaxDelay /\ tries \in 0 .. 3
        /\ Elapsed(entered) \in Nat /\ Elapsed(asked) \in Nat /\ Gap = 1 /\ Tries = 3
    BY Timers, LateSteps DEF DhcpInv, DhcpTypes, Gap, Tries, Elapsed
  <2>2. MaxHold(lease) = T1(lease) + 3 + lease + 6 * MaxDelay
    BY <2>1 DEF MaxHold
  <2>3. HeldFits
    BY DEF DhcpInv
  <2>4. CASE st = "Bound"
    BY <2>1, <2>2, <2>3, <2>4 DEF HeldFits, HeldInBound
  <2>5. CASE st = "Renewing"
    <3>1. Late(tries) \in Nat /\ Late(tries) <= 3 + 3 * MaxDelay /\ (tries < 3 => Late(tries) <= 2 + 2 * MaxDelay)
      <4>1. tries = 0 \/ tries = 1 \/ tries = 2 \/ tries = 3
        BY <2>1
      <4> QED BY <2>1, <4>1, LateSteps
    <3> QED BY <2>1, <2>2, <2>3, <2>5, <3>1 DEF HeldFits, HeldInRenewing
  <2>6. CASE st = "Rebinding"
    BY <2>1, <2>2, <2>3, <2>6, LateSteps DEF HeldFits, HeldInRebinding, RenewEnd
  <2> QED BY <2>4, <2>5, <2>6 DEF Holding
<1> QED BY <1>1, DhcpInvariant, PTL

\* What happens to a lease that meets the wrap: an ACK that comes less than half a lease
\* before it binds the client for ever.  Neither timer runs out, before the wrap or
\* after it, and a bound client listens to no answer.
THEOREM LateAckBindsForEver == DhcpSpec => [][Lost => Lost']_dhcpVars
<1>1. DhcpInv /\ Lost /\ [DhcpNext]_dhcpVars => Lost'
  <2> SUFFICES ASSUME DhcpInv, Lost, [DhcpNext]_dhcpVars PROVE Lost'
    OBVIOUS
  <2>1. /\ lease \in Nat /\ T1(lease) \in Nat /\ T2(lease) \in Nat /\ T1(lease) <= T2(lease)
        /\ MsMax \in Nat /\ clock \in 0 .. MsMax /\ entered \in 0 .. MsMax
    BY Timers, DhcpAssumption DEF DhcpInv, DhcpTypes
  <2>2. st = "Bound" /\ Elapsed(entered) < T1(lease) /\ Elapsed(entered) < T2(lease)
    BY <2>1 DEF Lost, Elapsed
  <2>3. ~Tick
    BY <2>1, <2>2 DEF Tick, TickStep, TickInit, TickSelecting, TickRequesting, TickBound, TickRenewing, TickRebinding,
                      Elapsed
  <2>4. ~HandlePacket
    BY <2>2 DEF HandlePacket, OnOffer, OnAck, OnNak
  <2>5. CASE Pass
    BY <2>5 DEF Pass, Lost
  <2>6. CASE UNCHANGED dhcpVars
    BY <2>6 DEF dhcpVars, Lost
  <2> QED BY <2>3, <2>4, <2>5, <2>6 DEF DhcpNext
<1> QED BY <1>1, DhcpInvariant, PTL DEF DhcpSpec


----------------------------------------------------------------------------
(* The network card. *)

\* Where a buffer is.
Posted(b)    == \E i \in 1 .. Len(posted) : posted[i] = b
Completed(b) == \E i \in 1 .. Len(rxUsed) : rxUsed[i].buf = b

\* What RxBuffersConserved says, in these terms.
AllBuffers ==
    /\ \A b : b \in RxBuffers <=> Posted(b) \/ Completed(b) \/ (inHand # NoBuffer /\ b = inHand) \/ b \in leaked
    /\ Len(posted) + Len(rxUsed) + (IF inHand = NoBuffer THEN 0 ELSE 1) + Cardinality(leaked) = NumRx
    /\ Cardinality(leaked) <= shorts

LEMMA WhereBuffersAre == RxBuffersConserved <=> AllBuffers
<1> DEFINE used  == {rxUsed[i].buf : i \in 1 .. Len(rxUsed)}
           taken == {inHand} \ {NoBuffer}
           free  == {posted[i] : i \in 1 .. Len(posted)}
<1>1. Cardinality(taken) = IF inHand = NoBuffer THEN 0 ELSE 1
  <2>1. CASE inHand = NoBuffer
    <3>1. taken = {}
      BY <2>1
    <3> QED BY <2>1, <3>1, FS_EmptySet
  <2>2. CASE inHand # NoBuffer
    <3>1. taken = {inHand}
      BY <2>2
    <3> QED BY <2>2, <3>1, FS_Singleton
  <2> QED BY <2>1, <2>2
<1>2. /\ \A b : b \in free <=> Posted(b)
      /\ \A b : b \in used <=> Completed(b)
      /\ \A b : b \in taken <=> inHand # NoBuffer /\ b = inHand
  BY DEF Posted, Completed
<1>3. RxBuffersConserved <=>
        /\ RxBuffers = free \cup used \cup taken \cup leaked
        /\ Len(posted) + Len(rxUsed) + Cardinality(taken) + Cardinality(leaked) = NumRx
        /\ Cardinality(leaked) <= shorts
  BY DEF RxBuffersConserved
<1> HIDE DEF used, taken, free
<1>4. RxBuffers = free \cup used \cup taken \cup leaked <=>
        \A b : b \in RxBuffers <=> Posted(b) \/ Completed(b) \/ (inHand # NoBuffer /\ b = inHand) \/ b \in leaked
  <2>1. RxBuffers = free \cup used \cup taken \cup leaked <=>
          \A b : b \in RxBuffers <=> b \in free \/ b \in used \/ b \in taken \/ b \in leaked
    OBVIOUS
  <2> QED BY <1>2, <2>1
<1> QED BY <1>1, <1>3, <1>4 DEF AllBuffers

LEMMA WhereBuffersGo == RxBuffersConserved' <=> AllBuffers'
  BY WhereBuffersAre, PTL

LEMMA NicStarts == NicInit => NicInv
<1> SUFFICES ASSUME NicInit PROVE NicInv
  OBVIOUS
<1> USE NicAssumption DEF NicInit, NoBuffer
<1>1. posted \in Seq(RxBuffers) /\ Len(posted) = NumRx /\ \A i \in 1 .. NumRx : posted[i] = i
  BY DEF RxBuffers
<1>2. IsFiniteSet({}) /\ Cardinality({}) = 0
  BY FS_EmptySet
<1>3. NicTypes
  BY <1>1, <1>2 DEF NicTypes, NoTx, Progress
<1>4. BuffersApart
  BY <1>1 DEF BuffersApart
<1>5. RxBuffersConserved
  <2>1. \A b : b \in RxBuffers <=> Posted(b)
    BY <1>1 DEF Posted, RxBuffers
  <2>2. \A b : ~Completed(b)
    BY DEF Completed
  <2> QED BY <1>1, <1>2, <2>1, <2>2, WhereBuffersAre DEF AllBuffers
<1>6. AloneIsOnly
  BY DEF AloneIsOnly, NoTx
<1>7. AnswersInHand
  BY DEF AnswersInHand, NoTx, Threads
<1>8. ShortsCounted
  <2>1. ShortBuffers \cup leaked = {}
    BY DEF ShortBuffers
  <2>2. Cardinality(ShortBuffers \cup leaked) = 0
    BY <2>1, FS_EmptySet
  <2>3. shorts = 0
    OBVIOUS
  <2> HIDE DEF NicInit
  <2> QED BY <2>2, <2>3 DEF ShortsCounted
<1> QED BY <1>3, <1>4, <1>5, <1>6, <1>7, <1>8 DEF NicInv

\* What a transmission does to its user's record and to the queue.
LEMMA TransmitStep ==
    ASSUME NicTypes, AloneIsOnly, NEW t \in Threads, NEW f \in Frames \cup {"answer"},
           Transmit(t, f), txUsed' = txUsed
    PROVE  /\ tx' \in [Threads -> Progress] /\ txq' \in Seq([by : Threads, frame : Frames \cup {"answer"}])
           /\ AloneIsOnly'
<1> DEFINE room == Len(txq) + txUsed < TxSlots
           entry == [by |-> t, frame |-> f]
<1>1. /\ txq \in Seq([by : Threads, frame : Frames \cup {"answer"}]) /\ txUsed \in Nat
      /\ tx \in [Threads -> Progress] /\ entry \in [by : Threads, frame : Frames \cup {"answer"}]
  BY DEF NicTypes
<1>2. /\ bounce' = f /\ txq' = IF room THEN Append(txq, entry) ELSE txq
      /\ tx' = [u \in Threads |->
             IF u = t THEN [st |-> IF room THEN "poll" ELSE "done", ok |-> room,
                            alone |-> txq = <<>> /\ txUsed = 0, gone |-> FALSE]
             ELSE [tx[u] EXCEPT !.alone = FALSE]]
  BY DEF Transmit
<1>3. room \in BOOLEAN /\ (txq = <<>> /\ txUsed = 0) \in BOOLEAN
  OBVIOUS
<1> HIDE DEF room
<1>4. txq' \in Seq([by : Threads, frame : Frames \cup {"answer"}])
  BY <1>1, <1>2, AppendProperties, Zenon
<1>5. tx' \in [Threads -> Progress]
  BY <1>1, <1>2, <1>3 DEF Progress
<1>6. \A u \in Threads : u # t => ~tx'[u].alone
  BY <1>1, <1>2 DEF Progress
<1>7. tx'[t].st = "poll" /\ tx'[t].alone => room /\ txq = <<>> /\ txUsed = 0
  BY <1>2
<1>8. txq = <<>> /\ room => Len(txq') = 1 /\ txq'[1].by = t /\ txq'[1].frame = f
  BY <1>1, <1>2
<1> QED BY <1>2, <1>4, <1>5, <1>6, <1>7, <1>8 DEF AloneIsOnly

LEMMA NicTypesStep == NicInv /\ [NicNext]_nicVars => NicTypes' /\ AloneIsOnly'
<1> SUFFICES ASSUME NicInv, [NicNext]_nicVars PROVE NicTypes' /\ AloneIsOnly'
  OBVIOUS
<1>1. NicTypes /\ AloneIsOnly
  BY DEF NicInv
<1>2. /\ posted \in Seq(RxBuffers) /\ rxUsed \in Seq([buf : RxBuffers, frame : Incoming])
      /\ inHand \in RxBuffers \cup {NoBuffer} /\ leaked \subseteq RxBuffers /\ IsFiniteSet(leaked)
      /\ shorts \in Nat /\ txq \in Seq([by : Threads, frame : Frames \cup {"answer"}])
      /\ txUsed \in Nat /\ tx \in [Threads -> Progress] /\ "rx" \in Threads
  BY <1>1 DEF NicTypes, Threads
<1>3. ASSUME NEW t \in Senders, NEW f \in Frames, SendFrame(t, f) PROVE NicTypes' /\ AloneIsOnly'
  <2>1. /\ Transmit(t, f) /\ UNCHANGED <<posted, rxUsed, leaked, shorts, inHand, txUsed>> /\ t \in Threads
    BY <1>3 DEF SendFrame, rxRing, Threads
  <2>2. /\ tx' \in [Threads -> Progress] /\ txq' \in Seq([by : Threads, frame : Frames \cup {"answer"}])
        /\ AloneIsOnly'
    BY <1>1, <1>3, <2>1, TransmitStep
  <2> QED BY <1>2, <2>1, <2>2 DEF NicTypes
<1>4. ASSUME NEW t \in Threads, TxPop(t) PROVE NicTypes' /\ AloneIsOnly'
  <2>1. /\ txUsed > 0 /\ txUsed' = txUsed - 1 /\ tx' = [tx EXCEPT ![t].st = "done"]
        /\ UNCHANGED <<posted, rxUsed, leaked, shorts, inHand, bounce, txq>>
    BY <1>4 DEF TxPop, rxRing
  <2>2. tx' \in [Threads -> Progress] /\ txUsed' \in Nat
    <3>1. tx \in [Threads -> Progress] /\ txUsed \in Nat
      BY <1>2
    <3>2. txUsed' \in Nat
      BY <3>1, <2>1
    <3>3. tx' \in [Threads -> Progress]
      BY <3>1, <2>1 DEF Progress
    <3> QED BY <3>2, <3>3
  <2>3. \A u \in Threads : tx[u].st = "poll" /\ tx[u].alone => tx[u].gone
    BY <1>1, <1>2, <2>1 DEF AloneIsOnly
  <2>4. \A u \in Threads : tx'[u].alone = tx[u].alone /\ tx'[u].gone = tx[u].gone
                           /\ (tx'[u].st = "poll" => tx[u].st = "poll")
    BY <1>2, <2>1 DEF Progress
  <2>5. AloneIsOnly'
    BY <2>3, <2>4 DEF AloneIsOnly
  <2> QED BY <1>2, <2>1, <2>2, <2>5 DEF NicTypes
<1>5. ASSUME NEW t \in Threads, TxTimeout(t) PROVE NicTypes' /\ AloneIsOnly'
  <2>1. /\ tx' = [tx EXCEPT ![t].st = "done", ![t].ok = FALSE]
        /\ UNCHANGED <<posted, rxUsed, leaked, shorts, inHand, bounce, txq, txUsed>>
    BY <1>5 DEF TxTimeout, rxRing
  <2>2. tx' \in [Threads -> Progress]
    BY <1>2, <2>1 DEF Progress
  <2>4. \A u \in Threads : tx'[u].alone = tx[u].alone /\ tx'[u].gone = tx[u].gone
                           /\ (tx'[u].st = "poll" => tx[u].st = "poll")
    BY <1>2, <2>1 DEF Progress
  <2>5. AloneIsOnly'
    BY <1>1, <2>1, <2>4 DEF AloneIsOnly
  <2> QED BY <1>2, <2>1, <2>2, <2>5 DEF NicTypes
<1>6. CASE DevTransmit
  <2> DEFINE e == Head(txq)
  <2>1. /\ txq # <<>> /\ tx' = [tx EXCEPT ![e.by].gone = @ \/ bounce = e.frame]
        /\ txq' = Tail(txq) /\ txUsed' = txUsed + 1
        /\ UNCHANGED <<posted, rxUsed, leaked, shorts, inHand, bounce>>
    BY <1>6 DEF DevTransmit, rxRing
  <2>2. e \in [by : Threads, frame : Frames \cup {"answer"}] /\ e = txq[1]
    <3>1. e \in [by : Threads, frame : Frames \cup {"answer"}]
      BY <1>2, <2>1, HeadTailProperties, Zenon
    <3>2. \A S : \A q \in Seq(S) : q # <<>> => Head(q) = q[1]
      OBVIOUS
    <3> QED BY <1>2, <2>1, <3>1, <3>2, Zenon
  <2>3. e.by \in Threads
    BY <2>2
  <2> HIDE DEF e
  <2>4. \A u \in Threads :
           /\ tx'[u].alone = tx[u].alone /\ tx'[u].st = tx[u].st
           /\ tx'[u].gone <=> tx[u].gone \/ (u = e.by /\ bounce = e.frame)
    BY <1>2, <2>1, <2>3 DEF Progress
  <2>5. tx' \in [Threads -> Progress]
    <3> DEFINE g == tx[e.by].gone \/ bounce = e.frame
    <3>1. g \in BOOLEAN /\ tx[e.by] \in Progress
      BY <1>2, <2>3
    <3>2. tx' = [tx EXCEPT ![e.by] = [tx[e.by] EXCEPT !.gone = g]]
      BY <2>1
    <3> HIDE DEF g
    <3>3. [tx[e.by] EXCEPT !.gone = g] \in Progress
      BY <3>1 DEF Progress
    <3> QED BY <1>2, <2>3, <3>2, <3>3
  <2>6. AloneIsOnly'
    BY <1>1, <2>2, <2>4 DEF AloneIsOnly
  <2>7. txq' \in Seq([by : Threads, frame : Frames \cup {"answer"}]) /\ txUsed' \in Nat
    BY <1>2, <2>1
  <2> QED BY <1>2, <2>1, <2>5, <2>6, <2>7 DEF NicTypes
<1>7. CASE DevReceive
  <2>1. PICK f \in Incoming :
          /\ posted # <<>> /\ posted' = Tail(posted)
          /\ rxUsed' = Append(rxUsed, [buf |-> Head(posted), frame |-> f])
          /\ shorts' = IF f = "short" THEN shorts + 1 ELSE shorts
          /\ UNCHANGED <<leaked, inHand, bounce, txq, txUsed, tx>>
    BY <1>7 DEF DevReceive
  <2>2. Head(posted) \in RxBuffers /\ posted' \in Seq(RxBuffers)
    BY <1>2, <2>1
  <2>3. [buf |-> Head(posted), frame |-> f] \in [buf : RxBuffers, frame : Incoming]
    BY <2>2
  <2>4. rxUsed' \in Seq([buf : RxBuffers, frame : Incoming])
    BY <1>2, <2>1, <2>3
  <2>5. shorts' \in Nat
    BY <1>2, <2>1
  <2>6. AloneIsOnly'
    BY <1>1, <2>1 DEF AloneIsOnly
  <2> QED BY <1>2, <2>1, <2>2, <2>4, <2>5, <2>6 DEF NicTypes
<1>8. CASE Receive
  <2> DEFINE b == Head(rxUsed).buf
  <2>1. /\ inHand = NoBuffer /\ rxUsed # <<>> /\ rxUsed' = Tail(rxUsed) /\ UNCHANGED <<txUsed, shorts>>
    BY <1>8 DEF Receive
  <2>2. Head(rxUsed) \in [buf : RxBuffers, frame : Incoming] /\ rxUsed' \in Seq([buf : RxBuffers, frame : Incoming])
    BY <1>2, <2>1, HeadTailProperties, Zenon
  <2>3. b \in RxBuffers
    BY <2>2
  <2> HIDE DEF b
  <2>4. CASE leaked' = leaked \cup {b} /\ UNCHANGED <<posted, inHand, bounce, txq, tx>>
    <3>1. IsFiniteSet(leaked')
      BY <1>2, <2>4, FS_AddElement
    <3>2. AloneIsOnly'
      BY <1>1, <2>1, <2>4 DEF AloneIsOnly
    <3> QED BY <1>2, <2>1, <2>2, <2>3, <2>4, <3>1, <3>2 DEF NicTypes
  <2>5. CASE inHand' = b /\ Transmit("rx", "answer") /\ UNCHANGED <<posted, leaked>>
    <3>1. /\ tx' \in [Threads -> Progress] /\ txq' \in Seq([by : Threads, frame : Frames \cup {"answer"}])
          /\ AloneIsOnly'
      BY <1>1, <1>2, <2>1, <2>5, TransmitStep
    <3> QED BY <1>2, <2>1, <2>2, <2>3, <2>5, <3>1 DEF NicTypes
  <2>6. CASE posted' = Append(posted, b) /\ UNCHANGED <<inHand, leaked, bounce, txq, tx>>
    <3>1. posted' \in Seq(RxBuffers)
      BY <1>2, <2>3, <2>6
    <3>2. AloneIsOnly'
      BY <1>1, <2>1, <2>6 DEF AloneIsOnly
    <3> QED BY <1>2, <2>1, <2>2, <2>6, <3>1, <3>2 DEF NicTypes
  <2> QED BY <1>8, <2>4, <2>5, <2>6 DEF Receive, b
<1>9. CASE Repost
  <2>1. /\ inHand # NoBuffer /\ posted' = Append(posted, inHand) /\ inHand' = NoBuffer
        /\ tx' = [tx EXCEPT !["rx"] = NoTx]
        /\ UNCHANGED <<rxUsed, leaked, shorts, bounce, txq, txUsed>>
    BY <1>9 DEF Repost
  <2>2. posted' \in Seq(RxBuffers)
    BY <1>2, <2>1
  <2>3. tx' \in [Threads -> Progress] /\ tx'["rx"] = NoTx /\ \A u \in Threads \ {"rx"} : tx'[u] = tx[u]
    <3>1. NoTx \in Progress
      BY DEF NoTx, Progress
    <3> QED BY <1>2, <2>1, <3>1
  <2>4. AloneIsOnly'
    BY <1>1, <2>1, <2>3 DEF AloneIsOnly, NoTx
  <2> QED BY <1>2, <2>1, <2>2, <2>3, <2>4 DEF NicTypes
<1>10. CASE UNCHANGED nicVars
  BY <1>1, <1>10 DEF nicVars, rxRing, NicTypes, AloneIsOnly
<1> QED BY <1>3, <1>4, <1>5, <1>6, <1>7, <1>8, <1>9, <1>10 DEF NicNext


LEMMA AnswersStep == NicInv /\ [NicNext]_nicVars => AnswersInHand'
<1> SUFFICES ASSUME NicInv, [NicNext]_nicVars PROVE AnswersInHand'
  OBVIOUS
<1>1. tx \in [Threads -> Progress] /\ "rx" \in Threads /\ AnswersInHand /\ "rx" \notin Senders
  BY NicAssumption DEF NicInv, NicTypes, Threads
<1>2. ASSUME NEW t \in Senders, NEW f \in Frames, SendFrame(t, f) PROVE AnswersInHand'
  <2>1. tx'["rx"].st = tx["rx"].st
    BY <1>1, <1>2 DEF SendFrame, Transmit, Progress
  <2> QED BY <1>1, <1>2, <2>1 DEF SendFrame, AnswersInHand
<1>3. ASSUME NEW t \in Threads, TxPop(t) \/ TxTimeout(t) PROVE AnswersInHand'
  <2>1. inHand' = inHand /\ tx[t].st = "poll" /\ (t # "rx" => tx'["rx"] = tx["rx"])
    BY <1>1, <1>3 DEF TxPop, TxTimeout
  <2> QED BY <1>1, <2>1 DEF AnswersInHand
<1>4. CASE DevTransmit
  <2>1. inHand' = inHand /\ tx'["rx"].st = tx["rx"].st
    BY <1>1, <1>4 DEF DevTransmit, Progress
  <2> QED BY <1>1, <2>1 DEF AnswersInHand
<1>5. CASE Receive
  <2>1. /\ inHand = NoBuffer /\ rxUsed \in Seq([buf : RxBuffers, frame : Incoming]) /\ rxUsed # <<>>
        /\ NoBuffer \notin RxBuffers
    BY <1>5 DEF Receive, NicInv, NicTypes, NoBuffer, RxBuffers
  <2>2. Head(rxUsed) \in [buf : RxBuffers, frame : Incoming]
    BY <2>1, HeadTailProperties, Zenon
  <2>3. Head(rxUsed).buf # NoBuffer
    BY <2>1, <2>2
  <2> QED BY <1>1, <1>5, <2>3 DEF Receive, AnswersInHand
<1>6. CASE Repost
  BY <1>1, <1>6 DEF Repost, NoTx, AnswersInHand
<1>7. CASE DevReceive \/ UNCHANGED nicVars
  BY <1>1, <1>7 DEF DevReceive, nicVars, rxRing, AnswersInHand
<1> QED BY <1>2, <1>3, <1>4, <1>5, <1>6, <1>7 DEF NicNext

\* A step moves a buffer on, from where it is to where it goes, and loses none.
LEMMA BuffersStep ==
    ASSUME NicInv, NicTypes', [NicNext]_nicVars
    PROVE  BuffersApart' /\ ShortsCounted' /\ RxBuffersConserved'
<1> USE DEF NoBuffer
<1>1. /\ posted \in Seq(RxBuffers) /\ rxUsed \in Seq([buf : RxBuffers, frame : Incoming])
      /\ inHand \in RxBuffers \cup {NoBuffer} /\ leaked \subseteq RxBuffers /\ IsFiniteSet(leaked)
      /\ shorts \in Nat /\ Len(posted) \in Nat /\ Len(rxUsed) \in Nat /\ Cardinality(leaked) \in Nat
      /\ NumRx \in Nat /\ 0 \notin RxBuffers
  BY FS_CardinalityType, LenProperties, NicAssumption DEF NicInv, NicTypes, RxBuffers
<1>2. BuffersApart /\ AllBuffers
  BY WhereBuffersAre DEF NicInv
<1>0. /\ \A i \in 1 .. Len(posted) : posted[i] \in RxBuffers
      /\ \A i \in 1 .. Len(rxUsed) : rxUsed[i].buf \in RxBuffers
  <2> DEFINE R == [buf : RxBuffers, frame : Incoming]
  <2>1. \A r \in R : r.buf \in RxBuffers
    OBVIOUS
  <2>2. rxUsed \in Seq(R)
    BY <1>1
  <2> HIDE DEF R
  <2> QED BY <1>1, <2>1, <2>2
<1>a. IsFiniteSet(RxBuffers) /\ ShortBuffers \subseteq RxBuffers
  <2>1. IsFiniteSet(RxBuffers)
    BY <1>1, FS_Interval DEF RxBuffers
  <2>2. ShortBuffers \subseteq RxBuffers
    BY <1>0 DEF ShortBuffers
  <2> QED BY <2>1, <2>2
<1>b. /\ IsFiniteSet(ShortBuffers \cup leaked) /\ Cardinality(ShortBuffers \cup leaked) \in Nat
      /\ Cardinality(ShortBuffers \cup leaked) <= shorts
  <2>1. IsFiniteSet(ShortBuffers \cup leaked)
    BY <1>1, <1>a, FS_Subset
  <2> QED BY <2>1, FS_CardinalityType DEF NicInv, ShortsCounted
\* No more short frames than were counted, as long as none is forgotten.
<1>c. ASSUME NEW S, S \subseteq ShortBuffers \cup leaked
      PROVE  IsFiniteSet(S) /\ Cardinality(S) \in Nat /\ Cardinality(S) <= shorts
  <2>1. IsFiniteSet(S) /\ Cardinality(S) \in Nat /\ Cardinality(S) <= Cardinality(ShortBuffers \cup leaked)
    BY <1>b, <1>c, FS_Subset, FS_CardinalityType
  <2> QED BY <1>1, <1>b, <2>1
<1>d. ASSUME ShortsCounted', leaked' \subseteq RxBuffers, ShortBuffers' \subseteq RxBuffers
      PROVE  Cardinality(leaked') <= shorts'
  <2>1. IsFiniteSet(ShortBuffers' \cup leaked')
    BY <1>a, <1>d, FS_Subset
  <2>2. Cardinality(leaked') <= Cardinality(ShortBuffers' \cup leaked') /\ Cardinality(leaked') \in Nat
        /\ Cardinality(ShortBuffers' \cup leaked') \in Nat
    BY <2>1, FS_Subset, FS_CardinalityType
  <2>3. shorts' \in Nat
    BY DEF NicTypes
  <2> QED BY <1>d, <2>2, <2>3 DEF ShortsCounted
<1> SUFFICES BuffersApart' /\ ShortsCounted' /\ AllBuffers'
  BY WhereBuffersGo
<1>3. CASE UNCHANGED <<posted, rxUsed, inHand, leaked, shorts>>
  BY <1>2, <1>3, <1>b DEF BuffersApart, AllBuffers, Posted, Completed, ShortsCounted, ShortBuffers
<1>4. CASE DevReceive
  <2> DEFINE b == posted[1]
  <2>1. PICK f \in Incoming :
          /\ posted # <<>> /\ posted' = Tail(posted) /\ rxUsed' = Append(rxUsed, [buf |-> Head(posted), frame |-> f])
          /\ shorts' = (IF f = "short" THEN shorts + 1 ELSE shorts) /\ UNCHANGED <<leaked, inHand>>
    BY <1>4 DEF DevReceive
  <2>2. /\ Len(posted) >= 1 /\ Head(posted) = b /\ b \in RxBuffers
        /\ Len(posted') = Len(posted) - 1 /\ \A i \in 1 .. Len(posted') : posted'[i] = posted[i + 1]
    BY <1>1, <2>1
  <2>3. [buf |-> Head(posted), frame |-> f] \in [buf : RxBuffers, frame : Incoming]
    BY <2>2
  <2>4. /\ Len(rxUsed') = Len(rxUsed) + 1 /\ \A i \in 1 .. Len(rxUsed) : rxUsed'[i] = rxUsed[i]
        /\ rxUsed'[Len(rxUsed) + 1] = [buf |-> Head(posted), frame |-> f]
    <3> DEFINE e == [buf |-> Head(posted), frame |-> f]
               R == [buf : RxBuffers, frame : Incoming]
    <3>1. rxUsed \in Seq(R) /\ e \in R /\ rxUsed' = Append(rxUsed, e)
      BY <1>1, <2>1, <2>3
    <3> HIDE DEF e, R
    <3>2. /\ Len(rxUsed') = Len(rxUsed) + 1 /\ \A i \in 1 .. Len(rxUsed) : rxUsed'[i] = rxUsed[i]
          /\ rxUsed'[Len(rxUsed) + 1] = e
      BY <3>1
    <3> QED BY <3>2 DEF e
  <2>5. rxUsed'[Len(rxUsed) + 1].buf = b
    BY <2>2, <2>4
  <2>6. \A x : Posted(x)' <=> Posted(x) /\ x # b
    <3> SUFFICES ASSUME NEW x PROVE Posted(x)' <=> Posted(x) /\ x # b
      OBVIOUS
    <3>1. ASSUME NEW i \in 1 .. Len(posted'), posted'[i] = x PROVE Posted(x) /\ x # b
      <4>1. i + 1 \in 1 .. Len(posted) /\ 1 \in 1 .. Len(posted) /\ posted[i + 1] = x
        BY <1>1, <2>2, <3>1
      <4>2. posted[i + 1] # posted[1]
        BY <1>2, <4>1 DEF BuffersApart
      <4> QED BY <4>1, <4>2 DEF Posted
    <3>2. ASSUME NEW i \in 1 .. Len(posted), posted[i] = x, x # b PROVE Posted(x)'
      <4>1. i - 1 \in 1 .. Len(posted') /\ (i - 1) + 1 = i
        BY <1>1, <2>2, <3>2
      <4>2. posted'[i - 1] = x
        BY <2>2, <3>2, <4>1
      <4> QED BY <4>1, <4>2 DEF Posted
    <3> QED BY <3>1, <3>2 DEF Posted
  <2>y. /\ \A i \in 1 .. Len(posted') : i + 1 \in 1 .. Len(posted) /\ i + 1 # 1 /\ posted'[i] = posted[i + 1]
        /\ \A j \in 1 .. Len(rxUsed') : j \in 1 .. Len(rxUsed) \/ j = Len(rxUsed) + 1
        /\ \A j \in 1 .. Len(rxUsed) : j \in 1 .. Len(rxUsed')
        /\ 1 \in 1 .. Len(posted) /\ Len(rxUsed) + 1 \in 1 .. Len(rxUsed')
    BY <1>1, <2>2, <2>4
  <2>7. \A x : Completed(x)' <=> Completed(x) \/ x = b
    <3>1. ASSUME NEW x, Completed(x)' PROVE Completed(x) \/ x = b
      <4>1. PICK j \in 1 .. Len(rxUsed') : rxUsed'[j].buf = x
        BY <3>1 DEF Completed
      <4>2. CASE j \in 1 .. Len(rxUsed)
        BY <2>4, <4>1, <4>2 DEF Completed
      <4>3. CASE j = Len(rxUsed) + 1
        BY <2>5, <4>1, <4>3
      <4> QED BY <2>y, <4>2, <4>3
    <3>2. ASSUME NEW x, Completed(x) PROVE Completed(x)'
      <4>1. PICK j \in 1 .. Len(rxUsed) : rxUsed[j].buf = x
        BY <3>2 DEF Completed
      <4>2. j \in 1 .. Len(rxUsed') /\ rxUsed'[j].buf = x
        BY <2>4, <2>y, <4>1
      <4> QED BY <4>2 DEF Completed
    <3>3. ASSUME NEW x, x = b PROVE Completed(x)'
      <4>1. rxUsed'[Len(rxUsed) + 1].buf = x /\ Len(rxUsed) + 1 \in 1 .. Len(rxUsed')
        BY <2>5, <2>y, <3>3
      <4> QED BY <4>1 DEF Completed
    <3> QED BY <3>1, <3>2, <3>3
  <2>8. BuffersApart'
    <3>0. /\ \A j \in 1 .. Len(rxUsed) : rxUsed'[j] = rxUsed[j] /\ rxUsed[j].buf # b
          /\ \A i \in 1 .. Len(posted') : posted'[i] # b
          /\ b # inHand /\ b \notin leaked
      BY <1>2, <2>4, <2>y DEF BuffersApart
    <3> HIDE DEF b
    <3>1. \A i, j \in 1 .. Len(posted') : posted'[i] = posted'[j] => i = j
      <4> SUFFICES ASSUME NEW i \in 1 .. Len(posted'), NEW j \in 1 .. Len(posted'), posted'[i] = posted'[j]
                   PROVE  i = j
        OBVIOUS
      <4>1. i + 1 \in 1 .. Len(posted) /\ j + 1 \in 1 .. Len(posted) /\ posted[i + 1] = posted[j + 1]
        BY <2>y
      <4>2. i + 1 = j + 1
        BY <1>2, <4>1 DEF BuffersApart
      <4> QED BY <4>2
    <3>2. \A i, j \in 1 .. Len(rxUsed') : rxUsed'[i].buf = rxUsed'[j].buf => i = j
      BY <1>2, <2>5, <2>y, <3>0 DEF BuffersApart
    <3>3. \A i \in 1 .. Len(posted'), j \in 1 .. Len(rxUsed') : posted'[i] # rxUsed'[j].buf
      BY <1>2, <2>5, <2>y, <3>0 DEF BuffersApart
    <3>4. \A i \in 1 .. Len(posted') : posted'[i] # inHand' /\ posted'[i] \notin leaked'
      BY <1>2, <2>1, <2>y DEF BuffersApart
    <3>5. \A j \in 1 .. Len(rxUsed') : rxUsed'[j].buf # inHand' /\ rxUsed'[j].buf \notin leaked'
      BY <1>2, <2>1, <2>5, <2>y, <3>0 DEF BuffersApart
    <3>6. inHand' \notin leaked'
      BY <1>2, <2>1 DEF BuffersApart
    <3> QED BY <3>1, <3>2, <3>3, <3>4, <3>5, <3>6 DEF BuffersApart
  <2>9. AllBuffers'
    <3>1. Posted(b)
      BY <2>2 DEF Posted
    <3> QED BY <1>1, <1>2, <2>1, <2>2, <2>4, <2>6, <2>7, <3>1 DEF AllBuffers
  <2>10. ShortsCounted'
    <3> DEFINE S == ShortBuffers \cup leaked
    <3>1. CASE f # "short"
      <4>1. \A i \in 1 .. Len(rxUsed') : rxUsed'[i].frame = "short" => i \in 1 .. Len(rxUsed) /\ rxUsed'[i] = rxUsed[i]
        <5>1. rxUsed'[Len(rxUsed) + 1].frame = f
          BY <2>4
        <5>2. \A i \in 1 .. Len(rxUsed') : i \in 1 .. Len(rxUsed) \/ i = Len(rxUsed) + 1
          BY <1>1, <2>4
        <5> QED BY <2>4, <3>1, <5>1, <5>2
      <4>2. ShortBuffers' \subseteq ShortBuffers
        BY <4>1 DEF ShortBuffers
      <4>3. (ShortBuffers \cup leaked)' \subseteq ShortBuffers \cup leaked
        BY <2>1, <4>2
      <4> QED BY <1>c, <2>1, <3>1, <4>3 DEF ShortsCounted
    <3>2. CASE f = "short"
      <4>1. ShortBuffers' \subseteq ShortBuffers \cup {b}
        <5>1. \A i \in 1 .. Len(rxUsed') : i \in 1 .. Len(rxUsed) \/ i = Len(rxUsed) + 1
          BY <1>1, <2>4
        <5> QED BY <2>4, <2>5, <5>1 DEF ShortBuffers
      <4>2. (ShortBuffers \cup leaked)' \subseteq S \cup {b}
        BY <2>1, <4>1
      <4> HIDE DEF S
      <4>3. IsFiniteSet(S) /\ Cardinality(S) \in Nat /\ Cardinality(S) <= shorts
        BY <1>b DEF S
      <4>4. IsFiniteSet(S \cup {b}) /\ Cardinality(S \cup {b}) <= Cardinality(S) + 1 /\ Cardinality(S \cup {b}) \in Nat
        <5>1. IsFiniteSet(S \cup {b}) /\ Cardinality(S \cup {b}) \in {Cardinality(S), Cardinality(S) + 1}
          BY <4>3, FS_AddElement
        <5> QED BY <4>3, <5>1
      <4>5. Cardinality((ShortBuffers \cup leaked)') <= Cardinality(S \cup {b})
            /\ Cardinality((ShortBuffers \cup leaked)') \in Nat
        BY <4>2, <4>4, FS_Subset, FS_CardinalityType
      <4> QED BY <1>1, <2>1, <3>2, <4>3, <4>4, <4>5 DEF ShortsCounted
    <3> QED BY <3>1, <3>2
  <2> QED BY <2>8, <2>9, <2>10
<1>5. CASE Receive
  <2> DEFINE b == rxUsed[1].buf
  <2>1. inHand = NoBuffer /\ rxUsed # <<>> /\ rxUsed' = Tail(rxUsed) /\ shorts' = shorts
    BY <1>5 DEF Receive
  <2>2. /\ Len(rxUsed) >= 1 /\ Head(rxUsed) = rxUsed[1] /\ b \in RxBuffers
        /\ Len(rxUsed') = Len(rxUsed) - 1 /\ \A i \in 1 .. Len(rxUsed') : rxUsed'[i] = rxUsed[i + 1]
    <3> DEFINE R == [buf : RxBuffers, frame : Incoming]
    <3>1. \A r \in R : r.buf \in RxBuffers
      OBVIOUS
    <3>2. rxUsed \in Seq(R)
      BY <1>1
    <3> HIDE DEF R
    <3>3. /\ Len(rxUsed) >= 1 /\ Head(rxUsed) = rxUsed[1] /\ rxUsed[1] \in R
          /\ Len(rxUsed') = Len(rxUsed) - 1 /\ \A i \in 1 .. Len(rxUsed') : rxUsed'[i] = rxUsed[i + 1]
      BY <1>1, <2>1, <3>2
    <3> QED BY <3>1, <3>3
  <2>3. Completed(b) /\ \A x : Completed(x)' <=> Completed(x) /\ x # b
    <3>0. Completed(b)
      BY <2>2 DEF Completed
    <3> SUFFICES ASSUME NEW x PROVE Completed(x)' <=> Completed(x) /\ x # b
      BY <3>0
    <3>1. ASSUME NEW i \in 1 .. Len(rxUsed'), rxUsed'[i].buf = x PROVE Completed(x) /\ x # b
      <4>1. i + 1 \in 1 .. Len(rxUsed) /\ 1 \in 1 .. Len(rxUsed) /\ rxUsed[i + 1].buf = x
        BY <1>1, <2>2, <3>1
      <4>2. rxUsed[i + 1].buf # rxUsed[1].buf
        BY <1>2, <4>1 DEF BuffersApart
      <4> QED BY <4>1, <4>2 DEF Completed
    <3>2. ASSUME NEW i \in 1 .. Len(rxUsed), rxUsed[i].buf = x, x # b PROVE Completed(x)'
      <4>1. i - 1 \in 1 .. Len(rxUsed') /\ (i - 1) + 1 = i
        BY <1>1, <2>2, <3>2
      <4>2. rxUsed'[i - 1].buf = x
        BY <2>2, <3>2, <4>1
      <4> QED BY <4>1, <4>2 DEF Completed
    <3> QED BY <3>1, <3>2 DEF Completed
  <2>x. ShortBuffers' \subseteq ShortBuffers
    <3>1. \A i \in 1 .. Len(rxUsed') : i + 1 \in 1 .. Len(rxUsed) /\ rxUsed'[i] = rxUsed[i + 1]
      BY <1>1, <2>2
    <3> QED BY <3>1 DEF ShortBuffers
  <2>y. /\ 1 \in 1 .. Len(rxUsed)
        /\ \A j \in 1 .. Len(rxUsed') : j + 1 \in 1 .. Len(rxUsed) /\ j + 1 # 1 /\ rxUsed'[j].buf = rxUsed[j + 1].buf
    BY <1>1, <2>2
  <2>z. /\ \A i, j \in 1 .. Len(rxUsed') : rxUsed'[i].buf = rxUsed'[j].buf => i = j
        /\ \A j \in 1 .. Len(rxUsed') : rxUsed'[j].buf # b /\ rxUsed'[j].buf # inHand /\ rxUsed'[j].buf \notin leaked
        /\ \A i \in 1 .. Len(posted), j \in 1 .. Len(rxUsed') : posted[i] # rxUsed'[j].buf
        /\ \A i \in 1 .. Len(posted) : posted[i] # b
        /\ b # inHand /\ b \notin leaked
    <3>1. ASSUME NEW i \in 1 .. Len(rxUsed'), NEW j \in 1 .. Len(rxUsed'), rxUsed'[i].buf = rxUsed'[j].buf
          PROVE  i = j
      <4>1. i + 1 \in 1 .. Len(rxUsed) /\ j + 1 \in 1 .. Len(rxUsed) /\ rxUsed[i + 1].buf = rxUsed[j + 1].buf
        BY <2>y, <3>1
      <4>2. i + 1 = j + 1
        BY <1>2, <4>1 DEF BuffersApart
      <4> QED BY <4>2
    <3>2. \A j \in 1 .. Len(rxUsed') : rxUsed'[j].buf # b /\ rxUsed'[j].buf # inHand /\ rxUsed'[j].buf \notin leaked
      BY <1>2, <2>y DEF BuffersApart
    <3>3. \A i \in 1 .. Len(posted), j \in 1 .. Len(rxUsed') : posted[i] # rxUsed'[j].buf
      BY <1>2, <2>y DEF BuffersApart
    <3>4. (\A i \in 1 .. Len(posted) : posted[i] # b) /\ b # inHand /\ b \notin leaked
      BY <1>2, <2>y DEF BuffersApart
    <3> QED BY <3>1, <3>2, <3>3, <3>4
  <2>4. CASE leaked' = leaked \cup {b} /\ UNCHANGED <<posted, inHand>> /\ rxUsed[1].frame = "short"
    <3>1. b \notin leaked
      BY <2>z
    <3>2. Cardinality(leaked') = Cardinality(leaked) + 1
      BY <1>1, <2>4, <3>1, FS_AddElement
    <3>3. BuffersApart'
      <4> HIDE DEF b
      <4> QED BY <1>2, <2>z, <2>4 DEF BuffersApart
    <3>4. ShortsCounted'
      <4>1. b \in ShortBuffers
        BY <2>2, <2>4 DEF ShortBuffers
      <4>2. (ShortBuffers \cup leaked)' \subseteq ShortBuffers \cup leaked
        BY <2>x, <2>4, <4>1
      <4> QED BY <1>c, <2>1, <4>2 DEF ShortsCounted
    <3>5. Cardinality(leaked') <= shorts'
      BY <1>1, <1>a, <1>d, <2>2, <2>x, <2>4, <3>4
    <3>6. \A x : Posted(x)' <=> Posted(x)
      BY <2>4 DEF Posted
    <3>7. \A x : x \in RxBuffers <=> Posted(x)' \/ Completed(x)' \/ (inHand' # NoBuffer /\ x = inHand') \/ x \in leaked'
      BY <1>2, <2>2, <2>3, <2>4, <3>6 DEF AllBuffers
    <3>8. Len(posted') + Len(rxUsed') + (IF inHand' = NoBuffer THEN 0 ELSE 1) + Cardinality(leaked') = NumRx
      BY <1>1, <1>2, <2>1, <2>2, <2>4, <3>2 DEF AllBuffers
    <3> QED BY <3>3, <3>4, <3>5, <3>7, <3>8 DEF AllBuffers
  <2>5. CASE inHand' = b /\ UNCHANGED <<posted, leaked>>
    <3>1. BuffersApart'
      <4> HIDE DEF b
      <4> QED BY <1>2, <2>z, <2>5 DEF BuffersApart
    <3>2. \A x : Posted(x)' <=> Posted(x)
      BY <2>5 DEF Posted
    <3>3. inHand' # NoBuffer /\ inHand' = b
      BY <1>1, <2>2, <2>5
    <3>4. \A x : x \in RxBuffers <=> Posted(x)' \/ Completed(x)' \/ (inHand' # NoBuffer /\ x = inHand') \/ x \in leaked'
      BY <1>2, <2>1, <2>3, <2>5, <3>2, <3>3 DEF AllBuffers
    <3>5. /\ Len(posted') + Len(rxUsed') + (IF inHand' = NoBuffer THEN 0 ELSE 1) + Cardinality(leaked') = NumRx
          /\ Cardinality(leaked') <= shorts'
      BY <1>1, <1>2, <2>1, <2>2, <2>5, <3>3 DEF AllBuffers
    <3>6. ShortsCounted'
      <4>1. (ShortBuffers \cup leaked)' \subseteq ShortBuffers \cup leaked
        BY <2>x, <2>5
      <4> QED BY <1>c, <2>1, <4>1 DEF ShortsCounted
    <3> QED BY <3>1, <3>4, <3>5, <3>6 DEF AllBuffers
  <2>6. CASE posted' = Append(posted, b) /\ UNCHANGED <<inHand, leaked>>
    <3>1. /\ Len(posted') = Len(posted) + 1 /\ \A i \in 1 .. Len(posted) : posted'[i] = posted[i]
          /\ posted'[Len(posted) + 1] = b
      BY <1>1, <2>2, <2>6
    <3>2. \A x : Posted(x)' <=> Posted(x) \/ x = b
      BY <1>1, <3>1 DEF Posted
    <3>3. BuffersApart'
      <4>1. \A i \in 1 .. Len(posted') : i \in 1 .. Len(posted) \/ i = Len(posted) + 1
        BY <1>1, <3>1
      <4> HIDE DEF b
      <4>2. \A i, j \in 1 .. Len(posted') : posted'[i] = posted'[j] => i = j
        BY <1>2, <2>z, <3>1, <4>1 DEF BuffersApart
      <4>3. \A i \in 1 .. Len(posted'), j \in 1 .. Len(rxUsed') : posted'[i] # rxUsed'[j].buf
        BY <2>z, <3>1, <4>1
      <4>4. \A i \in 1 .. Len(posted') : posted'[i] # inHand' /\ posted'[i] \notin leaked'
        BY <1>2, <2>z, <2>6, <3>1, <4>1 DEF BuffersApart
      <4>5. inHand' \notin leaked' /\ inHand' = inHand /\ leaked' = leaked
        BY <1>2, <2>6 DEF BuffersApart
      <4> QED BY <2>z, <4>2, <4>3, <4>4, <4>5 DEF BuffersApart
    <3>4. ShortsCounted'
      <4>1. (ShortBuffers \cup leaked)' \subseteq ShortBuffers \cup leaked
        BY <2>x, <2>6
      <4> QED BY <1>c, <2>1, <4>1 DEF ShortsCounted
    <3> QED BY <1>1, <1>2, <2>1, <2>2, <2>3, <2>6, <3>1, <3>2, <3>3, <3>4 DEF AllBuffers
  <2> QED BY <1>5, <2>2, <2>4, <2>5, <2>6 DEF Receive
<1>6. CASE Repost
  <2>1. inHand # NoBuffer /\ posted' = Append(posted, inHand) /\ inHand' = NoBuffer
        /\ UNCHANGED <<rxUsed, leaked, shorts>>
    BY <1>6 DEF Repost
  <2>2. /\ Len(posted') = Len(posted) + 1 /\ \A i \in 1 .. Len(posted) : posted'[i] = posted[i]
        /\ posted'[Len(posted) + 1] = inHand
    BY <1>1, <2>1
  <2>3. \A x : (Posted(x)' <=> Posted(x) \/ x = inHand) /\ (Completed(x)' <=> Completed(x))
    BY <1>1, <2>1, <2>2 DEF Posted, Completed
  <2>4. BuffersApart'
    BY <1>0, <1>1, <1>2, <2>1, <2>2 DEF BuffersApart
  <2>5. ShortsCounted'
    BY <1>b, <2>1 DEF ShortsCounted, ShortBuffers
  <2> QED BY <1>1, <1>2, <2>1, <2>2, <2>3, <2>4, <2>5 DEF AllBuffers
<1>7. CASE UNCHANGED nicVars \/ (NicNext /\ ~(DevReceive \/ Receive \/ Repost))
  <2>1. UNCHANGED <<posted, rxUsed, inHand, leaked, shorts>>
    BY <1>7 DEF nicVars, rxRing, NicNext, SendFrame, TxPop, TxTimeout, DevTransmit
  <2> QED BY <1>3, <2>1
<1> QED BY <1>4, <1>5, <1>6, <1>7

THEOREM NicInvariant == NicSpec => []NicInv
<1>1. NicInv /\ [NicNext]_nicVars => NicInv'
  BY NicTypesStep, BuffersStep, AnswersStep DEF NicInv
<1> QED BY <1>1, NicStarts, PTL DEF NicSpec

\* No receive buffer is lost, posted twice or in two places, and no more are
\* given up than frames without a whole header came, whatever becomes of the
\* answers.
THEOREM NoBufferIsLost == NicSpec => []RxBuffersConserved
  BY NicInvariant, PTL DEF NicInv

\* A transmission that no other one overlapped and that found the queue empty
\* reports success only after its own frame has left the device unchanged.
THEOREM SuccessIsHonest == NicSpec => TransmitHonest
<1>1. ASSUME NicInv, [NicNext]_nicVars
      PROVE  [\A t \in Threads :
                tx[t].st = "poll" /\ tx'[t].st = "done" /\ tx'[t].ok /\ tx[t].alone => tx[t].gone]_tx
  <2> SUFFICES ASSUME NicNext, NEW t \in Threads, tx[t].st = "poll", tx'[t].st = "done", tx'[t].ok,
                      tx[t].alone
               PROVE  tx[t].gone
    BY <1>1 DEF nicVars
  <2>1. tx \in [Threads -> Progress] /\ AloneIsOnly
    BY <1>1 DEF NicInv, NicTypes
  <2>2. ASSUME NEW u \in Threads, NEW f, Transmit(u, f), u # t
        PROVE  tx'[t].st = tx[t].st
    BY <2>1, <2>2 DEF Transmit, Progress
  <2>3. ASSUME NEW u \in Senders, NEW f \in Frames, SendFrame(u, f) PROVE FALSE
    <3>1. u # t /\ Transmit(u, f) /\ u \in Threads
      BY <2>3 DEF SendFrame, Threads
    <3> QED BY <2>2, <3>1
  <2>4. ASSUME NEW u \in Threads, TxPop(u) PROVE tx[t].gone
    BY <2>1, <2>4 DEF TxPop, AloneIsOnly
  <2>5. ASSUME NEW u \in Threads, TxTimeout(u) PROVE FALSE
    BY <2>1, <2>5 DEF TxTimeout, Progress
  <2>6. ASSUME DevTransmit PROVE FALSE
    BY <2>1, <2>6 DEF DevTransmit, Progress
  <2>7. ASSUME Receive PROVE FALSE
    <3>1. tx' = tx \/ Transmit("rx", "answer")
      BY <2>7 DEF Receive
    <3>2. t # "rx"
      BY <1>1, <2>7 DEF NicInv, AnswersInHand, Receive
    <3>3. "rx" \in Threads
      BY DEF Threads
    <3> QED BY <2>2, <3>1, <3>2, <3>3
  <2>8. ASSUME Repost PROVE FALSE
    BY <2>1, <2>8 DEF Repost, NoTx, Progress, Threads
  <2>9. CASE DevReceive
    BY <2>9 DEF DevReceive
  <2> QED BY <2>3, <2>4, <2>5, <2>6, <2>7, <2>8, <2>9 DEF NicNext
<1> QED BY <1>1, NicInvariant, PTL DEF NicSpec, TransmitHonest

-----------------------------------------------------------------------------
(* Look-ups: the chain of aliases of a name. *)

ZoneRecords == {ZoneRecord(n) : n \in DOMAIN Zone}
Names == DOMAIN Zone \cup {Unknown}
AnyName == Names \cup {Zone[n].value : n \in DOMAIN Zone}

\* The names a name stands for: itself and the values of the aliases of its chain.
Reached(n) ==
    {n} \cup {ChainOf(n)[i].value : i \in {j \in 1 .. Len(ChainOf(n)) : ChainOf(n)[j].type = "CNAME"}}

\* A response has a record of a name.
Carries(m, name) == \E i \in 1 .. Len(m.records) : m.records[i].owner = name

\* A response tells what the zone has, and has a record for its question if it has any.
Honest(m) ==
    /\ m.code \in {"ok", "nxdomain"} /\ (m.code = "nxdomain" => m.name \notin DOMAIN Zone)
    /\ m.records \in Seq(ZoneRecords)
    /\ m.code = "ok" => Carries(m, m.name)

\* A look-up of n asks for a name that n stands for; if n has an address, the hops it
\* took are the place of that name in the chain.
OnTheWay(n, l) ==
    /\ l.name \in Reached(n)
    /\ Truth(n) # {} => l.hops + 1 \in 1 .. Len(ChainOf(n)) /\ ChainOf(n)[l.hops + 1].owner = l.name

Looking(t) == app[t].pc # "idle" /\ app[t].op \notin Seqs

\* What resolve may return for a name.
TrueResult(n, res) ==
    /\ res \in {"notfound", "loop"} => Truth(n) = {}
    /\ res \in Failures \cup Truth(n)

Queries == [id : Nat, name : AnyName]
Answers == UNION {Responses(q) : q \in Queries}
Lookups == [name : AnyName, id : Nat, hops : Nat, result : {NoResult}]
Results == Failures \cup {"ok", "toolarge", None} \cup {Zone[n].value : n \in DOMAIN Zone}
AppStates ==
    [pc : {"idle", "send", "wait"}, op : Names \cup Seqs \cup {None}, lookup : Lookups \cup {None},
     port : Nat, src : Leased \cup {Static, None}, sends : Nat,
     asked : Names \cup Seqs \cup {None}, result : Results]

NetTypes ==
    /\ app \in [Apps -> AppStates] /\ ip \in Leased \cup {Static}
    /\ DOMAIN sockets \subseteq Nat /\ sockets \in [DOMAIN sockets -> Seq(Answers)]
    /\ \A f \in sent : f.kind = "query" => f.q \in Queries
    /\ nextPort \in FirstPort .. LastPort

\* A look-up has a socket of its own and is on its way; nobody else has one.
LookupsApart ==
    /\ \A t \in Apps : Looking(t) =>
         /\ app[t].op \in Names /\ app[t].port \in DOMAIN sockets /\ app[t].port # NoPort
         /\ app[t].lookup \in Lookups /\ OnTheWay(app[t].op, app[t].lookup)
    /\ \A t \in Apps : ~Looking(t) => app[t].port = NoPort
    /\ \A t, u \in Apps : Looking(t) /\ Looking(u) /\ t # u => app[t].port # app[u].port

ResultsTrue ==
    \A t \in Apps :
        /\ app[t].pc # "idle" => app[t].asked = None
        /\ app[t].asked \in Names => TrueResult(app[t].asked, app[t].result)

NetInv == NetTypes /\ LookupsApart /\ ResultsTrue

LEMMA ZoneRecordFacts ==
    /\ \A r \in ZoneRecords :
         /\ r.owner \in DOMAIN Zone /\ r.type = Zone[r.owner].type /\ r.value = Zone[r.owner].value
         /\ r.type \in {"A", "CNAME"}
         /\ r.type = "A" => r.value \notin Failures \cup {None}
    /\ \A n \in DOMAIN Zone : ZoneRecord(n) \in ZoneRecords /\ ZoneRecord(n).owner = n
BY NetAssumption DEF ZoneRecords, ZoneRecord

LEMMA ZoneFinite == IsFiniteSet(DOMAIN Zone) /\ Cardinality(DOMAIN Zone) \in Nat
BY NetAssumption, FS_CardinalityType

\* f has the first n + 1 chains of a name.
FirstChain(name) == IF name \in DOMAIN Zone THEN <<ZoneRecord(name)>> ELSE <<>>
IsChains(f, name, n) ==
    f = [k \in 0 .. n |-> IF k > 0 THEN Longer(f[k - 1]) ELSE FirstChain(name)]

\* The recursive function of Chains exists.
LEMMA ChainsExist ==
    ASSUME NEW name, NEW N \in Nat
    PROVE  \E f : IsChains(f, name, N)
<1> DEFINE T == {n \in Nat : \E f : IsChains(f, name, n)}
<1>1. 0 \in T
  <2>1. IsChains([k \in 0 .. 0 |-> FirstChain(name)], name, 0)
    BY DEF IsChains
  <2> QED BY <2>1
<1>2. ASSUME NEW n \in Nat, n \in T PROVE n + 1 \in T
  <2>1. PICK f : IsChains(f, name, n)
    BY <1>2
  <2> DEFINE g == [k \in 0 .. n + 1 |-> IF k <= n THEN f[k] ELSE Longer(f[n])]
             Step(h, k) == IF k > 0 THEN Longer(h[k - 1]) ELSE FirstChain(name)
  <2>2. \A k \in 0 .. n : f[k] = Step(f, k)
    BY <2>1 DEF IsChains
  <2>3. \A k \in 0 .. n : g[k] = f[k]
    OBVIOUS
  <2>4. g[n + 1] = Longer(f[n])
    OBVIOUS
  <2>5. ASSUME NEW k \in 0 .. n + 1 PROVE g[k] = Step(g, k)
    <3> HIDE DEF g
    <3>1. CASE k \in 0 .. n
      <4>1. k > 0 => k - 1 \in 0 .. n
        OBVIOUS
      <4> QED BY <3>1, <2>2, <2>3, <4>1
    <3>2. CASE k = n + 1
      <4>1. n \in 0 .. n /\ k > 0 /\ k - 1 = n
        BY <3>2
      <4> QED BY <3>2, <2>4, <2>3, <4>1
    <3> QED BY <3>1, <3>2
  <2>6. IsChains(g, name, n + 1)
    BY <2>5 DEF IsChains
  <2> HIDE DEF g
  <2> QED BY <2>6
<1> HIDE DEF T
<1>3. Nat \subseteq T
  BY <1>1, <1>2, NatInductionSet
<1> QED BY <1>3 DEF T

LEMMA ChainsSteps ==
    ASSUME NEW name
    PROVE  /\ Chains(name)[0] = FirstChain(name)
           /\ \A k \in 1 .. Cardinality(DOMAIN Zone) : Chains(name)[k] = Longer(Chains(name)[k - 1])
<1> DEFINE C == Cardinality(DOMAIN Zone)
           f == CHOOSE h : IsChains(h, name, C)
<1>1. C \in Nat
  BY ZoneFinite
<1>2. Chains(name) = f
  BY DEF Chains, IsChains, FirstChain
<1> HIDE DEF C
<1>3. IsChains(f, name, C)
  BY <1>1, ChainsExist
<1> HIDE DEF f
<1>4. \A k \in 0 .. C : f[k] = IF k > 0 THEN Longer(f[k - 1]) ELSE FirstChain(name)
  BY <1>3 DEF IsChains
<1> QED BY <1>1, <1>2, <1>4 DEF C

\* A chain of records: every one but the last an alias for the next, and none twice.
Shape(s, name) ==
    /\ s \in Seq(ZoneRecords) /\ Len(s) >= 1 /\ s[1].owner = name
    /\ \A i \in 1 .. Len(s) - 1 : s[i].type = "CNAME" /\ s[i].value = s[i + 1].owner
    /\ \A i, j \in 1 .. Len(s) : s[i].owner = s[j].owner => i = j

LEMMA LongerShape ==
    ASSUME NEW name, NEW s, Shape(s, name)
    PROVE  Shape(Longer(s), name) /\ (HasMore(s) => Len(Longer(s)) = Len(s) + 1)
<1>1. CASE ~HasMore(s)
  BY <1>1 DEF Longer
<1>2. CASE HasMore(s)
  <2> DEFINE L == Len(s)
             r == ZoneRecord(s[L].value)
  <2>1. s \in Seq(ZoneRecords) /\ L \in Nat /\ L >= 1
    BY LenProperties DEF Shape
  <2>2. /\ s[L].type = "CNAME" /\ s[L].value \in DOMAIN Zone
        /\ \A i \in 1 .. L : s[i].owner # s[L].value
    BY <1>2 DEF HasMore
  <2>3. r \in ZoneRecords /\ r.owner = s[L].value
    BY <2>2, ZoneRecordFacts
  <2>4. Longer(s) = Append(s, r)
    BY <1>2 DEF Longer
  <2> HIDE DEF r
  <2>5. /\ Append(s, r) \in Seq(ZoneRecords) /\ Len(Append(s, r)) = L + 1 /\ Append(s, r)[L + 1] = r
        /\ \A i \in 1 .. L : Append(s, r)[i] = s[i]
    BY <2>1, <2>3, AppendProperties
  <2> DEFINE a == Append(s, r)
  <2> HIDE DEF a
  <2>6. a \in Seq(ZoneRecords) /\ Len(a) = L + 1 /\ a[L + 1] = r /\ \A i \in 1 .. L : a[i] = s[i]
    BY <2>5 DEF a
  <2>7. a[1].owner = name
    BY <2>1, <2>6 DEF Shape
  <2>8. ASSUME NEW i \in 1 .. Len(a) - 1 PROVE a[i].type = "CNAME" /\ a[i].value = a[i + 1].owner
    <3>1. CASE i = L
      BY <2>1, <2>2, <2>3, <2>6, <3>1
    <3>2. CASE i # L
      <4>1. i \in 1 .. L - 1 /\ i \in 1 .. L /\ i + 1 \in 1 .. L
        BY <2>1, <2>6, <3>2
      <4>2. s[i].type = "CNAME" /\ s[i].value = s[i + 1].owner
        BY <4>1 DEF Shape
      <4> QED BY <2>6, <4>1, <4>2
    <3> QED BY <3>1, <3>2
  <2>9. ASSUME NEW i \in 1 .. Len(a), NEW j \in 1 .. Len(a), a[i].owner = a[j].owner PROVE i = j
    <3>1. \A k \in 1 .. Len(a) : k \in 1 .. L \/ k = L + 1
      BY <2>1, <2>6
    <3>2. CASE i \in 1 .. L /\ j \in 1 .. L
      BY <2>6, <2>9, <3>2 DEF Shape
    <3>3. CASE i = L + 1 /\ j \in 1 .. L
      BY <2>2, <2>3, <2>6, <2>9, <3>3
    <3>4. CASE i \in 1 .. L /\ j = L + 1
      BY <2>2, <2>3, <2>6, <2>9, <3>4
    <3> QED BY <3>1, <3>2, <3>3, <3>4
  <2>10. Shape(a, name)
    BY <2>1, <2>6, <2>7, <2>8, <2>9 DEF Shape
  <2> QED BY <2>4, <2>6, <2>10 DEF a
<1> QED BY <1>1, <1>2

\* No name twice: the chain is no longer than the zone.
LEMMA ChainFits ==
    ASSUME NEW name, NEW s, Shape(s, name)
    PROVE  Len(s) <= Cardinality(DOMAIN Zone)
<1> DEFINE n == Len(s)
           f == [i \in 1 .. n |-> s[i].owner]
<1>1. n \in Nat /\ s \in Seq(ZoneRecords)
  BY LenProperties DEF Shape
<1>2. f \in [1 .. n -> DOMAIN Zone]
  <2>1. \A i \in 1 .. n : s[i] \in ZoneRecords
    BY <1>1, ElementOfSeq
  <2> QED BY <2>1, ZoneRecordFacts
<1>3. f \in Injection(1 .. n, DOMAIN Zone)
  <2>1. \A i, j \in 1 .. n : f[i] = f[j] => i = j
    BY DEF Shape
  <2> HIDE DEF f, n
  <2> QED BY <1>2, <2>1 DEF Injection, IsInjective
<1> HIDE DEF f, n
<1>4. IsFiniteSet(1 .. n) /\ Cardinality(1 .. n) = n
  <2>1. IsFiniteSet(1 .. n) /\ Cardinality(1 .. n) = IF 1 > n THEN 0 ELSE n - 1 + 1
    BY <1>1, FS_Interval
  <2>2. Cardinality(1 .. n) = n
    BY <1>1, <2>1
  <2> QED BY <2>1, <2>2
<1>5. n <= Cardinality(DOMAIN Zone)
  BY <1>3, <1>4, ZoneFinite, FS_Injection
<1> QED BY <1>5 DEF n

\* The chain of a name the server knows, and its end: an address, a name the server
\* does not know, or one that was in the chain before.
LEMMA ChainShape ==
    ASSUME NEW name \in DOMAIN Zone
    PROVE  Shape(ChainOf(name), name) /\ ~HasMore(ChainOf(name))
<1> DEFINE C == Cardinality(DOMAIN Zone)
           ch(k) == Chains(name)[k]
           T == {k \in Nat : k <= C => /\ Shape(ch(k), name)
                                       /\ HasMore(ch(k)) => Len(ch(k)) = k + 1}
<1>1. C \in Nat
  BY ZoneFinite
<1>2. ch(0) = FirstChain(name) /\ \A k \in 1 .. C : ch(k) = Longer(ch(k - 1))
  BY ChainsSteps
<1>3. 0 \in T
  <2> DEFINE r == ZoneRecord(name)
  <2>1. r \in ZoneRecords /\ r.owner = name
    BY ZoneRecordFacts
  <2>2. ch(0) = <<r>>
    BY <1>2 DEF FirstChain
  <2> HIDE DEF r, ch
  <2>3. <<r>> \in Seq(ZoneRecords) /\ Len(<<r>>) = 1 /\ <<r>>[1] = r
    BY <2>1
  <2> DEFINE s == <<r>>
  <2> HIDE DEF s
  <2>4. s \in Seq(ZoneRecords) /\ Len(s) = 1 /\ s[1] = r
    BY <2>3 DEF s
  <2>5. Shape(s, name)
    <3>1. 1 .. Len(s) - 1 = {} /\ \A i, j \in 1 .. Len(s) : i = j
      BY <2>4
    <3> QED BY <2>1, <2>4, <3>1 DEF Shape
  <2>6. Len(s) = 0 + 1
    BY <2>4
  <2> QED BY <2>2, <2>5, <2>6 DEF s
<1>4. ASSUME NEW k \in Nat, k \in T PROVE k + 1 \in T
  <2>1. SUFFICES ASSUME k + 1 <= C
                 PROVE  /\ Shape(ch(k + 1), name)
                        /\ HasMore(ch(k + 1)) => Len(ch(k + 1)) = (k + 1) + 1
    OBVIOUS
  <2>2. Shape(ch(k), name) /\ (HasMore(ch(k)) => Len(ch(k)) = k + 1)
    BY <1>1, <1>4, <2>1
  <2>3. ch(k + 1) = Longer(ch(k))
    <3>1. k + 1 \in 1 .. C /\ (k + 1) - 1 = k
      BY <1>1, <2>1
    <3> QED BY <1>2, <3>1
  <2> HIDE DEF ch
  <2>4. CASE HasMore(ch(k))
    <3>1. Shape(Longer(ch(k)), name) /\ Len(Longer(ch(k))) = Len(ch(k)) + 1
      BY <2>2, <2>4, LongerShape
    <3> QED BY <2>2, <2>3, <2>4, <3>1
  <2>5. CASE ~HasMore(ch(k))
    <3>1. Longer(ch(k)) = ch(k)
      BY <2>5 DEF Longer
    <3> QED BY <2>2, <2>3, <2>5, <3>1
  <2> QED BY <2>4, <2>5
<1>5. C \in T
  <2> HIDE DEF T
  <2>1. Nat \subseteq T
    BY <1>3, <1>4, NatInductionSet
  <2> QED BY <1>1, <2>1
<1>6. Shape(ch(C), name) /\ (HasMore(ch(C)) => Len(ch(C)) = C + 1)
  BY <1>1, <1>5
<1>7. ChainOf(name) = ch(C)
  BY DEF ChainOf
<1> HIDE DEF ch
<1>8. Len(ch(C)) <= C
  BY <1>6, ChainFits
<1>9. ~HasMore(ch(C))
  <2> HIDE DEF C
  <2> QED BY <1>1, <1>6, <1>8
<1> QED BY <1>6, <1>7, <1>9

LEMMA NoChain ==
    ASSUME NEW name, name \notin DOMAIN Zone
    PROVE  ChainOf(name) = <<>>
<1> DEFINE C == Cardinality(DOMAIN Zone)
           T == {k \in Nat : k <= C => Chains(name)[k] = <<>>}
<1>1. C \in Nat
  BY ZoneFinite
<1>2. Chains(name)[0] = <<>> /\ \A k \in 1 .. C : Chains(name)[k] = Longer(Chains(name)[k - 1])
  BY ChainsSteps DEF FirstChain
<1>3. Longer(<<>>) = <<>>
  BY DEF Longer, HasMore
<1>4. 0 \in T
  BY <1>2
<1>5. ASSUME NEW k \in Nat, k \in T PROVE k + 1 \in T
  <2>1. SUFFICES ASSUME k + 1 <= C PROVE Chains(name)[k + 1] = <<>>
    OBVIOUS
  <2>2. k + 1 \in 1 .. C /\ (k + 1) - 1 = k /\ Chains(name)[k] = <<>>
    BY <1>1, <1>5, <2>1
  <2> QED BY <1>2, <1>3, <2>2
<1> HIDE DEF T
<1>6. Nat \subseteq T
  BY <1>4, <1>5, NatInductionSet
<1>7. Chains(name)[C] = <<>>
  BY <1>1, <1>6 DEF T
<1> QED BY <1>7 DEF ChainOf

\* The members of a chain.
LEMMA ChainMembers ==
    ASSUME NEW name, NEW s, Shape(s, name)
    PROVE  /\ Len(s) \in Nat /\ Len(s) >= 1 /\ s # <<>>
           /\ \A i \in 1 .. Len(s) :
                /\ s[i].owner \in DOMAIN Zone /\ s[i].type = Zone[s[i].owner].type
                /\ s[i].value = Zone[s[i].owner].value /\ s[i].type \in {"A", "CNAME"}
<1>1. s \in Seq(ZoneRecords) /\ Len(s) \in Nat /\ Len(s) >= 1
  BY LenProperties DEF Shape
<1>2. \A i \in 1 .. Len(s) : s[i] \in ZoneRecords
  BY <1>1, ElementOfSeq
<1>3. s # <<>>
  BY <1>1, EmptySeq
<1> QED BY <1>1, <1>2, <1>3, ZoneRecordFacts

\* Where a name that is reached stands in the chain.
LEMMA ReachedOwner ==
    ASSUME NEW n, NEW x \in Reached(n), x \in DOMAIN Zone
    PROVE  n \in DOMAIN Zone /\ \E i \in 1 .. Len(ChainOf(n)) : ChainOf(n)[i].owner = x
<1> DEFINE s == ChainOf(n)
<1>1. n \in DOMAIN Zone
  <2>1. SUFFICES ASSUME n \notin DOMAIN Zone PROVE FALSE
    OBVIOUS
  <2>2. s = <<>> /\ Len(s) = 0
    BY <2>1, NoChain
  <2>3. Reached(n) = {n}
    BY <2>2 DEF Reached
  <2> QED BY <2>1, <2>3
<1>2. Shape(s, n) /\ ~HasMore(s)
  BY <1>1, ChainShape
<1>3. Len(s) \in Nat /\ Len(s) >= 1 /\ s # <<>>
  BY <1>2, ChainMembers
<1>4. x = n \/ \E i \in 1 .. Len(s) : s[i].type = "CNAME" /\ s[i].value = x
  BY DEF Reached
<1> HIDE DEF s
<1>5. CASE x = n
  <2>1. s[1].owner = n /\ 1 \in 1 .. Len(s)
    BY <1>2, <1>3 DEF Shape
  <2> QED BY <1>1, <1>5, <2>1 DEF s
<1>6. ASSUME NEW i \in 1 .. Len(s), s[i].type = "CNAME", s[i].value = x
      PROVE  \E j \in 1 .. Len(s) : s[j].owner = x
  <2>1. CASE i = Len(s)
    BY <1>2, <1>3, <1>6, <2>1 DEF HasMore
  <2>2. CASE i # Len(s)
    <3>1. i \in 1 .. Len(s) - 1 /\ i + 1 \in 1 .. Len(s)
      BY <1>3, <2>2
    <3>2. s[i].value = s[i + 1].owner
      BY <1>2, <3>1 DEF Shape
    <3> QED BY <1>6, <3>1, <3>2
  <2> QED BY <2>1, <2>2
<1> QED BY <1>1, <1>4, <1>5, <1>6 DEF s

\* An alias of a name that is reached leads to another, and its address is the name's.
LEMMA ReachedOn ==
    ASSUME NEW n, NEW x \in Reached(n), x \in DOMAIN Zone
    PROVE  /\ Zone[x].type = "CNAME" => Zone[x].value \in Reached(n)
           /\ Zone[x].type = "A" => Zone[x].value \in Truth(n)
<1> DEFINE s == ChainOf(n)
<1>1. n \in DOMAIN Zone /\ \E i \in 1 .. Len(s) : s[i].owner = x
  BY ReachedOwner
<1>2. PICK i \in 1 .. Len(s) : s[i].owner = x
  BY <1>1
<1>3. Shape(s, n)
  BY <1>1, ChainShape
<1>4. s[i].type = Zone[x].type /\ s[i].value = Zone[x].value
  BY <1>2, <1>3, ChainMembers
<1>5. CASE Zone[x].type = "CNAME"
  <2>1. s[i].value \in Reached(n)
    BY <1>4, <1>5 DEF Reached
  <2> QED BY <1>4, <1>5, <2>1
<1>6. CASE Zone[x].type = "A"
  <2>1. s[i].value \in Truth(n)
    BY <1>4, <1>6 DEF Truth
  <2> QED BY <1>4, <1>6, <2>1
<1> QED BY <1>5, <1>6

\* A name with an address: only the last record of its chain has one.
LEMMA TruthLast ==
    ASSUME NEW n, Truth(n) # {}
    PROVE  /\ n \in DOMAIN Zone /\ ChainOf(n)[Len(ChainOf(n))].type = "A"
<1> DEFINE s == ChainOf(n)
<1>1. \E i \in 1 .. Len(s) : s[i].type = "A"
  BY DEF Truth
<1>2. n \in DOMAIN Zone
  <2>1. SUFFICES ASSUME n \notin DOMAIN Zone PROVE FALSE
    OBVIOUS
  <2>2. s = <<>> /\ Len(s) = 0
    BY <2>1, NoChain
  <2>3. 1 .. Len(s) = {}
    BY <2>2
  <2> QED BY <1>1, <2>3
<1>3. Shape(s, n) /\ Len(s) \in Nat
  BY <1>2, ChainShape, ChainMembers
<1> HIDE DEF s
<1>4. PICK i \in 1 .. Len(s) : s[i].type = "A"
  BY <1>1
<1>5. i = Len(s)
  <2>1. SUFFICES ASSUME i # Len(s) PROVE FALSE
    OBVIOUS
  <2>2. i \in 1 .. Len(s) - 1
    BY <1>3, <2>1
  <2> QED BY <1>3, <1>4, <2>2 DEF Shape
<1> QED BY <1>2, <1>4, <1>5 DEF s

-----------------------------------------------------------------------------
(* Look-ups: the chain in a response. *)

GoOn(resp, c) == IF c.out = "go" THEN ChainStep(resp, c) ELSE c
IsRounds(f, resp, name, hops, n) ==
    f = [k \in 0 .. n |-> IF k = 0 THEN ChainStart(name, hops) ELSE GoOn(resp, f[k - 1])]

\* The recursive function of ChainRounds exists.
LEMMA RoundsExist ==
    ASSUME NEW resp, NEW name, NEW hops, NEW N \in Nat
    PROVE  \E f : IsRounds(f, resp, name, hops, N)
<1> DEFINE T == {n \in Nat : \E f : IsRounds(f, resp, name, hops, n)}
<1>1. 0 \in T
  <2>1. IsRounds([k \in 0 .. 0 |-> ChainStart(name, hops)], resp, name, hops, 0)
    BY DEF IsRounds
  <2> QED BY <2>1
<1>2. ASSUME NEW n \in Nat, n \in T PROVE n + 1 \in T
  <2>1. PICK f : IsRounds(f, resp, name, hops, n)
    BY <1>2
  <2> DEFINE g == [k \in 0 .. n + 1 |-> IF k <= n THEN f[k] ELSE GoOn(resp, f[n])]
             Step(h, k) == IF k = 0 THEN ChainStart(name, hops) ELSE GoOn(resp, h[k - 1])
  <2>2. \A k \in 0 .. n : f[k] = Step(f, k)
    BY <2>1 DEF IsRounds
  <2>3. \A k \in 0 .. n : g[k] = f[k]
    OBVIOUS
  <2>4. g[n + 1] = GoOn(resp, f[n])
    OBVIOUS
  <2>5. ASSUME NEW k \in 0 .. n + 1 PROVE g[k] = Step(g, k)
    <3> HIDE DEF g
    <3>1. CASE k \in 0 .. n
      <4>1. k # 0 => k - 1 \in 0 .. n
        OBVIOUS
      <4> QED BY <3>1, <2>2, <2>3, <4>1
    <3>2. CASE k = n + 1
      <4>1. n \in 0 .. n /\ k # 0 /\ k - 1 = n
        BY <3>2
      <4> QED BY <3>2, <2>4, <2>3, <4>1
    <3> QED BY <3>1, <3>2
  <2>6. IsRounds(g, resp, name, hops, n + 1)
    BY <2>5 DEF IsRounds
  <2> HIDE DEF g
  <2> QED BY <2>6
<1> HIDE DEF T
<1>3. Nat \subseteq T
  BY <1>1, <1>2, NatInductionSet
<1> QED BY <1>3 DEF T

LEMMA RoundsSteps ==
    ASSUME NEW resp, NEW name, NEW hops
    PROVE  /\ ChainRounds(resp, name, hops)[0] = ChainStart(name, hops)
           /\ \A k \in 1 .. MaxHops + 1 :
                ChainRounds(resp, name, hops)[k] = GoOn(resp, ChainRounds(resp, name, hops)[k - 1])
<1> DEFINE N == MaxHops + 1
           f == CHOOSE h : IsRounds(h, resp, name, hops, N)
<1>1. N \in Nat
  BY NetAssumption
<1>2. ChainRounds(resp, name, hops) = f
  BY DEF ChainRounds, IsRounds, GoOn
<1> HIDE DEF N
<1>3. IsRounds(f, resp, name, hops, N)
  BY <1>1, RoundsExist
<1> HIDE DEF f
<1>4. \A k \in 0 .. N : f[k] = IF k = 0 THEN ChainStart(name, hops) ELSE GoOn(resp, f[k - 1])
  BY <1>3 DEF IsRounds
<1> QED BY <1>1, <1>2, <1>4 DEF N

Follows ==
    [at : AnyName, hops : Nat, seen : SUBSET AnyName, out : {"go", "end", "loop", "address"},
     addr : {NoResult} \cup {Zone[n].value : n \in DOMAIN Zone}]

\* What a round finds, when the records are the zone's.
LEMMA StepCases ==
    ASSUME NEW resp, resp.records \in Seq(ZoneRecords), NEW c \in Follows
    PROVE  \/ Owned(resp, c.at) = {} /\ ChainStep(resp, c) = [c EXCEPT !.out = "end"]
           \/ /\ c.at \in DOMAIN Zone /\ Zone[c.at].type = "A"
              /\ ChainStep(resp, c) = [c EXCEPT !.out = "address", !.addr = Zone[c.at].value]
           \/ /\ c.at \in DOMAIN Zone /\ Zone[c.at].type = "CNAME"
              /\ Zone[c.at].value \in c.seen \/ c.hops + 1 > MaxHops
              /\ ChainStep(resp, c) = [c EXCEPT !.out = "loop"]
           \/ /\ c.at \in DOMAIN Zone /\ Zone[c.at].type = "CNAME"
              /\ Zone[c.at].value \notin c.seen /\ ~(c.hops + 1 > MaxHops)
              /\ ChainStep(resp, c) = [c EXCEPT !.at = Zone[c.at].value, !.hops = c.hops + 1,
                                                !.seen = c.seen \cup {Zone[c.at].value}]
<1> DEFINE own == Owned(resp, c.at)
           first == CHOOSE i \in own : \A j \in own : i <= j
           r == resp.records[first]
<1>1. CASE own = {}
  BY <1>1 DEF ChainStep
<1>2. CASE own # {}
  <2>1. own \subseteq 1 .. Len(resp.records) /\ Len(resp.records) \in Nat
    BY LenProperties DEF Owned
  <2>2. own \subseteq Nat
    BY <2>1
  <2>3. \E i \in own : \A j \in own : i <= j
    <3> HIDE DEF own
    <3> QED BY <1>2, <2>2, LeastNat
  <2>4. first \in own
    <3> HIDE DEF own
    <3> QED BY <2>3
  <2>5. first \in 1 .. Len(resp.records) /\ r.owner = c.at
    <3>1. resp.records[first].owner = c.at
      <4> HIDE DEF first
      <4> QED BY <2>4 DEF Owned
    <3> QED BY <2>1, <2>4, <3>1
  <2>6. r \in ZoneRecords
    <3> HIDE DEF first
    <3> QED BY <2>5, ElementOfSeq
  <2>7. ChainStep(resp, c) =
          IF own = {} THEN [c EXCEPT !.out = "end"]
          ELSE IF r.type = "A" THEN [c EXCEPT !.out = "address", !.addr = r.value]
          ELSE IF r.value \in c.seen \/ c.hops + 1 > MaxHops THEN [c EXCEPT !.out = "loop"]
          ELSE [c EXCEPT !.at = r.value, !.hops = c.hops + 1, !.seen = c.seen \cup {r.value}]
    BY DEF ChainStep
  <2> HIDE DEF r, own, first
  <2>8. c.at \in DOMAIN Zone /\ r.type = Zone[c.at].type /\ r.value = Zone[c.at].value /\ r.type \in {"A", "CNAME"}
    BY <2>5, <2>6, ZoneRecordFacts
  <2> DEFINE v == Zone[c.at].value
             ty == Zone[c.at].type
  <2>9. r.type = ty /\ r.value = v
    BY <2>8
  <2> HIDE DEF v, ty
  <2>10. ChainStep(resp, c) =
          IF ty = "A" THEN [c EXCEPT !.out = "address", !.addr = v]
          ELSE IF v \in c.seen \/ c.hops + 1 > MaxHops THEN [c EXCEPT !.out = "loop"]
          ELSE [c EXCEPT !.at = v, !.hops = c.hops + 1, !.seen = c.seen \cup {v}]
    BY <1>2, <2>7, <2>9
  <2>11. CASE ty = "A"
    BY <2>8, <2>10, <2>11 DEF v, ty
  <2>12. CASE ty = "CNAME" /\ (v \in c.seen \/ c.hops + 1 > MaxHops)
    BY <2>8, <2>10, <2>12 DEF v, ty
  <2>13. CASE ty = "CNAME" /\ ~(v \in c.seen \/ c.hops + 1 > MaxHops)
    BY <2>8, <2>10, <2>13 DEF v, ty
  <2> QED BY <2>8, <2>9, <2>11, <2>12, <2>13
<1> QED BY <1>1, <1>2

\* What a round leads to is reached, and an address it finds is the name's.
Sound(n, c) == c \in Follows /\ c.at \in Reached(n) /\ (c.out = "address" => c.addr \in Truth(n))

LEMMA SoundStep ==
    ASSUME NEW n, NEW resp, resp.records \in Seq(ZoneRecords), NEW c, Sound(n, c)
    PROVE  Sound(n, GoOn(resp, c))
<1>1. c \in Follows /\ c.at \in Reached(n) /\ (c.out = "address" => c.addr \in Truth(n))
  BY DEF Sound
<1>2. CASE c.out # "go"
  BY <1>2 DEF GoOn
<1>3. CASE c.out = "go"
  <2>1. GoOn(resp, c) = ChainStep(resp, c)
    BY <1>3 DEF GoOn
  <2>2. CASE ChainStep(resp, c) = [c EXCEPT !.out = "end"]
    BY <1>1, <2>1, <2>2 DEF Sound, Follows
  <2>3. CASE ChainStep(resp, c) = [c EXCEPT !.out = "loop"]
    BY <1>1, <2>1, <2>3 DEF Sound, Follows
  <2>4. CASE /\ c.at \in DOMAIN Zone /\ Zone[c.at].type = "A"
             /\ ChainStep(resp, c) = [c EXCEPT !.out = "address", !.addr = Zone[c.at].value]
    <3> DEFINE v == Zone[c.at].value
    <3>1. v \in Truth(n)
      BY <1>1, <2>4, ReachedOn
    <3>2. v \in {Zone[x].value : x \in DOMAIN Zone}
      BY <2>4
    <3>3. GoOn(resp, c) = [c EXCEPT !.out = "address", !.addr = v]
      BY <2>1, <2>4
    <3> HIDE DEF v
    <3> DEFINE g == GoOn(resp, c)
    <3>4. g = [at |-> c.at, hops |-> c.hops, seen |-> c.seen, out |-> "address", addr |-> v]
      BY <1>1, <3>3 DEF Follows
    <3> HIDE DEF g
    <3>5. g \in Follows
      BY <1>1, <3>2, <3>4 DEF Follows
    <3>6. Sound(n, g)
      BY <1>1, <3>1, <3>4, <3>5 DEF Sound
    <3> QED BY <3>6 DEF g
  <2>5. CASE /\ c.at \in DOMAIN Zone /\ Zone[c.at].type = "CNAME"
             /\ ChainStep(resp, c) = [c EXCEPT !.at = Zone[c.at].value, !.hops = c.hops + 1,
                                               !.seen = c.seen \cup {Zone[c.at].value}]
    <3> DEFINE v == Zone[c.at].value
    <3>1. v \in Reached(n)
      BY <1>1, <2>5, ReachedOn
    <3>2. v \in AnyName
      BY <2>5 DEF AnyName
    <3>3. GoOn(resp, c) = [c EXCEPT !.at = v, !.hops = c.hops + 1, !.seen = c.seen \cup {v}]
      BY <2>1, <2>5
    <3> HIDE DEF v
    <3> DEFINE g == GoOn(resp, c)
    <3>4. g = [at |-> v, hops |-> c.hops + 1, seen |-> c.seen \cup {v}, out |-> c.out, addr |-> c.addr]
      BY <1>1, <3>3 DEF Follows
    <3> HIDE DEF g
    <3>5. c.hops + 1 \in Nat /\ c.seen \cup {v} \in SUBSET AnyName
      BY <1>1, <3>2 DEF Follows
    <3>6. g \in Follows
      BY <1>1, <3>2, <3>4, <3>5 DEF Follows
    <3>7. Sound(n, g)
      BY <1>3, <3>1, <3>4, <3>6 DEF Sound
    <3> QED BY <3>7 DEF g
  <2> QED BY <1>1, <2>2, <2>3, <2>4, <2>5, StepCases
<1> QED BY <1>2, <1>3

\* Where a round stands in the chain of a name with an address: it never finds a loop, and
\* ends without the address only behind the name it began with.
Placed(n, name, hops, c) ==
    /\ c.hops \in Nat /\ hops <= c.hops
    /\ c.hops + 1 \in 1 .. Len(ChainOf(n)) /\ ChainOf(n)[c.hops + 1].owner = c.at
    /\ \A x \in c.seen : \E j \in 1 .. c.hops + 1 : ChainOf(n)[j].owner = x
    /\ c.out # "loop" /\ (c.out = "end" => c.at # name)

\* Such a chain is within what a look-up may follow.
ChainsFit == \A n \in DOMAIN Zone : Truth(n) # {} => Len(ChainOf(n)) <= MaxHops + 1

OneMore(c, d) == d.out = "go" => c.out = "go" /\ d.hops = c.hops + 1

LEMMA PlacedStep ==
    ASSUME ChainsFit, NEW n, Truth(n) # {}, NEW name, NEW hops, NEW resp,
           resp.records \in Seq(ZoneRecords),
           Carries(resp, name),
           NEW c, c \in Follows, Placed(n, name, hops, c), hops \in Nat
    PROVE  Placed(n, name, hops, GoOn(resp, c)) /\ OneMore(c, GoOn(resp, c))
<1> DEFINE s == ChainOf(n)
           L == Len(s)
           h == c.hops + 1
           g == GoOn(resp, c)
<1>1. n \in DOMAIN Zone /\ s[L].type = "A"
  BY TruthLast
<1>2. Shape(s, n) /\ L \in Nat /\ L <= MaxHops + 1 /\ MaxHops \in Nat
  BY <1>1, ChainShape, ChainMembers, NetAssumption DEF ChainsFit
<1>3. /\ c.hops \in Nat /\ hops <= c.hops /\ h \in 1 .. L /\ s[h].owner = c.at
      /\ \A x \in c.seen : \E j \in 1 .. h : s[j].owner = x
      /\ c.out # "loop" /\ (c.out = "end" => c.at # name)
  BY DEF Placed
<1>4. s[h].type = Zone[c.at].type /\ s[h].value = Zone[c.at].value
  BY <1>2, <1>3, ChainMembers
<1> HIDE DEF s, L, h
<1>5. Zone[c.at].type = "CNAME" =>
        h + 1 \in 1 .. L /\ s[h + 1].owner = Zone[c.at].value /\ ~(h > MaxHops)
  <2>1. SUFFICES ASSUME Zone[c.at].type = "CNAME"
                 PROVE  h + 1 \in 1 .. L /\ s[h + 1].owner = Zone[c.at].value /\ ~(h > MaxHops)
    OBVIOUS
  <2>2. h # L
    BY <1>1, <1>4, <2>1
  <2>3. h \in 1 .. L - 1
    BY <1>2, <1>3, <2>2
  <2>4. s[h].value = s[h + 1].owner
    BY <1>2, <2>3 DEF Shape, L
  <2>5. h + 1 \in 1 .. L /\ ~(h > MaxHops)
    BY <1>2, <2>3
  <2> QED BY <1>4, <2>4, <2>5
<1>6. CASE c.out # "go"
  <2>1. g = c
    BY <1>6 DEF GoOn
  <2> QED BY <1>6, <2>1 DEF OneMore
<1>7. CASE c.out = "go"
  <2>1. g = ChainStep(resp, c)
    BY <1>7 DEF GoOn
  <2>2. CASE Owned(resp, c.at) = {} /\ ChainStep(resp, c) = [c EXCEPT !.out = "end"]
    <3>1. c.at # name
      <4>1. PICK i \in 1 .. Len(resp.records) : resp.records[i].owner = name
        BY DEF Carries
      <4>2. resp.records[i] \in ZoneRecords
        BY <4>1, ElementOfSeq
      <4>3. i \in DOMAIN resp.records /\ resp.records[i].type \in {"A", "CNAME"}
        BY <4>2, LenProperties, ZoneRecordFacts
      <4>4. i \in Owned(resp, name)
        BY <4>1, <4>3 DEF Owned
      <4> QED BY <2>2, <4>4
    <3>2. g.hops = c.hops /\ g.at = c.at /\ g.seen = c.seen /\ g.out = "end"
      BY <2>1, <2>2 DEF Follows
    <3> HIDE DEF g
    <3>3. Placed(n, name, hops, g)
      BY <1>3, <3>1, <3>2 DEF Placed, s, L, h
    <3> QED BY <3>2, <3>3 DEF g, OneMore
  <2>3. CASE ChainStep(resp, c) = [c EXCEPT !.out = "address", !.addr = Zone[c.at].value]
    <3>1. g.hops = c.hops /\ g.at = c.at /\ g.seen = c.seen /\ g.out = "address"
      BY <2>1, <2>3 DEF Follows
    <3> HIDE DEF g
    <3>2. Placed(n, name, hops, g)
      BY <1>3, <3>1 DEF Placed, s, L, h
    <3> QED BY <3>1, <3>2 DEF g, OneMore
  <2>4. ~(/\ Zone[c.at].type = "CNAME"
          /\ Zone[c.at].value \in c.seen \/ c.hops + 1 > MaxHops)
    <3>1. SUFFICES ASSUME Zone[c.at].type = "CNAME", Zone[c.at].value \in c.seen PROVE FALSE
      BY <1>5 DEF h
    <3>2. PICK j \in 1 .. h : s[j].owner = Zone[c.at].value
      BY <1>3, <3>1
    <3>3. h + 1 \in 1 .. L /\ s[h + 1].owner = Zone[c.at].value
      BY <1>5, <3>1
    <3>4. j \in 1 .. L /\ j # h + 1
      BY <1>2, <1>3, <3>3
    <3> QED BY <1>2, <3>2, <3>3, <3>4 DEF Shape, L
  <2>5. CASE /\ Zone[c.at].type = "CNAME"
             /\ ChainStep(resp, c) = [c EXCEPT !.at = Zone[c.at].value, !.hops = c.hops + 1,
                                               !.seen = c.seen \cup {Zone[c.at].value}]
    <3> DEFINE v == Zone[c.at].value
    <3>1. g = [c EXCEPT !.at = v, !.hops = c.hops + 1, !.seen = c.seen \cup {v}]
      BY <2>1, <2>5
    <3>2. h + 1 \in 1 .. L /\ s[h + 1].owner = v
      BY <1>5, <2>5
    <3> HIDE DEF v, g
    <3>3. g.hops = c.hops + 1 /\ g.at = v /\ g.seen = c.seen \cup {v} /\ g.out = "go"
      BY <1>7, <3>1 DEF Follows
    <3>4. g.hops \in Nat /\ hops <= g.hops /\ g.hops + 1 = h + 1 /\ h \in Nat
      BY <1>3, <3>3 DEF h
    <3>5. ASSUME NEW x \in g.seen PROVE \E j \in 1 .. h + 1 : s[j].owner = x
      <4>1. CASE x \in c.seen
        <5>1. PICK j \in 1 .. h : s[j].owner = x
          BY <1>3, <4>1
        <5>2. j \in 1 .. h + 1
          BY <3>4
        <5> QED BY <5>1, <5>2
      <4>2. CASE x = v
        <5>1. h + 1 \in 1 .. h + 1
          BY <3>4
        <5> QED BY <3>2, <4>2, <5>1
      <4> QED BY <3>3, <4>1, <4>2
    <3>6. Placed(n, name, hops, g)
      BY <3>2, <3>3, <3>4, <3>5 DEF Placed, s, L
    <3> QED BY <1>7, <3>3, <3>6 DEF g, OneMore
  <2> QED BY <2>2, <2>3, <2>4, <2>5, StepCases
<1> QED BY <1>6, <1>7

LEMMA StartFollows ==
    ASSUME NEW name \in AnyName, NEW hops \in Nat
    PROVE  /\ ChainStart(name, hops) \in Follows /\ ChainStart(name, hops).at = name
           /\ ChainStart(name, hops).hops = hops /\ ChainStart(name, hops).seen = {name}
           /\ ChainStart(name, hops).out = "go"
BY DEF ChainStart, Follows

LEMMA FollowSound ==
    ASSUME NEW n, NEW name \in AnyName, name \in Reached(n), NEW hops \in Nat,
           NEW resp, resp.records \in Seq(ZoneRecords)
    PROVE  \A k \in 0 .. MaxHops + 1 : Sound(n, ChainRounds(resp, name, hops)[k])
<1> DEFINE r(k) == ChainRounds(resp, name, hops)[k]
           N == MaxHops + 1
           T == {k \in Nat : k <= N => Sound(n, r(k))}
<1>1. N \in Nat /\ r(0) = ChainStart(name, hops) /\ \A k \in 1 .. N : r(k) = GoOn(resp, r(k - 1))
  BY RoundsSteps, NetAssumption
<1> HIDE DEF r, N
<1>2. 0 \in T
  <2> DEFINE c == ChainStart(name, hops)
  <2>1. c \in Follows /\ c.at = name /\ c.out = "go"
    BY StartFollows
  <2> HIDE DEF c
  <2>2. Sound(n, c)
    BY <2>1 DEF Sound
  <2> QED BY <1>1, <2>2 DEF c
<1>3. ASSUME NEW k \in Nat, k \in T PROVE k + 1 \in T
  <2>1. SUFFICES ASSUME k + 1 <= N PROVE Sound(n, r(k + 1))
    OBVIOUS
  <2>2. k + 1 \in 1 .. N /\ (k + 1) - 1 = k /\ Sound(n, r(k))
    BY <1>1, <1>3, <2>1
  <2>3. Sound(n, GoOn(resp, r(k)))
    BY <2>2, SoundStep
  <2>4. r(k + 1) = GoOn(resp, r(k))
    BY <1>1, <2>2
  <2> QED BY <2>3, <2>4
<1> HIDE DEF T
<1>4. Nat \subseteq T
  BY <1>2, <1>3, NatInductionSet
<1>5. \A k \in 0 .. N : Sound(n, r(k))
  BY <1>1, <1>4 DEF T
<1> QED BY <1>5 DEF r, N

LEMMA FollowPlaced ==
    ASSUME ChainsFit, NEW n, Truth(n) # {}, NEW name \in AnyName, name \in Reached(n), NEW hops \in Nat,
           hops + 1 \in 1 .. Len(ChainOf(n)), ChainOf(n)[hops + 1].owner = name,
           NEW resp, resp.records \in Seq(ZoneRecords),
           Carries(resp, name)
    PROVE  /\ Placed(n, name, hops, FollowChain(resp, name, hops))
           /\ FollowChain(resp, name, hops).out # "go"
<1> DEFINE r(k) == ChainRounds(resp, name, hops)[k]
           N == MaxHops + 1
           T == {k \in Nat : k <= N => /\ Placed(n, name, hops, r(k))
                                       /\ r(k).out = "go" => r(k).hops = hops + k}
<1>1. N \in Nat /\ r(0) = ChainStart(name, hops) /\ \A k \in 1 .. N : r(k) = GoOn(resp, r(k - 1))
  BY RoundsSteps, NetAssumption
<1>2. \A k \in 0 .. N : r(k) \in Follows
  BY FollowSound DEF Sound
<1>3. n \in DOMAIN Zone /\ Len(ChainOf(n)) <= N
  BY TruthLast DEF ChainsFit
<1>4. FollowChain(resp, name, hops) = r(N)
  BY DEF FollowChain
<1> HIDE DEF r, N
<1>5. 0 \in T
  <2> DEFINE c == ChainStart(name, hops)
  <2>1. c.at = name /\ c.hops = hops /\ c.seen = {name} /\ c.out = "go"
    BY StartFollows
  <2> HIDE DEF c
  <2>2. \A x \in c.seen : \E j \in 1 .. hops + 1 : ChainOf(n)[j].owner = x
    BY <2>1
  <2>3. Placed(n, name, hops, c)
    BY <2>1, <2>2 DEF Placed
  <2> QED BY <1>1, <2>1, <2>3 DEF c
<1>6. ASSUME NEW k \in Nat, k \in T PROVE k + 1 \in T
  <2>1. SUFFICES ASSUME k + 1 <= N
                 PROVE  /\ Placed(n, name, hops, r(k + 1))
                        /\ r(k + 1).out = "go" => r(k + 1).hops = hops + (k + 1)
    OBVIOUS
  <2>2. /\ k + 1 \in 1 .. N /\ (k + 1) - 1 = k /\ k \in 0 .. N
        /\ Placed(n, name, hops, r(k)) /\ (r(k).out = "go" => r(k).hops = hops + k)
    BY <1>1, <1>6, <2>1
  <2>3. r(k) \in Follows
    BY <1>2, <2>2
  <2>4. /\ Placed(n, name, hops, GoOn(resp, r(k)))
        /\ GoOn(resp, r(k)).out = "go" => r(k).out = "go" /\ GoOn(resp, r(k)).hops = r(k).hops + 1
    <3> DEFINE c == r(k)
    <3>1. /\ c \in Follows /\ Placed(n, name, hops, c) /\ ChainsFit /\ Truth(n) # {} /\ hops \in Nat
          /\ resp.records \in Seq(ZoneRecords) /\ Carries(resp, name)
      BY <2>2, <2>3
    <3> HIDE DEF c
    <3>2. Placed(n, name, hops, GoOn(resp, c)) /\ OneMore(c, GoOn(resp, c))
      BY <3>1, PlacedStep
    <3> QED BY <3>2 DEF c, OneMore
  <2>5. r(k + 1) = GoOn(resp, r(k))
    BY <1>1, <2>2
  <2> QED BY <2>2, <2>4, <2>5
<1> HIDE DEF T
<1>7. Nat \subseteq T
  BY <1>5, <1>6, NatInductionSet
<1>8. Placed(n, name, hops, r(N)) /\ (r(N).out = "go" => r(N).hops = hops + N)
  BY <1>1, <1>7 DEF T
<1>9. r(N).out # "go"
  <2>1. Len(ChainOf(n)) \in Nat /\ r(N).hops + 1 <= Len(ChainOf(n)) /\ r(N).hops \in Nat
    BY <1>3, <1>8, ChainShape, ChainMembers DEF Placed
  <2> QED BY <1>1, <1>3, <1>8, <2>1
<1> QED BY <1>4, <1>8, <1>9

-----------------------------------------------------------------------------
(* Look-ups: what a response makes of them. *)

LEMMA TruthValues ==
    ASSUME NEW n, NEW v \in Truth(n)
    PROVE  v \notin Failures \cup {None} /\ v \in {Zone[x].value : x \in DOMAIN Zone}
<1> DEFINE s == ChainOf(n)
<1>1. n \in DOMAIN Zone
  BY TruthLast
<1>2. Shape(s, n)
  BY <1>1, ChainShape
<1>3. PICK i \in 1 .. Len(s) : s[i].type = "A" /\ s[i].value = v
  BY DEF Truth
<1> HIDE DEF s
<1>4. s[i].owner \in DOMAIN Zone /\ s[i].type = Zone[s[i].owner].type /\ s[i].value = Zone[s[i].owner].value
  BY <1>2, ChainMembers
<1> QED BY <1>3, <1>4, NetAssumption

\* What parse_response returns when the server had the name.
LEMMA ParseCases ==
    ASSUME NEW l, NEW m, m.code = "ok", NEW c, c = FollowChain(m, l.name, l.hops)
    PROVE  LET p == ParseResponse(l, m)
           IN  /\ c.out = "address" => p = [act |-> "address", addr |-> c.addr, hops |-> c.hops]
               /\ c.out = "loop" => p = [act |-> "loop", hops |-> c.hops]
               /\ c.out \in {"go", "end"} /\ c.at = l.name => p = [act |-> "notfound", hops |-> c.hops]
               /\ c.out \in {"go", "end"} /\ c.at # l.name =>
                    p = [act |-> "follow", name |-> c.at, hops |-> c.hops]
<1> DEFINE p == ParseResponse(l, m)
           inner == IF c.out = "address" THEN [act |-> "address", addr |-> c.addr, hops |-> c.hops]
                    ELSE IF c.out = "loop" THEN [act |-> "loop", hops |-> c.hops]
                    ELSE IF c.at = l.name THEN [act |-> "notfound", hops |-> c.hops]
                    ELSE [act |-> "follow", name |-> c.at, hops |-> c.hops]
<1>1. m.code # "failure" /\ m.code # "nxdomain"
  OBVIOUS
<1>2. p = inner
  BY <1>1, Zenon DEF ParseResponse
<1> HIDE DEF p
<1>3. CASE c.out = "address"
  BY <1>2, <1>3 DEF p
<1>4. CASE c.out = "loop"
  BY <1>2, <1>4 DEF p
<1>5. CASE c.out \in {"go", "end"} /\ c.at = l.name
  BY <1>2, <1>5 DEF p
<1>6. CASE c.out \in {"go", "end"} /\ c.at # l.name
  BY <1>2, <1>6 DEF p
<1> QED BY <1>3, <1>4, <1>5, <1>6 DEF p

LEMMA AnswerTaken ==
    ASSUME ChainsFit, NEW n \in Names, NEW l \in Lookups, OnTheWay(n, l), NEW m, Honest(m)
    PROVE  \/ OnResponse(l, m) \in Lookups /\ OnTheWay(n, OnResponse(l, m))
           \/ /\ OnResponse(l, m).result # NoResult /\ OnResponse(l, m).result \in Results
              /\ TrueResult(n, OnResponse(l, m).result)
<1> DEFINE c == FollowChain(m, l.name, l.hops)
<1>1. /\ l.name \in AnyName /\ l.id \in Nat /\ l.hops \in Nat /\ l.result = NoResult
      /\ l.name \in Reached(n)
      /\ Truth(n) # {} => l.hops + 1 \in 1 .. Len(ChainOf(n)) /\ ChainOf(n)[l.hops + 1].owner = l.name
  BY DEF Lookups, OnTheWay
<1>2. CASE ~Matches(l, m)
  BY <1>1, <1>2 DEF OnResponse
<1>3. CASE Matches(l, m)
  <2>1. m.name = l.name
    BY <1>3 DEF Matches
  <2> DEFINE p == ParseResponse(l, m)
  <2>2. OnResponse(l, m) =
          CASE p.act = "address" -> [l EXCEPT !.result = p.addr]
            [] p.act = "follow" ->
                 IF p.hops > MaxHops
                 THEN [l EXCEPT !.hops = p.hops, !.result = "loop"]
                 ELSE [l EXCEPT !.hops = p.hops, !.name = p.name, !.id = (l.id + 1) % IdMod]
            [] OTHER -> [l EXCEPT !.result = p.act]
    BY <1>1, <1>3 DEF OnResponse
  <2>3. /\ m.code \in {"ok", "nxdomain"} /\ (m.code = "nxdomain" => m.name \notin DOMAIN Zone)
        /\ m.records \in Seq(ZoneRecords)
        /\ m.code = "ok" => Carries(m, m.name)
    BY DEF Honest
  <2> DEFINE o == OnResponse(l, m)
  <2>4. ASSUME NEW res \in {"notfound", "loop"}, Truth(n) = {}, o.result = res
        PROVE  o.result # NoResult /\ o.result \in Results /\ TrueResult(n, o.result)
    BY <2>4 DEF NoResult, Results, TrueResult, Failures
  <2>5. CASE m.code = "nxdomain"
    <3>1. Truth(n) = {}
      <4>1. SUFFICES ASSUME Truth(n) # {} PROVE FALSE
        OBVIOUS
      <4>2. n \in DOMAIN Zone
        BY <4>1, TruthLast
      <4>3. ChainOf(n)[l.hops + 1].owner \in DOMAIN Zone
        BY <1>1, <4>1, <4>2, ChainShape, ChainMembers
      <4> QED BY <1>1, <2>1, <2>3, <2>5, <4>1, <4>3
    <3>2. p.act = "notfound"
      BY <2>5 DEF ParseResponse
    <3>3. o = [l EXCEPT !.result = "notfound"]
      <4> HIDE DEF p
      <4> QED BY <2>2, <3>2
    <3>4. o.result = "notfound"
      BY <3>3 DEF Lookups
    <3> QED BY <2>4, <3>1, <3>4
  <2>6. CASE m.code = "ok"
    <3>1. Sound(n, c)
      <4>1. \A k \in 0 .. MaxHops + 1 : Sound(n, ChainRounds(m, l.name, l.hops)[k])
        BY <1>1, <2>3, FollowSound
      <4>2. MaxHops + 1 \in 0 .. MaxHops + 1
        BY NetAssumption
      <4> QED BY <4>1, <4>2 DEF FollowChain
    <3>2. Truth(n) # {} => Placed(n, l.name, l.hops, c) /\ c.out # "go"
      BY <1>1, <2>1, <2>3, <2>6, FollowPlaced
    <3>3. /\ c.out = "address" => p = [act |-> "address", addr |-> c.addr, hops |-> c.hops]
          /\ c.out = "loop" => p = [act |-> "loop", hops |-> c.hops]
          /\ c.out \in {"go", "end"} /\ c.at = l.name => p = [act |-> "notfound", hops |-> c.hops]
          /\ c.out \in {"go", "end"} /\ c.at # l.name =>
               p = [act |-> "follow", name |-> c.at, hops |-> c.hops]
      BY <2>6, ParseCases
    <3> HIDE DEF c, p
    <3>4. c \in Follows /\ c.at \in Reached(n) /\ (c.out = "address" => c.addr \in Truth(n))
      BY <3>1 DEF Sound
    <3>5. c.out \in {"go", "end", "loop", "address"} /\ c.hops \in Nat /\ c.at \in AnyName
      BY <3>4 DEF Follows
    <3>6. CASE c.out = "address"
      <4>1. p.act = "address" /\ p.addr = c.addr
        BY <3>3, <3>6
      <4>2. o = [l EXCEPT !.result = c.addr]
        BY <2>2, <4>1
      <4>3. o.result = c.addr /\ c.addr \in Truth(n)
        BY <3>4, <3>6, <4>2 DEF Lookups
      <4>4. c.addr \notin Failures \cup {None} /\ c.addr \in {Zone[x].value : x \in DOMAIN Zone}
        BY <4>3, TruthValues
      <4>5. c.addr # NoResult /\ c.addr \notin {"notfound", "loop"} /\ c.addr \in Results
        BY <4>4 DEF Failures, None, NoResult, Results
      <4> QED BY <4>3, <4>5 DEF TrueResult
    <3>7. CASE c.out = "loop"
      <4>1. p.act = "loop"
        BY <3>3, <3>7
      <4>2. o = [l EXCEPT !.result = "loop"]
        BY <2>2, <4>1
      <4>3. o.result = "loop"
        BY <4>2 DEF Lookups
      <4>4. Truth(n) = {}
        BY <3>2, <3>7 DEF Placed
      <4> QED BY <2>4, <4>3, <4>4
    <3>8. CASE c.out \in {"go", "end"} /\ c.at = l.name
      <4>1. p.act = "notfound"
        BY <3>3, <3>8
      <4>2. o = [l EXCEPT !.result = "notfound"]
        BY <2>2, <4>1
      <4>3. o.result = "notfound"
        BY <4>2 DEF Lookups
      <4>4. Truth(n) = {}
        BY <3>2, <3>8 DEF Placed
      <4> QED BY <2>4, <4>3, <4>4
    <3>9. CASE c.out \in {"go", "end"} /\ c.at # l.name
      <4>1. p.act = "follow" /\ p.name = c.at /\ p.hops = c.hops
        BY <3>3, <3>9
      <4>2. o = IF c.hops > MaxHops THEN [l EXCEPT !.hops = c.hops, !.result = "loop"]
                ELSE [l EXCEPT !.hops = c.hops, !.name = c.at, !.id = (l.id + 1) % IdMod]
        BY <2>2, <4>1
      <4>3. CASE c.hops > MaxHops
        <5>1. o.result = "loop"
          BY <4>2, <4>3 DEF Lookups
        <5>2. Truth(n) = {}
          <6>1. SUFFICES ASSUME Truth(n) # {} PROVE FALSE
            OBVIOUS
          <6>2. n \in DOMAIN Zone
            BY <6>1, TruthLast
          <6>3. Len(ChainOf(n)) <= MaxHops + 1 /\ Len(ChainOf(n)) \in Nat
            BY <6>1, <6>2, ChainShape, ChainMembers DEF ChainsFit
          <6>4. c.hops + 1 \in 1 .. Len(ChainOf(n))
            BY <3>2, <6>1 DEF Placed
          <6> QED BY <3>5, <4>3, <6>3, <6>4, NetAssumption
        <5> QED BY <2>4, <5>1, <5>2
      <4>4. CASE ~(c.hops > MaxHops)
        <5>1. o = [l EXCEPT !.hops = c.hops, !.name = c.at, !.id = (l.id + 1) % IdMod]
          BY <4>2, <4>4
        <5>2. (l.id + 1) % IdMod \in Nat
          BY <1>1, NetAssumption
        <5> DEFINE i == (l.id + 1) % IdMod
        <5> HIDE DEF i, o
        <5>3. o \in Lookups /\ o.name = c.at /\ o.hops = c.hops
          BY <3>5, <5>1, <5>2 DEF Lookups, i
        <5>4. OnTheWay(n, o)
          BY <3>2, <3>4, <5>3 DEF OnTheWay, Placed
        <5> QED BY <5>3, <5>4 DEF o
      <4> QED BY <4>3, <4>4
    <3> QED BY <3>5, <3>6, <3>7, <3>8, <3>9
  <2> QED BY <2>3, <2>5, <2>6
<1> QED BY <1>2, <1>3

-----------------------------------------------------------------------------
(* Look-ups: what the server answers, and the port of a socket. *)

LEMMA ResponsesHonest ==
    ASSUME NEW q \in Queries, NEW m \in Responses(q)
    PROVE  Honest(m)
<1> DEFINE s == ChainOf(q.name)
<1>1. PICK k \in {Len(s)} \cup 1 .. Len(s) :
        m = [whole |-> TRUE, id |-> q.id, name |-> q.name, records |-> SubSeq(s, 1, k),
             code |-> IF s = <<>> THEN "nxdomain" ELSE "ok"]
  BY DEF Responses
<1>2. m.name = q.name /\ m.records = SubSeq(s, 1, k) /\ m.code = IF s = <<>> THEN "nxdomain" ELSE "ok"
  BY <1>1
<1>3. CASE q.name \notin DOMAIN Zone
  <2>1. s = <<>>
    BY <1>3, NoChain
  <2>2. Len(s) = 0
    BY <2>1
  <2>3. k = 0
    BY <2>2
  <2>4. SubSeq(s, 1, k) \in Seq(ZoneRecords)
    BY <2>1, <2>3, EmptySeq, SubSeqProperties
  <2>5. m.code = "nxdomain"
    BY <1>2, <2>1
  <2> QED BY <1>2, <1>3, <2>4, <2>5 DEF Honest
<1>4. CASE q.name \in DOMAIN Zone
  <2>1. Shape(s, q.name)
    BY <1>4, ChainShape
  <2>2. s \in Seq(ZoneRecords) /\ Len(s) \in Nat /\ Len(s) >= 1 /\ s # <<>> /\ s[1].owner = q.name
    BY <2>1, ChainMembers DEF Shape
  <2>3. k \in 1 .. Len(s) /\ 1 \in 1 .. Len(s)
    BY <2>2
  <2> HIDE DEF s
  <2>4. /\ SubSeq(s, 1, k) \in Seq(ZoneRecords) /\ Len(SubSeq(s, 1, k)) = k
        /\ SubSeq(s, 1, k)[1] = s[1]
    <3>1. /\ SubSeq(s, 1, k) \in Seq(ZoneRecords)
          /\ Len(SubSeq(s, 1, k)) = IF 1 <= k THEN k - 1 + 1 ELSE 0
          /\ \A i \in 1 .. (k - 1 + 1) : SubSeq(s, 1, k)[i] = s[1 + i - 1]
      BY <2>2, <2>3, SubSeqProperties
    <3>2. 1 <= k /\ k - 1 + 1 = k /\ 1 \in 1 .. k /\ 1 + 1 - 1 = 1
      BY <2>2, <2>3
    <3> QED BY <3>1, <3>2
  <2>5. m.code = "ok"
    BY <1>2, <2>2
  <2>6. Carries(m, m.name)
    <3>1. 1 \in 1 .. Len(m.records) /\ m.records[1].owner = m.name
      BY <1>2, <2>2, <2>3, <2>4
    <3> QED BY <3>1 DEF Carries
  <2> QED BY <1>2, <2>4, <2>5, <2>6 DEF Honest
<1> QED BY <1>3, <1>4

\* Every name that is reached is a name or the value of a record.
LEMMA ReachedNames ==
    ASSUME NEW n \in Names
    PROVE  Reached(n) \subseteq AnyName
<1> DEFINE s == ChainOf(n)
<1>1. n \in AnyName
  BY DEF AnyName
<1>2. ASSUME NEW i \in 1 .. Len(s) PROVE s[i].value \in AnyName
  <2>1. n \in DOMAIN Zone
    <3>1. SUFFICES ASSUME n \notin DOMAIN Zone PROVE FALSE
      OBVIOUS
    <3>2. s = <<>>
      BY <3>1, NoChain
    <3>3. Len(s) = 0
      BY <3>2
    <3>4. 1 .. Len(s) = {}
      BY <3>3
    <3> QED BY <3>4
  <2>2. Shape(s, n)
    BY <2>1, ChainShape
  <2> HIDE DEF s
  <2>3. s[i].owner \in DOMAIN Zone /\ s[i].value = Zone[s[i].owner].value
    BY <2>2, ChainMembers
  <2> QED BY <2>3 DEF AnyName
<1> QED BY <1>1, <1>2 DEF Reached

IsPorts(f, first, last, next, n) ==
    f = [k \in 0 .. n |-> IF k = 0 THEN next ELSE NextOf(first, last, f[k - 1])]

\* The recursive function of EphemeralPort exists.
LEMMA PortsExist ==
    ASSUME NEW first, NEW last, NEW next, NEW N \in Nat
    PROVE  \E f : IsPorts(f, first, last, next, N)
<1> DEFINE T == {n \in Nat : \E f : IsPorts(f, first, last, next, n)}
           On(p) == NextOf(first, last, p)
<1>1. 0 \in T
  <2>1. IsPorts([k \in 0 .. 0 |-> next], first, last, next, 0)
    BY DEF IsPorts
  <2> QED BY <2>1
<1>2. ASSUME NEW n \in Nat, n \in T PROVE n + 1 \in T
  <2>1. PICK f : IsPorts(f, first, last, next, n)
    BY <1>2
  <2> DEFINE g == [k \in 0 .. n + 1 |-> IF k <= n THEN f[k] ELSE NextOf(first, last, f[n])]
             Step(h, k) == IF k = 0 THEN next ELSE NextOf(first, last, h[k - 1])
  <2>2. \A k \in 0 .. n : f[k] = Step(f, k)
    BY <2>1 DEF IsPorts
  <2>3. \A k \in 0 .. n : g[k] = f[k]
    OBVIOUS
  <2>4. g[n + 1] = NextOf(first, last, f[n])
    OBVIOUS
  <2>5. ASSUME NEW k \in 0 .. n + 1 PROVE g[k] = Step(g, k)
    <3> HIDE DEF g
    <3>1. CASE k \in 0 .. n
      <4>1. k # 0 => k - 1 \in 0 .. n
        OBVIOUS
      <4> QED BY <3>1, <2>2, <2>3, <4>1
    <3>2. CASE k = n + 1
      <4>1. n \in 0 .. n /\ k # 0 /\ k - 1 = n
        BY <3>2
      <4> QED BY <3>2, <2>4, <2>3, <4>1
    <3> QED BY <3>1, <3>2
  <2>6. IsPorts(g, first, last, next, n + 1)
    BY <2>5 DEF IsPorts
  <2> HIDE DEF g
  <2> QED BY <2>6
<1> HIDE DEF T
<1>3. Nat \subseteq T
  BY <1>1, <1>2, NatInductionSet
<1> QED BY <1>3 DEF T

LEMMA NextOfRange ==
    ASSUME NEW first \in Nat, NEW last \in Nat, first <= last, NEW p \in first .. last
    PROVE  NextOf(first, last, p) \in first .. last
BY DEF NextOf

\* The port bind(0) finds is one of the range that nobody has.
LEMMA PortIsFree ==
    ASSUME NEW first \in Nat, NEW last \in Nat, first <= last, NEW next \in first .. last, NEW taken
    PROVE  \/ EphemeralPort(first, last, next, taken) = NoPort
           \/ /\ EphemeralPort(first, last, next, taken) \in first .. last
              /\ EphemeralPort(first, last, next, taken) \notin taken
<1> DEFINE n == last - first
           at == CHOOSE h : IsPorts(h, first, last, next, n)
           free == {k \in 0 .. n : at[k] \notin taken}
           least == CHOOSE k \in free : \A j \in free : k <= j
<1>1. n \in Nat
  OBVIOUS
<1>2. EphemeralPort(first, last, next, taken) = IF free = {} THEN NoPort ELSE at[least]
  BY DEF EphemeralPort, IsPorts
<1> HIDE DEF n
<1>3. IsPorts(at, first, last, next, n)
  BY <1>1, PortsExist
<1> HIDE DEF at
<1>4. \A k \in 0 .. n : at[k] = IF k = 0 THEN next ELSE NextOf(first, last, at[k - 1])
  BY <1>3 DEF IsPorts
<1> DEFINE T == {k \in Nat : k <= n => at[k] \in first .. last}
<1>5. 0 \in T
  <2>1. 0 \in 0 .. n
    BY <1>1
  <2> QED BY <1>4, <2>1
<1>6. ASSUME NEW k \in Nat, k \in T PROVE k + 1 \in T
  <2>1. SUFFICES ASSUME k + 1 <= n PROVE at[k + 1] \in first .. last
    OBVIOUS
  <2>2. k + 1 \in 0 .. n /\ k + 1 # 0 /\ (k + 1) - 1 = k /\ at[k] \in first .. last
    BY <1>1, <1>6, <2>1
  <2>3. NextOf(first, last, at[k]) \in first .. last
    BY <2>2, NextOfRange
  <2> QED BY <1>4, <2>2, <2>3
<1> HIDE DEF T
<1>7. Nat \subseteq T
  BY <1>5, <1>6, NatInductionSet
<1>8. \A k \in 0 .. n : at[k] \in first .. last
  BY <1>1, <1>7 DEF T
<1>9. CASE free # {}
  <2>1. free \subseteq Nat /\ free \subseteq 0 .. n
    BY <1>1
  <2>2. \E k \in free : \A j \in free : k <= j
    <3> HIDE DEF free
    <3> QED BY <1>9, <2>1, LeastNat
  <2>3. least \in free
    <3> HIDE DEF free
    <3> QED BY <2>2
  <2> HIDE DEF least
  <2>4. at[least] \in first .. last /\ at[least] \notin taken
    BY <1>8, <2>1, <2>3
  <2> QED BY <1>2, <1>9, <2>4
<1> QED BY <1>2, <1>9

-----------------------------------------------------------------------------
(* Look-ups: every step keeps the invariant. *)

\* What thread t may turn to, when the sockets that are left have these ports.
Fits(t, x, ports) ==
    /\ x \in AppStates
    /\ x.pc # "idle" /\ x.op \notin Seqs =>
         /\ x.op \in Names /\ x.port \in ports /\ x.port # NoPort
         /\ x.lookup \in Lookups /\ OnTheWay(x.op, x.lookup)
         /\ \A u \in Apps \ {t} : Looking(u) => app[u].port # x.port
    /\ ~(x.pc # "idle" /\ x.op \notin Seqs) => x.port = NoPort
    /\ x.pc # "idle" => x.asked = None
    /\ x.asked \in Names => TrueResult(x.asked, x.result)

LEMMA OneTurns ==
    ASSUME NetInv, NEW t \in Apps, NEW x, Fits(t, x, DOMAIN sockets'),
           app' = [app EXCEPT ![t] = x], DOMAIN sockets \ {app[t].port} \subseteq DOMAIN sockets'
    PROVE  app' \in [Apps -> AppStates] /\ LookupsApart' /\ ResultsTrue'
<1>1. app \in [Apps -> AppStates] /\ LookupsApart /\ ResultsTrue
  BY DEF NetInv, NetTypes
<1>2. app'[t] = x /\ \A u \in Apps : u # t => app'[u] = app[u]
  BY <1>1
<1>3. app' \in [Apps -> AppStates]
  BY <1>1 DEF Fits
<1>4. (Looking(t)' <=> x.pc # "idle" /\ x.op \notin Seqs) /\ \A u \in Apps : u # t => (Looking(u)' <=> Looking(u))
  BY <1>2 DEF Looking
<1>5. ASSUME NEW u \in Apps, u # t, Looking(u)
      PROVE  /\ app[u].op \in Names /\ app[u].port \in DOMAIN sockets' /\ app[u].port # NoPort
             /\ app[u].lookup \in Lookups /\ OnTheWay(app[u].op, app[u].lookup)
  <2>1. /\ app[u].op \in Names /\ app[u].port \in DOMAIN sockets /\ app[u].port # NoPort
        /\ app[u].lookup \in Lookups /\ OnTheWay(app[u].op, app[u].lookup)
    BY <1>1, <1>5 DEF LookupsApart
  <2>2. app[u].port # app[t].port
    BY <1>1, <1>5, <2>1 DEF LookupsApart
  <2> QED BY <2>1, <2>2
<1>6. LookupsApart'
  <2>1. ASSUME NEW u \in Apps, Looking(u)'
        PROVE  /\ app'[u].op \in Names /\ app'[u].port \in DOMAIN sockets' /\ app'[u].port # NoPort
               /\ app'[u].lookup \in Lookups /\ OnTheWay(app'[u].op, app'[u].lookup)
    <3>1. CASE u = t
      BY <1>2, <1>4, <2>1, <3>1 DEF Fits
    <3>2. CASE u # t
      BY <1>2, <1>4, <1>5, <2>1, <3>2
    <3> QED BY <3>1, <3>2
  <2>2. ASSUME NEW u \in Apps, ~Looking(u)' PROVE app'[u].port = NoPort
    <3>1. CASE u = t
      BY <1>2, <1>4, <2>2, <3>1 DEF Fits
    <3>2. CASE u # t
      BY <1>1, <1>2, <1>4, <2>2, <3>2 DEF LookupsApart
    <3> QED BY <3>1, <3>2
  <2>3. ASSUME NEW u \in Apps, NEW v \in Apps, Looking(u)', Looking(v)', u # v PROVE app'[u].port # app'[v].port
    <3>1. CASE u = t
      BY <1>2, <1>4, <2>3, <3>1 DEF Fits
    <3>2. CASE v = t
      BY <1>2, <1>4, <2>3, <3>2 DEF Fits
    <3>3. CASE u # t /\ v # t
      BY <1>1, <1>2, <1>4, <2>3, <3>3 DEF LookupsApart
    <3> QED BY <3>1, <3>2, <3>3
  <2> QED BY <2>1, <2>2, <2>3 DEF LookupsApart
<1>7. ResultsTrue'
  <2>1. ASSUME NEW u \in Apps
        PROVE  /\ app'[u].pc # "idle" => app'[u].asked = None
               /\ app'[u].asked \in Names => TrueResult(app'[u].asked, app'[u].result)
    <3>1. CASE u = t
      BY <1>2, <3>1 DEF Fits
    <3>2. CASE u # t
      BY <1>1, <1>2, <3>2 DEF ResultsTrue
    <3> QED BY <3>1, <3>2
  <2> QED BY <2>1 DEF ResultsTrue
<1> QED BY <1>3, <1>6, <1>7

\* A step that leaves the applications alone.
LEMMA NoneTurns ==
    ASSUME NetInv, app' = app, DOMAIN sockets' = DOMAIN sockets
    PROVE  app' \in [Apps -> AppStates] /\ LookupsApart' /\ ResultsTrue'
<1>1. app \in [Apps -> AppStates] /\ LookupsApart /\ ResultsTrue
  BY DEF NetInv, NetTypes
<1>2. \A u \in Apps : (Looking(u)' <=> Looking(u)) /\ app'[u] = app[u]
  BY DEF Looking
<1>3. LookupsApart'
  BY <1>1, <1>2 DEF LookupsApart
<1>4. ResultsTrue'
  BY <1>1, <1>2 DEF ResultsTrue
<1> QED BY <1>1, <1>3, <1>4

\* What the invariant says of one thread.
LEMMA OneApp ==
    ASSUME NetInv, NEW t \in Apps
    PROVE  /\ app[t] \in AppStates
           /\ Looking(t) =>
                /\ app[t].op \in Names /\ app[t].port \in DOMAIN sockets /\ app[t].port # NoPort
                /\ app[t].lookup \in Lookups /\ OnTheWay(app[t].op, app[t].lookup)
                /\ \A u \in Apps \ {t} : Looking(u) => app[u].port # app[t].port
           /\ ~Looking(t) => app[t].port = NoPort
           /\ app[t].pc # "idle" => app[t].asked = None
           /\ None \notin Names
BY NetAssumption DEF NetInv, NetTypes, LookupsApart, ResultsTrue, Names

\* What the applications are set to.
LEMMA NoAppWith ==
    ASSUME NEW a, NEW b
    PROVE  /\ [NoApp EXCEPT !.asked = a, !.result = b] =
                [pc |-> "idle", op |-> None, lookup |-> None, port |-> NoPort, src |-> None,
                 sends |-> 0, asked |-> a, result |-> b]
           /\ [NoApp EXCEPT !.pc = "send", !.op = a] =
                [pc |-> "send", op |-> a, lookup |-> None, port |-> NoPort, src |-> None,
                 sends |-> 0, asked |-> None, result |-> None]
<1>1. [NoApp EXCEPT !.asked = a, !.result = b] =
        [pc |-> "idle", op |-> None, lookup |-> None, port |-> NoPort, src |-> None,
         sends |-> 0, asked |-> a, result |-> b]
  <2> DEFINE y1 == [NoApp EXCEPT !.asked = a]
             y2 == [y1 EXCEPT !.result = b]
  <2>1. [NoApp EXCEPT !.asked = a, !.result = b] = y2
    OBVIOUS
  <2>2. y2 = [y1 EXCEPT !.result = b]
    OBVIOUS
  <2> HIDE DEF y1, y2
  <2>3. y1 = [pc |-> "idle", op |-> None, lookup |-> None, port |-> NoPort, src |-> None,
               sends |-> 0, asked |-> a, result |-> None]
    BY DEF NoApp, y1
  <2>4. y2 = [pc |-> "idle", op |-> None, lookup |-> None, port |-> NoPort, src |-> None,
               sends |-> 0, asked |-> a, result |-> b]
    BY <2>2, <2>3
  <2> QED BY <2>1, <2>4
<1>2. [NoApp EXCEPT !.pc = "send", !.op = a] =
        [pc |-> "send", op |-> a, lookup |-> None, port |-> NoPort, src |-> None,
         sends |-> 0, asked |-> None, result |-> None]
  <2> DEFINE y1 == [NoApp EXCEPT !.pc = "send"]
             y2 == [y1 EXCEPT !.op = a]
  <2>1. [NoApp EXCEPT !.pc = "send", !.op = a] = y2
    OBVIOUS
  <2>2. y2 = [y1 EXCEPT !.op = a]
    OBVIOUS
  <2> HIDE DEF y1, y2
  <2>3. y1 = [pc |-> "send", op |-> None, lookup |-> None, port |-> NoPort, src |-> None,
               sends |-> 0, asked |-> None, result |-> None]
    BY DEF NoApp, y1
  <2>4. y2 = [pc |-> "send", op |-> a, lookup |-> None, port |-> NoPort, src |-> None,
               sends |-> 0, asked |-> None, result |-> None]
    BY <2>2, <2>3
  <2> QED BY <2>1, <2>4
<1> QED BY <1>1, <1>2

Asking(a, b, c, d) == [NoApp EXCEPT !.pc = "send", !.op = a, !.port = b, !.lookup = c, !.src = d]
LEMMA NoAppAsks ==
    ASSUME NEW a, NEW b, NEW c, NEW d
    PROVE  Asking(a, b, c, d) =
                [pc |-> "send", op |-> a, lookup |-> c, port |-> b, src |-> d,
                 sends |-> 0, asked |-> None, result |-> None]
<1> DEFINE y1 == [NoApp EXCEPT !.pc = "send"]
           y2 == [y1 EXCEPT !.op = a]
           y3 == [y2 EXCEPT !.port = b]
           y4 == [y3 EXCEPT !.lookup = c]
           y5 == [y4 EXCEPT !.src = d]
<1>1. Asking(a, b, c, d) = y5
  BY DEF Asking
<1>2. y2 = [y1 EXCEPT !.op = a]
  OBVIOUS
<1>3. y3 = [y2 EXCEPT !.port = b]
  OBVIOUS
<1>4. y4 = [y3 EXCEPT !.lookup = c]
  OBVIOUS
<1>5. y5 = [y4 EXCEPT !.src = d]
  OBVIOUS
<1> HIDE DEF y1, y2, y3, y4, y5
<1>6. y1 = [pc |-> "send", op |-> None, lookup |-> None, port |-> NoPort, src |-> None,
             sends |-> 0, asked |-> None, result |-> None]
  BY DEF NoApp, y1
<1>7. y2 = [pc |-> "send", op |-> a, lookup |-> None, port |-> NoPort, src |-> None,
             sends |-> 0, asked |-> None, result |-> None]
  BY <1>2, <1>6
<1>8. y3 = [pc |-> "send", op |-> a, lookup |-> None, port |-> b, src |-> None,
             sends |-> 0, asked |-> None, result |-> None]
  BY <1>3, <1>7
<1>9. y4 = [pc |-> "send", op |-> a, lookup |-> c, port |-> b, src |-> None,
             sends |-> 0, asked |-> None, result |-> None]
  BY <1>4, <1>8
<1>10. y5 = [pc |-> "send", op |-> a, lookup |-> c, port |-> b, src |-> d,
             sends |-> 0, asked |-> None, result |-> None]
  BY <1>5, <1>9
<1> QED BY <1>1, <1>10

\* Return: what the caller gets is true of what it asked for.
LEMMA ReturnFits ==
    ASSUME NetInv, NEW t \in Apps, NEW res \in Results, Return(t, res), app[t].op \in Names \cup Seqs,
           app[t].op \in Names => TrueResult(app[t].op, res)
    PROVE  /\ app' \in [Apps -> AppStates] /\ LookupsApart' /\ ResultsTrue'
           /\ DOMAIN sockets' \subseteq Nat /\ sockets' \in [DOMAIN sockets' -> Seq(Answers)]
<1> DEFINE x == [NoApp EXCEPT !.asked = app[t].op, !.result = res]
<1>1. /\ DOMAIN sockets \subseteq Nat /\ sockets \in [DOMAIN sockets -> Seq(Answers)]
  BY DEF NetInv, NetTypes
<1>2. /\ app' = [app EXCEPT ![t] = x]
      /\ sockets' = [p \in DOMAIN sockets \ {app[t].port} |-> sockets[p]]
  BY DEF Return
<1>3. DOMAIN sockets' = DOMAIN sockets \ {app[t].port}
  BY <1>2
<1>4. x = [pc |-> "idle", op |-> None, lookup |-> None, port |-> NoPort, src |-> None,
           sends |-> 0, asked |-> app[t].op, result |-> res]
  BY NoAppWith
<1> HIDE DEF x
<1>5. x \in AppStates
  BY <1>4 DEF AppStates, NoPort
<1>6. Fits(t, x, DOMAIN sockets')
  BY <1>4, <1>5 DEF Fits
<1>7. app' \in [Apps -> AppStates] /\ LookupsApart' /\ ResultsTrue'
  BY <1>2, <1>3, <1>6, OneTurns
<1> QED BY <1>1, <1>2, <1>3, <1>7

\* A thread changes its look-up, keeping its name and its socket.
LEMMA MovesOn ==
    ASSUME NetInv, NEW t \in Apps, NEW x, app[t].pc # "idle", app' = [app EXCEPT ![t] = x],
           DOMAIN sockets' = DOMAIN sockets, x \in AppStates, x.pc # "idle", x.op = app[t].op,
           x.port = app[t].port, x.asked = app[t].asked,
           Looking(t) => x.lookup \in Lookups /\ OnTheWay(x.op, x.lookup)
    PROVE  app' \in [Apps -> AppStates] /\ LookupsApart' /\ ResultsTrue'
<1>1. /\ Looking(t) =>
          /\ app[t].op \in Names /\ app[t].port \in DOMAIN sockets /\ app[t].port # NoPort
          /\ \A u \in Apps \ {t} : Looking(u) => app[u].port # app[t].port
      /\ ~Looking(t) => app[t].port = NoPort
      /\ x.asked = None /\ None \notin Names
  BY OneApp
<1>2. Looking(t) <=> x.pc # "idle" /\ x.op \notin Seqs
  BY DEF Looking
<1>3. Fits(t, x, DOMAIN sockets')
  BY <1>1, <1>2 DEF Fits
<1> QED BY <1>3, OneTurns

LEMMA NetInit_Inv == NetInit => NetInv
<1> SUFFICES ASSUME NetInit PROVE NetInv
  OBVIOUS
<1>1. /\ ip = Static /\ sockets = <<>> /\ nextPort = FirstPort /\ sent = {}
      /\ app = [t \in Apps |-> NoApp]
  BY DEF NetInit
<1>2. sockets \in Seq(Answers) /\ Len(sockets) = 0
  BY <1>1, EmptySeq
<1>3. DOMAIN sockets = {} /\ sockets \in [DOMAIN sockets -> Seq(Answers)]
  <2>1. DOMAIN sockets = 1 .. 0 /\ sockets \in [1 .. 0 -> Answers]
    BY <1>2, LenProperties
  <2> HIDE <1>1
  <2> QED BY <2>1
<1>4. NoApp \in AppStates /\ NoApp.pc = "idle" /\ NoApp.port = NoPort /\ NoApp.asked = None
  BY DEF NoApp, AppStates, NoPort, Results
<1>5. app \in [Apps -> AppStates] /\ \A t \in Apps : app[t].pc = "idle" /\ app[t].port = NoPort /\ app[t].asked = None
  BY <1>1, <1>4
<1>6. NetTypes
  BY <1>1, <1>3, <1>5, NetAssumption DEF NetTypes
<1>7. LookupsApart
  BY <1>5 DEF LookupsApart, Looking
<1>8. ResultsTrue
  BY <1>5, NetAssumption DEF ResultsTrue, Names
<1> QED BY <1>6, <1>7, <1>8 DEF NetInv

LEMMA Resolve_Inv ==
    ASSUME NetInv, NEW t \in Apps, NEW name \in Names, NEW id \in 0 .. IdMod - 1, Resolve(t, name, id)
    PROVE  NetInv'
<1> DEFINE port == EphemeralPort(FirstPort, LastPort, nextPort, DOMAIN sockets)
<1>1. NetTypes /\ app[t].pc = "idle"
  BY DEF NetInv, Resolve
<1>2. /\ ip \in Leased \cup {Static} /\ nextPort \in FirstPort .. LastPort
      /\ DOMAIN sockets \subseteq Nat /\ sockets \in [DOMAIN sockets -> Seq(Answers)]
  BY <1>1 DEF NetTypes
<1>3. ip' = ip /\ sent' = sent
  BY DEF Resolve
<1>4. FirstPort \in Nat /\ LastPort \in Nat /\ FirstPort <= LastPort /\ FirstPort > 0 /\ IdMod \in Nat
  BY NetAssumption
<1>5. app[t].port = NoPort /\ None \notin Names /\ name \notin Seqs /\ ~Looking(t)
  <2>1. ~Looking(t)
    BY <1>1 DEF Looking
  <2> QED BY <2>1, OneApp, NetAssumption DEF Names
<1>6. CASE port = NoPort
  <2> DEFINE x == [NoApp EXCEPT !.asked = name, !.result = "inuse"]
  <2>1. app' = [app EXCEPT ![t] = x] /\ sockets' = sockets /\ nextPort' = nextPort
    BY <1>6 DEF Resolve
  <2>2. x = [pc |-> "idle", op |-> None, lookup |-> None, port |-> NoPort, src |-> None,
             sends |-> 0, asked |-> name, result |-> "inuse"]
    BY NoAppWith
  <2> HIDE DEF x
  <2>3. x \in AppStates
    BY <2>2 DEF AppStates, Results, Failures, NoPort
  <2>4. TrueResult(name, "inuse")
    BY DEF TrueResult, Failures
  <2>5. Fits(t, x, DOMAIN sockets')
    BY <2>2, <2>3, <2>4 DEF Fits
  <2>6. app' \in [Apps -> AppStates] /\ LookupsApart' /\ ResultsTrue'
    BY <2>1, <2>5, OneTurns
  <2>7. NetTypes'
    BY <1>1, <1>3, <2>1, <2>6 DEF NetTypes
  <2> QED BY <2>6, <2>7 DEF NetInv
<1>7. CASE port # NoPort
  <2> DEFINE l == StartLookup(name, id)
             x == [NoApp EXCEPT !.pc = "send", !.op = name, !.port = port, !.lookup = l, !.src = ip]
  <2>1. /\ sockets' = [p \in DOMAIN sockets \cup {port} |-> IF p = port THEN <<>> ELSE sockets[p]]
        /\ nextPort' = NextOf(FirstPort, LastPort, port)
        /\ app' = [app EXCEPT ![t] = x]
    BY <1>7 DEF Resolve
  <2>2. port \in FirstPort .. LastPort /\ port \notin DOMAIN sockets
    BY <1>2, <1>4, <1>7, PortIsFree
  <2> HIDE DEF port
  <2>3. /\ l \in Lookups /\ l.name = name /\ l.hops = 0
    BY <1>4 DEF StartLookup, Lookups, AnyName
  <2>4. OnTheWay(name, l)
    <3>1. l.name \in Reached(name)
      BY <2>3 DEF Reached
    <3>2. ASSUME Truth(name) # {} PROVE l.hops + 1 \in 1 .. Len(ChainOf(name)) /\ ChainOf(name)[l.hops + 1].owner = l.name
      <4>1. Shape(ChainOf(name), name)
        BY <3>2, TruthLast, ChainShape
      <4>2. Len(ChainOf(name)) \in Nat /\ Len(ChainOf(name)) >= 1 /\ ChainOf(name)[1].owner = name
        BY <4>1, ChainMembers DEF Shape
      <4>3. l.hops + 1 = 1
        BY <2>3
      <4> QED BY <2>3, <4>2, <4>3
    <3> QED BY <3>1, <3>2 DEF OnTheWay
  <2> HIDE DEF l
  <2>5. x = [pc |-> "send", op |-> name, lookup |-> l, port |-> port, src |-> ip,
             sends |-> 0, asked |-> None, result |-> None]
    <3>1. x = Asking(name, port, l, ip)
      BY DEF Asking
    <3> QED BY <3>1, NoAppAsks
  <2> HIDE DEF x
  <2>6. x \in AppStates
    BY <1>2, <1>4, <2>2, <2>3, <2>5 DEF AppStates, Results
  <2>7. DOMAIN sockets' = DOMAIN sockets \cup {port} /\ port # NoPort
    BY <1>7, <2>1
  <2>8. \A u \in Apps \ {t} : Looking(u) => app[u].port # port
    BY <2>2, OneApp
  <2>9. Fits(t, x, DOMAIN sockets')
    <3>1. name \in Names /\ port \in DOMAIN sockets' /\ None \notin Names
      BY <1>5, <2>7
    <3> QED BY <1>5, <2>3, <2>4, <2>5, <2>6, <2>7, <2>8, <3>1 DEF Fits
  <2>10. app' \in [Apps -> AppStates] /\ LookupsApart' /\ ResultsTrue'
    <3>1. DOMAIN sockets \ {app[t].port} \subseteq DOMAIN sockets'
      BY <2>7
    <3> QED BY <2>1, <2>9, <3>1, OneTurns
  <2>11. DOMAIN sockets' \subseteq Nat /\ sockets' \in [DOMAIN sockets' -> Seq(Answers)]
    <3>1. port \in Nat
      BY <1>4, <2>2
    <3>2. <<>> \in Seq(Answers)
      BY EmptySeq
    <3> DEFINE e == <<>>
    <3> HIDE DEF e
    <3>3. /\ sockets' = [p \in DOMAIN sockets \cup {port} |-> IF p = port THEN e ELSE sockets[p]]
          /\ e \in Seq(Answers)
      BY <2>1, <3>2 DEF e
    <3> QED BY <1>2, <3>1, <3>3
  <2>12. nextPort' \in FirstPort .. LastPort
    BY <1>4, <2>1, <2>2, NextOfRange
  <2>13. NetTypes'
    BY <1>1, <1>3, <2>10, <2>11, <2>12 DEF NetTypes
  <2> QED BY <2>10, <2>13 DEF NetInv
<1> QED BY <1>6, <1>7

\* Every step of a thread after that leaves the interface and the scan for ports alone.
LEMMA KeepsTypes ==
    ASSUME NetInv, ip' = ip, nextPort' = nextPort, app' \in [Apps -> AppStates],
           DOMAIN sockets' \subseteq Nat, sockets' \in [DOMAIN sockets' -> Seq(Answers)],
           \A f \in sent' : f \in sent \/ (f.kind = "query" => f.q \in Queries)
    PROVE  NetTypes'
<1>1. NetTypes
  BY DEF NetInv
<1>2. \A f \in sent' : f.kind = "query" => f.q \in Queries
  BY <1>1 DEF NetTypes
<1> QED BY <1>1, <1>2 DEF NetTypes

LEMMA Sockets ==
    ASSUME NetInv PROVE DOMAIN sockets \subseteq Nat /\ sockets \in [DOMAIN sockets -> Seq(Answers)]
BY DEF NetInv, NetTypes

LEMMA Ping_Inv ==
    ASSUME NetInv, NEW t \in Apps, NEW seq \in Seqs, Ping(t, seq)
    PROVE  NetInv'
<1> DEFINE x == [NoApp EXCEPT !.pc = "send", !.op = seq]
<1>1. /\ app[t].pc = "idle" /\ app' = [app EXCEPT ![t] = x]
      /\ ip' = ip /\ sockets' = sockets /\ nextPort' = nextPort /\ sent' = sent
  BY DEF Ping
<1>2. x = [pc |-> "send", op |-> seq, lookup |-> None, port |-> NoPort, src |-> None,
           sends |-> 0, asked |-> None, result |-> None]
  BY NoAppWith
<1> HIDE DEF x
<1>3. x \in AppStates
  BY <1>2 DEF AppStates, Results, NoPort
<1>4. None \notin Names
  BY OneApp
<1>5. Fits(t, x, DOMAIN sockets')
  BY <1>2, <1>3, <1>4 DEF Fits
<1>6. app' \in [Apps -> AppStates] /\ LookupsApart' /\ ResultsTrue'
  BY <1>1, <1>5, OneTurns
<1>7. NetTypes'
  BY <1>1, <1>6, Sockets, KeepsTypes
<1> QED BY <1>6, <1>7 DEF NetInv

LEMMA ArpResolve_Inv ==
    ASSUME NetInv, NEW t \in Apps, ArpResolve(t)
    PROVE  NetInv'
<1>1. app' = app /\ sockets' = sockets /\ ip' = ip /\ nextPort' = nextPort /\ sent' = sent \cup {WhoHas}
  BY DEF ArpResolve
<1>2. app' \in [Apps -> AppStates] /\ LookupsApart' /\ ResultsTrue'
  BY <1>1, NoneTurns
<1>3. WhoHas.kind # "query"
  BY DEF WhoHas
<1>4. NetTypes'
  BY <1>1, <1>2, <1>3, Sockets, KeepsTypes
<1> QED BY <1>2, <1>4 DEF NetInv

\* arp_resolve gave up, or a ping's frame could not be sent: the ping returns.
LEMMA PingReturns ==
    ASSUME NetInv, NEW t \in Apps, NEW res \in {"timeout", "toolarge", "ok"}, IsPing(t), Return(t, res),
           ip' = ip, nextPort' = nextPort, sent' = sent
    PROVE  NetInv'
<1>1. app[t].op \in Seqs /\ app[t].op \notin Names
  BY NetAssumption DEF IsPing, Names
<1>2. res \in Results
  BY DEF Results, Failures
<1>3. /\ app' \in [Apps -> AppStates] /\ LookupsApart' /\ ResultsTrue'
      /\ DOMAIN sockets' \subseteq Nat /\ sockets' \in [DOMAIN sockets' -> Seq(Answers)]
  BY <1>1, <1>2, ReturnFits
<1>4. NetTypes'
  BY <1>3, KeepsTypes
<1> QED BY <1>3, <1>4 DEF NetInv

\* A look-up goes to another place in its loop.
LEMMA LookupMoves ==
    ASSUME NetInv, NEW t \in Apps, NEW x, app[t].pc # "idle", app' = [app EXCEPT ![t] = x], sockets' = sockets,
           x.pc \in {"send", "wait"}, x.src \in Leased \cup {Static, None}, x.sends \in Nat,
           x = [app[t] EXCEPT !.pc = x.pc, !.src = x.src, !.sends = x.sends],
           ip' = ip, nextPort' = nextPort, \A f \in sent' : f \in sent \/ (f.kind = "query" => f.q \in Queries)
    PROVE  NetInv'
<1>1. app[t] \in AppStates /\ (Looking(t) => app[t].lookup \in Lookups /\ OnTheWay(app[t].op, app[t].lookup))
  BY OneApp
<1> DEFINE pc == x.pc
           src == x.src
           sends == x.sends
<1>2. /\ x = [app[t] EXCEPT !.pc = pc, !.src = src, !.sends = sends]
      /\ pc \in {"send", "wait"} /\ src \in Leased \cup {Static, None} /\ sends \in Nat
  OBVIOUS
<1> HIDE DEF pc, src, sends
<1>3. x \in AppStates /\ x.pc = pc /\ x.op = app[t].op /\ x.port = app[t].port /\ x.asked = app[t].asked
      /\ x.lookup = app[t].lookup
  BY <1>1, <1>2 DEF AppStates
<1>4. app' \in [Apps -> AppStates] /\ LookupsApart' /\ ResultsTrue'
  BY <1>1, <1>2, <1>3, MovesOn
<1>5. NetTypes'
  BY <1>4, Sockets, KeepsTypes
<1> QED BY <1>4, <1>5 DEF NetInv

LEMMA ArpTimeout_Inv ==
    ASSUME NetInv, NEW t \in Apps, ArpTimeout(t)
    PROVE  NetInv'
<1>1. app[t].pc = "send" /\ ip' = ip /\ nextPort' = nextPort /\ sent' = sent
  BY DEF ArpTimeout
<1>2. CASE IsPing(t)
  <2>1. Return(t, "timeout")
    BY <1>2 DEF ArpTimeout
  <2> QED BY <1>1, <1>2, <2>1, PingReturns
<1>3. CASE ~IsPing(t)
  <2> DEFINE x == [app[t] EXCEPT !.pc = "wait"]
  <2>1. app' = [app EXCEPT ![t] = x] /\ sockets' = sockets
    BY <1>3 DEF ArpTimeout
  <2>2. app[t] \in AppStates
    BY OneApp
  <2>3. /\ x.pc = "wait" /\ x.src = app[t].src /\ x.sends = app[t].sends
        /\ app[t].src \in Leased \cup {Static, None} /\ app[t].sends \in Nat
        /\ x = [app[t] EXCEPT !.pc = x.pc, !.src = x.src, !.sends = x.sends]
    BY <2>2 DEF AppStates
  <2> HIDE DEF x
  <2> QED BY <1>1, <2>1, <2>3, LookupMoves
<1> QED BY <1>2, <1>3

LEMMA SendTo_Inv ==
    ASSUME NetInv, NEW t \in Apps, SendTo(t)
    PROVE  NetInv'
<1> DEFINE fr == IF IsPing(t) THEN Echo(app[t].op) ELSE Ask(Query(app[t].lookup), app[t].src, app[t].port)
<1>1. app[t].pc = "send" /\ ip' = ip /\ nextPort' = nextPort
  BY DEF SendTo
<1>2. \/ sent' = sent \cup {fr} /\ app' = [app EXCEPT ![t].pc = "wait"] /\ sockets' = sockets
      \/ IsPing(t) /\ Return(t, "toolarge") /\ sent' = sent
  BY DEF SendTo
<1>3. CASE sent' = sent \cup {fr} /\ app' = [app EXCEPT ![t].pc = "wait"] /\ sockets' = sockets
  <2>1. fr.kind = "query" => fr.q \in Queries
    <3>1. CASE IsPing(t)
      BY <3>1 DEF Echo
    <3>2. CASE ~IsPing(t)
      <4>1. Looking(t)
        BY <1>1, <3>2 DEF Looking, IsPing
      <4>2. app[t].lookup \in Lookups
        BY <4>1, OneApp
      <4>3. Query(app[t].lookup) \in Queries
        BY <4>2 DEF Query, Lookups, Queries
      <4> QED BY <3>2, <4>3 DEF Ask
    <3> QED BY <3>1, <3>2
  <2> HIDE DEF fr
  <2> DEFINE x == [app[t] EXCEPT !.pc = "wait"]
  <2>2. app' = [app EXCEPT ![t] = x] /\ \A f \in sent' : f \in sent \/ (f.kind = "query" => f.q \in Queries)
    BY <1>3, <2>1
  <2>3. app[t] \in AppStates
    BY OneApp
  <2>4. /\ x.pc = "wait" /\ x.src = app[t].src /\ x.sends = app[t].sends
        /\ app[t].src \in Leased \cup {Static, None} /\ app[t].sends \in Nat
        /\ x = [app[t] EXCEPT !.pc = x.pc, !.src = x.src, !.sends = x.sends]
    BY <2>3 DEF AppStates
  <2> HIDE DEF x
  <2> QED BY <1>1, <1>3, <2>2, <2>4, LookupMoves
<1>4. CASE IsPing(t) /\ Return(t, "toolarge") /\ sent' = sent
  BY <1>1, <1>4, PingReturns
<1> QED BY <1>2, <1>3, <1>4

LEMMA Resend_Inv ==
    ASSUME NetInv, NEW t \in Apps, Resend(t)
    PROVE  NetInv'
<1> DEFINE x == [app[t] EXCEPT !.pc = "send", !.src = ip, !.sends = @ + 1]
<1>1. /\ app[t].pc = "wait" /\ ip' = ip /\ nextPort' = nextPort /\ sent' = sent /\ sockets' = sockets
  BY DEF Resend
<1>2. app \in [Apps -> AppStates] /\ ip \in Leased \cup {Static}
  BY DEF NetInv, NetTypes
<1>3. app' = [app EXCEPT ![t] = x]
  BY <1>2 DEF Resend
<1>4. app[t] \in AppStates
  BY <1>2
<1>5. /\ x.pc = "send" /\ x.src = ip /\ x.sends = app[t].sends + 1 /\ x.sends \in Nat
      /\ x = [app[t] EXCEPT !.pc = x.pc, !.src = x.src, !.sends = x.sends]
  BY <1>4 DEF AppStates
<1> HIDE DEF x
<1> QED BY <1>1, <1>2, <1>3, <1>5, LookupMoves

LEMMA RecvFrom_Inv ==
    ASSUME NetInv, ChainsFit, NEW t \in Apps, RecvFrom(t)
    PROVE  NetInv'
<1> DEFINE p == app[t].port
           m == Head(sockets[p])
           l == OnResponse(app[t].lookup, m)
<1>1. /\ app[t].pc = "wait" /\ ~IsPing(t) /\ sockets[p] # <<>>
      /\ ip' = ip /\ nextPort' = nextPort /\ sent' = sent
  BY DEF RecvFrom
<1>2. IF l.result # NoResult THEN Return(t, l.result)
      ELSE /\ app' = IF AsksAgain(app[t].lookup, m)
                     THEN [app EXCEPT ![t].lookup = l, ![t].pc = "send", ![t].src = ip]
                     ELSE app
           /\ sockets' = [sockets EXCEPT ![p] = Tail(@)]
  BY DEF RecvFrom
<1>3. Looking(t)
  BY <1>1 DEF Looking, IsPing
<1>4. /\ app[t] \in AppStates /\ app[t].op \in Names /\ p \in DOMAIN sockets
      /\ app[t].lookup \in Lookups /\ OnTheWay(app[t].op, app[t].lookup)
  BY <1>3, OneApp
<1>5. DOMAIN sockets \subseteq Nat /\ sockets \in [DOMAIN sockets -> Seq(Answers)] /\ ip \in Leased \cup {Static}
  BY Sockets DEF NetInv, NetTypes
<1>6. sockets[p] \in Seq(Answers)
  BY <1>4, <1>5
<1>7. m \in Answers /\ Tail(sockets[p]) \in Seq(Answers)
  BY <1>1, <1>6, HeadTailProperties
<1> HIDE DEF p, m
<1>8. Honest(m)
  <2>1. PICK q \in Queries : m \in Responses(q)
    BY <1>7 DEF Answers
  <2> QED BY <2>1, ResponsesHonest
<1>9. \/ l \in Lookups /\ OnTheWay(app[t].op, l)
      \/ l.result # NoResult /\ l.result \in Results /\ TrueResult(app[t].op, l.result)
  <2> DEFINE n == app[t].op
             k == app[t].lookup
  <2>1. n \in Names /\ k \in Lookups /\ OnTheWay(n, k)
    BY <1>4
  <2> HIDE DEF n, k
  <2>2. \/ OnResponse(k, m) \in Lookups /\ OnTheWay(n, OnResponse(k, m))
        \/ /\ OnResponse(k, m).result # NoResult /\ OnResponse(k, m).result \in Results
           /\ TrueResult(n, OnResponse(k, m).result)
    BY <1>8, <2>1, AnswerTaken
  <2> QED BY <2>2 DEF n, k
<1> HIDE DEF l
<1>10. CASE l.result # NoResult
  <2>1. Return(t, l.result)
    BY <1>2, <1>10
  <2>2. l.result \in Results /\ TrueResult(app[t].op, l.result)
    BY <1>9, <1>10 DEF Lookups
  <2>3. /\ app' \in [Apps -> AppStates] /\ LookupsApart' /\ ResultsTrue'
        /\ DOMAIN sockets' \subseteq Nat /\ sockets' \in [DOMAIN sockets' -> Seq(Answers)]
    BY <1>4, <2>1, <2>2, ReturnFits
  <2>4. NetTypes'
    BY <1>1, <2>3, KeepsTypes
  <2> QED BY <2>3, <2>4 DEF NetInv
<1>11. CASE l.result = NoResult
  <2>1. sockets' = [sockets EXCEPT ![p] = Tail(@)]
    BY <1>2, <1>11
  <2>2. DOMAIN sockets' = DOMAIN sockets /\ sockets' \in [DOMAIN sockets -> Seq(Answers)]
    BY <1>4, <1>5, <1>7, <2>1
  <2>3. l \in Lookups /\ OnTheWay(app[t].op, l)
    BY <1>9, <1>11
  <2>4. app' \in [Apps -> AppStates] /\ LookupsApart' /\ ResultsTrue'
    <3>1. CASE ~AsksAgain(app[t].lookup, m)
      <4>1. app' = app
        BY <1>2, <1>11, <3>1
      <4> QED BY <2>2, <4>1, NoneTurns
    <3>2. CASE AsksAgain(app[t].lookup, m)
      <4> DEFINE x == [app[t] EXCEPT !.lookup = l, !.pc = "send", !.src = ip]
      <4>1. app' = [app EXCEPT ![t].lookup = l, ![t].pc = "send", ![t].src = ip]
        BY <1>2, <1>11, <3>2
      <4>2. app \in [Apps -> AppStates]
        BY DEF NetInv, NetTypes
      <4>3. app' = [app EXCEPT ![t] = x]
        BY <4>1, <4>2
      <4>4. /\ x \in AppStates /\ x.pc = "send" /\ x.op = app[t].op /\ x.port = app[t].port
            /\ x.asked = app[t].asked /\ x.lookup = l
        BY <1>4, <1>5, <2>3 DEF AppStates
      <4> HIDE DEF x
      <4> QED BY <1>1, <2>2, <2>3, <4>3, <4>4, MovesOn
    <3> QED BY <3>1, <3>2
  <2>5. NetTypes'
    BY <1>1, <1>5, <2>2, <2>4, KeepsTypes
  <2> QED BY <2>4, <2>5 DEF NetInv
<1> QED BY <1>10, <1>11

LEMMA PingAnswered_Inv ==
    ASSUME NetInv, NEW t \in Apps, PingAnswered(t)
    PROVE  NetInv'
BY PingReturns DEF PingAnswered

LEMMA GiveUp_Inv ==
    ASSUME NetInv, NEW t \in Apps, GiveUp(t)
    PROVE  NetInv'
<1>1. app[t].pc = "wait" /\ ip' = ip /\ nextPort' = nextPort /\ sent' = sent
  BY DEF GiveUp
<1>2. CASE IsPing(t)
  <2>1. Return(t, "timeout")
    BY <1>2 DEF GiveUp
  <2> QED BY <1>1, <1>2, <2>1, PingReturns
<1>3. CASE ~IsPing(t)
  <2>1. Return(t, Expired(app[t].lookup).result)
    BY <1>3 DEF GiveUp
  <2>2. app[t].op \in Names /\ app[t].lookup \in Lookups
    <3>1. Looking(t)
      BY <1>1, <1>3 DEF Looking, IsPing
    <3> QED BY <3>1, OneApp
  <2>3. Expired(app[t].lookup).result = "timeout"
    BY <2>2 DEF Expired, Lookups
  <2>4. "timeout" \in Results /\ TrueResult(app[t].op, "timeout")
    BY DEF TrueResult, Failures, Results
  <2>5. /\ app' \in [Apps -> AppStates] /\ LookupsApart' /\ ResultsTrue'
        /\ DOMAIN sockets' \subseteq Nat /\ sockets' \in [DOMAIN sockets' -> Seq(Answers)]
    BY <2>1, <2>2, <2>3, <2>4, ReturnFits
  <2>6. NetTypes'
    BY <1>1, <2>5, KeepsTypes
  <2> QED BY <2>5, <2>6 DEF NetInv
<1> QED BY <1>2, <1>3

\* What net-rx does leaves the applications alone.
LEMMA Receive_Inv ==
    ASSUME NetInv,
           \/ RecvArp \/ ApplyLease \/ (\E seq \in Seqs : RecvEcho(seq))
           \/ \E f \in sent : f.kind = "query" /\ \E m \in Responses(f.q) : RecvUdp(f, m)
    PROVE  NetInv'
<1>1. NetTypes
  BY DEF NetInv
<1>2. app' = app /\ nextPort' = nextPort /\ sent' = sent
  BY DEF RecvArp, ApplyLease, RecvEcho, RecvUdp
<1>3. DOMAIN sockets' = DOMAIN sockets /\ sockets' \in [DOMAIN sockets -> Seq(Answers)]
  <2>1. CASE sockets' = sockets
    BY <1>1, <2>1 DEF NetTypes
  <2>2. ASSUME NEW f \in sent, f.kind = "query", NEW m \in Responses(f.q), RecvUdp(f, m)
        PROVE  DOMAIN sockets' = DOMAIN sockets /\ sockets' \in [DOMAIN sockets -> Seq(Answers)]
    <3>1. f.q \in Queries
      BY <1>1, <2>2 DEF NetTypes
    <3>2. m \in Answers
      BY <2>2, <3>1 DEF Answers
    <3>3. f.port \in DOMAIN sockets /\ sockets' = [sockets EXCEPT ![f.port] = Append(@, m)]
      BY <2>2 DEF RecvUdp
    <3>4. sockets \in [DOMAIN sockets -> Seq(Answers)]
      BY Sockets
    <3>5. Append(sockets[f.port], m) \in Seq(Answers)
      BY <3>2, <3>3, <3>4, AppendProperties
    <3> QED BY <3>3, <3>4, <3>5
  <2> QED BY <2>1, <2>2 DEF RecvArp, ApplyLease, RecvEcho
<1>4. ip' \in Leased \cup {Static}
  BY <1>1 DEF NetTypes, RecvArp, ApplyLease, RecvEcho, RecvUdp
<1>5. app' \in [Apps -> AppStates] /\ LookupsApart' /\ ResultsTrue'
  BY <1>2, <1>3, NoneTurns
<1>6. NetTypes'
  BY <1>1, <1>2, <1>3, <1>4, <1>5 DEF NetTypes
<1> QED BY <1>5, <1>6 DEF NetInv

LEMMA NetNext_Inv == ChainsFit /\ NetInv /\ [NetNext]_netVars => NetInv'
<1> SUFFICES ASSUME ChainsFit, NetInv, [NetNext]_netVars PROVE NetInv'
  OBVIOUS
<1>1. CASE \/ RecvArp \/ ApplyLease \/ (\E seq \in Seqs : RecvEcho(seq))
           \/ \E f \in sent : f.kind = "query" /\ \E m \in Responses(f.q) : RecvUdp(f, m)
  BY <1>1, Receive_Inv
<1>2. ASSUME NEW t \in Apps, NEW name \in Names, NEW id \in 0 .. IdMod - 1, Resolve(t, name, id) PROVE NetInv'
  BY <1>2, Resolve_Inv
<1>3. ASSUME NEW t \in Apps, NEW seq \in Seqs, Ping(t, seq) PROVE NetInv'
  BY <1>3, Ping_Inv
<1>4. ASSUME NEW t \in Apps, ArpResolve(t) PROVE NetInv'
  BY <1>4, ArpResolve_Inv
<1>5. ASSUME NEW t \in Apps, ArpTimeout(t) PROVE NetInv'
  BY <1>5, ArpTimeout_Inv
<1>6. ASSUME NEW t \in Apps, SendTo(t) PROVE NetInv'
  BY <1>6, SendTo_Inv
<1>7. ASSUME NEW t \in Apps, Resend(t) PROVE NetInv'
  BY <1>7, Resend_Inv
<1>8. ASSUME NEW t \in Apps, RecvFrom(t) PROVE NetInv'
  BY <1>8, RecvFrom_Inv
<1>9. ASSUME NEW t \in Apps, PingAnswered(t) PROVE NetInv'
  BY <1>9, PingAnswered_Inv
<1>10. ASSUME NEW t \in Apps, GiveUp(t) PROVE NetInv'
  BY <1>10, GiveUp_Inv
<1>11. CASE UNCHANGED netVars
  <2>1. app' = app /\ sockets' = sockets /\ sent' = sent /\ ip' = ip /\ nextPort' = nextPort
    BY <1>11 DEF netVars
  <2>2. app' \in [Apps -> AppStates] /\ LookupsApart' /\ ResultsTrue'
    BY <2>1, NoneTurns
  <2>3. NetTypes'
    BY <2>1, <2>2, Sockets, KeepsTypes
  <2> QED BY <2>2, <2>3 DEF NetInv
<1> QED BY <1>1, <1>2, <1>3, <1>4, <1>5, <1>6, <1>7, <1>8, <1>9, <1>10, <1>11 DEF NetNext, Names

\* What resolve returns is true of the name that was asked for (resolve_via): neither a late
\* answer to another look-up at a reused port, nor a partial or repeated one, is taken for it.
\* A name whose chain of aliases is longer than a look-up follows is out of its reach.
THEOREM AnswersAreTrue == ChainsFit => (NetSpec => []AnswerIsTrue)
<1> SUFFICES ASSUME ChainsFit PROVE NetSpec => []AnswerIsTrue
  OBVIOUS
<1>1. NetInit => NetInv
  BY NetInit_Inv
<1>2. NetInv /\ [NetNext]_netVars => NetInv'
  BY NetNext_Inv
<1>3. NetInv => AnswerIsTrue
  BY DEF NetInv, ResultsTrue, TrueResult, AnswerIsTrue, Names
<1> QED BY <1>1, <1>2, <1>3, PTL DEF NetSpec
=============================================================================
