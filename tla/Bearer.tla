------------------------------- MODULE Bearer -------------------------------
(***************************************************************************)
(* What an acknowledged RLC bearer promises the PDCP at its two ends       *)
(* (the calls of isrue::rlc_interface_pdcp and pdcp_interface_rlc): SDUs   *)
(* are handed over at most once, in any order; discard_sdu() takes back    *)
(* only what will never be handed over; notify_delivery() speaks the       *)
(* truth.  RlcAmNr implements it, RlcUmNr too (it never acknowledges);     *)
(* PdcpNrBearer is built on it.                                            *)
(***************************************************************************)
EXTENDS Naturals

CONSTANT Sdus

VARIABLES written,      \* SDUs the bearer has taken
          discarded,    \* SDUs it has given up on request
          handed,       \* how often the PDCP of the peer has been given an SDU
          acked         \* SDUs notify_delivery() has been called for

bearerVars == <<written, discarded, handed, acked>>

GivenToPeer == {sdu \in Sdus : handed[sdu] > 0}

(* SDUs that may still be handed over                                      *)
Pending == written \ (discarded \cup GivenToPeer)

BearerInit ==
  written = {} /\ discarded = {} /\ handed = [sdu \in Sdus |-> 0] /\ acked = {}

Take(sdu) ==
  /\ sdu \in Sdus \ written
  /\ written' = written \cup {sdu}
  /\ UNCHANGED <<discarded, handed, acked>>

GiveUp(sdu) ==
  /\ sdu \in Pending
  /\ discarded' = discarded \cup {sdu}
  /\ UNCHANGED <<written, handed, acked>>

HandOver(sdu) ==
  /\ sdu \in Pending
  /\ handed' = [handed EXCEPT ![sdu] = @ + 1]
  /\ UNCHANGED <<written, discarded, acked>>

Acknowledge(sdus) ==
  /\ sdus # {} /\ sdus \subseteq GivenToPeer \ acked
  /\ acked' = acked \cup sdus
  /\ UNCHANGED <<written, discarded, handed>>

BearerNext ==
  \/ \E sdu \in Sdus : Take(sdu) \/ GiveUp(sdu) \/ HandOver(sdu)
  \/ \E sdus \in SUBSET (GivenToPeer \ acked) : Acknowledge(sdus)

BearerSpec == BearerInit /\ [][BearerNext]_bearerVars
=============================================================================
