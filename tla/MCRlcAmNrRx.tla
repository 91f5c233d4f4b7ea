---------------------------- MODULE MCRlcAmNrRx -----------------------------
(* Small instances of RlcAmNrRx for TLC.                                   *)
EXTENDS RlcAmNrRx

OneSdu == {1}

(* A peer that sends an SDU whole, with a poll, or cut in two, after the   *)
(* first or the second byte; the piece before the second cut never arrives *)
WholeOrHalves ==
  {pdu \in DataPdu :
     /\ <<pdu.si, pdu.so, pdu.len>> \in
          {<<"full", 0, N_bytes>>, <<"first", 0, 1>>,
           <<"last", 1, N_bytes - 1>>, <<"last", 2, N_bytes - 2>>}
     /\ pdu.p <=> pdu.si = "full"}

(* None of its PDUs encloses another.                                      *)
ASSUME PeerAssumption == NoPduEncloses

Grants == {3, 5, 8, 9, 11}
=============================================================================
