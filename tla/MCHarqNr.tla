------------------------------ MODULE MCHarqNr ------------------------------
(* One HARQ process per direction; the bounds are in the configuration.     *)
EXTENDS HarqNr

ASSUME AgreementAssumption == EndsAgree
=============================================================================
