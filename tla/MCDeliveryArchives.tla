------------------------ MODULE MCDeliveryArchives ------------------------
(* The instance of DeliveryArchives for TLC. *)
EXTENDS DeliveryArchives
=============================================================================
