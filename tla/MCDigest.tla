------------------------------ MODULE MCDigest ------------------------------
(* Instances of Digest for TLC.  The constants are in the cfg files:          *)
(* MCDigest.cfg has two replicas that may crash and stall, MCDigestDup.cfg    *)
(* and MCDigestSkip.cfg are the smallest instances that refute two claims.    *)
EXTENDS Digest
=============================================================================
