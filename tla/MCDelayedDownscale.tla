------------------------- MODULE MCDelayedDownscale -------------------------
(* Small instances of DelayedDownscale.                                    *)
EXTENDS DelayedDownscale, TLC
=============================================================================
