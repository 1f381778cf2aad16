--------------------------- MODULE MCScreenShare ---------------------------
(* One viewer; a screen with two simulcast layers on transceiver 1, a      *)
(* plain screen on transceiver 2, and a companion on transceiver 3.        *)
EXTENDS ScreenShare, TLC

CONSTANTS v, hi, lo, plain, voice

MCViewers == {v}
MCTracks == {hi, lo, plain}
MCCompanions == {voice}
MCUplink == (hi :> [tcv |-> 1, rid |-> "h"]) @@ (lo :> [tcv |-> 1, rid |-> "l"])
         @@ (plain :> [tcv |-> 2, rid |-> ""]) @@ (voice :> [tcv |-> 3, rid |-> ""])
=============================================================================
