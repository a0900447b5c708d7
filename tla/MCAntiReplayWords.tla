------------------------- MODULE MCAntiReplayWords --------------------------
(***************************************************************************)
(* Three words of three bits and counters half again past the window: a    *)
(* shift of every length, from every bitmap that can come about.           *)
(***************************************************************************)
EXTENDS AntiReplayWords
=============================================================================
