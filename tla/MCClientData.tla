---------------------------- MODULE MCClientData ----------------------------
(* Model-checking instance of ClientData: two requests with up to two      *)
(* replies each, a KEEP_LAST depth of 1 (so that a second buffered reply   *)
(* evicts the first) and a 3-bit num_in_flight_ (enough to show a wrap     *)
(* below zero without ever wrapping back to zero).                         *)
EXTENDS ClientData

MCMaxRequests == 2
MCMaxReplies == 2
MCDepth == 1
MCInFlightBits == 3
=============================================================================
