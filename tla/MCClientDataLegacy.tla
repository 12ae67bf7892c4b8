------------------------- MODULE MCClientDataLegacy -------------------------
(* Model-checking instance of ClientDataLegacy: two queries, so that one   *)
(* query's drop can run while the other is in flight, two replies each,   *)
(* and a depth of one, so that add_new_reply evicts.                       *)
EXTENDS ClientDataLegacy

MCLegacyMaxRequests == 2
MCLegacyMaxReplies == 2
MCLegacyDepth == 1
=============================================================================
