---------------------------- MODULE MCGraphContext ----------------------------
(* Model-checking instance of GraphContext: two remote tokens, so that    *)
(* samples of different tokens interleave, and three network changes, so  *)
(* that a token can appear, vanish and reappear, or change both before    *)
(* and after the subscriber exists.                                        *)
EXTENDS GraphContext

MCMaxChanges == 3
MCMaxEntityIds == 1
=============================================================================
