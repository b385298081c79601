----------------------------- MODULE MCStorage -----------------------------
(* Storage.tla instantiated for TLC; the .cfg files give the constants.     *)
EXTENDS StorageRefinement, TLC

CONSTANTS s1, s2   \* model values the .cfg files build Stream from
=============================================================================
