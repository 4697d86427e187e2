-------------------------------- MODULE MCNetwork --------------------------------
(* Small instances of Network.                                             *)
EXTENDS Network, TLC

CONSTANTS c1, x, y

ItemsOf == c1 :> 3
ReadsOf == c1 :> 5

=============================================================================
