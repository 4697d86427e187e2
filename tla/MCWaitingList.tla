------------------------------ MODULE MCWaitingList ------------------------------
(* Small instances of WaitingList: two places, two players of each class,  *)
(* and a gamemaster.                                                       *)
EXTENDS WaitingList

CONSTANTS prem1, prem2, free1, free2, gm

=============================================================================
