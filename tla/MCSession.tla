-------------------------------- MODULE MCSession --------------------------------
(* A small instance of Session: two clients of one character.              *)
EXTENDS Session

CONSTANTS c1, c2

=============================================================================
