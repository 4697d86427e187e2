--------------------------------- MODULE Channel ---------------------------------
(***************************************************************************)
(* What the sending side of a connection promises the game: the data it    *)
(* writes for a client arrive in the order written, none twice and none    *)
(* left out, up to a point at which the channel is over for good.          *)
(***************************************************************************)
EXTENDS Naturals, Sequences

VARIABLES
    written,    \* how many data items were written
    delivered,  \* the items that reached the client
    over        \* no further item will

Init == written = 0 /\ delivered = <<>> /\ over = FALSE

Write ==
    /\ written' = written + 1
    /\ UNCHANGED <<delivered, over>>

(* A message carries several items, and its last one may end the channel.  *)
Deliver ==
    /\ ~over
    /\ \E n \in 1 .. (written - Len(delivered)) :
          delivered' = delivered \o [i \in 1 .. n |-> Len(delivered) + i]
    /\ over' \in BOOLEAN
    /\ UNCHANGED written

Finish ==
    /\ over' = TRUE
    /\ UNCHANGED <<written, delivered>>

vars == <<written, delivered, over>>
Next == Write \/ Deliver \/ Finish

Spec == Init /\ [][Next]_vars

=============================================================================
