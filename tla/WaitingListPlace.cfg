CONSTANTS
    prem1 = prem1  prem2 = prem2  free1 = free1  free2 = free2  gm = gm
    Premium = {prem1, prem2}
    Free = {free1, free2}
    Staff = {gm}
    MaxPlayers = 2
    MaxAdmitted = 2
SPECIFICATION Spec
PROPERTY PlaceIsPosition
CHECK_DEADLOCK FALSE
