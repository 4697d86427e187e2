------------------------------- MODULE WaitingList -------------------------------
(***************************************************************************)
(* The queue in front of a full server                                     *)
(* (src/src/creatures/players/management/waitlist.cpp), as                 *)
(* ProtocolGame::login uses it: a client that finds no room is put on one  *)
(* of two lists, is told its place, and tries again later.  Every login is *)
(* one event of the dispatcher.                                            *)
(*                                                                         *)
(* std::list keeps its length in a counter of its own.  clientLogin erases *)
(* an admitted entry through waitList even when the entry belongs to the   *)
(* priority list: the entry leaves the list it is in, the counter that is  *)
(* decremented is waitList's.  The counters wrap around at 2^64, only      *)
(* their sum is used where they have gone below zero: they are integers    *)
(* here.                                                                   *)
(***************************************************************************)
EXTENDS Integers, Sequences, FiniteSets, Functions

CONSTANTS
    Premium,      \* players with premium time
    Free,         \* players without
    Staff,        \* players who may always log in
    MaxPlayers,   \* the setting maxPlayers, not 0
    MaxAdmitted   \* bound: how many clients are admitted from the lists

ASSUME QueueAssumption ==
    /\ Premium \cap Free = {} /\ Premium \cap Staff = {} /\ Free \cap Staff = {}
    /\ IsFiniteSet(Premium \cup Free \cup Staff)
    /\ MaxPlayers \in Nat \ {0} /\ MaxAdmitted \in Nat

Clients == Premium \cup Free
Players == Clients \cup Staff

VARIABLES
    priority,      \* priorityWaitList, the players in it
    waiting,       \* waitList
    prioritySize,  \* priorityWaitList.size()
    waitingSize,   \* waitList.size()
    slots,         \* playerReferences: the slot kept for each queued player
    due,           \* the queued players whose timeout has passed
    online,        \* the players in the game
    told,          \* the place each refused client was told, 0 if none
    admitted       \* history: how many clients were admitted from the lists

lists == <<priority, waiting, prioritySize, waitingSize, slots, due>>
vars == <<lists, online, told, admitted>>

Init ==
    /\ priority = <<>> /\ waiting = <<>>
    /\ prioritySize = 0 /\ waitingSize = 0
    /\ slots = [p \in {} |-> 0] /\ due = {}
    /\ online = {} /\ told = [p \in Clients |-> 0] /\ admitted = 0

---------------------------------------------------------------------------
Index(list, p) == CHOOSE i \in DOMAIN list : list[i] = p
Without(list, S) ==
    LET kept[i \in 0..Len(list)] ==
            IF i = 0 THEN <<>>
            ELSE IF list[i] \in S THEN kept[i - 1] ELSE Append(kept[i - 1], list[i])
    IN  kept[Len(list)]
Count(list, S) == Cardinality(Range(list) \cap S)
PutSlot(s, p, n) == [q \in DOMAIN s \cup {p} |-> IF q = p THEN n ELSE s[q]]
DropSlots(s, S) == [q \in DOMAIN s \ S |-> s[q]]

(* Bug: a client without premium time does not count the priority list.    *)
SlotInOwnList(prio, wait, prioSize, waitSize, p) ==
    IF p \in Premium
      THEN IF p \in Range(prio) THEN Index(prio, p) ELSE prioSize + 1
      ELSE IF p \in Range(wait) THEN Index(wait, p) ELSE waitSize + 1

(* Bug: the place of a queued player is its distance from the front.       *)
SlotFromZero(prio, wait, prioSize, waitSize, p) ==
    IF p \in Premium
      THEN IF p \in Range(prio) THEN Index(prio, p) - 1 ELSE prioSize + 1
      ELSE IF p \in Range(wait) THEN prioSize + Index(wait, p) - 1 ELSE prioSize + waitSize + 1

(* addPlayerToList: the position, for a queued player, or the next place   *)
(* by the sizes of the lists.                                              *)
Slot(prio, wait, prioSize, waitSize, p) ==
    IF p \in Premium
      THEN IF p \in Range(prio) THEN Index(prio, p) ELSE prioSize + 1
      ELSE IF p \in Range(wait) THEN prioSize + Index(wait, p) ELSE prioSize + waitSize + 1

(* The player's entry, at the end of its list if it has none.              *)
Enlist(list, p) == IF p \in Range(list) THEN list ELSE Append(list, p)
Grown(list, size, p) == IF p \in Range(list) THEN size ELSE size + 1

(* Bug: the references of the entries that timed out stay.                 *)
KeepSlots(s, S) == s

(* cleanupList takes the references of the entries it erases along.        *)
CleanSlots(s, S) == DropSlots(s, S)

---------------------------------------------------------------------------
(* clientLogin for a client when both lists are empty, and for staff.      *)
EnterDirectly(p) ==
    /\ p \notin online
    /\ \/ p \in Staff
       \/ priority = <<>> /\ waiting = <<>> /\ Cardinality(online) < MaxPlayers
    /\ online' = online \cup {p}
    /\ UNCHANGED <<lists, told, admitted>>

(* clientLogin otherwise: both lists are cleaned up, the client takes or   *)
(* keeps its entry, and is admitted if its slot leaves room for it.        *)
TryEnter(p) ==
    /\ p \in Clients \ online
    /\ priority # <<>> \/ waiting # <<>> \/ Cardinality(online) >= MaxPlayers
    /\ LET prio == Without(priority, due)
           wait == Without(waiting, due)
           prioSize == prioritySize - Count(priority, due)
           waitSize == waitingSize - Count(waiting, due)
           slot == Slot(prio, wait, prioSize, waitSize, p)
           newPrio == IF p \in Premium THEN Enlist(prio, p) ELSE prio
           newWait == IF p \in Free THEN Enlist(wait, p) ELSE wait
           newPrioSize == IF p \in Premium THEN Grown(prio, prioSize, p) ELSE prioSize
           newWaitSize == IF p \in Free THEN Grown(wait, waitSize, p) ELSE waitSize
       IN  /\ prioritySize' = newPrioSize
           /\ IF Cardinality(online) + slot <= MaxPlayers
                THEN /\ admitted < MaxAdmitted
                     /\ admitted' = admitted + 1
                     /\ online' = online \cup {p}
                     /\ priority' = Without(newPrio, {p})
                     /\ waiting' = Without(newWait, {p})
                     /\ waitingSize' = newWaitSize - 1
                     /\ slots' = DropSlots(CleanSlots(slots, due), {p})
                     /\ told' = [told EXCEPT ![p] = 0]
                ELSE /\ priority' = newPrio /\ waiting' = newWait
                     /\ waitingSize' = newWaitSize
                     /\ slots' = PutSlot(CleanSlots(slots, due), p, slot)
                     /\ told' = [told EXCEPT ![p] =
                          Slot(newPrio, newWait, newPrioSize, newWaitSize, p)]
                     /\ UNCHANGED <<online, admitted>>
    /\ due' = {}

(* A queued client has not tried again in time.                            *)
TimeOut(p) ==
    /\ p \in DOMAIN slots \ due
    /\ due' = due \cup {p}
    /\ UNCHANGED <<priority, waiting, prioritySize, waitingSize, slots, online, told, admitted>>

Leave(p) ==
    /\ p \in online
    /\ online' = online \ {p}
    /\ UNCHANGED <<lists, told, admitted>>

Next ==
    \E p \in Players : EnterDirectly(p) \/ TryEnter(p) \/ TimeOut(p) \/ Leave(p)

Spec == Init /\ [][Next]_vars

---------------------------------------------------------------------------
TypeOK ==
    /\ priority \in Seq(Premium) /\ waiting \in Seq(Free)
    /\ prioritySize \in Int /\ waitingSize \in Int
    /\ DOMAIN slots \subseteq Clients /\ \A p \in DOMAIN slots : slots[p] \in Nat \ {0}
    /\ due \subseteq Clients
    /\ online \subseteq Players
    /\ told \in [Clients -> Nat]
    /\ admitted \in 0..MaxAdmitted

(* playerReferences holds an iterator for the entries of the two lists and *)
(* for no other, through clean-ups, retries and admissions: none dangles,  *)
(* and no player is queued twice or queued while in the game.              *)
ReferencesMatch ==
    /\ IsInjective(priority) /\ IsInjective(waiting)
    /\ Range(priority) \cup Range(waiting) = DOMAIN slots
    /\ due \subseteq DOMAIN slots
    /\ DOMAIN slots \cap online = {}

(* Queued player q is before client p, which may have no valid entry.      *)
Precedes(q, p) ==
    LET list == IF p \in Premium THEN priority ELSE waiting
    IN  IF q \in Premium <=> p \in Premium
          THEN p \notin Range(list) \ due \/ Index(list, q) < Index(list, p)
          ELSE q \in Premium

(* A client gets in only if the room that is left is enough for all those  *)
(* queued before it, in spite of the counter that clientLogin gets wrong:  *)
(* nobody in the queue is overtaken.                                       *)
NoOvertaking ==
    [][\A p \in Clients : p \notin online /\ p \in online' =>
          Cardinality(online') + Cardinality({q \in DOMAIN slots' : Precedes(q, p)})
             <= MaxPlayers]_vars

(* "You are at place N on the waiting list" (protocolgame.cpp:566-567):    *)
(* the place a refused client is told is its position in the queue.        *)
PlaceIsPosition ==
    [][\A p \in Clients : told'[p] # told[p] /\ told'[p] # 0 =>
          told'[p] = 1 + Cardinality({q \in DOMAIN slots' \ {p} : Precedes(q, p)'})]_vars

(* What is true of the places all the same: nobody is told a place before  *)
(* its own, and a client with premium time is told its own.                *)
PlaceNotUnderstated ==
    [][\A p \in Clients : TryEnter(p) /\ p \notin online' =>
          LET place == 1 + Cardinality({q \in DOMAIN slots' \ {p} : Precedes(q, p)'})
          IN  told'[p] >= place /\ (p \in Premium => told'[p] = place)]_vars

=============================================================================
