------------------------------ MODULE SessionProofs ------------------------------
(***************************************************************************)
(* Theorems about Session, for any number of clients of a character, of    *)
(* changes, checks and saves: it is in the world once, its client knows    *)
(* it, and synchronous saves lose nothing.                                 *)
(***************************************************************************)
EXTENDS Session, TLAPS

(* What is known of a client before its login, and until it has a Player.  *)
Fresh ==
    \A c \in Clients :
        /\ conn[c] = "none" => event[c] = "none"
        /\ conn[c] = "none" \/ event[c] # "none" => player[c] = None
        /\ conn[c] = "none" \/ event[c] = "login" => unique # c /\ deathTime[c] = 0

(* The client of any Player is a protocol that has it.                     *)
Mine == \A o \in Clients : client[o] # None => player[client[o]] = o

(* Who has been dead too long is struck.                                   *)
InTime == unique # None => deathTime[unique] <= KickAfter

(* There are no tasks when saves are synchronous.                          *)
NoTasks == async \/ tasks = {}

(* A dead Player that somebody can respawn with holds every change.        *)
Kept(o) == \E c \in Clients : player[c] = o /\ (Held(c) \/ client[o] = c)

DeadKeeps ==
    async \/ struck \/ crossed \/
        \A o \in Clients : where[o] = "dead" /\ unique = o /\ Kept(o) => ver[o] = made

IInv ==
    /\ TypeOK /\ Fresh /\ Mine /\ InTime /\ NoTasks
    /\ OneInWorld /\ DeadKeeps /\ NothingLost

---------------------------------------------------------------------------
(* Parts of steps.                                                         *)

(* Closing some connections invents no client and holds no protocol again. *)
LEMMA ClosingKeeps ==
    ASSUME TypeOK, NEW C, NEW c, Closing(C, c)
    PROVE  /\ conn' \in [Clients -> {"none", "up", "late", "closed", "gone"}]
           /\ release' \in [Clients -> {"no", "posted", "done"}]
           /\ \A d \in Clients :
                 /\ conn'[d] = "none" <=> conn[d] = "none"
                 /\ conn'[d] \in {"up", "late", "closed"} => conn[d] \in {"up", "late", "closed"}
                 /\ release'[d] = "posted" => release[d] = "posted" \/ conn[d] = "up"
<1> DEFINE open == {d \in C : conn[d] = "up"}
<1>1. PICK late \in SUBSET {d \in open \ {c} : accepts[d]} :
         conn' = [d \in Clients |-> IF d \in late THEN "late"
                     ELSE IF d \in open \/ (d = c /\ conn[d] = "late") THEN "closed"
                     ELSE conn[d]]
  BY DEF Closing
<1>2. release' = [d \in Clients |-> IF d \in open THEN "posted" ELSE release[d]]
  BY DEF Closing
<1>3. /\ conn \in [Clients -> {"none", "up", "late", "closed", "gone"}]
      /\ release \in [Clients -> {"no", "posted", "done"}]
  BY DEF TypeOK
<1>4. late \subseteq open /\ \A d \in open : conn[d] = "up"
  OBVIOUS
<1> HIDE DEF open
<1>5. ASSUME NEW d \in Clients
      PROVE  /\ conn'[d] \in {"none", "up", "late", "closed", "gone"}
             /\ release'[d] \in {"no", "posted", "done"}
             /\ conn'[d] = "none" <=> conn[d] = "none"
             /\ conn'[d] \in {"up", "late", "closed"} => conn[d] \in {"up", "late", "closed"}
             /\ release'[d] = "posted" => release[d] = "posted" \/ conn[d] = "up"
  BY <1>1, <1>2, <1>3, <1>4
<1>. QED
  BY <1>1, <1>2, <1>5

(* A save on the dispatcher: at once, or as a task.                        *)
LEMMA SavePlayerKeeps ==
    ASSUME IInv, NEW o \in Clients, NEW zero \in SUBSET Clients, SavePlayerFrom(o, zero)
    PROVE  /\ async' = async /\ NoTasks' /\ (async \/ row' = ver[o])
           /\ {row', stamp', clock'} \subseteq Nat /\ low' \subseteq Clients
           /\ tasks' \subseteq [obj : Clients, at : Nat, phase : {"posted", "tested", "saving"}, state : Nat]
<1>1. /\ {row, stamp, clock} \subseteq Nat /\ ver[o] \in Nat
      /\ tasks \subseteq [obj : Clients, at : Nat, phase : {"posted", "tested", "saving"}, state : Nat]
  BY DEF IInv, TypeOK
<1>2. CASE async
  <2>1. /\ clock' = clock + 1 /\ stamp' = clock + 1 /\ row' = row /\ async' = async
        /\ low' = zero /\ tasks' = tasks \cup {[obj |-> o, at |-> clock + 1, phase |-> "posted", state |-> 0]}
    BY <1>2 DEF SavePlayerFrom
  <2>2. [obj |-> o, at |-> clock + 1, phase |-> "posted", state |-> 0] \in
           [obj : Clients, at : Nat, phase : {"posted", "tested", "saving"}, state : Nat]
    BY <1>1
  <2>. QED
    BY <1>1, <1>2, <2>1, <2>2 DEF NoTasks
<1>3. CASE ~async
  BY <1>1, <1>3 DEF SavePlayerFrom, IInv, NoTasks
<1>. QED
  BY <1>2, <1>3

(* Who is in the world is found under its name.                            *)
LEMMA WorldIsFound ==
    ASSUME OneInWorld, ~struck, NEW o \in Clients, where[o] = "world"
    PROVE  Found = o /\ unique = o /\ mapped = o
BY SessionAssumption DEF OneInWorld, Found, Alive

(* At most one is.                                                         *)
LEMMA WorldIsOne ==
    ASSUME OneInWorld, ~struck, NEW o \in Clients, NEW p \in Clients,
           where[o] = "world", where[p] = "world"
    PROVE  o = p
BY DEF OneInWorld

(* What is found is the name's.                                            *)
LEMMA FoundIsUnique ==
    ASSUME TypeOK, Found # None
    PROVE  Found = unique /\ Found \in Clients /\ Alive(Found)
BY DEF Found, TypeOK

(* A dead Player that is found can be respawned with.                      *)
LEMMA DeadIsKept ==
    ASSUME NoTasks, ~async, NEW o \in Clients, Alive(o), where[o] = "dead"
    PROVE  Kept(o)
BY DEF NoTasks, Alive, Kept

(* A step that takes over no Player makes no dead one available again.     *)
LEMMA KeptStays ==
    ASSUME Fresh,
           \A c \in Clients : Held(c)' => Held(c) \/ conn[c] = "none",
           NEW o \in Clients,
           \A c \in Clients : player'[c] = o => player[c] = o,
           \A c \in Clients : client'[o] = c => client[o] = c,
           Kept(o)'
    PROVE  Kept(o)
<1>1. PICK c \in Clients : player'[c] = o /\ (Held(c)' \/ client'[o] = c)
  BY DEF Kept
<1>2. player[c] = o /\ (Held(c) \/ conn[c] = "none" \/ client[o] = c)
  BY <1>1
<1>3. conn[c] # "none"
  BY <1>2, SessionAssumption DEF Fresh
<1>. QED
  BY <1>2, <1>3 DEF Kept

(* A step that changes the place and state of no Player, neither map of    *)
(* names and nothing of the character.                                     *)
LEMMA PlayersStay ==
    ASSUME IInv, TypeOK', Fresh', Mine', NoTasks',
           UNCHANGED <<where, ver, unique, mapped, deathTime, struck, made, crossed, async>>,
           async \/ row' = row \/ \E o \in Clients : where[o] = "world",
           \A o \in Clients : where[o] = "dead" /\ ~async /\ Kept(o)' => Kept(o)
    PROVE  IInv'
<1>1. InTime' /\ OneInWorld'
  BY DEF IInv, InTime, OneInWorld
<1>2. DeadKeeps'
  BY DEF IInv, DeadKeeps
<1>3. NothingLost'
  BY DEF IInv, NothingLost
<1>. QED
  BY <1>1, <1>2, <1>3 DEF IInv

(* One that gives no Player another client or protocol either.             *)
LEMMA QuietStep ==
    ASSUME IInv, TypeOK', Fresh', NoTasks',
           UNCHANGED <<player, playerVars, unique, mapped, deathTime, struck, made, crossed, async>>,
           async \/ row' = row \/ \E o \in Clients : where[o] = "world",
           \A c \in Clients : Held(c)' => Held(c) \/ conn[c] = "none"
    PROVE  IInv'
<1>1. Mine'
  BY DEF IInv, playerVars, Mine
<1>2. ASSUME NEW o \in Clients, Kept(o)' PROVE Kept(o)
  BY <1>2, KeptStays DEF IInv, playerVars
<1>. QED
  BY <1>1, <1>2, PlayersStay DEF playerVars

---------------------------------------------------------------------------
(* Pool threads and the network thread.                                    *)

(* The pool threads keep IInv.                                             *)
LEMMA PoolStep == ASSUME IInv, PoolThread PROVE IInv'
<1> DEFINE T == [obj : Clients, at : Nat, phase : {"posted", "tested", "saving"}, state : Nat]
<1>1. PICK t \in tasks : TestTask(t) \/ BeginSave(t) \/ EndSave(t)
  BY DEF PoolThread
<1>2. UNCHANGED <<protocolVars, playerVars, gameVars, changeVars>>
  BY DEF PoolThread
<1>3. tasks \subseteq T /\ t \in T /\ ver \in [Clients -> Nat] /\ {row, stamp, clock} \subseteq Nat
      /\ low \subseteq Clients
  BY DEF IInv, TypeOK
<1>4. async
  BY <1>1 DEF IInv, NoTasks
<1>5. async' = async /\ tasks' \subseteq T /\ {row', stamp', clock'} \subseteq Nat /\ low' \subseteq Clients
  <2>1. CASE TestTask(t)
    <3>1. [t EXCEPT !.phase = "tested"] \in T
      BY <1>3
    <3>. QED
      BY <1>3, <2>1, <3>1 DEF TestTask, Advance
  <2>2. CASE BeginSave(t)
    <3>1. t.obj \in Clients /\ ver[t.obj] \in Nat
      BY <1>3
    <3>2. [t EXCEPT !.phase = "saving", !.state = ver[t.obj]] \in T
      BY <1>3, <3>1
    <3>3. /\ tasks' = (tasks \ {t}) \cup {[t EXCEPT !.phase = "saving", !.state = ver[t.obj]]}
          /\ stamp' = 0 /\ row' = row /\ async' = async /\ clock' = clock /\ low' = low \ {t.obj}
      BY <2>2 DEF BeginSave, Advance
    <3>4. {row', stamp', clock'} \subseteq Nat /\ low' \subseteq Clients
      BY <1>3, <3>3
    <3> HIDE DEF T
    <3>5. tasks' \subseteq T
      BY <1>3, <3>2, <3>3
    <3>. QED
      BY <3>3, <3>4, <3>5
  <2>3. CASE EndSave(t)
    <3>1. t.state \in Nat
      BY <1>3
    <3>. QED
      BY <1>3, <2>3, <3>1 DEF EndSave
  <2>. QED
    BY <1>1, <2>1, <2>2, <2>3
<1>6. TypeOK'
  BY <1>2, <1>5 DEF IInv, TypeOK, protocolVars, playerVars, gameVars, changeVars
<1>7. Fresh' /\ NoTasks'
  BY <1>2, <1>4, <1>5 DEF IInv, Fresh, NoTasks, protocolVars, gameVars
<1>8. \A c \in Clients : Held(c)' => Held(c)
  BY <1>2 DEF Held, protocolVars
<1>. QED
  BY <1>2, <1>4, <1>5, <1>6, <1>7, <1>8, QuietStep DEF protocolVars, gameVars, changeVars

(* The first packet, the loss and the end of a connection keep IInv.       *)
LEMMA NetworkStep == ASSUME IInv, NEW c \in Clients, Network(c) PROVE IInv'
<1>1. /\ UNCHANGED <<accepts, asked, player, playerVars, gameVars, saveVars, changeVars>>
      /\ event' = event \/ (event' = [event EXCEPT ![c] = "login"] /\ conn[c] = "none")
  BY DEF Network, FirstPacket, Leave, Expire
<1>2. /\ conn' \in [Clients -> {"none", "up", "late", "closed", "gone"}]
      /\ release' \in [Clients -> {"no", "posted", "done"}]
      /\ \A d \in Clients :
            /\ conn'[d] = "none" => conn[d] = "none" /\ event'[d] = event[d]
            /\ conn'[d] \in {"up", "late", "closed"} => conn[d] \in {"none", "up", "late", "closed"}
            /\ release'[d] = "posted" => release[d] = "posted" \/ conn[d] = "up"
  <2>1. /\ conn \in [Clients -> {"none", "up", "late", "closed", "gone"}]
        /\ release \in [Clients -> {"no", "posted", "done"}] /\ TypeOK
        /\ event \in [Clients -> {"none", "login", "connect"}]
    BY DEF IInv, TypeOK
  <2>2. CASE FirstPacket(c)
    <3> DEFINE others == IF Found = None THEN {} ELSE ClientOf(Found)
               op == {d \in others : conn[d] = "up"}
    <3>2. /\ conn' = [d \in Clients |->
                  IF d = c THEN "up" ELSE IF d \in op THEN "closed" ELSE conn[d]]
          /\ release' = [d \in Clients |-> IF d \in op THEN "posted" ELSE release[d]]
          /\ conn[c] = "none" /\ event' = [event EXCEPT ![c] = "login"]
      BY <2>2 DEF FirstPacket
    <3>3. \A d \in op : conn[d] = "up"
      OBVIOUS
    <3> HIDE DEF op
    <3>. QED
      BY <2>1, <3>2, <3>3
  <2>3. CASE Leave(c)
    <3>1. Closing({c}, None) /\ event' = event
      BY <2>3 DEF Leave
    <3>. QED
      BY <2>1, <3>1, ClosingKeeps
  <2>4. CASE Expire(c)
    BY <2>1, <2>4 DEF Expire
  <2>. QED
    BY <2>2, <2>3, <2>4 DEF Network
<1>3. TypeOK'
  BY <1>1, <1>2 DEF IInv, TypeOK, playerVars, gameVars, saveVars, changeVars
<1>4. Fresh'
  <2>1. event \in [Clients -> {"none", "login", "connect"}]
    BY DEF IInv, TypeOK
  <2>2. \A d \in Clients : event'[d] = event[d] \/ (event'[d] = "login" /\ conn[d] = "none")
    BY <1>1, <2>1
  <2>. QED
    BY <1>1, <1>2, <2>2 DEF IInv, Fresh, gameVars
<1>5. \A d \in Clients : Held(d)' => Held(d) \/ conn[d] = "none"
  <2>1. event \in [Clients -> {"none", "login", "connect"}]
    BY DEF IInv, TypeOK
  <2>2. \A d \in Clients : event'[d] = event[d] \/ conn[d] = "none"
    BY <1>1, <2>1
  <2>. QED
    BY <1>2, <2>2 DEF Held
<1>6. NoTasks' /\ row' = row /\ async' = async
  BY <1>1 DEF IInv, NoTasks, saveVars
<1>. QED
  BY <1>1, <1>3, <1>4, <1>5, <1>6, QuietStep DEF gameVars, changeVars

---------------------------------------------------------------------------
(* The dispatcher: release and login.                                      *)

(* The event release keeps IInv.                                           *)
LEMMA ReleaseStep == ASSUME IInv, NEW c \in Clients, Release(c) PROVE IInv'
<1>1. /\ UNCHANGED <<conn, event, accepts, asked, where, ver, gameVars, saveVars, changeVars>>
      /\ release' = [release EXCEPT ![c] = "done"]
  BY DEF Release
<1>2. /\ release \in [Clients -> {"no", "posted", "done"}]
      /\ player \in [Clients -> Clients \cup {None}]
      /\ client \in [Clients -> Clients \cup {None}]
  BY DEF IInv, TypeOK
<1>3. /\ player' \in [Clients -> Clients \cup {None}]
      /\ client' \in [Clients -> Clients \cup {None}]
      /\ \A d \in Clients : player'[d] \in {player[d], None} /\ client'[d] \in {client[d], None}
  <2>1. CASE player[c] # None /\ client[player[c]] = c
    <3>1. client' = [client EXCEPT ![player[c]] = None] /\ player' = [player EXCEPT ![c] = None]
      BY <2>1 DEF Release
    <3>. QED
      BY <1>2, <3>1
  <2>2. CASE ~(player[c] # None /\ client[player[c]] = c)
    BY <1>2, <2>2 DEF Release
  <2>. QED
    BY <2>1, <2>2
<1>4. Mine'
  <2>1. CASE player[c] # None /\ client[player[c]] = c
    <3> DEFINE p == player[c]
    <3>1. client' = [client EXCEPT ![p] = None] /\ player' = [player EXCEPT ![c] = None]
      BY <2>1 DEF Release
    <3> SUFFICES ASSUME NEW o \in Clients, client'[o] # None PROVE player'[client'[o]] = o
      BY DEF Mine
    <3>2. o # p /\ client'[o] = client[o] /\ client[o] \in Clients
      BY <1>2, <2>1, <3>1
    <3>3. player[client[o]] = o
      BY <3>2 DEF IInv, Mine
    <3>. QED
      BY <1>2, <3>1, <3>2, <3>3
  <2>2. CASE ~(player[c] # None /\ client[player[c]] = c)
    BY <2>2 DEF Release, IInv, Mine
  <2>. QED
    BY <2>1, <2>2
<1>5. TypeOK'
  BY <1>1, <1>2, <1>3 DEF IInv, TypeOK, gameVars, saveVars, changeVars
<1>6. Fresh' /\ NoTasks'
  BY <1>1, <1>3 DEF IInv, Fresh, NoTasks, gameVars, saveVars
<1>7. \A d \in Clients : Held(d)' => Held(d)
  BY <1>1, <1>2 DEF Held
<1>8. ASSUME NEW o \in Clients, Kept(o)' PROVE Kept(o)
  BY <1>3, <1>7, <1>8, KeptStays, SessionAssumption DEF IInv
<1>. QED
  BY <1>1, <1>4, <1>5, <1>6, <1>8, PlayersStay DEF gameVars, saveVars, changeVars

(* Taking over the Player that is found, and the end of a login.           *)
LEMMA TakeOverStep ==
    ASSUME IInv, NEW c \in Clients, event[c] # "none", TakeOver(c),
           event' = [event EXCEPT ![c] = "none"],
           UNCHANGED <<asked, where, ver, mapped, deathTime, checks, struck, saveVars, changeVars>>
    PROVE  IInv'
<1>1. /\ conn \in [Clients -> {"none", "up", "late", "closed", "gone"}]
      /\ release \in [Clients -> {"no", "posted", "done"}]
      /\ event \in [Clients -> {"none", "login", "connect"}]
      /\ player \in [Clients -> Clients \cup {None}] /\ accepts \in [Clients -> BOOLEAN]
      /\ client \in [Clients -> Clients \cup {None}] /\ TypeOK
  BY DEF IInv, TypeOK
<1>2. conn[c] # "none" /\ player[c] = None
  BY DEF IInv, Fresh
<1>3. /\ conn' \in [Clients -> {"none", "up", "late", "closed", "gone"}]
      /\ release' \in [Clients -> {"no", "posted", "done"}]
      /\ \A d \in Clients :
            /\ conn'[d] = "none" <=> conn[d] = "none"
            /\ conn'[d] \in {"up", "late", "closed"} => conn[d] \in {"up", "late", "closed"}
            /\ release'[d] = "posted" => release[d] = "posted" \/ conn[d] = "up"
  BY <1>1, ClosingKeeps DEF TakeOver
<1>4. \A d \in Clients : event'[d] # "none" => event'[d] = event[d]
  BY <1>1
<1>5. \A d \in Clients : Held(d)' => Held(d)
  BY <1>3, <1>4 DEF Held
<1>6. NoTasks' /\ event' \in [Clients -> {"none", "login", "connect"}]
  BY <1>1 DEF IInv, NoTasks, saveVars
<1>7. CASE UNCHANGED <<player, accepts, client, unique>>
  <2>1. TypeOK'
    BY <1>1, <1>3, <1>6, <1>7 DEF TypeOK, saveVars, changeVars
  <2>2. Fresh'
    BY <1>3, <1>4, <1>7, <1>1 DEF IInv, Fresh
  <2>. QED
    BY <1>5, <1>6, <1>7, <2>1, <2>2, QuietStep DEF playerVars, saveVars, changeVars
<1>8. CASE ~UNCHANGED <<player, accepts, client, unique>>
  <2> DEFINE o == Found
  <2>1. /\ o # None /\ player' = [player EXCEPT ![c] = o]
        /\ client' = [client EXCEPT ![o] = c]
        /\ accepts' = [accepts EXCEPT ![c] = TRUE] /\ unique' = o
    BY <1>8 DEF TakeOver
  <2>2. o \in Clients /\ unique = o /\ Alive(o)
    BY <1>1, <2>1, FoundIsUnique
  <2> HIDE DEF o
  <2>3. TypeOK'
    BY <1>1, <1>3, <1>6, <2>1, <2>2 DEF TypeOK, saveVars, changeVars
  <2>4. Fresh'
    <3>1. \A d \in Clients : d # c => player'[d] = player[d]
      BY <1>1, <2>1
    <3>2. event'[c] = "none" /\ conn'[c] # "none" /\ unique' = unique /\ deathTime' = deathTime
      BY <1>1, <1>2, <1>3, <2>1, <2>2
    <3>. QED
      BY <1>1, <1>3, <1>4, <3>1, <3>2 DEF IInv, Fresh
  <2>5. Mine'
    <3> SUFFICES ASSUME NEW p \in Clients, client'[p] # None PROVE player'[client'[p]] = p
      BY DEF Mine
    <3>1. CASE p = o
      BY <1>1, <2>1, <3>1
    <3>2. CASE p # o
      <4>1. client'[p] = client[p] /\ player[client[p]] = p /\ client[p] \in Clients
        BY <1>1, <2>1, <3>2 DEF IInv, Mine
      <4>2. client[p] # c
        BY <1>2, <4>1, SessionAssumption
      <4>. QED
        BY <1>1, <2>1, <4>1, <4>2
    <3>. QED
      BY <3>1, <3>2
  <2>6. ASSUME NEW p \in Clients, where[p] = "dead", ~async, Kept(p)' PROVE Kept(p)
    <3>1. CASE p = o
      BY <2>2, <2>6, <3>1, DeadIsKept DEF IInv
    <3>2. CASE p # o
      <4>1. \A d \in Clients : player'[d] = p => player[d] = p
        BY <1>1, <2>1, <3>2
      <4>2. \A d \in Clients : client'[p] = d => client[p] = d
        BY <1>1, <2>1, <3>2
      <4>. QED
        BY <1>5, <2>6, <4>1, <4>2, KeptStays DEF IInv
    <3>. QED
      BY <3>1, <3>2
  <2>. QED
    BY <1>6, <2>1, <2>2, <2>3, <2>4, <2>5, <2>6, PlayersStay DEF saveVars, changeVars
<1>. QED
  BY <1>7, <1>8

(* The login of a character that is found keeps IInv.                      *)
LEMMA LoginAgainStep == ASSUME IInv, NEW c \in Clients, LoginAgain(c) PROVE IInv'
<1>1. /\ UNCHANGED <<asked, where, ver, mapped, deathTime, checks, struck, saveVars, changeVars>>
      /\ event[c] = "login" /\ TypeOK /\ event \in [Clients -> {"none", "login", "connect"}]
  BY DEF LoginAgain, IInv, TypeOK
<1>2. CASE event' = [event EXCEPT ![c] = "none"] /\ TakeOver(c)
  BY <1>1, <1>2, TakeOverStep
<1>3. CASE /\ \E e \in {"none", "connect"} : event' = [event EXCEPT ![c] = e]
           /\ \E C : Closing(C, None)
           /\ UNCHANGED <<player, accepts, client, unique>>
  <2>1. /\ event' \in [Clients -> {"none", "login", "connect"}]
        /\ \A d \in Clients :
              /\ event'[d] # "none" => event[d] # "none"
              /\ event'[d] = "login" => event[d] = "login"
    BY <1>1, <1>3
  <2>2. /\ conn' \in [Clients -> {"none", "up", "late", "closed", "gone"}]
        /\ release' \in [Clients -> {"no", "posted", "done"}]
        /\ \A d \in Clients :
              /\ conn'[d] = "none" <=> conn[d] = "none"
              /\ conn'[d] \in {"up", "late", "closed"} => conn[d] \in {"up", "late", "closed"}
              /\ release'[d] = "posted" => release[d] = "posted" \/ conn[d] = "up"
    BY <1>1, <1>3, ClosingKeeps
  <2>3. TypeOK'
    BY <1>1, <1>3, <2>1, <2>2 DEF TypeOK, saveVars, changeVars
  <2>4. Fresh' /\ NoTasks'
    BY <1>1, <1>3, <2>1, <2>2 DEF IInv, Fresh, NoTasks, saveVars
  <2>5. \A d \in Clients : Held(d)' => Held(d)
    BY <2>1, <2>2 DEF Held
  <2>. QED
    BY <1>1, <1>3, <2>3, <2>4, <2>5, QuietStep DEF playerVars, saveVars, changeVars
<1>. QED
  BY <1>2, <1>3 DEF LoginAgain

(* The delayed connect keeps IInv.                                         *)
LEMMA ConnectStep == ASSUME IInv, NEW c \in Clients, Connect(c) PROVE IInv'
BY TakeOverStep DEF Connect

(* The login of a character that is not found keeps IInv.                  *)
LEMMA LoginNewStep == ASSUME IInv, NEW c \in Clients, LoginNew(c) PROVE IInv'
<1>1. /\ event[c] = "login" /\ Found = None
      /\ event' = [event EXCEPT ![c] = "none"]
      /\ player' = [player EXCEPT ![c] = c] /\ client' = [client EXCEPT ![c] = c]
      /\ UNCHANGED <<asked, deathTime, checks, struck, saveVars, changeVars>>
      /\ \/ /\ where' = [where EXCEPT ![c] = "unplaced"] /\ unique' = None
            /\ Closing({c}, None) /\ UNCHANGED <<accepts, ver, mapped>>
         \/ /\ where' = [where EXCEPT ![c] = "world"] /\ unique' = c /\ mapped' = c
            /\ ver' = [ver EXCEPT ![c] = row]
            /\ accepts' = [accepts EXCEPT ![c] = TRUE] /\ UNCHANGED <<conn, release>>
  BY DEF LoginNew
<1>2. /\ event \in [Clients -> {"none", "login", "connect"}]
      /\ conn \in [Clients -> {"none", "up", "late", "closed", "gone"}]
      /\ release \in [Clients -> {"no", "posted", "done"}]
      /\ player \in [Clients -> Clients \cup {None}] /\ accepts \in [Clients -> BOOLEAN]
      /\ client \in [Clients -> Clients \cup {None}] /\ TypeOK
      /\ where \in [Clients -> {"none", "unplaced", "world", "dead", "removed"}]
      /\ ver \in [Clients -> Nat] /\ row \in Nat
  BY DEF IInv, TypeOK
<1>3. conn[c] # "none" /\ player[c] = None /\ deathTime[c] = 0
  BY <1>1 DEF IInv, Fresh
<1>4. /\ conn' \in [Clients -> {"none", "up", "late", "closed", "gone"}]
      /\ release' \in [Clients -> {"no", "posted", "done"}]
      /\ \A d \in Clients :
            /\ conn'[d] = "none" <=> conn[d] = "none"
            /\ conn'[d] \in {"up", "late", "closed"} => conn[d] \in {"up", "late", "closed"}
            /\ release'[d] = "posted" => release[d] = "posted" \/ conn[d] = "up"
  BY <1>1, <1>2, ClosingKeeps
<1>5. \A d \in Clients :
         /\ event'[d] # "none" => d # c /\ event'[d] = event[d]
         /\ d # c => player'[d] = player[d] /\ client'[d] = client[d] /\ where'[d] = where[d]
  BY <1>1, <1>2
<1>6. TypeOK'
  <2>1. /\ event' \in [Clients -> {"none", "login", "connect"}]
        /\ player' \in [Clients -> Clients \cup {None}]
        /\ client' \in [Clients -> Clients \cup {None}]
        /\ where' \in [Clients -> {"none", "unplaced", "world", "dead", "removed"}]
    BY <1>1, <1>2
  <2>2. /\ accepts' \in [Clients -> BOOLEAN] /\ ver' \in [Clients -> Nat]
        /\ unique' \in Clients \cup {None} /\ mapped' \in Clients \cup {None}
    <3>1. mapped \in Clients \cup {None}
      BY <1>2 DEF TypeOK
    <3>2. accepts' \in [Clients -> BOOLEAN]
      BY <1>1, <1>2
    <3>3. ver' \in [Clients -> Nat]
      BY <1>1, <1>2
    <3>4. unique' \in {None, c} /\ mapped' \in {mapped, c}
      BY <1>1
    <3>. QED
      BY <3>1, <3>2, <3>3, <3>4
  <2>. QED
    BY <1>1, <1>2, <1>4, <2>1, <2>2 DEF TypeOK, saveVars, changeVars
<1>7. Fresh'
  <2>1. unique' \in {None, c} /\ conn'[c] # "none" /\ event'[c] = "none" /\ deathTime' = deathTime
    BY <1>1, <1>2, <1>3, <1>4
  <2>. QED
    BY <1>4, <1>5, <2>1, SessionAssumption DEF IInv, Fresh
<1>8. Mine'
  <2> SUFFICES ASSUME NEW o \in Clients, client'[o] # None PROVE player'[client'[o]] = o
    BY DEF Mine
  <2>1. CASE o = c
    BY <1>1, <1>2, <2>1
  <2>2. CASE o # c
    <3>1. client'[o] = client[o] /\ client[o] \in Clients /\ player[client[o]] = o
      BY <1>2, <1>5, <2>2 DEF IInv, Mine
    <3>2. client[o] # c
      BY <1>3, <3>1, SessionAssumption
    <3>. QED
      BY <1>5, <3>1, <3>2
  <2>. QED
    BY <2>1, <2>2
<1>9. InTime' /\ NoTasks'
  <2>1. unique' \in {None, c} /\ deathTime' = deathTime /\ KickAfter \in Nat
    BY <1>1, SessionAssumption
  <2>. QED
    BY <1>1, <1>3, <2>1 DEF IInv, InTime, NoTasks, saveVars
<1>10. ASSUME ~struck PROVE \A o \in Clients : where[o] # "world"
  <2>1. OneInWorld
    BY DEF IInv
  <2>. QED
    BY <1>1, <1>10, <2>1, WorldIsFound, SessionAssumption
<1>11. where'[c] \in {"unplaced", "world"} /\ (where'[c] = "world" => unique' = c /\ mapped' = c /\ ver'[c] = row)
  BY <1>1, <1>2
<1>12. OneInWorld'
  BY <1>1, <1>5, <1>10, <1>11 DEF OneInWorld
<1>13. DeadKeeps'
  <2>1. unique' \in {None, c} /\ where'[c] # "dead"
    BY <1>1, <1>11
  <2>. QED
    BY <2>1, SessionAssumption DEF DeadKeeps
<1>14. NothingLost'
  <2> SUFFICES ASSUME ~async', ~struck', ~crossed'
               PROVE  IF \E o \in Clients : where'[o] = "world"
                      THEN \A o \in Clients : where'[o] = "world" => ver'[o] = made'
                      ELSE row' = made'
    BY DEF NothingLost
  <2>1. row = made /\ row' = row /\ made' = made
    BY <1>1, <1>10 DEF IInv, NothingLost, saveVars, changeVars
  <2>2. \A o \in Clients : where'[o] = "world" => o = c
    BY <1>1, <1>5, <1>10
  <2>. QED
    BY <1>11, <2>1, <2>2
<1>. QED
  BY <1>6, <1>7, <1>8, <1>9, <1>12, <1>13, <1>14 DEF IInv

---------------------------------------------------------------------------
(* The world.                                                              *)

(* A Player that leaves the world and is saved, as dead or for good.       *)
LEMMA LeaveWorldStep ==
    ASSUME IInv, NEW o \in Clients, where[o] = "world", mapped' = None,
           NEW zero \in SUBSET Clients, SavePlayerFrom(o, zero), deaths' \in Nat,
           \/ where' = [where EXCEPT ![o] = "removed"] /\ unique' = None
           \/ where' = [where EXCEPT ![o] = "dead"] /\ unique' = unique,
           NEW C, NEW c, Closing(C, c) \/ UNCHANGED <<conn, release>>,
           UNCHANGED <<event, accepts, asked, player, client, ver, deathTime, checks, struck, made, crossed>>
    PROVE  IInv'
<1>1. /\ TypeOK /\ Fresh /\ Mine /\ InTime /\ OneInWorld /\ NothingLost
      /\ where \in [Clients -> {"none", "unplaced", "world", "dead", "removed"}]
      /\ conn \in [Clients -> {"none", "up", "late", "closed", "gone"}]
      /\ release \in [Clients -> {"no", "posted", "done"}]
      /\ unique \in Clients \cup {None}
  BY DEF IInv, TypeOK
<1>2. /\ conn' \in [Clients -> {"none", "up", "late", "closed", "gone"}]
      /\ release' \in [Clients -> {"no", "posted", "done"}]
      /\ \A d \in Clients : conn'[d] = "none" <=> conn[d] = "none"
  BY <1>1, ClosingKeeps
<1>3. /\ async' = async /\ NoTasks' /\ (async \/ row' = ver[o])
      /\ {row', stamp', clock'} \subseteq Nat /\ low' \subseteq Clients
      /\ tasks' \subseteq [obj : Clients, at : Nat, phase : {"posted", "tested", "saving"}, state : Nat]
  BY SavePlayerKeeps
<1>4. /\ where' \in [Clients -> {"none", "unplaced", "world", "dead", "removed"}]
      /\ where'[o] \in {"removed", "dead"} /\ \A p \in Clients : p # o => where'[p] = where[p]
      /\ where'[o] = "dead" \/ unique' = None
  BY <1>1
<1>5. TypeOK'
  BY <1>1, <1>2, <1>3, <1>4 DEF TypeOK
<1>6. Fresh' /\ Mine' /\ InTime'
  BY <1>1, <1>2, SessionAssumption DEF Fresh, Mine, InTime
<1>7. ASSUME ~struck PROVE \A p \in Clients : where'[p] # "world"
  BY <1>1, <1>4, <1>7, WorldIsOne
<1>8. OneInWorld'
  BY <1>7 DEF OneInWorld
<1>9. ASSUME ~async, ~struck, ~crossed PROVE ver[o] = made /\ unique = o
  BY <1>1, <1>9 DEF NothingLost, OneInWorld
<1>10. DeadKeeps'
  BY <1>3, <1>9, <1>1, SessionAssumption DEF DeadKeeps
<1>11. NothingLost'
  BY <1>3, <1>7, <1>9 DEF NothingLost
<1>. QED
  BY <1>3, <1>5, <1>6, <1>8, <1>10, <1>11 DEF IInv

(* A change of the character in the world, in the handler of a packet.     *)
LEMMA ActStep ==
    ASSUME IInv, NEW c \in Clients, Act(c), UNCHANGED <<event, accepts, player>>
    PROVE  IInv'
<1> DEFINE p == player[c]
<1>1. /\ where[p] = "world" /\ made' = made + 1 /\ ver' = [ver EXCEPT ![p] = @ + 1]
      /\ Closing({}, c) /\ UNCHANGED <<asked, where, client, gameVars, saveVars, deaths, crossed>>
      /\ p \in Clients
  BY DEF Act, Standing, IInv, TypeOK
<1> HIDE DEF p
<1>2. TypeOK /\ Fresh /\ Mine /\ InTime /\ OneInWorld /\ NothingLost /\ NoTasks
  BY DEF IInv
<1>3. /\ conn' \in [Clients -> {"none", "up", "late", "closed", "gone"}]
      /\ release' \in [Clients -> {"no", "posted", "done"}]
      /\ \A d \in Clients : conn'[d] = "none" <=> conn[d] = "none"
  BY <1>1, <1>2, ClosingKeeps
<1>4. ver \in [Clients -> Nat] /\ made \in Nat
  BY <1>2 DEF TypeOK
<1>5. TypeOK'
  BY <1>1, <1>2, <1>3, <1>4 DEF TypeOK, gameVars, saveVars
<1>6. Fresh' /\ Mine' /\ InTime' /\ NoTasks' /\ OneInWorld'
  BY <1>1, <1>2, <1>3 DEF Fresh, Mine, InTime, NoTasks, OneInWorld, gameVars, saveVars
<1>7. ASSUME ~struck PROVE \A o \in Clients : where[o] = "world" => o = p
  BY <1>1, <1>2, <1>7, WorldIsOne
<1>8. DeadKeeps'
  <2>1. struck \/ unique = p
    BY <1>1, <1>2 DEF OneInWorld
  <2>. QED
    BY <1>1, <2>1 DEF DeadKeeps, gameVars
<1>9. NothingLost'
  <2> SUFFICES ASSUME ~async, ~struck, ~crossed
               PROVE  \A o \in Clients : where[o] = "world" => ver'[o] = made'
    BY <1>1 DEF NothingLost, gameVars, saveVars
  <2>1. ver[p] = made /\ ver'[p] = ver[p] + 1
    BY <1>1, <1>2, <1>4 DEF NothingLost
  <2>. QED
    BY <1>1, <1>7, <2>1
<1>. QED
  BY <1>5, <1>6, <1>8, <1>9 DEF IInv

(* Logout, refused or not, keeps IInv.                                     *)
LEMMA LogoutStep ==
    ASSUME IInv, NEW c \in Clients, conn[c] # "none", Logout(c), UNCHANGED <<event, accepts, player>>
    PROVE  IInv'
<1>1. CASE Standing(c) = "world" /\ RemoveCreature(player[c])
           /\ Closing({c}, c)
           /\ UNCHANGED <<client, ver, deathTime, checks, struck, asked, changeVars>>
  <2> DEFINE p == player[c]
  <2>1. p \in Clients /\ where[p] = "world"
    BY <1>1 DEF Standing, IInv, TypeOK
  <2>2. /\ where' = [where EXCEPT ![p] = "removed"] /\ unique' = None /\ mapped' = None
        /\ SavePlayerFrom(p, low) /\ low \in SUBSET Clients /\ deaths' \in Nat
    BY <1>1 DEF RemoveCreature, SavePlayer, changeVars, IInv, TypeOK
  <2> HIDE DEF p
  <2>. QED
    BY <1>1, <2>1, <2>2, LeaveWorldStep DEF changeVars
<1>2. CASE /\ Closing({c}, c) \/ Closing({}, c)
           /\ UNCHANGED <<asked, playerVars, gameVars, saveVars, changeVars>>
  <2>1. /\ conn' \in [Clients -> {"none", "up", "late", "closed", "gone"}]
        /\ release' \in [Clients -> {"no", "posted", "done"}]
        /\ \A d \in Clients :
              /\ conn'[d] = "none" <=> conn[d] = "none"
              /\ conn'[d] \in {"up", "late", "closed"} => conn[d] \in {"up", "late", "closed"}
              /\ release'[d] = "posted" => release[d] = "posted" \/ conn[d] = "up"
    BY <1>2, ClosingKeeps DEF IInv
  <2>2. TypeOK'
    BY <1>2, <2>1 DEF IInv, TypeOK, playerVars, gameVars, saveVars, changeVars
  <2>3. Fresh' /\ NoTasks'
    BY <1>2, <2>1 DEF IInv, Fresh, NoTasks, gameVars, saveVars
  <2>4. \A d \in Clients : Held(d)' => Held(d)
    BY <2>1 DEF Held
  <2>. QED
    BY <1>2, <2>2, <2>3, <2>4, QuietStep DEF gameVars, saveVars, changeVars
<1>. QED
  BY <1>1, <1>2 DEF Logout

(* Losing the last of its health, and getting some back, keep IInv.        *)
LEMMA HealthStep == ASSUME IInv, NEW o \in Clients, Hurt(o) \/ Heal(o) PROVE IInv'
<1>1. /\ low' \subseteq Clients /\ deaths' \in Nat
      /\ UNCHANGED <<row, async, stamp, clock, tasks, protocolVars, playerVars, gameVars, made, crossed>>
  BY DEF Hurt, Heal, IInv, TypeOK, changeVars
<1>2. TypeOK'
  BY <1>1 DEF IInv, TypeOK, protocolVars, playerVars, gameVars
<1>3. Fresh' /\ NoTasks' /\ \A d \in Clients : Held(d)' => Held(d)
  BY <1>1 DEF IInv, Fresh, NoTasks, Held, protocolVars, gameVars
<1>. QED
  BY <1>1, <1>2, <1>3, QuietStep DEF protocolVars, gameVars

(* A death, by whichever of its ways, keeps IInv.                          *)
LEMMA DieStep ==
    ASSUME IInv, NEW o \in Clients, where[o] = "world", Die(o), deaths' \in Nat
    PROVE  IInv'
<1>1. low \ {o} \in SUBSET Clients
  BY DEF IInv, TypeOK
<1>. QED
  BY <1>1, LeaveWorldStep DEF Die, protocolVars

LEMMA ExecuteDeathStep == ASSUME IInv, ExecuteDeath PROVE IInv'
<1>1. deaths' \in Nat
  BY DEF ExecuteDeath, IInv, TypeOK
<1>2. CASE \E o \in Clients : mapped = o /\ where[o] = "world" /\ Die(o)
  BY <1>1, <1>2, DieStep
<1>3. CASE UNCHANGED <<protocolVars, playerVars, gameVars, saveVars, made, crossed>>
  <2>1. TypeOK'
    BY <1>1, <1>3 DEF IInv, TypeOK, protocolVars, playerVars, gameVars, saveVars
  <2>2. Fresh' /\ NoTasks' /\ \A d \in Clients : Held(d)' => Held(d)
    BY <1>3 DEF IInv, Fresh, NoTasks, Held, protocolVars, gameVars, saveVars
  <2>. QED
    BY <1>3, <2>1, <2>2, QuietStep DEF protocolVars, gameVars, saveVars
<1>. QED
  BY <1>2, <1>3 DEF ExecuteDeath

(* A death without its event, a kick and a save keep IInv.                 *)
LEMMA WorldStep ==
    ASSUME IInv, NEW o \in Clients, CheckCreature(o) \/ Kick(o) \/ Save(o) PROVE IInv'
<1>1. low \in SUBSET Clients /\ deaths \in Nat
  BY DEF IInv, TypeOK
<1>2. CASE CheckCreature(o)
  BY <1>1, <1>2, DieStep DEF CheckCreature
<1>3. CASE Kick(o)
  BY <1>1, <1>3, LeaveWorldStep DEF Kick, RemoveCreature, SavePlayer, changeVars
<1>4. CASE Save(o)
  <2>1. /\ where[o] = "world" /\ SavePlayerFrom(o, low)
        /\ UNCHANGED <<protocolVars, playerVars, gameVars, changeVars>>
    BY <1>4 DEF Save, SavePlayer
  <2>2. /\ async' = async /\ NoTasks'
        /\ {row', stamp', clock'} \subseteq Nat /\ low' \subseteq Clients
        /\ tasks' \subseteq [obj : Clients, at : Nat, phase : {"posted", "tested", "saving"}, state : Nat]
    BY <1>1, <2>1, SavePlayerKeeps
  <2>3. TypeOK'
    BY <2>1, <2>2 DEF IInv, TypeOK, protocolVars, playerVars, gameVars, changeVars
  <2>4. Fresh' /\ \A d \in Clients : Held(d)' => Held(d)
    BY <2>1 DEF IInv, Fresh, Held, protocolVars, gameVars
  <2>. QED
    BY <2>1, <2>2, <2>3, <2>4, QuietStep DEF protocolVars, gameVars, changeVars
<1>. QED
  BY <1>2, <1>3, <1>4

(* A change of an offline copy keeps IInv.                                 *)
LEMMA OfflineCopyStep == ASSUME IInv, OfflineCopy PROVE IInv'
<1>1. /\ mapped \notin {o \in Clients : Alive(o)}
      /\ made' = made + 1 /\ row' = row + 1 /\ stamp' = 0
      /\ crossed' = (crossed \/ \E o \in Clients : where[o] = "dead" /\ Alive(o))
      /\ UNCHANGED <<async, clock, tasks, low, deaths, protocolVars, playerVars, gameVars>>
  BY DEF OfflineCopy, ChangeCopy
<1>2. TypeOK'
  <2>1. made' \in Nat /\ row' \in Nat /\ stamp' \in Nat /\ crossed' \in BOOLEAN
    BY <1>1 DEF IInv, TypeOK
  <2>. QED
    BY <1>1, <2>1 DEF IInv, TypeOK, protocolVars, playerVars, gameVars
<1>3. Fresh' /\ Mine' /\ InTime' /\ NoTasks' /\ OneInWorld'
  BY <1>1 DEF IInv, Fresh, Mine, InTime, NoTasks, OneInWorld, protocolVars, playerVars, gameVars
<1>4. DeadKeeps'
  <2> SUFFICES ASSUME ~async, ~struck, ~crossed', NEW o \in Clients,
                      where[o] = "dead", Kept(o)'
               PROVE  FALSE
    BY <1>1 DEF DeadKeeps, playerVars, gameVars
  <2>1. Kept(o)
    BY <1>1 DEF Kept, Held, protocolVars, playerVars
  <2>2. Alive(o)
    BY <2>1 DEF Kept, Alive
  <2>. QED
    BY <1>1, <2>2
<1>5. ASSUME ~struck PROVE \A o \in Clients : where[o] # "world"
  BY <1>1, <1>5 DEF IInv, OneInWorld, Alive
<1>6. NothingLost'
  BY <1>1, <1>5 DEF IInv, NothingLost, playerVars, gameVars
<1>. QED
  BY <1>2, <1>3, <1>4, <1>6 DEF IInv

---------------------------------------------------------------------------
(* The death screen.                                                       *)

(* What a check of the death screen says of the name, whether or not it is *)
(* made: it may be struck, which is remembered if a Player in the world    *)
(* had it; and it counts only checks of the Player that has it.            *)
Verdict(r) ==
    /\ r.unique \in {unique, None} /\ r.struck \in BOOLEAN /\ r.again \in {0, 1}
    /\ r.time \in [Clients -> 0 .. KickAfter + 1]
    /\ \A c \in Clients : r.time[c] = deathTime[c] \/ c = unique
    /\ r.unique # None => r.time[r.unique] <= KickAfter
    /\ struck => r.struck
    /\ r.unique # unique => r.struck \/ \A o \in Clients : where[o] # "world"

(* Both outcomes are verdicts.                                             *)
LEMMA CheckedIsVerdict == ASSUME IInv PROVE Verdict(Unchecked) /\ Verdict(Checked)
<1>1. /\ unique \in Clients \cup {None} /\ struck \in BOOLEAN
      /\ deathTime \in [Clients -> 0 .. KickAfter + 1] /\ KickAfter \in Nat
      /\ unique # None => deathTime[unique] <= KickAfter
      /\ OneInWorld /\ TypeOK /\ None \notin Clients
  BY SessionAssumption DEF IInv, TypeOK, InTime
<1>2. Verdict(Unchecked)
  BY <1>1 DEF Verdict, Unchecked
<1>3. CASE Found = None
  BY <1>2, <1>3 DEF Checked
<1>4. CASE Found # None
  <2> DEFINE o == Found  later == [deathTime EXCEPT ![o] = @ + 1]
  <2>1. o = unique /\ o \in Clients
    BY <1>1, <1>4, FoundIsUnique
  <2>2. struck \/ where[o] = "world" \/ \A p \in Clients : where[p] # "world"
    BY <1>1, <2>1 DEF OneInWorld
  <2> DEFINE Strike == [unique |-> None, struck |-> struck \/ where[o] = "world",
                        closed |-> ClientOf(o), again |-> 0, time |-> deathTime]
  <2>4. \/ Checked = Strike \/ Checked = Unchecked
        \/ Checked = [Strike EXCEPT !.time = later]
        \/ Checked = [Unchecked EXCEPT !.again = 1, !.time = later] /\ ~(deathTime[o] >= KickAfter)
    BY <1>4 DEF Checked
  <2> HIDE DEF o
  <2>5. /\ later[o] = deathTime[o] + 1 /\ later \in [Clients -> 0 .. KickAfter + 1]
        /\ \A c \in Clients : c # o => later[c] = deathTime[c]
    <3>1. deathTime[o] \in 0 .. KickAfter
      BY <1>1, <2>1
    <3>2. deathTime[o] + 1 \in 0 .. KickAfter + 1
      BY <1>1, <3>1
    <3>. QED
      BY <1>1, <2>1, <3>2
  <2> HIDE DEF later
  <2>6. ASSUME NEW r, r.unique = None, r.struck = (struck \/ where[o] = "world"),
                   r.again = 0, r.time \in {deathTime, later}
        PROVE  Verdict(r)
    <3>1. r.struck \in BOOLEAN /\ (struck => r.struck)
      BY <2>6
    <3>2. r.unique # unique => r.struck \/ \A p \in Clients : where[p] # "world"
      BY <2>2, <2>6
    <3>. QED
      BY <1>1, <2>1, <2>5, <2>6, <3>1, <3>2 DEF Verdict
  <2>7. Verdict(Strike) /\ Verdict([Strike EXCEPT !.time = later])
    <3>1. Verdict(Strike)
      BY <2>6
    <3>2. Verdict([Strike EXCEPT !.time = later])
      BY <2>6
    <3>. QED
      BY <3>1, <3>2
  <2>8. ASSUME ~(deathTime[o] >= KickAfter)
        PROVE  Verdict([Unchecked EXCEPT !.again = 1, !.time = later])
    <3>1. later[unique] <= KickAfter
      BY <1>1, <2>1, <2>5, <2>8
    <3>. QED
      BY <1>1, <2>1, <2>5, <3>1 DEF Verdict, Unchecked
  <2>. QED
    BY <1>2, <2>4, <2>7, <2>8
<1>. QED
  BY <1>2, <1>3, <1>4

(* Striking the name, or not, keeps IInv.                                  *)
LEMMA VerdictStep ==
    ASSUME IInv, NEW r, Verdict(r), unique' \in {r.unique, None}, deathTime' = r.time,
           struck' \in BOOLEAN, r.struck => struck',
           struck' \/ unique' = r.unique \/ \A o \in Clients : where[o] # "world",
           checks' \in Nat, asked' \in [Clients -> BOOLEAN],
           NEW C, NEW c, Closing(C, c),
           UNCHANGED <<event, accepts, player, playerVars, mapped, saveVars, changeVars>>
    PROVE  IInv'
<1>1. /\ TypeOK /\ Fresh /\ Mine /\ InTime /\ NoTasks /\ OneInWorld /\ DeadKeeps /\ NothingLost
      /\ unique \in Clients \cup {None} /\ r.unique \in {unique, None}
      /\ deathTime' \in [Clients -> 0 .. KickAfter + 1]
  BY DEF IInv, TypeOK, Verdict
<1>2. /\ conn' \in [Clients -> {"none", "up", "late", "closed", "gone"}]
      /\ release' \in [Clients -> {"no", "posted", "done"}]
      /\ \A d \in Clients :
            /\ conn'[d] = "none" <=> conn[d] = "none"
            /\ conn'[d] \in {"up", "late", "closed"} => conn[d] \in {"up", "late", "closed"}
            /\ release'[d] = "posted" => release[d] = "posted" \/ conn[d] = "up"
  BY <1>1, ClosingKeeps
<1>3. /\ unique' \in {unique, None} /\ (struck => struck')
      /\ unique' # unique => struck' \/ \A o \in Clients : where[o] # "world"
  BY <1>1 DEF Verdict
<1>4. TypeOK'
  BY <1>1, <1>2, <1>3 DEF TypeOK, playerVars, saveVars, changeVars
<1>5. Fresh'
  <2>1. \A d \in Clients : deathTime'[d] = deathTime[d] \/ d = unique
    BY DEF Verdict
  <2>. QED
    BY <1>1, <1>2, <1>3, <2>1, SessionAssumption DEF Fresh
<1>6. Mine' /\ NoTasks'
  BY <1>1 DEF Mine, NoTasks, playerVars, saveVars
<1>7. InTime'
  BY DEF InTime, Verdict
<1>8. OneInWorld'
  BY <1>1, <1>3 DEF OneInWorld, playerVars
<1>9. \A d \in Clients : Held(d)' => Held(d)
  BY <1>2 DEF Held
<1>10. DeadKeeps'
  <2> SUFFICES ASSUME ~async, ~struck', ~crossed, NEW o \in Clients,
                      where[o] = "dead", unique' = o, Kept(o)'
               PROVE  ver[o] = made
    BY DEF DeadKeeps, playerVars, saveVars, changeVars
  <2>1. Kept(o)
    BY <1>1, <1>9, KeptStays DEF playerVars
  <2>. QED
    BY <1>1, <1>3, <2>1, SessionAssumption DEF DeadKeeps
<1>11. NothingLost'
  BY <1>1, <1>3 DEF NothingLost, playerVars, saveVars, changeVars
<1>. QED
  BY <1>4, <1>5, <1>6, <1>7, <1>8, <1>10, <1>11 DEF IInv

(* The event playerCheckActivity keeps IInv.                               *)
LEMMA CheckStep == ASSUME IInv, Check PROVE IInv'
<1> DEFINE r == Checked
<1>1. /\ checks > 0 /\ unique' = r.unique /\ struck' = r.struck /\ deathTime' = r.time
      /\ Closing(r.closed, None) /\ checks' = checks - 1 + r.again
      /\ UNCHANGED <<event, accepts, asked, player, playerVars, mapped, saveVars, changeVars>>
  BY DEF Check
<1>2. Verdict(r) /\ checks \in Nat /\ asked \in [Clients -> BOOLEAN]
  BY CheckedIsVerdict DEF IInv, TypeOK
<1> HIDE DEF r
<1>3. struck' \in BOOLEAN /\ checks' \in Nat
  BY <1>1, <1>2 DEF Verdict
<1>. QED
  BY <1>1, <1>2, <1>3, VerdictStep

(* A Player that respawns, with or without a check before.                 *)
LEMMA RespawnStep ==
    ASSUME IInv, NEW c \in Clients, NEW r, Verdict(r),
           NEW p \in Clients, player[c] = p, where[p] \in {"dead", "world"}, conn[c] \in {"up", "late"},
           unique' = r.unique, deathTime' = r.time,
           struck' = (r.struck \/ r.unique # p),
           where' = [where EXCEPT ![p] = "world"], mapped' = p,
           checks' \in Nat, asked' \in [Clients -> BOOLEAN],
           NEW C, Closing(C, c),
           UNCHANGED <<event, accepts, player, client, ver, saveVars, changeVars>>
    PROVE  IInv'
<1>1. /\ TypeOK /\ Fresh /\ Mine /\ InTime /\ NoTasks /\ OneInWorld /\ DeadKeeps /\ NothingLost
      /\ unique \in Clients \cup {None} /\ r.unique \in {unique, None}
      /\ deathTime' \in [Clients -> 0 .. KickAfter + 1]
      /\ where \in [Clients -> {"none", "unplaced", "world", "dead", "removed"}]
  BY DEF IInv, TypeOK, Verdict
<1>2. /\ conn' \in [Clients -> {"none", "up", "late", "closed", "gone"}]
      /\ release' \in [Clients -> {"no", "posted", "done"}]
      /\ \A d \in Clients :
            /\ conn'[d] = "none" <=> conn[d] = "none"
            /\ conn'[d] \in {"up", "late", "closed"} => conn[d] \in {"up", "late", "closed"}
            /\ release'[d] = "posted" => release[d] = "posted" \/ conn[d] = "up"
  BY <1>1, ClosingKeeps
<1>3. (struck => struck') /\ (~struck' => unique = p /\ unique' = p)
  BY <1>1, SessionAssumption DEF Verdict
<1>4. TypeOK'
  <2>1. where' \in [Clients -> {"none", "unplaced", "world", "dead", "removed"}] /\ struck' \in BOOLEAN
    BY <1>1
  <2>. QED
    BY <1>1, <1>2, <2>1 DEF TypeOK, saveVars, changeVars
<1>5. Fresh'
  <2>1. \A d \in Clients : deathTime'[d] = deathTime[d] \/ d = unique
    BY DEF Verdict
  <2>. QED
    BY <1>1, <1>2, <2>1, SessionAssumption DEF Fresh
<1>6. Mine' /\ NoTasks' /\ InTime'
  BY <1>1 DEF Mine, NoTasks, saveVars, InTime, Verdict
<1>7. /\ where'[p] = "world" /\ \A o \in Clients : o # p => where'[o] = where[o]
      /\ ~struck' => \A o \in Clients : o # p => where[o] # "world"
  BY <1>1, <1>3 DEF OneInWorld
<1>8. OneInWorld'
  BY <1>3, <1>7 DEF OneInWorld
<1>9. DeadKeeps'
  BY <1>3, <1>7 DEF DeadKeeps
<1>10. NothingLost'
  <2> SUFFICES ASSUME ~async, ~struck', ~crossed PROVE ver[p] = made
    BY <1>7 DEF NothingLost, saveVars, changeVars
  <2>1. Kept(p)
    BY DEF Kept, Held
  <2>. QED
    BY <1>1, <1>3, <2>1 DEF DeadKeeps, NothingLost
<1>. QED
  BY <1>4, <1>5, <1>6, <1>8, <1>9, <1>10 DEF IInv

(* A Player that finds no place to respawn, with or without a check.       *)
LEMMA SpawnFailsStep ==
    ASSUME IInv, NEW c \in Clients, NEW r, Verdict(r),
           NEW p \in Clients, where[p] \in {"dead", "world"},
           unique' = (IF where[p] = "world" THEN None ELSE r.unique), deathTime' = r.time,
           struck' = (r.struck \/ \E o \in Clients \ {p} : where[o] = "world"),
           SpawnFails(p), checks' \in Nat, asked' \in [Clients -> BOOLEAN],
           NEW C, Closing(C, c),
           UNCHANGED <<event, accepts, player, client, ver, changeVars>>
    PROVE  IInv'
<1>1. /\ TypeOK /\ Fresh /\ Mine /\ InTime /\ NoTasks /\ OneInWorld /\ DeadKeeps /\ NothingLost
      /\ unique \in Clients \cup {None} /\ r.unique \in {unique, None}
      /\ deathTime' \in [Clients -> 0 .. KickAfter + 1]
      /\ where \in [Clients -> {"none", "unplaced", "world", "dead", "removed"}]
      /\ low \in SUBSET Clients
  BY DEF IInv, TypeOK, Verdict
<1>2. /\ conn' \in [Clients -> {"none", "up", "late", "closed", "gone"}]
      /\ release' \in [Clients -> {"no", "posted", "done"}]
      /\ \A d \in Clients :
            /\ conn'[d] = "none" <=> conn[d] = "none"
            /\ conn'[d] \in {"up", "late", "closed"} => conn[d] \in {"up", "late", "closed"}
            /\ release'[d] = "posted" => release[d] = "posted" \/ conn[d] = "up"
  BY <1>1, ClosingKeeps
<1>3. /\ where' = [where EXCEPT ![p] = "removed"] /\ mapped' = None
      /\ where[p] = "world" => SavePlayerFrom(p, low)
      /\ where[p] # "world" => UNCHANGED saveVars
  BY DEF SpawnFails, SavePlayer
<1>4. /\ async' = async /\ NoTasks' /\ {row', stamp', clock'} \subseteq Nat /\ low' \subseteq Clients
      /\ tasks' \subseteq [obj : Clients, at : Nat, phase : {"posted", "tested", "saving"}, state : Nat]
      /\ async \/ row' = (IF where[p] = "world" THEN ver[p] ELSE row)
  <2>1. CASE where[p] = "world"
    BY <1>1, <1>3, <2>1, SavePlayerKeeps
  <2>2. CASE where[p] # "world"
    BY <1>1, <1>3, <2>2 DEF saveVars, TypeOK, NoTasks
  <2>. QED
    BY <2>1, <2>2
<1>5. /\ where' \in [Clients -> {"none", "unplaced", "world", "dead", "removed"}]
      /\ where'[p] = "removed" /\ \A o \in Clients : o # p => where'[o] = where[o]
      /\ unique' \in {r.unique, None} /\ unique' \in Clients \cup {None} /\ struck' \in BOOLEAN
      /\ struck => struck'
  BY <1>1, <1>3 DEF Verdict
<1>6. TypeOK'
  BY <1>1, <1>2, <1>3, <1>4, <1>5 DEF TypeOK, changeVars
<1>7. Fresh'
  <2>1. \A d \in Clients : deathTime'[d] = deathTime[d] \/ d = unique
    BY DEF Verdict
  <2>. QED
    BY <1>1, <1>2, <1>5, <2>1, SessionAssumption DEF Fresh
<1>8. Mine' /\ InTime'
  BY <1>1, <1>5 DEF Mine, InTime, Verdict
<1>9. ASSUME ~struck' PROVE /\ \A o \in Clients : where'[o] # "world"
                            /\ \A o \in Clients : where[o] = "world" => o = p
  BY <1>5, <1>9
<1>10. OneInWorld'
  BY <1>9 DEF OneInWorld
<1>11. \A d \in Clients : Held(d)' => Held(d)
  BY <1>2 DEF Held
<1>12. DeadKeeps'
  <2> SUFFICES ASSUME ~async, ~struck', ~crossed, NEW o \in Clients,
                      where'[o] = "dead", unique' = o, Kept(o)'
               PROVE  ver[o] = made
    BY <1>4 DEF DeadKeeps, changeVars
  <2>1. Kept(o)
    BY <1>1, <1>11, KeptStays
  <2>2. where[o] = "dead" /\ unique = o /\ ~struck
    BY <1>1, <1>5, SessionAssumption
  <2>. QED
    BY <1>1, <2>1, <2>2 DEF DeadKeeps
<1>13. NothingLost'
  <2> SUFFICES ASSUME ~async, ~struck', ~crossed PROVE row' = made
    BY <1>4, <1>9 DEF NothingLost, changeVars
  <2>1. CASE where[p] = "world"
    BY <1>1, <1>4, <1>5, <2>1 DEF NothingLost
  <2>2. CASE where[p] # "world"
    BY <1>1, <1>4, <1>5, <1>9, <2>2 DEF NothingLost
  <2>. QED
    BY <2>1, <2>2
<1>. QED
  BY <1>4, <1>6, <1>7, <1>8, <1>10, <1>12, <1>13 DEF IInv

(* A packet from the death screen keeps IInv.                              *)
LEMMA ParsePacketDeadStep ==
    ASSUME IInv, NEW c \in Clients, conn[c] \in {"up", "late"}, OnDeathScreen(c),
           ParsePacketDead(c), UNCHANGED <<event, accepts, player>>
    PROVE  IInv'
<1> DEFINE r == IF asked[c] THEN Unchecked ELSE Checked
           p == player[c]
           InWorld == {o \in Clients : where[o] = "world"}
<1>1. /\ checks' = checks + r.again /\ deathTime' = r.time
      /\ UNCHANGED <<client, ver, changeVars>>
      /\ \/ /\ unique' \in {r.unique, None} /\ Closing(r.closed \cup {c}, c)
            /\ asked' = [asked EXCEPT ![c] = TRUE]
            /\ struck' = (r.struck \/ (unique' = None /\ InWorld # {}))
            /\ UNCHANGED <<where, mapped, saveVars>>
         \/ /\ unique' = r.unique /\ Closing(r.closed, c)
            /\ asked' = [asked EXCEPT ![c] = FALSE]
            /\ struck' = (r.struck \/ r.unique # p)
            /\ Spawn(p)
         \/ /\ unique' = (IF p \in InWorld THEN None ELSE r.unique)
            /\ Closing(r.closed \cup {c}, c)
            /\ asked' = [asked EXCEPT ![c] = TRUE]
            /\ struck' = (r.struck \/ InWorld \ {p} # {})
            /\ SpawnFails(p)
         \/ /\ unique' = r.unique /\ Closing(r.closed, c)
            /\ asked' = [asked EXCEPT ![c] = TRUE] /\ struck' = r.struck
            /\ UNCHANGED <<where, mapped, saveVars>>
  BY DEF ParsePacketDead
<1>2. Verdict(r) /\ checks \in Nat /\ asked \in [Clients -> BOOLEAN]
  BY CheckedIsVerdict DEF IInv, TypeOK
<1>3. p \in Clients /\ where[p] \in {"dead", "world"}
  BY DEF OnDeathScreen, Standing, IInv, TypeOK
<1> HIDE DEF r, p
<1>4. checks' \in Nat /\ r.struck \in BOOLEAN
  BY <1>1, <1>2 DEF Verdict
<1>5. asked' \in [Clients -> BOOLEAN]
  BY <1>1, <1>2
<1>6. CASE /\ unique' \in {r.unique, None} /\ Closing(r.closed \cup {c}, c)
           /\ struck' = (r.struck \/ (unique' = None /\ InWorld # {}))
           /\ UNCHANGED <<where, mapped, saveVars>>
  <2>1. /\ struck' \in BOOLEAN /\ (r.struck => struck')
        /\ struck' \/ unique' = r.unique \/ \A o \in Clients : where[o] # "world"
    BY <1>4, <1>6
  <2>. QED
    BY <1>1, <1>2, <1>4, <1>5, <1>6, <2>1, VerdictStep DEF playerVars
<1>7. CASE /\ unique' = r.unique /\ Closing(r.closed, c)
           /\ struck' = (r.struck \/ r.unique # p)
           /\ Spawn(p)
  <2>1. where' = [where EXCEPT ![p] = "world"] /\ mapped' = p /\ UNCHANGED saveVars
    BY <1>7 DEF Spawn
  <2>. QED
    BY <1>1, <1>2, <1>3, <1>4, <1>5, <1>7, <2>1, RespawnStep DEF p
<1>8. CASE /\ unique' = (IF p \in InWorld THEN None ELSE r.unique)
           /\ Closing(r.closed \cup {c}, c)
           /\ struck' = (r.struck \/ InWorld \ {p} # {})
           /\ SpawnFails(p)
  <2>1. unique' = (IF where[p] = "world" THEN None ELSE r.unique)
    BY <1>3, <1>8
  <2>2. struck' = (r.struck \/ \E o \in Clients \ {p} : where[o] = "world")
    BY <1>4, <1>8
  <2>. QED
    BY <1>1, <1>2, <1>3, <1>4, <1>5, <1>8, <2>1, <2>2, SpawnFailsStep
<1>9. CASE /\ unique' = r.unique /\ Closing(r.closed, c) /\ struck' = r.struck
           /\ UNCHANGED <<where, mapped, saveVars>>
  BY <1>1, <1>2, <1>4, <1>5, <1>9, VerdictStep DEF playerVars
<1>. QED
  BY <1>1, <1>6, <1>7, <1>8, <1>9

(* Every packet keeps IInv.                                                *)
LEMMA ParsePacketStep == ASSUME IInv, NEW c \in Clients, ParsePacket(c) PROVE IInv'
<1>1. conn[c] \in {"up", "late"} /\ UNCHANGED <<event, accepts, player>>
  BY DEF ParsePacket
<1>2. CASE OnDeathScreen(c) /\ ParsePacketDead(c)
  BY <1>1, <1>2, ParsePacketDeadStep
<1>3. CASE Logout(c)
  BY <1>1, <1>3, LogoutStep
<1>4. CASE Act(c)
  BY <1>1, <1>4, ActStep
<1>. QED
  BY <1>2, <1>3, <1>4 DEF ParsePacket

---------------------------------------------------------------------------
(* IInv holds at first.                                                    *)
LEMMA InitIInv == Init => IInv
<1> SUFFICES ASSUME Init PROVE IInv
  OBVIOUS
<1>1. KickAfter \in Nat /\ None \notin Clients
  BY SessionAssumption
<1>2. TypeOK
  <2>1. 0 \in 0 .. KickAfter + 1 /\ deathTime \in [Clients -> 0 .. KickAfter + 1]
    BY <1>1 DEF Init
  <2>2. {checks, deaths, row, made, stamp, clock} \subseteq Nat /\ {async, struck, crossed} \subseteq BOOLEAN
    <3>1. checks = 0 /\ row = 0 /\ made = 0 /\ stamp = 0 /\ clock = 0 /\ deaths = 0 /\ 0 \in Nat
      BY DEF Init
    <3>2. struck = FALSE /\ crossed = FALSE /\ async \in BOOLEAN
      BY DEF Init
    <3>3. {async, struck, crossed} \subseteq BOOLEAN
      BY <3>2
    <3>. QED
      BY <3>1, <3>3
  <2>. QED
    BY <1>1, <2>1, <2>2 DEF Init, TypeOK
<1>3. Fresh /\ Mine /\ InTime /\ NoTasks
  BY <1>1 DEF Init, Fresh, Mine, InTime, NoTasks
<1>4. OneInWorld /\ DeadKeeps /\ NothingLost
  BY <1>1 DEF Init, OneInWorld, DeadKeeps, NothingLost
<1>. QED
  BY <1>2, <1>3, <1>4 DEF IInv

(* Every step keeps IInv.                                                  *)
LEMMA StepIInv == IInv /\ [Next]_vars => IInv'
<1> SUFFICES ASSUME IInv, [Next]_vars PROVE IInv'
  OBVIOUS
<1>1. CASE UNCHANGED vars
  <2>1. UNCHANGED <<conn, release, event, accepts, asked, player, where, client, ver, unique, mapped,
                    deathTime, checks, struck, row, async, stamp, clock, tasks, low, made, deaths, crossed>>
    BY <1>1 DEF vars, protocolVars, playerVars, gameVars, saveVars, changeVars
  <2>2. TypeOK' /\ Fresh' /\ Mine' /\ InTime' /\ NoTasks'
    BY <2>1 DEF IInv, TypeOK, Fresh, Mine, InTime, NoTasks
  <2>3. OneInWorld' /\ NothingLost'
    BY <2>1 DEF IInv, OneInWorld, NothingLost
  <2>4. DeadKeeps'
    BY <2>1 DEF IInv, DeadKeeps, Kept, Held
  <2>. QED
    BY <2>2, <2>3, <2>4 DEF IInv
<1>2. ASSUME NEW c \in Clients, Network(c) \/ Dispatcher(c) PROVE IInv'
  BY <1>2, NetworkStep, ReleaseStep, LoginNewStep, LoginAgainStep, ConnectStep, ParsePacketStep
     DEF Dispatcher
<1>3. ASSUME NEW o \in Clients, Hurt(o) \/ Heal(o) \/ CheckCreature(o) \/ Kick(o) \/ Save(o)
      PROVE  IInv'
  BY <1>3, HealthStep, WorldStep
<1>4. CASE ExecuteDeath \/ Check \/ OfflineCopy \/ PoolThread
  BY <1>4, ExecuteDeathStep, CheckStep, OfflineCopyStep, PoolStep
<1>. QED
  BY <1>1, <1>2, <1>3, <1>4 DEF Next

(* The inductive invariant.                                                *)
THEOREM Invariant == Spec => []IInv
BY InitIInv, StepIInv, PTL DEF Spec

(* The variables keep their types.                                         *)
THEOREM TypeCorrect == Spec => []TypeOK
<1>1. IInv => TypeOK
  BY DEF IInv
<1>. QED
  BY <1>1, Invariant, PTL

(* However many clients log in to a character, it is in the world once,    *)
(* under both names, unless it lost its name while it was there: to the    *)
(* check of the death screen, to its client's packet between health 0 and  *)
(* executeDeath, or to the last packet of a Player struck before.          *)
THEOREM InWorldOnce == Spec => []OneInWorld
<1>1. IInv => OneInWorld
  BY DEF IInv
<1>. QED
  BY <1>1, Invariant, PTL

(* The client of a Player in the world is a protocol that has that Player. *)
THEOREM ClientKnows == Spec => []ClientHasPlayer
<1>1. IInv => ClientHasPlayer
  BY DEF IInv, Mine, ClientHasPlayer
<1>. QED
  BY <1>1, Invariant, PTL

(* Synchronous saves lose nothing of a character that neither lost its     *)
(* name in the world, in any of those ways, nor was changed in a copy      *)
(* while on the death screen.                                              *)
THEOREM NothingIsLost == Spec => []NothingLost
<1>1. IInv => NothingLost
  BY DEF IInv
<1>. QED
  BY <1>1, Invariant, PTL

=============================================================================
