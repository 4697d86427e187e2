--------------------------------- MODULE Session ---------------------------------
(***************************************************************************)
(* The life of one character between its clients (src/src/server/network/  *)
(* protocol/protocolgame.cpp), the world (src/src/game/game.cpp), the      *)
(* death screen (src/src/creatures/players/player.cpp) and the database    *)
(* (src/src/game/scheduling/save_manager.cpp).  Each client has one        *)
(* connection and one ProtocolGame; a ProtocolGame creates at most one     *)
(* Player, so that a Player object is named by the client that created it. *)
(* Everything runs on the dispatcher but the first packet, the loss of     *)
(* connections and, when saving is asynchronous, the saves.                *)
(***************************************************************************)
EXTENDS Naturals, FiniteSets

CONSTANTS
    Clients,
    None,
    KickAfter,  \* checks of the death screen after which a Player is kicked
    AsyncClients, \* bound of the model: those that come when saves are asynchronous
    MaxChanges, \* bound of the model: changes of the character's state
    MaxSaves,   \* bound of the model: saves scheduled for pool threads
    MaxChecks,  \* bound of the model: pending checks of death screens
    MaxDeaths   \* bound of the model: pending events executeDeath

ASSUME SessionAssumption ==
    /\ AsyncClients \subseteq Clients /\ None \notin Clients
    /\ {KickAfter, MaxChanges, MaxSaves, MaxChecks, MaxDeaths} \subseteq Nat

VARIABLES
    conn,       \* of each client: none yet, up, closed (ip = 0), then gone;
                \* late: closed with a packet still waiting for the dispatcher
    release,    \* its event Protocol::release
    event,      \* its pending event login or connect (eventConnect)
    accepts,    \* acceptPackets
    asked,      \* m_playerDeathTime # 0
    player,     \* the protocol's Player
    where,      \* of each Player object: its place in the world
    client,     \* its client
    ver,        \* the changes its state holds
    deathTime,  \* m_deathTime: its checks so far
    unique,     \* m_uniqueLoginPlayerNames of the name, a weak pointer
    mapped,     \* mappedPlayerNames of the name, and players of the id
    checks,     \* pending events playerCheckActivity
    row,        \* the changes the database holds
    made,       \* the changes made to the character so far
    async,      \* toggleSaveAsync
    stamp,      \* m_playerMap of the character: when a save was scheduled last
    clock,      \* scheduling times given out
    tasks,      \* saves that wait for a pool thread or are past their test
    low,        \* the Players whose health is 0
    deaths,     \* pending events executeDeath of the character's id
    struck,     \* a character in the world lost its name (see OneInWorld)
    crossed     \* an offline copy was changed while a Player object lived

protocolVars == <<conn, release, event, accepts, asked, player>>
playerVars == <<where, client, ver>>
gameVars == <<unique, mapped, deathTime, checks, struck>>
saveVars == <<row, async, stamp, clock, tasks, low>>
changeVars == <<made, deaths, crossed>>
vars == <<protocolVars, playerVars, gameVars, saveVars, changeVars>>

Init ==
    /\ conn = [c \in Clients |-> "none"] /\ release = [c \in Clients |-> "no"]
    /\ event = [c \in Clients |-> "none"]
    /\ accepts = [c \in Clients |-> FALSE] /\ asked = [c \in Clients |-> FALSE]
    /\ player = [c \in Clients |-> None]
    /\ where = [o \in Clients |-> "none"] /\ client = [o \in Clients |-> None]
    /\ ver = [o \in Clients |-> 0]
    /\ deathTime = [o \in Clients |-> 0]
    /\ unique = None /\ mapped = None /\ checks = 0 /\ struck = FALSE
    /\ row = 0 /\ async \in BOOLEAN /\ stamp = 0 /\ clock = 0 /\ tasks = {}
    /\ low = {} /\ deaths = 0 /\ made = 0 /\ crossed = FALSE

---------------------------------------------------------------------------
(* Shared pointers: the connection, its events and the client of a Player  *)
(* keep a protocol, and a protocol keeps its Player.                       *)
Held(c) == conn[c] \in {"up", "late", "closed"} \/ release[c] = "posted" \/ event[c] # "none"

Alive(o) ==
    \/ where[o] = "world"
    \/ \E c \in Clients : player[c] = o /\ (Held(c) \/ client[o] = c)
    \/ \E t \in tasks : t.obj = o /\ t.phase # "posted"

(* getPlayerUniqueLogin: the lock of the weak pointer.                     *)
Found == IF unique # None /\ Alive(unique) THEN unique ELSE None

(* disconnect: closing the connections of C that are up, in the handler of *)
(* a packet of c (None elsewhere), which is consumed.  Another client may  *)
(* then have a packet before the dispatcher.                               *)
Closing(C, c) ==
    LET open == {d \in C : conn[d] = "up"}
    IN  /\ \E late \in SUBSET {d \in open \ {c} : accepts[d]} :
              conn' = [d \in Clients |-> IF d \in late THEN "late"
                         ELSE IF d \in open \/ (d = c /\ conn[d] = "late") THEN "closed"
                         ELSE conn[d]]
        /\ release' = [d \in Clients |-> IF d \in open THEN "posted" ELSE release[d]]

ClientOf(o) == IF client[o] = None THEN {} ELSE {client[o]}

---------------------------------------------------------------------------
(* SaveManager.                                                            *)

(* savePlayer of a Player, on the dispatcher: at once, or scheduled for a  *)
(* pool thread with the time of scheduling as its mark.  A Player of       *)
(* health 0 that is written out gets health 1 first (savePlayerFirst).     *)
SavePlayerFrom(o, zero) ==
    IF async
    THEN /\ clock < MaxSaves
         /\ clock' = clock + 1 /\ stamp' = clock + 1
         /\ tasks' = tasks \cup {[obj |-> o, at |-> clock + 1, phase |-> "posted", state |-> 0]}
         /\ low' = zero
         /\ UNCHANGED <<row, async>>
    ELSE /\ row' = ver[o] /\ stamp' = 0 /\ low' = zero \ {o}
         /\ UNCHANGED <<async, clock, tasks>>

SavePlayer(o) == SavePlayerFrom(o, low)

Advance(t, u) == tasks' = (tasks \ {t}) \cup {u}

(* The task of schedulePlayer: it ends if the Player is gone or a later    *)
(* save was scheduled (or a save has erased the mark).                     *)
TestTask(t) ==
    /\ t.phase = "posted"
    /\ IF Alive(t.obj) /\ stamp = t.at
       THEN Advance(t, [t EXCEPT !.phase = "tested"])
       ELSE tasks' = tasks \ {t}
    /\ UNCHANGED <<row, async, stamp, clock, low>>

(* doSavePlayer: under the lock of the Player its mark is erased and its   *)
(* state read, then written.                                               *)
BeginSave(t) ==
    /\ t.phase = "tested"
    /\ ~ \E u \in tasks : u.obj = t.obj /\ u.phase = "saving"
    /\ Advance(t, [t EXCEPT !.phase = "saving", !.state = ver[t.obj]])
    /\ stamp' = 0 /\ low' = low \ {t.obj}
    /\ UNCHANGED <<row, async, clock>>

(* Bug: the mark is erased once more when the save is over.                *)
EndSaveErasingMark(t) ==
    /\ t.phase = "saving"
    /\ tasks' = tasks \ {t} /\ row' = t.state /\ stamp' = 0
    /\ UNCHANGED <<async, clock, low>>

EndSave(t) ==
    /\ t.phase = "saving"
    /\ tasks' = tasks \ {t} /\ row' = t.state
    /\ UNCHANGED <<async, stamp, clock, low>>

PoolThread ==
    /\ \E t \in tasks : TestTask(t) \/ BeginSave(t) \/ EndSave(t)
    /\ UNCHANGED <<protocolVars, playerVars, gameVars, changeVars>>

---------------------------------------------------------------------------
(* The network thread.                                                     *)

(* onRecvFirstMessage: the character's present client is disconnected and  *)
(* the login posted (a client turned away here is one that never comes).   *)
FirstPacket(c) ==
    /\ conn[c] = "none" /\ (async => c \in AsyncClients)
    /\ LET others == IF Found = None THEN {} ELSE ClientOf(Found)
           open == {d \in others : conn[d] = "up"}
       IN  /\ conn' = [d \in Clients |->
                    IF d = c THEN "up" ELSE IF d \in open THEN "closed" ELSE conn[d]]
           /\ release' = [d \in Clients |-> IF d \in open THEN "posted" ELSE release[d]]
    /\ event' = [event EXCEPT ![c] = "login"]
    /\ UNCHANGED <<accepts, asked, player, playerVars, gameVars, saveVars, changeVars>>

(* The client leaves, or a timer closes its connection.                    *)
Leave(c) ==
    /\ conn[c] = "up"
    /\ Closing({c}, None)
    /\ UNCHANGED <<event, accepts, asked, player, playerVars, gameVars, saveVars, changeVars>>

(* The last handler of a closed connection has ended.                      *)
Expire(c) ==
    /\ conn[c] \in {"late", "closed"}
    /\ conn' = [conn EXCEPT ![c] = "gone"]
    /\ UNCHANGED <<release, event, accepts, asked, player, playerVars, gameVars, saveVars, changeVars>>

---------------------------------------------------------------------------
(* The dispatcher: login and connect.                                      *)

(* Bug: a client that was disconnected keeps the protocol of its Player.   *)
ReleaseForgettingClient(c) ==
    /\ release[c] = "posted" /\ event[c] # "login"
    /\ release' = [release EXCEPT ![c] = "done"]
    /\ player' = [player EXCEPT ![c] = None]
    /\ UNCHANGED <<conn, event, accepts, asked, playerVars, gameVars, saveVars, changeVars>>

(* ProtocolGame::release.  An event that the dispatcher discards, after    *)
(* 30 s, is here one that waits for ever.                                  *)
Release(c) ==
    /\ release[c] = "posted" /\ event[c] # "login"
    /\ release' = [release EXCEPT ![c] = "done"]
    /\ IF player[c] # None /\ client[player[c]] = c
       THEN /\ client' = [client EXCEPT ![player[c]] = None]
            /\ player' = [player EXCEPT ![c] = None]
       ELSE UNCHANGED <<client, player>>
    /\ UNCHANGED <<conn, event, accepts, asked, where, ver, gameVars, saveVars, changeVars>>

(* login of a character that is not found: a Player is created, which is   *)
(* turned away or loaded and placed.                                       *)
LoginNew(c) ==
    /\ event[c] = "login" /\ Found = None
    /\ event' = [event EXCEPT ![c] = "none"]
    /\ player' = [player EXCEPT ![c] = c]
    /\ client' = [client EXCEPT ![c] = c]
    /\ \/ /\ where' = [where EXCEPT ![c] = "unplaced"]
          /\ unique' = None
          /\ Closing({c}, None)
          /\ UNCHANGED <<accepts, ver, mapped>>
       \/ /\ where' = [where EXCEPT ![c] = "world"]
          /\ unique' = c /\ mapped' = c
          /\ ver' = [ver EXCEPT ![c] = row]
          /\ accepts' = [accepts EXCEPT ![c] = TRUE]
          /\ UNCHANGED <<conn, release>>
    /\ UNCHANGED <<asked, deathTime, checks, struck, saveVars, changeVars>>

(* connect: take over the Player that has the name now, if any.            *)
TakeOver(c) ==
    IF Found = None
    THEN /\ Closing({c}, None)
         /\ UNCHANGED <<player, accepts, client, unique>>
    ELSE IF conn[c] = "gone"
    THEN UNCHANGED <<conn, release, player, accepts, client, unique>>
    ELSE /\ player' = [player EXCEPT ![c] = Found]
         /\ client' = [client EXCEPT ![Found] = c]
         /\ accepts' = [accepts EXCEPT ![c] = TRUE]
         /\ unique' = Found
         /\ UNCHANGED <<conn, release>>

(* login of a character that is found: with replaceKickOnLogin its client  *)
(* is disconnected, and the new one connected a second later.              *)
LoginAgain(c) ==
    /\ event[c] = "login" /\ Found # None
    /\ \/ /\ event' = [event EXCEPT ![c] = "none"]
          /\ Closing({c}, None)
          /\ UNCHANGED <<player, accepts, client, unique>>
       \/ /\ client[Found] # None
          /\ event' = [event EXCEPT ![c] = "connect"]
          /\ Closing(ClientOf(Found), None)
          /\ UNCHANGED <<player, accepts, client, unique>>
       \/ /\ client[Found] = None
          /\ event' = [event EXCEPT ![c] = "none"]
          /\ TakeOver(c)
    /\ UNCHANGED <<asked, where, ver, mapped, deathTime, checks, struck, saveVars, changeVars>>

Connect(c) ==
    /\ event[c] = "connect"
    /\ event' = [event EXCEPT ![c] = "none"]
    /\ TakeOver(c)
    /\ UNCHANGED <<asked, where, ver, mapped, deathTime, checks, struck, saveVars, changeVars>>

---------------------------------------------------------------------------
(* The dispatcher: the world, the death screen and other copies.           *)

(* removeCreature of a Player by a logout.                                 *)
RemoveCreature(o) ==
    /\ where' = [where EXCEPT ![o] = "removed"]
    /\ unique' = None /\ mapped' = None
    /\ SavePlayer(o)

(* What the protocol's Player is, if it has one.                           *)
Standing(c) == IF player[c] = None THEN "removed" ELSE where[player[c]]

(* isDead, or health 0 and executeDeath still to come.                     *)
OnDeathScreen(c) ==
    Standing(c) = "dead" \/ (Standing(c) = "world" /\ player[c] \in low)

(* Bug: the name is free before the logout can be refused.                 *)
LogoutFreeingFirst(c) ==
    /\ unique' = None
    /\ \/ /\ Standing(c) = "world"
          /\ where' = [where EXCEPT ![player[c]] = "removed"]
          /\ mapped' = None /\ SavePlayer(player[c])
          /\ Closing({c}, c)
       \/ Closing({}, c) /\ UNCHANGED <<where, mapped, saveVars>>
    /\ UNCHANGED <<client, ver, deathTime, checks, struck, asked, changeVars>>

(* ProtocolGame::logout, which the tile, a fight or a script may refuse;   *)
(* without a Player, or with a removed one, a packet can only close the    *)
(* client.                                                                 *)
Logout(c) ==
    \/ /\ Standing(c) = "world"
       /\ RemoveCreature(player[c])
       /\ Closing({c}, c)
       /\ UNCHANGED <<client, ver, deathTime, checks, struck, asked, changeVars>>
    \/ /\ Standing(c) = "removed"
       /\ Closing({c}, c)
       /\ UNCHANGED <<asked, playerVars, gameVars, saveVars, changeVars>>
    \/ Closing({}, c) /\ UNCHANGED <<asked, playerVars, gameVars, saveVars, changeVars>>

(* Any other packet: the state of the character changes.                   *)
Act(c) ==
    /\ Standing(c) = "world" /\ made < MaxChanges
    /\ made' = made + 1
    /\ ver' = [ver EXCEPT ![player[c]] = @ + 1]
    /\ Closing({}, c)
    /\ UNCHANGED <<asked, where, client, gameVars, saveVars, deaths, crossed>>

(* playerCheckActivity: the Player found is struck from the login map and  *)
(* its client closed if that client is gone or has been dead too long, all *)
(* its deaths together; while it is dead the check comes again.            *)
Unchecked == [unique |-> unique, struck |-> struck, closed |-> {}, again |-> 0, time |-> deathTime]

Checked ==
    LET o == Found
        Strike == [unique |-> None, struck |-> struck \/ where[o] = "world",
                   closed |-> ClientOf(o), again |-> 0, time |-> deathTime]
        later == [deathTime EXCEPT ![o] = @ + 1]
    IN  IF o = None THEN Unchecked
        ELSE IF client[o] = None \/ conn[client[o]] # "up" THEN Strike
        ELSE IF where[o] # "dead" THEN Unchecked
        ELSE IF deathTime[o] >= KickAfter THEN [Strike EXCEPT !.time = later]
        ELSE [Unchecked EXCEPT !.again = 1, !.time = later]

(* spawn: the Player is placed, or has no place (a temple without a tile)  *)
(* and goes by removeCreature, which saves it and frees its name only if   *)
(* it was still on the map; setDead(false) stays, but it is removed.       *)
Spawn(p) ==
    /\ where' = [where EXCEPT ![p] = "world"] /\ mapped' = p
    /\ UNCHANGED saveVars

SpawnFails(p) ==
    /\ where' = [where EXCEPT ![p] = "removed"] /\ mapped' = None
    /\ IF where[p] = "world" THEN SavePlayer(p) ELSE UNCHANGED saveVars

(* parsePacketDead, after the check that the first packet from the death   *)
(* screen starts: the client leaves (one of another kind, isOTC, is        *)
(* struck at once), respawns, tries to, or keeps the connection alive.     *)
ParsePacketDead(c) ==
    LET r == IF asked[c] THEN Unchecked ELSE Checked
        p == player[c]
        InWorld == {o \in Clients : where[o] = "world"}
    IN  /\ checks + r.again <= MaxChecks
        /\ checks' = checks + r.again /\ deathTime' = r.time
        /\ \/ /\ unique' \in {r.unique, None} /\ Closing(r.closed \cup {c}, c)
              /\ asked' = [asked EXCEPT ![c] = TRUE]
              /\ struck' = (r.struck \/ (unique' = None /\ InWorld # {}))
              /\ UNCHANGED <<where, mapped, saveVars>>
           \/ /\ unique' = r.unique /\ Closing(r.closed, c)
              /\ asked' = [asked EXCEPT ![c] = FALSE]
              /\ struck' = (r.struck \/ r.unique # p)
              /\ Spawn(p)
           \/ /\ unique' = IF p \in InWorld THEN None ELSE r.unique
              /\ Closing(r.closed \cup {c}, c)
              /\ asked' = [asked EXCEPT ![c] = TRUE]
              /\ struck' = (r.struck \/ InWorld \ {p} # {})
              /\ SpawnFails(p)
           \/ /\ unique' = r.unique /\ Closing(r.closed, c)
              /\ asked' = [asked EXCEPT ![c] = TRUE] /\ struck' = r.struck
              /\ UNCHANGED <<where, mapped, saveVars>>
        /\ UNCHANGED <<client, ver, changeVars>>

(* parsePacket of a connection that still exists.                          *)
ParsePacket(c) ==
    /\ accepts[c] /\ conn[c] \in {"up", "late"}
    /\ IF OnDeathScreen(c) THEN ParsePacketDead(c) ELSE Logout(c) \/ Act(c)
    /\ UNCHANGED <<event, accepts, player>>

(* Bug: a check is counted off that is no longer pending.                  *)
CheckAnyTime ==
    /\ Found # None
    /\ LET r == Checked
       IN  /\ unique' = r.unique /\ struck' = r.struck /\ deathTime' = r.time
           /\ Closing(r.closed, None) /\ checks' = checks - 1 + r.again
    /\ UNCHANGED <<event, accepts, asked, player, playerVars, mapped, saveVars, changeVars>>

(* playerCheckActivity as an event of its own.                             *)
Check ==
    /\ checks > 0
    /\ LET r == Checked
       IN  /\ unique' = r.unique /\ struck' = r.struck /\ deathTime' = r.time
           /\ Closing(r.closed, None) /\ checks' = checks - 1 + r.again
    /\ UNCHANGED <<event, accepts, asked, player, playerVars, mapped, saveVars, changeVars>>

(* changeHealth: at health 0 the Player stays in the world until the event *)
(* executeDeath that is posted; meanwhile its health may rise again        *)
(* (regeneration, a level, a save), and the event still comes.             *)
Hurt(o) ==
    /\ where[o] = "world" /\ deaths < MaxDeaths
    /\ low' = low \cup {o} /\ deaths' = deaths + 1
    /\ UNCHANGED <<row, async, stamp, clock, tasks, protocolVars, playerVars, gameVars, made, crossed>>

Heal(o) ==
    /\ where[o] = "world" /\ o \in low
    /\ low' = low \ {o}
    /\ UNCHANGED <<row, async, stamp, clock, tasks, protocolVars, playerVars, gameVars, changeVars>>

(* death, which restores the health, and despawn.                          *)
Die(o) ==
    /\ where' = [where EXCEPT ![o] = "dead"] /\ mapped' = None
    /\ SavePlayerFrom(o, low \ {o})
    /\ UNCHANGED <<client, ver, unique, deathTime, checks, struck, protocolVars, made, crossed>>

(* executeDeath: whoever has the id by now dies, whatever its health.      *)
ExecuteDeath ==
    /\ deaths > 0 /\ deaths' = deaths - 1
    /\ \/ \E o \in Clients : mapped = o /\ where[o] = "world" /\ Die(o)
       \/ /\ \A o \in Clients : mapped = o => where[o] # "world"
          /\ UNCHANGED <<protocolVars, playerVars, gameVars, saveVars, made, crossed>>

(* checkCreatures, which kills whom it finds at health 0.                  *)
CheckCreature(o) ==
    /\ where[o] = "world" /\ o \in low
    /\ Die(o)
    /\ UNCHANGED deaths

(* Removed by the server: idle, or without an answer for 60 s (then not    *)
(* while a client is connecting).                                          *)
Kick(o) ==
    /\ where[o] = "world"
    /\ RemoveCreature(o)
    /\ Closing(ClientOf(o), None)
    /\ UNCHANGED <<event, accepts, asked, player, client, ver, deathTime, checks, struck, changeVars>>

(* A script, the bank, the market or a house saves a character online.     *)
Save(o) ==
    /\ where[o] = "world"
    /\ SavePlayer(o)
    /\ UNCHANGED <<protocolVars, playerVars, gameVars, changeVars>>

(* getPlayerByName with allowOffline: a Player is loaded, changed and      *)
(* saved at once.                                                          *)
ChangeCopy ==
    /\ made < MaxChanges
    /\ made' = made + 1 /\ row' = row + 1 /\ stamp' = 0
    /\ crossed' = (crossed \/ \E o \in Clients : where[o] = "dead" /\ Alive(o))
    /\ UNCHANGED <<async, clock, tasks, low, deaths, protocolVars, playerVars, gameVars>>

(* Bug: the copy is taken whether or not the character is in the world.    *)
OfflineCopyAlways == ChangeCopy

OfflineCopy ==
    /\ mapped \notin {o \in Clients : Alive(o)}
    /\ ChangeCopy

---------------------------------------------------------------------------
Network(c) == FirstPacket(c) \/ Leave(c) \/ Expire(c)

Dispatcher(c) ==
    \/ Release(c)
    \/ LoginNew(c) \/ LoginAgain(c) \/ Connect(c)
    \/ ParsePacket(c)

Next ==
    \/ \E c \in Clients : Network(c) \/ Dispatcher(c)
    \/ \E o \in Clients : Hurt(o) \/ Heal(o) \/ CheckCreature(o) \/ Kick(o) \/ Save(o)
    \/ ExecuteDeath \/ Check \/ OfflineCopy \/ PoolThread

Spec == Init /\ [][Next]_vars

(* Pool threads run every task.                                            *)
FairSpec == Spec /\ WF_vars(PoolThread)

---------------------------------------------------------------------------
TypeOK ==
    /\ conn \in [Clients -> {"none", "up", "late", "closed", "gone"}]
    /\ release \in [Clients -> {"no", "posted", "done"}]
    /\ asked \in [Clients -> BOOLEAN]
    /\ event \in [Clients -> {"none", "login", "connect"}]
    /\ accepts \in [Clients -> BOOLEAN]
    /\ player \in [Clients -> Clients \cup {None}]
    /\ where \in [Clients -> {"none", "unplaced", "world", "dead", "removed"}]
    /\ client \in [Clients -> Clients \cup {None}] /\ ver \in [Clients -> Nat]
    /\ deathTime \in [Clients -> 0 .. KickAfter + 1]
    /\ unique \in Clients \cup {None} /\ mapped \in Clients \cup {None}
    /\ {checks, deaths, row, made, stamp, clock} \subseteq Nat /\ low \subseteq Clients
    /\ {async, struck, crossed} \subseteq BOOLEAN
    /\ tasks \subseteq [obj : Clients, at : Nat, phase : {"posted", "tested", "saving"}, state : Nat]

(* A character is in the world at most once, under both names maps (the    *)
(* next login finds it and takes it over, a transfer finds it and not a    *)
(* copy), unless it lost its name while it was there: to the check of the  *)
(* death screen, which strikes it once its client is gone; to its client's *)
(* packet 0x14 between health 0 and executeDeath; or to the last packet,   *)
(* 0x14 or a respawn, of a Player that was struck before it logged in.     *)
OneInWorld ==
    struck \/ \A o \in Clients : where[o] = "world" => unique = o /\ mapped = o

(* The client of a Player in the world is a protocol that has that Player: *)
(* the shutdown removes players through their clients until none is left,  *)
(* and a client without the Player would make it loop for ever.            *)
ClientHasPlayer ==
    \A o \in Clients : client[o] # None /\ where[o] = "world" => player[client[o]] = o

(* When saves are made at once no change of a character is lost by logout, *)
(* death, kick, relogin and transfers to copies: what is in the world, or  *)
(* else the database, holds every change.  Excepted are a character that   *)
(* lost its name in the world (in any of the ways OneInWorld states)       *)
(* and a copy changed while the character was on the death screen.         *)
NothingLost ==
    async \/ struck \/ crossed \/
        IF \E o \in Clients : where[o] = "world"
        THEN \A o \in Clients : where[o] = "world" => ver[o] = made
        ELSE row = made

(* Asynchronous saves: what a character in the world holds while the mark  *)
(* of its latest save stands, in particular when that save is scheduled,   *)
(* reaches the database, however the save races the ones before and after  *)
(* it, unless one of an earlier Player object of the character is among    *)
(* them: the mark belongs to the character.                                *)
ScheduledIsSaved ==
    \A o \in Clients, v \in 1 .. MaxChanges :
        (/\ where[o] = "world" /\ ver[o] = v
         /\ \E t \in tasks : t.at = stamp /\ t.phase = "posted"
         /\ \A t \in tasks : t.obj = o)
            ~> (row >= v \/ where[o] # "world" \/ struck)

=============================================================================
