--------------------------------- MODULE Network ---------------------------------
(***************************************************************************)
(* The connections of the game port with the threads that work on them:    *)
(* the network thread, which runs the handlers of all sockets one after    *)
(* another, the dispatcher, and the clients at the other end; and the list *)
(* of protocols whose output buffers are sent every 10 ms                  *)
(* (src/src/server/network/message/outputmessage.cpp).                     *)
(***************************************************************************)
EXTENDS Connection, FiniteSets, SequencesExt

CONSTANTS
    Conns,      \* connections of different characters
    Strangers,  \* others, of which only what concerns the former is modelled
    MaxData,    \* bound of the model: items written to each client
    MaxPackets, \* bound of the model: reads that end well on each connection
    MaxChains   \* bound of the model: events sendAll when a stranger joins

ASSUME NetworkAssumption ==
    /\ Conns \cap Strangers = {}
    /\ MaxData \in [Conns -> Nat]
    /\ MaxPackets \in [Conns -> Nat]

VARIABLES
    con,        \* the members of each connection and its protocol
    packets,    \* packets each client has sent
    buffered,   \* bufferedProtocols
    chains      \* pending events sendAll

vars == <<con, packets, buffered, chains>>

Init ==
    /\ con = [c \in Conns |-> New]
    /\ packets = [c \in Conns |-> 0]
    /\ buffered = <<>> /\ chains = 0

Becomes(c, r) == con' = [con EXCEPT ![c] = r]
Pool == <<buffered, chains>>

---------------------------------------------------------------------------
(* The clients.                                                            *)

Connect(c) ==
    /\ con[c].state = "unborn"
    /\ Becomes(c, Accept(con[c]))
    /\ UNCHANGED <<packets, Pool>>

---------------------------------------------------------------------------
(* The network thread: it is in one handler at a time, and the handler     *)
(* that encodes a message has let go of the lock.                          *)

NetworkFree == \A c \in Conns : con[c].encoding = NoMsg
Broken(r) == r.shut \/ r.peer = "gone"
Lost(r) == IF r.shut THEN r ELSE [r EXCEPT !.peer = "gone"]

ReadDone(c) ==
    /\ NetworkFree
    /\ con[c].reads > 0 /\ ~Broken(con[c]) /\ packets[c] < MaxPackets[c]
    /\ packets' = [packets EXCEPT ![c] = @ + 1]
    /\ \E r \in OnRead(con[c]) : Becomes(c, r)
    /\ UNCHANGED Pool

(* The same character logs in on a stranger's connection, whose first      *)
(* packet disconnects this client (onRecvFirstMessage).                    *)
Superseded(c) ==
    /\ NetworkFree
    /\ con[c].next = "done" /\ Strangers # {}
    /\ Becomes(c, DisconnectClient(con[c]))
    /\ UNCHANGED <<packets, Pool>>

(* A read or a write fails once the socket is shut, or as the client is    *)
(* gone.                                                                   *)
ReadFails(c) ==
    /\ NetworkFree
    /\ con[c].reads > 0
    /\ Becomes(c, Lost(OnReadError(con[c])))
    /\ UNCHANGED <<packets, Pool>>

Worker(c) ==
    /\ NetworkFree
    /\ con[c].worker > 0
    /\ Becomes(c, InternalWorker(con[c]))
    /\ UNCHANGED <<packets, Pool>>

Encoded(c) ==
    /\ con[c].encoding # NoMsg
    /\ Becomes(c, OnSendMessage(con[c]))
    /\ UNCHANGED <<packets, Pool>>

WriteDone(c) ==
    /\ NetworkFree
    /\ con[c].writing # NoMsg /\ ~Broken(con[c])
    /\ Becomes(c, OnWriteOperation(con[c]))
    /\ UNCHANGED <<packets, Pool>>

WriteFails(c) ==
    /\ NetworkFree
    /\ con[c].writing # NoMsg
    /\ Becomes(c, Lost(OnWriteError(con[c])))
    /\ UNCHANGED <<packets, Pool>>

(* handleTimeout: 30 s for a read, a packet in the dispatcher or a write.  *)
(* On a connection that is closed already it has no effect.                *)
Timeout(c) ==
    /\ NetworkFree
    /\ Open(con[c])
    /\ con[c].writing # NoMsg \/ con[c].reads + con[c].parses > 0
    /\ Becomes(c, Close(con[c], TRUE))
    /\ UNCHANGED <<packets, Pool>>

---------------------------------------------------------------------------
(* The dispatcher.                                                         *)

(* Events posted by the network thread come in their order: the greeting,  *)
(* the login, a packet, the release.  The greeting and the release are     *)
(* posted for 30 s: when their turn comes later they are discarded.        *)
Greet(c) ==
    /\ con[c].greet
    /\ LET r == [con[c] EXCEPT !.greet = FALSE]
       IN  Becomes(c, Send(r, Notice)) \/ Becomes(c, r)
    /\ UNCHANGED <<packets, Pool>>

(* Bug: the first protocol of the list does not start the periodic event.  *)
AddWithoutSchedule(c) ==
    /\ buffered' = Append(buffered, c)
    /\ UNCHANGED chains

AddProtocolToAutosend(c) ==
    /\ chains' = IF buffered = <<>> THEN chains + 1 ELSE chains
    /\ buffered' = Append(buffered, c)

(* Bug: the last protocol of the list is removed, whichever it is.         *)
RemoveLast(c) ==
    /\ buffered' = IF buffered = <<>> THEN buffered ELSE Front(buffered)
    /\ UNCHANGED chains

(* The last protocol of the list takes the place of the removed one.       *)
RemoveProtocolFromAutosend(c) ==
    /\ buffered' =
          LET at == {i \in DOMAIN buffered : buffered[i] = c}
              n == Len(buffered)
          IN  IF at = {} THEN buffered
              ELSE SubSeq([buffered EXCEPT ![CHOOSE i \in at : \A j \in at : i <= j] = buffered[n]],
                          1, n - 1)
    /\ UNCHANGED chains

Login(c) ==
    /\ con[c].next = "login" /\ ~con[c].greet
    /\ LET r == [con[c] EXCEPT !.next = "done"]
       IN  \/ Becomes(c, r) /\ AddProtocolToAutosend(c)
           \/ Becomes(c, DisconnectClient(r)) /\ UNCHANGED Pool
    /\ UNCHANGED packets

DisconnectLater(c) ==
    /\ con[c].next = "disconnect"
    /\ Becomes(c, Close([con[c] EXCEPT !.next = "done"], FALSE))
    /\ UNCHANGED <<packets, Pool>>

(* A packet is parsed, and the client may be disconnected for it, with a   *)
(* notice or without; then the next one is read.                           *)
Parse(c) ==
    /\ con[c].parses > 0 /\ con[c].next # "login"
    /\ LET r == [con[c] EXCEPT !.parses = @ - 1]
       IN  IF ~Alive(con[c]) THEN Becomes(c, r)
           ELSE \E s \in {r, DisconnectClient(r), Close(r, FALSE)} : Becomes(c, ResumeWork(s))
    /\ UNCHANGED <<packets, Pool>>

(* The game has something for a client that is logged in.                  *)
Write(c) ==
    /\ con[c].next = "done" /\ con[c].release # "done"
    /\ con[c].data < MaxData[c]
    /\ Becomes(c, WriteToOutputBuffer(con[c]))
    /\ UNCHANGED <<packets, Pool>>

SendAll ==
    /\ chains > 0
    /\ con' = [c \in Conns |-> IF c \in Range(buffered) THEN Flush(con[c]) ELSE con[c]]
    /\ chains' = IF buffered = <<>> THEN chains - 1 ELSE chains
    /\ UNCHANGED <<packets, buffered>>

Release(c) ==
    /\ con[c].release = "posted" /\ ~con[c].greet /\ con[c].next # "login"
    /\ \/ /\ Becomes(c, [con[c] EXCEPT !.release = "done"])
          /\ RemoveProtocolFromAutosend(c)
       \/ /\ Becomes(c, [con[c] EXCEPT !.release = "discarded"])
          /\ UNCHANGED Pool
    /\ UNCHANGED packets

(* A stranger's protocol joins and leaves the list.                        *)
StrangerLogin(s) ==
    /\ s \notin Range(buffered) /\ chains < MaxChains
    /\ AddProtocolToAutosend(s)
    /\ UNCHANGED <<con, packets>>

StrangerRelease(s) ==
    /\ s \in Range(buffered)
    /\ RemoveProtocolFromAutosend(s)
    /\ UNCHANGED <<con, packets>>

---------------------------------------------------------------------------
NetworkThread(c) ==
    ReadDone(c) \/ ReadFails(c) \/ Superseded(c) \/ Worker(c) \/ Encoded(c) \/ WriteDone(c) \/ WriteFails(c) \/ Timeout(c)

DispatcherEvent(c) ==
    Greet(c) \/ Login(c) \/ DisconnectLater(c) \/ Parse(c) \/ Release(c)

Next ==
    \/ SendAll
    \/ \E s \in Strangers : StrangerLogin(s) \/ StrangerRelease(s)
    \/ \E c \in Conns :
          Connect(c) \/ NetworkThread(c) \/ DispatcherEvent(c) \/ Write(c)

Spec == Init /\ [][Next]_vars

(* Threads go on and a timer that was set expires; a client owes nothing.  *)
FairSpec ==
    /\ Spec
    /\ WF_vars(SendAll)
    /\ \A c \in Conns :
          /\ WF_vars(Greet(c)) /\ WF_vars(Login(c)) /\ WF_vars(DisconnectLater(c))
          /\ WF_vars(Parse(c)) /\ WF_vars(Release(c))
          /\ WF_vars(Worker(c)) /\ WF_vars(Encoded(c))
          /\ WF_vars(Broken(con[c]) /\ ReadFails(c))
          /\ WF_vars(Broken(con[c]) /\ WriteFails(c))
          /\ WF_vars(con[c].writing # NoMsg /\ Timeout(c))

---------------------------------------------------------------------------
(* The variables keep their types.                                         *)
TypeOK ==
    /\ con \in [Conns -> Record]
    /\ packets \in [Conns -> Nat]
    /\ buffered \in Seq(Conns \cup Strangers)
    /\ chains \in Nat

(* A connection writes one message at a time: whoever finds the queue      *)
(* empty starts the writer (Connection::send), and no second one runs      *)
(* beside it; and while messages are queued one does run, so that none is  *)
(* left behind, closed or not.                                             *)
OneWriter ==
    \A c \in Conns : InFlight(con[c]) = IF con[c].queue = <<>> THEN 0 ELSE 1

(* The read chain and the dispatcher take turns with the connection's one  *)
(* buffer msg: no read is outstanding while a packet waits there to be     *)
(* parsed, and no second packet waits.                                     *)
OneReader ==
    \A c \in Conns :
        /\ con[c].reads + con[c].parses <= 1
        /\ Open(con[c]) => con[c].reads + con[c].parses = 1

(* The client checks the sequence numbers of the messages it gets: they    *)
(* count from 1 and wrap at 0x7FFFFFFF, with no message left out.          *)
Numbered ==
    \A c \in Conns : \A i \in DOMAIN con[c].numbers :
        con[c].numbers[i] = ((i - 1) % MaxSeqNo) + 1

(* A protocol that was released is not in the list of those whose buffers  *)
(* are sent, where it would stay for ever.                                 *)
ReleasedIsForgotten ==
    \A c \in Conns \cap Range(buffered) : con[c].release # "done"

ChannelOf(c) == INSTANCE Channel WITH
    written <- con[c].data, delivered <- con[c].wire,
    over <- con[c].state # "unborn" /\ ~SocketOpen(con[c])

(* Output buffer, periodic sending, queue and socket together are one      *)
(* channel, whatever closes or breaks meanwhile.                           *)
ImplementsChannel ==
    /\ \A c \in Conns : ChannelOf(c)!Init
    /\ [][\A c \in Conns : [ChannelOf(c)!Next]_(ChannelOf(c)!vars)]_vars

(* A client that does not read is cut off by the write timer: what was     *)
(* written for it gets there, or the connection is closed.                 *)
WrittenArrivesOrCloses ==
    \A c \in Conns : \A k \in 1 .. MaxData[c] :
        con[c].data >= k /\ con[c].next = "done" ~> Len(con[c].wire) >= k \/ Closed(con[c])

(* Once closed, a connection whose writes end, one way or the other, lets  *)
(* its socket go, however much is queued and whoever closed it.            *)
ClosedLetsGo ==
    \A c \in Conns :
        []<>(con[c].writing = NoMsg) => (Closed(con[c]) ~> ~SocketOpen(con[c]))

=============================================================================
