-------------------------------- MODULE Connection --------------------------------
(***************************************************************************)
(* One connection of a game client (src/src/server/network/connection/     *)
(* connection.cpp and protocol/protocol.cpp): the read chain, the queue of *)
(* outgoing messages with its single writer, closing, and the output       *)
(* buffer of the protocol on top.  The handlers of the socket run on the   *)
(* network thread (there is one: ServiceManager::run), everything else on  *)
(* the dispatcher.  The module defines what each handler makes of the      *)
(* connection's members, a record; Network has the threads and their steps.*)
(***************************************************************************)
EXTENDS Naturals, Sequences

CONSTANTS
    BufferSize, \* items in an output buffer (MAX_PROTOCOL_BODY_LENGTH)
    MaxSeqNo,   \* the last sequence number (0x7FFFFFFF)
    NoMsg       \* no message

ASSUME ConnectionAssumption ==
    /\ BufferSize \in Nat \ {0} /\ MaxSeqNo \in Nat \ {0}
    /\ NoMsg \notin Seq(Nat)

(* What is sent past the output buffer: the greeting and the farewell.     *)
Notice == <<>>

New == [
    state    |-> "unborn",  \* connectionState
    shut     |-> FALSE,     \* closeSocket was called
    peer     |-> "up",      \* the client's end
    queue    |-> <<>>,      \* messageQueue
    worker   |-> 0,         \* handlers internalWorker that are posted
    encoding |-> NoMsg,     \* the message in onSendMessage, without the lock
    writing  |-> NoMsg,     \* the message of the outstanding async_write
    seqNo    |-> 0,         \* serverSequenceNumber
    wire     |-> <<>>,      \* the items written to the socket
    numbers  |-> <<>>,      \* the sequence numbers given to messages
    reads    |-> 0,         \* outstanding async_reads into msg
    stage    |-> "header",  \* what they read
    parses   |-> 0,         \* parsePacket events, which use msg
    first    |-> FALSE,     \* receivedFirst
    greet    |-> FALSE,     \* the event onConnect is pending
    next     |-> "none",    \* the pending event of onRecvFirstMessage
    release  |-> "none",    \* the event release
    buffer   |-> <<>>,      \* outputBuffer
    data     |-> 0]         \* items written so far

Open(r) == r.state \in {"identifying", "readings", "open"}
Closed(r) == r.state = "closed"

(* Handlers and the manager's set keep the Connection alive; with it goes  *)
(* the socket.                                                             *)
Alive(r) ==
    \/ Open(r)
    \/ Closed(r) /\ (r.worker + r.reads > 0 \/ r.encoding # NoMsg \/ r.writing # NoMsg)
SocketOpen(r) == Alive(r) /\ ~r.shut

---------------------------------------------------------------------------
(* Bug: the socket stays open once closing had to wait for the queue.      *)
DrainedLeavingOpen(r) == r

CloseSocketIfDrained(r) == IF Closed(r) THEN [r EXCEPT !.shut = TRUE] ELSE r

Close(r, force) ==
    IF Closed(r) THEN r
    ELSE [r EXCEPT !.state = "closed",
                   !.release = "posted",
                   !.shut = (r.queue = <<>> \/ force)]

(* Bug: the test for a pending write counts the new message.               *)
SendAlways(r, m) ==
    IF ~Open(r) THEN r
    ELSE [r EXCEPT !.queue = Append(@, m), !.worker = @ + 1]

Send(r, m) ==
    IF ~Open(r) THEN r
    ELSE [r EXCEPT !.queue = Append(@, m),
                   !.worker = IF r.queue = <<>> THEN @ + 1 ELSE @]

(* Write the front of the queue: the lock is released for onSendMessage.   *)
TakeFront(r) == [r EXCEPT !.encoding = Head(r.queue)]

InternalWorker(r) ==
    LET s == [r EXCEPT !.worker = @ - 1]
    IN  IF r.queue = <<>> THEN CloseSocketIfDrained(s) ELSE TakeFront(s)

(* Bug: the number wraps one too late.                                     *)
NextSeqNoLate(n) == IF n > MaxSeqNo THEN 1 ELSE n + 1

(* Bug: the number after the last is 0.                                    *)
NextSeqNoZero(n) == IF n >= MaxSeqNo THEN 0 ELSE n + 1

NextSeqNo(n) == IF n >= MaxSeqNo THEN 1 ELSE n + 1

(* The greeting is sent before encryption and its numbering are enabled.   *)
OnSendMessage(r) ==
    LET s == [r EXCEPT !.encoding = NoMsg, !.writing = r.encoding]
        n == NextSeqNo(r.seqNo)
    IN  IF r.first THEN [s EXCEPT !.seqNo = n, !.numbers = Append(@, n)] ELSE s

OnWriteOperation(r) ==
    LET s == [r EXCEPT !.writing = NoMsg,
                       !.queue = Tail(@),
                       !.wire = @ \o r.writing]
    IN  IF s.queue # <<>> THEN TakeFront(s) ELSE CloseSocketIfDrained(s)

OnWriteError(r) == Close([r EXCEPT !.writing = NoMsg, !.queue = <<>>], TRUE)

DisconnectClient(r) == Close(Send(r, Notice), FALSE)

---------------------------------------------------------------------------
AcceptInternal(r) == [r EXCEPT !.reads = @ + 1, !.stage = "header"]

Accept(r) == AcceptInternal([r EXCEPT !.state = "identifying", !.greet = TRUE])

(* A read that ended; whatever it read, a closed connection reads no more. *)
Read(r) == [r EXCEPT !.reads = @ - 1]

OnReadError(r) == Close(Read(r), TRUE)

ParseHeader(r) ==
    { Close(Read(r), FALSE),                        \* too many packets per second
      Close(Read(r), TRUE),                         \* an invalid length
      [r EXCEPT !.state = "open", !.stage = "body"] }

ParseProxyIdentification(r) ==
    IF r.state = "identifying"
    THEN ParseHeader([r EXCEPT !.state = "open"])       \* no proxy
         \cup { [r EXCEPT !.state = "readings"],
                [r EXCEPT !.state = "open"] }               \* nothing remains
    ELSE { Close(Read(r), TRUE), [r EXCEPT !.state = "open"] }

(* onRecvFirstMessage runs at once: it posts the login, turns the client   *)
(* away at once, with a notice or without, or does so a second later when  *)
(* the password is wrong.                                                  *)
FirstMessage(r) ==
    LET s == [Read(r) EXCEPT !.first = TRUE]
    IN  { AcceptInternal([s EXCEPT !.next = "login"]),
          AcceptInternal(DisconnectClient(s)),
          AcceptInternal(Close(s, FALSE)),
          AcceptInternal([Send(s, Notice) EXCEPT !.next = "disconnect"]) }

(* Bug: the next packet is read into msg while this one waits there.       *)
LaterMessageReading(r) ==
    { AcceptInternal(Read(r)), AcceptInternal([Read(r) EXCEPT !.parses = @ + 1]) }

(* onRecvMessage: a packet that fails its checksum is skipped, any other   *)
(* waits for the dispatcher, and the next one is not read before.          *)
LaterMessage(r) ==
    { AcceptInternal(Read(r)), [Read(r) EXCEPT !.parses = @ + 1] }

ParsePacket(r) == IF r.first THEN LaterMessage(r) ELSE FirstMessage(r)

OnRead(r) ==
    IF Closed(r) THEN { Read(r) }
    ELSE IF r.state # "open" THEN ParseProxyIdentification(r)
    ELSE IF r.stage = "header" THEN ParseHeader(r)
    ELSE ParsePacket(r)

ResumeWork(r) == AcceptInternal(r)

---------------------------------------------------------------------------
(* The dispatcher's side.                                                  *)

Flush(r) == IF r.buffer = <<>> THEN r ELSE [Send(r, r.buffer) EXCEPT !.buffer = <<>>]

(* Bug: a full buffer is replaced without being sent.                      *)
WriteDroppingFull(r) ==
    [r EXCEPT !.data = @ + 1,
              !.buffer = IF Len(@) >= BufferSize THEN <<r.data + 1>> ELSE Append(@, r.data + 1)]

(* getOutputBuffer and append: a full buffer is sent first.                *)
WriteToOutputBuffer(r) ==
    LET s == IF Len(r.buffer) >= BufferSize THEN Flush(r) ELSE r
    IN  [s EXCEPT !.data = @ + 1, !.buffer = Append(@, s.data + 1)]

---------------------------------------------------------------------------
(* The types of the members.                                               *)
Messages == Seq(Nat)

Record == [
    state : {"unborn", "identifying", "readings", "open", "closed"},
    shut : BOOLEAN, peer : {"up", "gone"},
    queue : Seq(Messages), worker : Nat,
    encoding : Messages \cup {NoMsg}, writing : Messages \cup {NoMsg},
    seqNo : 0 .. MaxSeqNo, wire : Messages, numbers : Seq(Nat),
    reads : Nat, stage : {"header", "body"}, parses : Nat,
    first : BOOLEAN, greet : BOOLEAN,
    next : {"none", "login", "disconnect", "done"},
    release : {"none", "posted", "done", "discarded"},
    buffer : Messages, data : Nat]

(* Handlers at work on the front of the queue.                             *)
InFlight(r) ==
    r.worker + (IF r.encoding = NoMsg THEN 0 ELSE 1) + (IF r.writing = NoMsg THEN 0 ELSE 1)

=============================================================================
