------------------------------ MODULE NetworkProofs ------------------------------
(***************************************************************************)
(* Theorems about Network, for any number of connections, size of the      *)
(* buffer and range of the numbers: types, the single writer and reader of *)
(* each connection, its numbers, the list of protocols whose buffers are   *)
(* sent, and that a connection implements Channel.                         *)
(***************************************************************************)
EXTENDS Network, Facts

(***************************************************************************)
(* One connection.  What every handler keeps of its members: their types,  *)
(* one writer while messages are queued, one reader, and the numbering of  *)
(* messages.  Part is what holds in the middle of a handler, Good what     *)
(* holds between two.                                                      *)
(***************************************************************************)

(* The writer: one handler at work if and only if messages are queued.     *)
Writer(r) == InFlight(r) = IF r.queue = <<>> THEN 0 ELSE 1

(* The number of the k-th message.                                         *)
NumberOf(k) == ((k - 1) % MaxSeqNo) + 1

(* The numbers so far, and the last of them.                               *)
Numbers(r) ==
    /\ \A i \in DOMAIN r.numbers : r.numbers[i] = NumberOf(i)
    /\ r.seqNo = IF r.numbers = <<>> THEN 0 ELSE NumberOf(Len(r.numbers))

(* The order of the events of a connection's life.                         *)
Life(r) ==
    /\ r.release = "none" <=> ~Closed(r)
    /\ ~r.first => r.next = "none"
    /\ r.release = "done" => r.next # "login"

Part(r) ==
    /\ r \in Record /\ Writer(r) /\ Numbers(r) /\ Life(r)
    /\ r.reads + r.parses <= IF r.state = "unborn" THEN 0 ELSE 1

Good(r) == Part(r) /\ (Open(r) => r.reads + r.parses = 1)

(* What no handler takes back, nor brings about itself.                    *)
Keeps(r, s) ==
    /\ r.next = "done" => s.next = "done"
    /\ s.release = "done" => r.release = "done"

(* The members that writing, reading and numbering are about.              *)
SameWork(r, s) ==
    /\ s.queue = r.queue /\ s.worker = r.worker /\ s.encoding = r.encoding
    /\ s.writing = r.writing /\ s.numbers = r.numbers /\ s.seqNo = r.seqNo
    /\ s.reads = r.reads /\ s.parses = r.parses /\ s.first = r.first

---------------------------------------------------------------------------
(* The numbering.                                                          *)

(* A remainder is the one number below the divisor that fits.              *)
LEMMA ModUnique ==
    ASSUME NEW a \in Nat, NEW q \in Nat, NEW m \in 0 .. (MaxSeqNo - 1),
           a = MaxSeqNo * q + m
    PROVE  a % MaxSeqNo = m
BY ConnectionAssumption, SMTT(30)

(* Counting modulo the last number.                                        *)
LEMMA ModNext ==
    ASSUME NEW k \in Nat
    PROVE  (k + 1) % MaxSeqNo = IF k % MaxSeqNo = MaxSeqNo - 1 THEN 0 ELSE (k % MaxSeqNo) + 1
<1> DEFINE M == MaxSeqNo  q == k \div M  m == k % M
<1>1. /\ M \in Nat \ {0} /\ q \in Nat /\ m \in 0 .. (M - 1) /\ k = M * q + m
      /\ k + 1 \in Nat
  BY ConnectionAssumption
<1> HIDE DEF q, m
<1>2. CASE m = M - 1
  <2>1. k + 1 = M * (q + 1) + 0 /\ 0 \in 0 .. (M - 1) /\ q + 1 \in Nat
    BY <1>1, <1>2
  <2>2. (k + 1) % M = 0
    BY <2>1, <1>1, ModUnique
  <2>. QED
    BY <2>2, <1>2 DEF m
<1>3. CASE m # M - 1
  <2>1. k + 1 = M * q + (m + 1) /\ m + 1 \in 0 .. (M - 1)
    BY <1>1, <1>3
  <2>2. (k + 1) % M = m + 1
    BY <2>1, <1>1, ModUnique
  <2>. QED
    BY <2>2, <1>3 DEF m
<1>. QED
  BY <1>2, <1>3

(* NextSeqNo is the number of the next message.                            *)
LEMMA NextNumber ==
    ASSUME NEW k \in Nat
    PROVE  NextSeqNo(IF k = 0 THEN 0 ELSE NumberOf(k)) = NumberOf(k + 1)
           /\ NumberOf(k + 1) \in 1 .. MaxSeqNo
<1>1. MaxSeqNo \in Nat \ {0} /\ (k + 1) - 1 = k /\ k % MaxSeqNo \in 0 .. (MaxSeqNo - 1)
  BY ConnectionAssumption
<1>2. NumberOf(k + 1) = (k % MaxSeqNo) + 1
  BY <1>1 DEF NumberOf
<1>3. CASE k = 0
  <2>1. k % MaxSeqNo = 0
    BY <1>1, <1>3, ModUnique
  <2>. QED
    BY <1>1, <1>2, <1>3, <2>1 DEF NextSeqNo
<1>4. CASE k # 0
  <2>1. k - 1 \in Nat /\ (k - 1) + 1 = k
    BY <1>4
  <2>2. (k - 1) % MaxSeqNo \in 0 .. (MaxSeqNo - 1)
    BY <1>1, <2>1
  <2>3. k % MaxSeqNo = IF (k - 1) % MaxSeqNo = MaxSeqNo - 1 THEN 0
                       ELSE ((k - 1) % MaxSeqNo) + 1
    BY <2>1, ModNext
  <2>4. NumberOf(k) = ((k - 1) % MaxSeqNo) + 1
    BY DEF NumberOf
  <2>. QED
    BY <1>1, <1>2, <1>4, <2>2, <2>3, <2>4 DEF NextSeqNo
<1>. QED
  BY <1>3, <1>4

---------------------------------------------------------------------------
(* The handlers, one after another.                                        *)

(* Connection::close leaves a connection good that was in a handler.       *)
LEMMA CloseGood ==
    ASSUME NEW r, Part(r), NEW f \in BOOLEAN
    PROVE  Good(Close(r, f)) /\ Keeps(r, Close(r, f))
<1> DEFINE s == Close(r, f)
<1>1. CASE Closed(r)
  BY <1>1 DEF Close, Good, Open, Closed, Keeps
<1>2. CASE ~Closed(r)
  <2>1. s = [r EXCEPT !.state = "closed", !.release = "posted",
                      !.shut = (r.queue = <<>> \/ f)]
    BY <1>2 DEF Close
  <2>2. r \in Record /\ (r.queue = <<>> \/ f) \in BOOLEAN
    BY DEF Part
  <2>3. s \in Record
    BY <2>1, <2>2 DEF Record
  <2>4. s.state = "closed" /\ s.release = "posted" /\ SameWork(r, s) /\ s.next = r.next
    BY <2>1, <2>2 DEF Record, SameWork
  <2>5. s.reads + s.parses <= 1
    BY <2>2, <2>4 DEF SameWork, Part, Record
  <2>. QED
    BY <2>3, <2>4, <2>5 DEF Good, Part, Writer, InFlight, Numbers, Life, Open, Closed, SameWork, Keeps
<1>. QED
  BY <1>1, <1>2

(* Connection::send keeps Part, whatever the state of the connection, and  *)
(* touches only the writer.                                                *)
LEMMA SendPart ==
    ASSUME NEW r, Part(r), NEW m \in Messages
    PROVE  /\ Part(Send(r, m)) /\ Keeps(r, Send(r, m))
           /\ Good(r) => Good(Send(r, m))
           /\ Send(r, m).reads = r.reads /\ Send(r, m).parses = r.parses
           /\ Send(r, m).state = r.state /\ Send(r, m).first = r.first
           /\ Send(r, m).release = r.release
<1> DEFINE s == Send(r, m)
<1>1. CASE ~Open(r)
  BY <1>1 DEF Send, Keeps
<1>2. CASE Open(r)
  <2>1. s = [r EXCEPT !.queue = Append(@, m),
                      !.worker = IF r.queue = <<>> THEN @ + 1 ELSE @]
    BY <1>2 DEF Send
  <2>2. r \in Record
    BY DEF Part
  <2> DEFINE q == Append(r.queue, m)  w == IF r.queue = <<>> THEN r.worker + 1 ELSE r.worker
  <2>3. q \in Seq(Messages) /\ q # <<>> /\ w \in Nat
    <3>1. r.queue \in Seq(Messages) /\ r.worker \in Nat
      BY <2>2 DEF Record
    <3>. QED
      BY <3>1
  <2>4. s \in Record
    <3>1. s = [r EXCEPT !.queue = q, !.worker = w]
      BY <2>1
    <3> HIDE DEF q, w
    <3>. QED
      BY <3>1, <2>2, <2>3 DEF Record
  <2>5. /\ s.queue # <<>> /\ s.worker = IF r.queue = <<>> THEN r.worker + 1 ELSE r.worker
        /\ s.encoding = r.encoding /\ s.writing = r.writing
        /\ s.numbers = r.numbers /\ s.seqNo = r.seqNo
        /\ s.reads = r.reads /\ s.parses = r.parses /\ s.first = r.first
        /\ s.state = r.state /\ s.next = r.next /\ s.release = r.release
    BY <2>1, <2>2, <2>3 DEF Record
  <2>6. Writer(s)
    BY <2>2, <2>5 DEF Part, Writer, InFlight, Record
  <2>. QED
    BY <2>4, <2>5, <2>6 DEF Good, Part, Numbers, Life, Open, Closed, Keeps
<1>. QED
  BY <1>1, <1>2

(* The greeting is a message.                                              *)
LEMMA NoticeIsMessage == Notice \in Messages
BY DEF Notice, Messages

(* disconnectClient, a message and a close, leaves the connection good.    *)
LEMMA DisconnectGood ==
    ASSUME NEW r, Part(r)
    PROVE  Good(DisconnectClient(r)) /\ Keeps(r, DisconnectClient(r))
<1> DEFINE n == Send(r, Notice)
<1>1. Part(n) /\ Keeps(r, n)
  BY SendPart, NoticeIsMessage
<1> HIDE DEF n
<1>2. Good(Close(n, FALSE)) /\ Keeps(n, Close(n, FALSE))
  BY <1>1, CloseGood
<1>. QED
  BY <1>1, <1>2 DEF DisconnectClient, Keeps, n

(* Nor does it start or end a read.                                        *)
LEMMA CloseReads ==
    ASSUME NEW r, r \in Record, NEW f \in BOOLEAN
    PROVE  /\ Close(r, f).reads = r.reads /\ Close(r, f).parses = r.parses
           /\ r.state # "unborn" => Close(r, f).state # "unborn"
BY DEF Close, Closed, Record

(* A read is started when none is outstanding and no packet waits.         *)
LEMMA AcceptInternalGood ==
    ASSUME NEW r, Part(r), r.reads + r.parses = 0, r.state # "unborn"
    PROVE  /\ Good(AcceptInternal(r)) /\ Keeps(r, AcceptInternal(r))
           /\ AcceptInternal(r).reads > 0
           /\ AcceptInternal(r).state = r.state
<1> DEFINE s == AcceptInternal(r)
<1>1. r \in Record /\ s = [r EXCEPT !.reads = @ + 1, !.stage = "header"]
  BY DEF Part, AcceptInternal
<1>2. s \in Record
  <2> DEFINE n == r.reads + 1
  <2>1. n \in Nat /\ s = [r EXCEPT !.reads = n, !.stage = "header"]
    BY <1>1 DEF Record
  <2> HIDE DEF n, s
  <2>2. [r EXCEPT !.reads = n, !.stage = "header"] \in Record
    BY <1>1, <2>1 DEF Record
  <2>. QED
    BY <2>1, <2>2
<1>3. /\ s.queue = r.queue /\ s.worker = r.worker /\ s.encoding = r.encoding
      /\ s.writing = r.writing /\ s.numbers = r.numbers /\ s.seqNo = r.seqNo
      /\ s.first = r.first /\ s.state = r.state /\ s.next = r.next /\ s.release = r.release
      /\ s.reads + s.parses = 1 /\ s.reads > 0
  BY <1>1 DEF Record, Part
<1>. QED
  BY <1>2, <1>3 DEF Good, Part, Writer, InFlight, Numbers, Life, Open, Closed, Keeps

(* A read that ended leaves no reader, until its handler starts one.       *)
LEMMA ReadPart ==
    ASSUME NEW r, Good(r), r.reads > 0
    PROVE  /\ Part(Read(r)) /\ Read(r).reads + Read(r).parses = 0
           /\ ~Open(r) => Good(Read(r))
           /\ Read(r).state = r.state /\ r.state # "unborn" /\ Read(r).first = r.first
           /\ Read(r).next = r.next /\ Read(r).release = r.release
<1> DEFINE s == Read(r)
<1>1. r \in Record /\ s = [r EXCEPT !.reads = @ - 1]
  BY DEF Good, Part, Read
<1>2. r.reads = 1 /\ r.parses = 0
  BY <1>1 DEF Good, Part, Record
<1>3. s \in Record
  <2> DEFINE n == r.reads - 1
  <2>1. n \in Nat /\ s = [r EXCEPT !.reads = n]
    BY <1>1, <1>2
  <2> HIDE DEF n
  <2>. QED
    BY <1>1, <2>1 DEF Record
<1>4. /\ s.queue = r.queue /\ s.worker = r.worker /\ s.encoding = r.encoding
      /\ s.writing = r.writing /\ s.numbers = r.numbers /\ s.seqNo = r.seqNo
      /\ s.first = r.first /\ s.state = r.state /\ s.next = r.next /\ s.release = r.release
      /\ s.reads + s.parses = 0 /\ s.state # "unborn"
  BY <1>1, <1>2 DEF Record, Good, Part
<1>. QED
  BY <1>3, <1>4 DEF Good, Part, Writer, InFlight, Numbers, Life, Open, Closed

---------------------------------------------------------------------------
(* Writing.                                                                *)

(* With nobody at work on the queue, taking its front makes one writer.    *)
LEMMA TakeFrontGood ==
    ASSUME NEW r, r \in Record, Numbers(r), Life(r), r.queue # <<>>, InFlight(r) = 0,
           r.reads + r.parses <= IF r.state = "unborn" THEN 0 ELSE 1,
           Open(r) => r.reads + r.parses = 1
    PROVE  Good(TakeFront(r)) /\ Keeps(r, TakeFront(r))
<1> DEFINE s == TakeFront(r)  m == Head(r.queue)
<1>1. m \in Messages /\ s = [r EXCEPT !.encoding = m]
  BY DEF Record, TakeFront
<1>2. m # NoMsg
  BY <1>1, ConnectionAssumption DEF Messages
<1> HIDE DEF m, s
<1>3. s \in Record
  <2>1. m \in Messages \cup {NoMsg}
    BY <1>1
  <2>2. [r EXCEPT !.encoding = m] \in Record
    BY <2>1 DEF Record
  <2>. QED
    BY <1>1, <2>2
<1>4. /\ s.queue = r.queue /\ s.worker = r.worker /\ s.encoding = m
      /\ s.writing = r.writing /\ s.numbers = r.numbers /\ s.seqNo = r.seqNo
      /\ s.first = r.first /\ s.state = r.state /\ s.next = r.next /\ s.release = r.release
      /\ s.reads = r.reads /\ s.parses = r.parses
  BY <1>1 DEF Record
<1>5. r.worker \in Nat /\ Writer(s)
  BY <1>2, <1>4 DEF Writer, InFlight, Record
<1>. QED
  BY <1>3, <1>4, <1>5 DEF Keeps, Good, Part, Numbers, Life, Open, Closed, s

(* Closing the socket of a drained connection changes nothing else.        *)
LEMMA DrainedGood ==
    ASSUME NEW r, Good(r)
    PROVE  Good(CloseSocketIfDrained(r)) /\ Keeps(r, CloseSocketIfDrained(r))
<1> DEFINE s == CloseSocketIfDrained(r)
<1>1. CASE ~Closed(r)
  BY <1>1 DEF CloseSocketIfDrained, Keeps
<1>2. CASE Closed(r)
  <2>1. r \in Record /\ s = [r EXCEPT !.shut = TRUE]
    BY <1>2 DEF CloseSocketIfDrained, Good, Part
  <2>2. s \in Record
    BY <2>1 DEF Record
  <2>3. /\ SameWork(r, s) /\ s.state = r.state /\ s.next = r.next /\ s.release = r.release
    BY <2>1 DEF Record, SameWork
  <2>. QED
    BY <2>2, <2>3 DEF Keeps, Good, Part, Writer, InFlight, Numbers, Life, Open, Closed, SameWork
<1>. QED
  BY <1>1, <1>2

(* internalWorker keeps the connection good.                               *)
LEMMA InternalWorkerGood ==
    ASSUME NEW r, Good(r), r.worker > 0
    PROVE  Good(InternalWorker(r)) /\ Keeps(r, InternalWorker(r))
<1> DEFINE s == [r EXCEPT !.worker = @ - 1]
<1>1. r \in Record /\ r.worker \in Nat
  BY DEF Good, Part, Record
<1>2. r.queue # <<>> /\ r.worker = 1 /\ r.encoding = NoMsg /\ r.writing = NoMsg
  BY <1>1 DEF Good, Part, Writer, InFlight
<1>3. s \in Record
  <2> DEFINE n == r.worker - 1
  <2>1. n \in Nat /\ s = [r EXCEPT !.worker = n]
    BY <1>1, <1>2
  <2> HIDE DEF n
  <2>. QED
    BY <1>1, <2>1 DEF Record
<1>4. /\ s.queue = r.queue /\ s.worker = 0 /\ s.encoding = NoMsg
      /\ s.writing = NoMsg /\ s.numbers = r.numbers /\ s.seqNo = r.seqNo
      /\ s.first = r.first /\ s.state = r.state /\ s.next = r.next /\ s.release = r.release
      /\ s.reads = r.reads /\ s.parses = r.parses
  BY <1>1, <1>2 DEF Record
<1>5. InternalWorker(r) = TakeFront(s)
  BY <1>2 DEF InternalWorker
<1> HIDE DEF s
<1>6. Numbers(s) /\ Life(s) /\ InFlight(s) = 0 /\ s.queue # <<>>
  BY <1>2, <1>4 DEF Good, Part, Numbers, Life, Closed, InFlight
<1>7. /\ s.reads + s.parses <= IF s.state = "unborn" THEN 0 ELSE 1
      /\ Open(s) => s.reads + s.parses = 1
  BY <1>4 DEF Good, Part, Open
<1>. QED
  BY <1>3, <1>4, <1>5, <1>6, <1>7, TakeFrontGood DEF Keeps

(* Protocol::onSendMessage keeps the connection good; it is the step that  *)
(* numbers a message.                                                      *)
LEMMA OnSendMessageGood ==
    ASSUME NEW r, Good(r), r.encoding # NoMsg
    PROVE  Good(OnSendMessage(r)) /\ Keeps(r, OnSendMessage(r))
<1> DEFINE s == [r EXCEPT !.encoding = NoMsg, !.writing = r.encoding]
           k == Len(r.numbers)
           n == NextSeqNo(r.seqNo)
           t == [s EXCEPT !.seqNo = n, !.numbers = Append(@, n)]
<1>1. /\ r \in Record /\ r.worker \in Nat /\ k \in Nat /\ r.numbers \in Seq(Nat)
      /\ r.encoding \in Messages /\ NoMsg \in Messages \cup {NoMsg}
  BY DEF Good, Part, Record
<1>2. r.queue # <<>> /\ r.worker = 0 /\ r.writing = NoMsg
  BY <1>1 DEF Good, Part, Writer, InFlight
<1>3. s \in Record
  BY <1>1 DEF Record
<1>4. /\ s.queue = r.queue /\ s.worker = 0 /\ s.encoding = NoMsg
      /\ s.writing = r.encoding /\ s.numbers = r.numbers /\ s.seqNo = r.seqNo
      /\ s.first = r.first /\ s.state = r.state /\ s.next = r.next /\ s.release = r.release
      /\ s.reads = r.reads /\ s.parses = r.parses
  BY <1>1, <1>2 DEF Record
<1> HIDE DEF s
<1>5. Writer(s) /\ Life(s) /\ Numbers(s)
  BY <1>2, <1>4 DEF Good, Part, Writer, InFlight, Life, Closed, Numbers
<1>6. CASE ~r.first
  BY <1>3, <1>4, <1>5, <1>6 DEF OnSendMessage, Good, Part, Open, Keeps, s
<1>7. CASE r.first
  <2>1. r.seqNo = IF k = 0 THEN 0 ELSE NumberOf(k)
    BY <1>1 DEF Good, Part, Numbers
  <2>2. n = NumberOf(k + 1) /\ n \in 1 .. MaxSeqNo
    BY <1>1, <2>1, NextNumber
  <2>3. n \in Nat /\ n \in 0 .. MaxSeqNo
    BY <2>2, ConnectionAssumption
  <2> HIDE DEF n
  <2> DEFINE q == Append(r.numbers, n)
  <2>4. /\ q \in Seq(Nat) /\ Len(q) = k + 1 /\ q # <<>> /\ DOMAIN q = 1 .. (k + 1)
        /\ q[k + 1] = n /\ \A j \in 1 .. k : q[j] = r.numbers[j]
    <3>1. q \in Seq(Nat) /\ Len(q) = k + 1
      BY <1>1, <2>3
    <3>2. q[k + 1] = n /\ \A j \in 1 .. k : q[j] = r.numbers[j]
      BY <1>1, <2>3
    <3> HIDE DEF q
    <3>. QED
      BY <1>1, <3>1, <3>2
  <2>5. t = [s EXCEPT !.seqNo = n, !.numbers = q]
    BY <1>4
  <2> HIDE DEF q
  <2>6. t \in Record
    BY <1>3, <2>3, <2>4, <2>5 DEF Record
  <2>7. /\ t.queue = r.queue /\ t.worker = 0 /\ t.encoding = NoMsg
        /\ t.writing = r.encoding /\ t.numbers = q /\ t.seqNo = n
        /\ t.first = r.first /\ t.state = r.state /\ t.next = r.next /\ t.release = r.release
        /\ t.reads = r.reads /\ t.parses = r.parses
    BY <1>3, <1>4, <2>5 DEF Record
  <2>8. OnSendMessage(r) = t
    BY <1>7 DEF OnSendMessage, s, n
  <2> HIDE DEF t
  <2>9. Numbers(t)
    <3>1. DOMAIN r.numbers = 1 .. k
      BY <1>1
    <3>2. \A j \in 1 .. k : q[j] = NumberOf(j)
      BY <2>4, <3>1 DEF Good, Part, Numbers
    <3>. QED
      BY <1>1, <2>2, <2>4, <2>7, <3>2 DEF Numbers
  <2>10. Writer(t) /\ Life(t)
    BY <1>4, <1>5, <2>7 DEF Writer, InFlight, Life, Closed
  <2>. QED
    BY <2>6, <2>7, <2>8, <2>9, <2>10 DEF Good, Part, Open, Keeps
<1>. QED
  BY <1>6, <1>7

(* onWriteOperation keeps the connection good: the writer goes on or ends  *)
(* with the queue.                                                         *)
LEMMA OnWriteOperationGood ==
    ASSUME NEW r, Good(r), r.writing # NoMsg
    PROVE  Good(OnWriteOperation(r)) /\ Keeps(r, OnWriteOperation(r))
<1> DEFINE q == Tail(r.queue)  w == r.wire \o r.writing
           s == [r EXCEPT !.writing = NoMsg, !.queue = q, !.wire = w]
<1>1. /\ r \in Record /\ r.worker \in Nat /\ NoMsg \in Messages \cup {NoMsg}
      /\ r.queue \in Seq(Messages) /\ r.wire \in Messages /\ r.writing \in Messages
  BY DEF Good, Part, Record
<1>2. r.queue # <<>> /\ r.worker = 0 /\ r.encoding = NoMsg
  BY <1>1 DEF Good, Part, Writer, InFlight
<1>3. q \in Seq(Messages) /\ w \in Messages
  BY <1>1, <1>2 DEF Messages
<1>4. OnWriteOperation(r) = IF s.queue # <<>> THEN TakeFront(s) ELSE CloseSocketIfDrained(s)
  BY DEF OnWriteOperation
<1> HIDE DEF q, w
<1>5. s \in Record
  BY <1>1, <1>3 DEF Record
<1>6. /\ s.queue = q /\ s.worker = 0 /\ s.encoding = NoMsg
      /\ s.writing = NoMsg /\ s.numbers = r.numbers /\ s.seqNo = r.seqNo
      /\ s.first = r.first /\ s.state = r.state /\ s.next = r.next /\ s.release = r.release
      /\ s.reads = r.reads /\ s.parses = r.parses
  BY <1>1, <1>2 DEF Record
<1> HIDE DEF s
<1>7. Numbers(s) /\ Life(s) /\ InFlight(s) = 0
  BY <1>6 DEF Good, Part, Numbers, Life, Closed, InFlight
<1>8. /\ s.reads + s.parses <= IF s.state = "unborn" THEN 0 ELSE 1
      /\ Open(s) => s.reads + s.parses = 1
  BY <1>6 DEF Good, Part, Open
<1>9. CASE s.queue # <<>>
  BY <1>4, <1>5, <1>6, <1>7, <1>8, <1>9, TakeFrontGood DEF Keeps
<1>10. CASE s.queue = <<>>
  <2>1. Good(s)
    BY <1>5, <1>7, <1>8, <1>10 DEF Good, Part, Writer
  <2>. QED
    BY <1>4, <1>6, <1>10, <2>1, DrainedGood DEF Keeps
<1>. QED
  BY <1>9, <1>10

(* A write that failed empties the queue and closes, which keeps the       *)
(* connection good.                                                        *)
LEMMA OnWriteErrorGood ==
    ASSUME NEW r, Good(r), r.writing # NoMsg
    PROVE  Good(OnWriteError(r)) /\ Keeps(r, OnWriteError(r))
<1> DEFINE s == [r EXCEPT !.writing = NoMsg, !.queue = <<>>]
<1>1. /\ r \in Record /\ r.worker \in Nat /\ NoMsg \in Messages \cup {NoMsg}
      /\ <<>> \in Seq(Messages)
  BY DEF Good, Part, Record
<1>2. r.queue # <<>> /\ r.worker = 0 /\ r.encoding = NoMsg
  BY <1>1 DEF Good, Part, Writer, InFlight
<1>3. s \in Record
  BY <1>1 DEF Record
<1>4. /\ s.queue = <<>> /\ s.worker = 0 /\ s.encoding = NoMsg
      /\ s.writing = NoMsg /\ s.numbers = r.numbers /\ s.seqNo = r.seqNo
      /\ s.first = r.first /\ s.state = r.state /\ s.next = r.next /\ s.release = r.release
      /\ s.reads = r.reads /\ s.parses = r.parses
  BY <1>1, <1>2 DEF Record
<1> HIDE DEF s
<1>5. Part(s)
  BY <1>3, <1>4 DEF Good, Part, Writer, InFlight, Numbers, Life, Closed
<1>6. OnWriteError(r) = Close(s, TRUE)
  BY DEF OnWriteError, s
<1>. QED
  BY <1>4, <1>5, <1>6, CloseGood DEF Keeps

---------------------------------------------------------------------------
(* Reading.                                                                *)

(* An open connection goes on reading in another state.                    *)
LEMMA ReadingOn ==
    ASSUME NEW r, Good(r), Open(r), NEW x \in {"readings", "open"}, NEW y \in {"header", "body"}
    PROVE  LET s == [r EXCEPT !.state = x, !.stage = y]
           IN  Good(s) /\ Keeps(r, s) /\ Open(s) /\ s.reads = r.reads
<1> DEFINE s == [r EXCEPT !.state = x, !.stage = y]
<1>1. r \in Record
  BY DEF Good, Part
<1>2. s \in Record
  BY <1>1 DEF Record
<1>3. SameWork(r, s) /\ s.state = x /\ s.next = r.next /\ s.release = r.release
  BY <1>1 DEF Record, SameWork
<1> HIDE DEF s
<1>4. Writer(s) /\ Numbers(s)
  BY <1>3 DEF Good, Part, Writer, InFlight, Numbers, SameWork
<1>5. Life(s) /\ Open(s)
  BY <1>3 DEF Good, Part, Life, Open, Closed, SameWork
<1>6. s.reads + s.parses = 1 /\ s.reads = r.reads
  BY <1>3 DEF Good, SameWork
<1>. QED
  BY <1>2, <1>3, <1>4, <1>5, <1>6 DEF Good, Part, Keeps, s

(* parseHeader keeps the connection good, whichever way it ends.           *)
LEMMA ParseHeaderGood ==
    ASSUME NEW r, Good(r), Open(r), r.reads > 0
    PROVE  \A s \in ParseHeader(r) : Good(s) /\ Keeps(r, s)
<1>1. ASSUME NEW f \in BOOLEAN PROVE Good(Close(Read(r), f)) /\ Keeps(r, Close(Read(r), f))
  BY ReadPart, CloseGood DEF Keeps
<1>2. LET s == [r EXCEPT !.state = "open", !.stage = "body"] IN Good(s) /\ Keeps(r, s)
  BY ReadingOn
<1>. QED
  BY <1>1, <1>2 DEF ParseHeader

(* parseProxyIdentification keeps the connection good, whichever way it    *)
(* ends.                                                                   *)
LEMMA ParseProxyIdentificationGood ==
    ASSUME NEW r, Good(r), Open(r), r.reads > 0
    PROVE  \A s \in ParseProxyIdentification(r) : Good(s) /\ Keeps(r, s)
<1> DEFINE to(x) == [r EXCEPT !.state = x]
<1>1. ASSUME NEW x \in {"readings", "open"}
      PROVE  Good(to(x)) /\ Keeps(r, to(x)) /\ Open(to(x)) /\ to(x).reads > 0
  <2>1. r \in Record /\ r.stage \in {"header", "body"}
    BY DEF Good, Part, Record
  <2> DEFINE y == r.stage  s == [r EXCEPT !.state = x, !.stage = y]
  <2>2. to(x) = s
    BY <2>1 DEF Record
  <2> HIDE DEF to
  <2>3. y \in {"header", "body"}
    BY <2>1
  <2> HIDE DEF y
  <2>4. Good(s) /\ Keeps(r, s) /\ Open(s) /\ s.reads = r.reads
    BY <2>3, ReadingOn
  <2>. QED
    BY <2>2, <2>4
<1>2. /\ Good(to("readings")) /\ Keeps(r, to("readings"))
      /\ Good(to("open")) /\ Keeps(r, to("open"))
      /\ Open(to("open")) /\ to("open").reads > 0
  BY <1>1
<1>3. Good(Close(Read(r), TRUE)) /\ Keeps(r, Close(Read(r), TRUE))
  BY ReadPart, CloseGood DEF Keeps
<1> HIDE DEF to
<1>4. \A s \in ParseHeader(to("open")) : Good(s) /\ Keeps(r, s)
  BY <1>2, ParseHeaderGood DEF Keeps
<1>. QED
  BY <1>2, <1>3, <1>4 DEF ParseProxyIdentification, to

(* onRecvFirstMessage keeps the connection good, whichever way it ends.    *)
LEMMA FirstMessageGood ==
    ASSUME NEW r, Good(r), Open(r), r.reads > 0, ~r.first
    PROVE  \A s \in FirstMessage(r) : Good(s) /\ Keeps(r, s)
<1> DEFINE s == [Read(r) EXCEPT !.first = TRUE]
           a == [s EXCEPT !.next = "login"]
           n == Send(s, Notice)
           b == [n EXCEPT !.next = "disconnect"]
<1>1. /\ Part(Read(r)) /\ Read(r) \in Record /\ Read(r).reads + Read(r).parses = 0
      /\ Read(r).release = "none" /\ Open(Read(r)) /\ Read(r).state # "unborn"
  BY ReadPart DEF Good, Part, Life, Open, Closed
<1>2. s \in Record
  BY <1>1 DEF Record
<1>3. /\ s.queue = Read(r).queue /\ s.worker = Read(r).worker /\ s.encoding = Read(r).encoding
      /\ s.writing = Read(r).writing /\ s.numbers = Read(r).numbers /\ s.seqNo = Read(r).seqNo
      /\ s.first = TRUE /\ s.state = Read(r).state /\ s.next = Read(r).next
      /\ s.release = "none" /\ s.reads = Read(r).reads /\ s.parses = Read(r).parses
  BY <1>1 DEF Record
<1> HIDE DEF s
<1>4. Part(s) /\ s.reads + s.parses = 0 /\ s.state # "unborn" /\ Open(s)
  BY <1>1, <1>2, <1>3 DEF Part, Writer, InFlight, Numbers, Life, Open, Closed
<1>5. ASSUME NEW u, Part(u), u.first, u.release = "none", u.reads + u.parses = 0,
             u.state # "unborn", NEW x \in {"login", "disconnect"}
      PROVE  LET w == AcceptInternal([u EXCEPT !.next = x]) IN Good(w) /\ w.release # "done"
  <2> DEFINE v == [u EXCEPT !.next = x]
  <2>1. u \in Record
    BY <1>5 DEF Part
  <2>2. v \in Record
    BY <2>1 DEF Record
  <2>3. SameWork(u, v) /\ v.state = u.state /\ v.next = x /\ v.release = u.release
    BY <2>1 DEF Record, SameWork
  <2> HIDE DEF v
  <2>4. Part(v) /\ v.reads + v.parses = 0 /\ v.state # "unborn"
    BY <1>5, <2>2, <2>3 DEF Part, Writer, InFlight, Numbers, Life, Closed, SameWork
  <2>. QED
    BY <1>5, <2>3, <2>4, AcceptInternalGood DEF Keeps, v
<1>6. Good(AcceptInternal(a)) /\ AcceptInternal(a).release # "done"
  BY <1>3, <1>4, <1>5
<1>7. LET w == AcceptInternal(DisconnectClient(s)) IN Good(w) /\ w.release # "done"
  <2>1. Part(n) /\ n.reads + n.parses = 0 /\ n.state # "unborn" /\ n.release = "none"
    BY <1>3, <1>4, SendPart, NoticeIsMessage
  <2> HIDE DEF n
  <2>2. Good(Close(n, FALSE)) /\ Close(n, FALSE).release # "done"
    BY <2>1, CloseGood DEF Keeps
  <2>3. /\ Close(n, FALSE).reads + Close(n, FALSE).parses = 0
        /\ Close(n, FALSE).state # "unborn"
    <3>1. n \in Record
      BY <2>1 DEF Part
    <3>. QED
      BY <2>1, <3>1 DEF Close, Closed, Record
  <2>4. DisconnectClient(s) = Close(n, FALSE) /\ Part(Close(n, FALSE))
    BY <2>2 DEF DisconnectClient, n, Good
  <2>. QED
    BY <2>2, <2>3, <2>4, AcceptInternalGood DEF Keeps
<1>8. Good(AcceptInternal(b)) /\ AcceptInternal(b).release # "done"
  <2>1. /\ Part(n) /\ n.reads + n.parses = 0 /\ n.state # "unborn"
        /\ n.first /\ n.release = "none"
    BY <1>3, <1>4, SendPart, NoticeIsMessage
  <2> HIDE DEF n
  <2>. QED
    BY <1>5, <2>1
<1>9. r.next # "done"
  BY DEF Good, Part, Life
<1> DEFINE e == Close(s, FALSE)
<1>10. Good(AcceptInternal(e)) /\ AcceptInternal(e).release # "done"
  <2>1. Part(e) /\ e.release # "done"
    BY <1>3, <1>4, CloseGood DEF Keeps, Good
  <2>2. e.reads + e.parses = 0 /\ e.state # "unborn"
    BY <1>4, CloseReads DEF Part
  <2> HIDE DEF e
  <2>. QED
    BY <2>1, <2>2, AcceptInternalGood DEF Keeps
<1>. QED
  BY <1>6, <1>7, <1>8, <1>9, <1>10 DEF FirstMessage, Keeps, s

(* onRecvMessage keeps the connection good: either a read goes on or a     *)
(* packet waits.                                                           *)
LEMMA LaterMessageGood ==
    ASSUME NEW r, Good(r), Open(r), r.reads > 0
    PROVE  \A s \in LaterMessage(r) : Good(s) /\ Keeps(r, s)
<1> DEFINE u == Read(r)  n == u.parses + 1  s == [u EXCEPT !.parses = n]
<1>1. u.next = r.next /\ u.release = r.release /\ Part(u) /\ u.reads + u.parses = 0 /\ u.state # "unborn"
  BY ReadPart
<1>2. Good(AcceptInternal(u)) /\ Keeps(r, AcceptInternal(u))
  BY <1>1, AcceptInternalGood DEF Keeps
<1> HIDE DEF u
<1>3. u \in Record /\ n \in Nat /\ u.reads \in Nat /\ u.parses \in Nat
  BY <1>1 DEF Part, Record
<1>4. n = 1 /\ u.reads = 0
  BY <1>1, <1>3
<1> HIDE DEF n
<1>5. s \in Record
  BY <1>3 DEF Record
<1>6. /\ s.queue = u.queue /\ s.worker = u.worker /\ s.encoding = u.encoding
      /\ s.writing = u.writing /\ s.numbers = u.numbers /\ s.seqNo = u.seqNo
      /\ s.first = u.first /\ s.state = u.state /\ s.next = u.next /\ s.release = u.release
      /\ s.reads = 0 /\ s.parses = 1
  BY <1>3, <1>4 DEF Record
<1> HIDE DEF s
<1>7. Good(s) /\ Keeps(r, s)
  BY <1>1, <1>5, <1>6 DEF Good, Part, Writer, InFlight, Numbers, Life, Open, Closed, Keeps
<1>. QED
  BY <1>2, <1>7 DEF LaterMessage, s, n, u

(* Every handler of a read keeps the connection good.                      *)
LEMMA OnReadGood ==
    ASSUME NEW r, Good(r), r.reads > 0
    PROVE  \A s \in OnRead(r) : Good(s) /\ Keeps(r, s)
<1>1. CASE Closed(r)
  BY <1>1, ReadPart DEF OnRead, Open, Closed, Keeps
<1>2. CASE ~Closed(r)
  <2>1. Open(r)
    <3>1. r \in Record /\ r.state # "unborn"
      BY ReadPart DEF Good, Part
    <3>. QED
      BY <1>2, <3>1 DEF Record, Open, Closed
  <2>2. \A s \in ParsePacket(r) : Good(s) /\ Keeps(r, s)
    BY <2>1, FirstMessageGood, LaterMessageGood DEF ParsePacket
  <2>. QED
    BY <1>2, <2>1, <2>2, ParseHeaderGood, ParseProxyIdentificationGood DEF OnRead
<1>. QED
  BY <1>1, <1>2

(* A read that failed keeps the connection good.                           *)
LEMMA OnReadErrorGood ==
    ASSUME NEW r, Good(r), r.reads > 0
    PROVE  Good(OnReadError(r)) /\ Keeps(r, OnReadError(r))
BY ReadPart, CloseGood DEF OnReadError, Keeps

---------------------------------------------------------------------------
(* The dispatcher's side.                                                  *)

(* The output buffer and its count are nothing to the socket.              *)
LEMMA BufferGood ==
    ASSUME NEW r, Good(r), NEW b \in Messages, NEW n \in Nat
    PROVE  LET s == [r EXCEPT !.data = n, !.buffer = b] IN Good(s) /\ Keeps(r, s)
<1> DEFINE s == [r EXCEPT !.data = n, !.buffer = b]
<1>1. r \in Record
  BY DEF Good, Part
<1>2. s \in Record
  BY <1>1 DEF Record
<1>3. SameWork(r, s) /\ s.state = r.state /\ s.next = r.next /\ s.release = r.release
  BY <1>1 DEF Record, SameWork
<1> HIDE DEF s
<1>. QED
  BY <1>2, <1>3 DEF Good, Part, Writer, InFlight, Numbers, Life, Open, Closed, SameWork, Keeps, s

(* Sending the output buffer keeps the connection good.                    *)
LEMMA FlushGood == 
    ASSUME NEW r, Good(r)
    PROVE  Good(Flush(r)) /\ Keeps(r, Flush(r))
<1> DEFINE s == Send(r, r.buffer)  n == s.data
<1>1. CASE r.buffer = <<>>
  BY <1>1 DEF Flush, Keeps
<1>2. CASE r.buffer # <<>>
  <2>1. r.buffer \in Messages /\ <<>> \in Messages
    BY DEF Good, Part, Record, Messages
  <2>2. Good(s) /\ Keeps(r, s)
    BY <2>1, SendPart DEF Good
  <2> HIDE DEF s
  <2>3. n \in Nat /\ s \in Record
    BY <2>2 DEF Good, Part, Record
  <2>4. [s EXCEPT !.buffer = <<>>] = [s EXCEPT !.data = n, !.buffer = <<>>]
    BY <2>3 DEF Record
  <2>5. LET t == [s EXCEPT !.data = n, !.buffer = <<>>] IN Good(t) /\ Keeps(s, t)
    BY <2>1, <2>2, <2>3, BufferGood
  <2>. QED
    BY <1>2, <2>2, <2>4, <2>5 DEF Flush, Keeps, s
<1>. QED
  BY <1>1, <1>2

(* Writing to the output buffer keeps the connection good.                 *)
LEMMA WriteToOutputBufferGood ==
    ASSUME NEW r, Good(r)
    PROVE  Good(WriteToOutputBuffer(r)) /\ Keeps(r, WriteToOutputBuffer(r))
<1> DEFINE s == IF Len(r.buffer) >= BufferSize THEN Flush(r) ELSE r
           n == s.data + 1  b == Append(s.buffer, n)
<1>1. Good(s) /\ Keeps(r, s)
  BY FlushGood DEF Keeps
<1> HIDE DEF s
<1>2. s.data \in Nat /\ s.buffer \in Messages
  BY <1>1 DEF Good, Part, Record
<1>3. n \in Nat /\ b \in Messages
  BY <1>2 DEF Messages
<1>4. WriteToOutputBuffer(r) = [s EXCEPT !.data = n, !.buffer = b]
  BY DEF WriteToOutputBuffer, s
<1> HIDE DEF n, b
<1>5. Good([s EXCEPT !.data = n, !.buffer = b]) /\ Keeps(s, [s EXCEPT !.data = n, !.buffer = b])
  BY <1>1, <1>3, BufferGood
<1>. QED
  BY <1>1, <1>4, <1>5 DEF Keeps

---------------------------------------------------------------------------
(***************************************************************************)
(* All connections.                                                        *)
(***************************************************************************)

(* A protocol is in the list once, from its login to its release.          *)
ListedOnce ==
    /\ IsInjective(buffered)
    /\ \A c \in Conns \cap Range(buffered) : con[c].next = "done" /\ con[c].release # "done"

IInv == TypeOK /\ ListedOnce /\ \A c \in Conns : Good(con[c])

---------------------------------------------------------------------------
(* One connection takes a step that keeps it good.                         *)
LEMMA ConStep ==
    ASSUME IInv, NEW c \in Conns, NEW r, Becomes(c, r), Good(r), Keeps(con[c], r),
           UNCHANGED buffered, UNCHANGED chains, packets' \in [Conns -> Nat]
    PROVE  IInv'
<1>1. con \in [Conns -> Record] /\ con' = [con EXCEPT ![c] = r] /\ r \in Record
  BY DEF IInv, TypeOK, Becomes, Good, Part
<1>2. con' \in [Conns -> Record] /\ con'[c] = r /\ \A d \in Conns \ {c} : con'[d] = con[d]
  BY <1>1
<1>3. TypeOK'
  BY <1>2 DEF IInv, TypeOK
<1>4. ListedOnce'
  BY <1>2 DEF IInv, ListedOnce, Keeps
<1>5. (\A d \in Conns : Good(con[d]))'
  BY <1>2 DEF IInv
<1>. QED
  BY <1>3, <1>4, <1>5 DEF IInv

(* A client that is gone changes nothing else of its connection.           *)
LEMMA LostGood ==
    ASSUME NEW r, Good(r)
    PROVE  Good(Lost(r)) /\ Keeps(r, Lost(r))
<1> DEFINE s == [r EXCEPT !.peer = "gone"]
<1>1. r \in Record
  BY DEF Good, Part
<1>2. s \in Record
  BY <1>1 DEF Record
<1>3. SameWork(r, s) /\ s.state = r.state /\ s.next = r.next /\ s.release = r.release
  BY <1>1 DEF Record, SameWork
<1> HIDE DEF s
<1>4. Good(s) /\ Keeps(r, s)
  BY <1>2, <1>3 DEF Good, Part, Writer, InFlight, Numbers, Life, Open, Closed, SameWork, Keeps
<1>. QED
  BY <1>4 DEF Lost, Keeps, s

---------------------------------------------------------------------------
(* The clients and the network thread.                                     *)

(* Accepting a connection keeps IInv.                                      *)
LEMMA ConnectStep == ASSUME IInv, NEW c \in Conns, Connect(c) PROVE IInv'
<1> DEFINE r == con[c]  s == [r EXCEPT !.state = "identifying", !.greet = TRUE]
<1>1. r.state = "unborn" /\ Becomes(c, Accept(r)) /\ Good(r) /\ r \in Record
  BY DEF Connect, IInv, Good, Part
<1> HIDE DEF r
<1>2. s \in Record
  BY <1>1 DEF Record
<1>3. SameWork(r, s) /\ s.state = "identifying" /\ s.next = r.next /\ s.release = r.release
  BY <1>1 DEF Record, SameWork
<1>4. Accept(r) = AcceptInternal(s)
  BY DEF Accept
<1> HIDE DEF s
<1>5. s.reads + s.parses = 0
  BY <1>1, <1>2, <1>3 DEF Good, Part, SameWork, Record
<1>6. Part(s)
  BY <1>1, <1>2, <1>3, <1>5
     DEF Good, Part, Writer, InFlight, Numbers, Life, Open, Closed, SameWork
<1>7. Good(Accept(r)) /\ Keeps(r, Accept(r))
  BY <1>3, <1>4, <1>5, <1>6, AcceptInternalGood DEF Keeps
<1>. QED
  BY <1>1, <1>7, ConStep DEF Connect, Pool, IInv, TypeOK, r

(* Every handler of the network thread keeps IInv.                         *)
LEMMA NetworkThreadStep == ASSUME IInv, NEW c \in Conns, NetworkThread(c) PROVE IInv'
<1> DEFINE r == con[c]
<1>1. /\ Good(r) /\ Part(r) /\ packets \in [Conns -> Nat]
  BY DEF IInv, TypeOK, Good
<1>2. CASE ReadDone(c)
  <2>1. PICK s \in OnRead(r) : Becomes(c, s)
    BY <1>2 DEF ReadDone
  <2>2. Good(s) /\ Keeps(r, s)
    BY <1>1, <1>2, <2>1, OnReadGood DEF ReadDone
  <2>3. packets' \in [Conns -> Nat]
    BY <1>1, <1>2 DEF ReadDone
  <2>. QED
    BY <1>2, <2>1, <2>2, <2>3, ConStep DEF ReadDone, Pool
<1>3. CASE ReadFails(c)
  <2>1. Good(OnReadError(r)) /\ Keeps(r, OnReadError(r))
    BY <1>1, <1>3, OnReadErrorGood DEF ReadFails
  <2>2. Good(Lost(OnReadError(r))) /\ Keeps(r, Lost(OnReadError(r)))
    BY <2>1, LostGood DEF Keeps
  <2>. QED
    BY <1>1, <1>3, <2>2, ConStep DEF ReadFails, Pool
<1>4. CASE Superseded(c)
  BY <1>1, <1>4, DisconnectGood, ConStep DEF Superseded, Pool
<1>5. CASE Worker(c)
  BY <1>1, <1>5, InternalWorkerGood, ConStep DEF Worker, Pool
<1>6. CASE Encoded(c)
  BY <1>1, <1>6, OnSendMessageGood, ConStep DEF Encoded, Pool
<1>7. CASE WriteDone(c)
  BY <1>1, <1>7, OnWriteOperationGood, ConStep DEF WriteDone, Pool
<1>8. CASE WriteFails(c)
  <2>1. Good(OnWriteError(r)) /\ Keeps(r, OnWriteError(r))
    BY <1>1, <1>8, OnWriteErrorGood DEF WriteFails
  <2>2. Good(Lost(OnWriteError(r))) /\ Keeps(r, Lost(OnWriteError(r)))
    BY <2>1, LostGood DEF Keeps
  <2>. QED
    BY <1>1, <1>8, <2>2, ConStep DEF WriteFails, Pool
<1>9. CASE Timeout(c)
  BY <1>1, <1>9, CloseGood, ConStep DEF Timeout, Pool
<1>. QED
  BY <1>2, <1>3, <1>4, <1>5, <1>6, <1>7, <1>8, <1>9 DEF NetworkThread

---------------------------------------------------------------------------
(* The dispatcher.                                                         *)

(* An event of the connection's life is taken from those pending.          *)
LEMMA EventTaken ==
    ASSUME NEW r, Good(r)
    PROVE  /\ LET s == [r EXCEPT !.greet = FALSE]
              IN  Good(s) /\ Keeps(r, s)
           /\ r.next # "none" =>
                 LET s == [r EXCEPT !.next = "done"] IN Good(s) /\ Keeps(r, s) /\ s.next = "done"
                                                      /\ s.release = r.release
           /\ r.release = "posted" /\ r.next # "login" =>
                 LET s == [r EXCEPT !.release = "done"] IN Good(s) /\ s.next = r.next
           /\ r.release = "posted" =>
                 LET s == [r EXCEPT !.release = "discarded"] IN Good(s) /\ Keeps(r, s)
<1>1. r \in Record
  BY DEF Good, Part
<1>2. ASSUME NEW s, s \in Record, SameWork(r, s), s.state = r.state, Life(s)
      PROVE  Good(s)
  BY <1>2 DEF Good, Part, Writer, InFlight, Numbers, Open, SameWork
<1>3. LET s == [r EXCEPT !.greet = FALSE] IN Good(s) /\ Keeps(r, s)
  <2> DEFINE s == [r EXCEPT !.greet = FALSE]
  <2>1. /\ s \in Record /\ SameWork(r, s)
        /\ s.state = r.state /\ s.next = r.next /\ s.release = r.release
    BY <1>1 DEF Record, SameWork
  <2> HIDE DEF s
  <2>. QED
    BY <1>2, <2>1 DEF Good, Part, Life, Closed, Keeps, SameWork, s
<1>4. ASSUME r.next # "none"
      PROVE  LET s == [r EXCEPT !.next = "done"] IN Good(s) /\ Keeps(r, s) /\ s.next = "done"
                                                  /\ s.release = r.release
  <2> DEFINE s == [r EXCEPT !.next = "done"]
  <2>1. /\ s \in Record /\ SameWork(r, s)
        /\ s.state = r.state /\ s.next = "done" /\ s.release = r.release
    BY <1>1 DEF Record, SameWork
  <2> HIDE DEF s
  <2>. QED
    BY <1>2, <1>4, <2>1 DEF Good, Part, Life, Closed, Keeps, SameWork, s
<1>5. ASSUME r.release = "posted", r.next # "login"
      PROVE  LET s == [r EXCEPT !.release = "done"] IN Good(s) /\ s.next = r.next
  <2> DEFINE s == [r EXCEPT !.release = "done"]
  <2>1. /\ s \in Record /\ SameWork(r, s)
        /\ s.state = r.state /\ s.next = r.next /\ s.release = "done"
    BY <1>1 DEF Record, SameWork
  <2> HIDE DEF s
  <2>. QED
    BY <1>2, <1>5, <2>1 DEF Good, Part, Life, Closed, SameWork, s
<1>6. ASSUME r.release = "posted"
      PROVE  LET s == [r EXCEPT !.release = "discarded"] IN Good(s) /\ Keeps(r, s)
  <2> DEFINE s == [r EXCEPT !.release = "discarded"]
  <2>1. /\ s \in Record /\ SameWork(r, s)
        /\ s.state = r.state /\ s.next = r.next /\ s.release = "discarded"
    BY <1>1 DEF Record, SameWork
  <2> HIDE DEF s
  <2>. QED
    BY <1>2, <1>6, <2>1 DEF Good, Part, Life, Closed, Keeps, SameWork, s
<1>. QED
  BY <1>3, <1>4, <1>5, <1>6

(* The event onConnect keeps IInv.                                         *)
LEMMA GreetStep == ASSUME IInv, NEW c \in Conns, Greet(c) PROVE IInv'
<1> DEFINE r == con[c]  s == [r EXCEPT !.greet = FALSE]
<1>1. Good(r) /\ packets \in [Conns -> Nat]
  BY DEF IInv, TypeOK
<1>2. Good(s) /\ Keeps(r, s) /\ Part(s)
  BY <1>1, EventTaken DEF Good
<1>3. Good(Send(s, Notice)) /\ Keeps(s, Send(s, Notice))
  BY <1>2, SendPart, NoticeIsMessage
<1>. QED
  BY <1>1, <1>2, <1>3, ConStep DEF Greet, Pool, Keeps

(* The event that parses a packet keeps IInv.                              *)
LEMMA ParseStep == ASSUME IInv, NEW c \in Conns, Parse(c) PROVE IInv'
<1> DEFINE r == con[c]  n == r.parses - 1  s == [r EXCEPT !.parses = n]
<1>1. Good(r) /\ Part(r) /\ r \in Record /\ packets \in [Conns -> Nat] /\ r.parses > 0
  BY DEF IInv, TypeOK, Good, Part, Parse
<1>2. r.parses = 1 /\ r.reads = 0 /\ n \in Nat /\ n = 0 /\ r.state # "unborn"
  BY <1>1 DEF Part, Record
<1>3. r.parses - 1 = n
  OBVIOUS
<1> HIDE DEF r, n
<1>4. s \in Record
  BY <1>1, <1>2 DEF Record
<1>5. /\ s.queue = r.queue /\ s.worker = r.worker /\ s.encoding = r.encoding
      /\ s.writing = r.writing /\ s.numbers = r.numbers /\ s.seqNo = r.seqNo
      /\ s.first = r.first /\ s.state = r.state /\ s.next = r.next /\ s.release = r.release
      /\ s.reads = 0 /\ s.parses = 0
  BY <1>1, <1>2 DEF Record
<1>6. s = [r EXCEPT !.parses = @ - 1]
  BY <1>3
<1> HIDE DEF s
<1>7. Part(s) /\ s.reads + s.parses = 0 /\ s.state # "unborn" /\ Keeps(r, s)
  BY <1>1, <1>2, <1>4, <1>5 DEF Part, Writer, InFlight, Numbers, Life, Closed, Keeps
<1>8. CASE ~Alive(r)
  <2>1. Good(s)
    BY <1>5, <1>7, <1>8 DEF Good, Open, Alive
  <2>2. Becomes(c, s)
    BY <1>6, <1>8 DEF Parse, r
  <2>. QED
    BY <1>1, <1>7, <2>1, <2>2, ConStep DEF Parse, Pool, r
<1>9. CASE Alive(r)
  <2>1. Good(ResumeWork(s)) /\ Keeps(r, ResumeWork(s))
    BY <1>7, AcceptInternalGood DEF ResumeWork, Keeps
  <2> DEFINE t == DisconnectClient(s)
  <2>2. Good(t) /\ Keeps(s, t) /\ t.reads + t.parses = 0 /\ t.state # "unborn"
    <3>1. Good(t) /\ Keeps(s, t)
      BY <1>7, DisconnectGood
    <3> DEFINE u == Send(s, Notice)
    <3>2. /\ Part(u) /\ u.reads = s.reads /\ u.parses = s.parses /\ u.state = s.state
      BY <1>7, SendPart, NoticeIsMessage
    <3>3. u \in Record /\ t = Close(u, FALSE)
      BY <3>2 DEF Part, DisconnectClient
    <3> HIDE DEF u, t
    <3>4. t.reads = u.reads /\ t.parses = u.parses /\ (t.state = u.state \/ t.state = "closed")
      BY <3>3 DEF Close, Closed, Record
    <3>. QED
      BY <1>7, <3>1, <3>2, <3>4
  <2> HIDE DEF t
  <2>3. Good(ResumeWork(t)) /\ Keeps(r, ResumeWork(t))
    BY <1>7, <2>2, AcceptInternalGood DEF ResumeWork, Keeps, Good
  <2> DEFINE e == Close(s, FALSE)
  <2>4. Good(ResumeWork(e)) /\ Keeps(r, ResumeWork(e))
    <3>1. Part(e) /\ Keeps(r, e)
      BY <1>7, CloseGood DEF Keeps, Good
    <3>2. e.reads + e.parses = 0 /\ e.state # "unborn"
      BY <1>4, <1>7, CloseReads
    <3> HIDE DEF e
    <3>. QED
      BY <3>1, <3>2, AcceptInternalGood DEF ResumeWork, Keeps
  <2>5. Becomes(c, ResumeWork(s)) \/ Becomes(c, ResumeWork(t)) \/ Becomes(c, ResumeWork(e))
    BY <1>6, <1>9 DEF Parse, r, t
  <2>. QED
    BY <1>1, <2>1, <2>3, <2>4, <2>5, ConStep DEF Parse, Pool, r
<1>. QED
  BY <1>8, <1>9

(* The delayed disconnect keeps IInv.                                      *)
LEMMA DisconnectLaterStep == ASSUME IInv, NEW c \in Conns, DisconnectLater(c) PROVE IInv'
<1> DEFINE r == con[c]  s == [r EXCEPT !.next = "done"]
<1>1. Good(r) /\ packets \in [Conns -> Nat]
  BY DEF IInv, TypeOK
<1>2. Good(s) /\ Keeps(r, s) /\ Part(s)
  BY <1>1, EventTaken DEF DisconnectLater, Good
<1>3. Good(Close(s, FALSE)) /\ Keeps(s, Close(s, FALSE))
  BY <1>2, CloseGood
<1>. QED
  BY <1>1, <1>2, <1>3, ConStep DEF DisconnectLater, Pool, Keeps

(* Writing for a client keeps IInv.                                        *)
LEMMA WriteStep == ASSUME IInv, NEW c \in Conns, Write(c) PROVE IInv'
<1>1. Good(con[c]) /\ packets \in [Conns -> Nat]
  BY DEF IInv, TypeOK
<1>. QED
  BY <1>1, WriteToOutputBufferGood, ConStep DEF Write, Pool

---------------------------------------------------------------------------
(* The list of protocols.                                                  *)

(* A protocol that is not in the list is in it once after                  *)
(* addProtocolToAutosend.                                                  *)
LEMMA AddKeepsOnce ==
    ASSUME TypeOK, IsInjective(buffered), NEW e \in Conns \cup Strangers,
           e \notin Range(buffered), AddProtocolToAutosend(e)
    PROVE  /\ buffered' \in Seq(Conns \cup Strangers) /\ chains' \in Nat
           /\ IsInjective(buffered') /\ Range(buffered') = Range(buffered) \cup {e}
<1> DEFINE S == Conns \cup Strangers
<1>1. buffered \in Seq(S) /\ chains \in Nat /\ buffered' = Append(buffered, e)
  BY DEF TypeOK, AddProtocolToAutosend
<1>2. chains' \in Nat
  BY <1>1 DEF AddProtocolToAutosend
<1>3. buffered' \in Seq(S)
  BY <1>1
<1> HIDE DEF S
<1>4. e \in S
  BY DEF S
<1>5. /\ Range(Append(buffered, e)) = Range(buffered) \cup {e}
      /\ IsInjective(buffered) /\ e \notin Range(buffered) => IsInjective(Append(buffered, e))
  BY <1>1, <1>4, RangeAppend
<1>. QED
  BY <1>1, <1>2, <1>3, <1>5 DEF S

(* removeProtocolFromAutosend removes its protocol and no other, from a    *)
(* list without doubles.                                                   *)
LEMMA RemoveForgets ==
    ASSUME TypeOK, IsInjective(buffered), NEW e, RemoveProtocolFromAutosend(e)
    PROVE  /\ buffered' \in Seq(Conns \cup Strangers) /\ chains' \in Nat
           /\ IsInjective(buffered') /\ Range(buffered') \subseteq Range(buffered) \ {e}
<1> DEFINE S == Conns \cup Strangers
           at == {i \in DOMAIN buffered : buffered[i] = e}
           k == CHOOSE i \in at : \A j \in at : i <= j
           n == Len(buffered)
           q == [buffered EXCEPT ![k] = buffered[n]]
<1>1. buffered \in Seq(S) /\ n \in Nat /\ DOMAIN buffered = 1 .. n /\ chains' \in Nat
  BY DEF TypeOK, RemoveProtocolFromAutosend
<1>2. CASE at = {}
  <2>1. buffered' = buffered
    BY <1>2 DEF RemoveProtocolFromAutosend
  <2>. QED
    BY <1>1, <1>2, <2>1 DEF Range
<1>3. CASE at # {}
  <2>1. k \in 1 .. n /\ buffered[k] = e
    <3>1. PICK i \in at : TRUE
      BY <1>3
    <3>2. \A j \in at : j = i /\ i <= j
      BY <1>1, <3>1 DEF IsInjective
    <3>3. k \in at
      BY <3>1, <3>2
    <3>. QED
      BY <1>1, <3>3
  <2>2. buffered' = SubSeq(q, 1, n - 1)
    BY <1>3 DEF RemoveProtocolFromAutosend
  <2> HIDE DEF k, n, at, S
  <2>3. q \in Seq(S) /\ Len(q) = n /\ \A j \in 1 .. n : q[j] = IF j = k THEN buffered[n] ELSE buffered[j]
    <3>1. n \in 1 .. n /\ buffered[n] \in S
      BY <1>1, <2>1
    <3>. QED
      BY <1>1, <2>1, <3>1
  <2>4. /\ buffered' \in Seq(S) /\ DOMAIN buffered' = 1 .. (n - 1)
        /\ \A j \in 1 .. (n - 1) : buffered'[j] = IF j = k THEN buffered[n] ELSE buffered[j]
    <3> HIDE DEF q
    <3>1. n - 1 \in Nat /\ n - 1 <= Len(q)
      BY <1>1, <2>1, <2>3
    <3>. QED
      BY <2>2, <2>3, <3>1
  <2>5. IsInjective(buffered')
    BY <1>1, <2>1, <2>4 DEF IsInjective
  <2>6. Range(buffered') \subseteq Range(buffered) \ {e}
    BY <1>1, <2>1, <2>4 DEF IsInjective, Range
  <2>. QED
    BY <1>1, <2>4, <2>5, <2>6 DEF S
<1>. QED
  BY <1>2, <1>3

(* The event login keeps IInv.                                             *)
LEMMA LoginStep == ASSUME IInv, NEW c \in Conns, Login(c) PROVE IInv'
<1> DEFINE r == [con[c] EXCEPT !.next = "done"]
<1>1. /\ Good(con[c]) /\ con \in [Conns -> Record] /\ packets' \in [Conns -> Nat]
      /\ con[c].next = "login"
  BY DEF IInv, TypeOK, Login
<1>2. Good(r) /\ Keeps(con[c], r) /\ r.next = "done" /\ Part(r) /\ r.release = con[c].release
  BY <1>1, EventTaken DEF Good
<1> HIDE DEF r
<1>3. CASE Becomes(c, r) /\ AddProtocolToAutosend(c)
  <2>1. c \notin Range(buffered) /\ con[c].release # "done"
    BY <1>1 DEF IInv, ListedOnce, Good, Part, Life
  <2>2. /\ buffered' \in Seq(Conns \cup Strangers) /\ chains' \in Nat
        /\ IsInjective(buffered') /\ Range(buffered') = Range(buffered) \cup {c}
    BY <1>3, <2>1, AddKeepsOnce DEF IInv, ListedOnce
  <2>3. con' \in [Conns -> Record] /\ con'[c] = r /\ \A d \in Conns \ {c} : con'[d] = con[d]
    BY <1>1, <1>2, <1>3 DEF Becomes, Part
  <2>4. TypeOK'
    BY <1>1, <2>2, <2>3 DEF TypeOK
  <2>5. ListedOnce'
    BY <1>2, <2>1, <2>2, <2>3 DEF IInv, ListedOnce
  <2>6. (\A d \in Conns : Good(con[d]))'
    BY <1>2, <2>3 DEF IInv
  <2>. QED
    BY <2>4, <2>5, <2>6 DEF IInv
<1>4. CASE Becomes(c, DisconnectClient(r)) /\ UNCHANGED Pool
  <2>1. Good(DisconnectClient(r)) /\ Keeps(con[c], DisconnectClient(r))
    BY <1>2, DisconnectGood DEF Keeps
  <2>. QED
    BY <1>1, <1>4, <2>1, ConStep DEF Pool
<1>. QED
  BY <1>3, <1>4 DEF Login, r

(* The event release keeps IInv.                                           *)
LEMMA ReleaseStep == ASSUME IInv, NEW c \in Conns, Release(c) PROVE IInv'
<1> DEFINE r == [con[c] EXCEPT !.release = "done"]
           l == [con[c] EXCEPT !.release = "discarded"]
<1>1. /\ Good(con[c]) /\ con \in [Conns -> Record] /\ packets' \in [Conns -> Nat]
      /\ con[c].release = "posted" /\ con[c].next # "login"
  BY DEF IInv, TypeOK, Release
<1>2. Good(r) /\ r.next = con[c].next /\ r \in Record /\ Good(l) /\ Keeps(con[c], l)
  BY <1>1, EventTaken DEF Good, Part
<1> HIDE DEF r, l
<1>3. CASE Becomes(c, r) /\ RemoveProtocolFromAutosend(c)
  <2>1. /\ buffered' \in Seq(Conns \cup Strangers) /\ chains' \in Nat
        /\ IsInjective(buffered') /\ Range(buffered') \subseteq Range(buffered) \ {c}
    BY <1>3, RemoveForgets DEF IInv, ListedOnce
  <2>2. con' \in [Conns -> Record] /\ con'[c] = r /\ \A d \in Conns \ {c} : con'[d] = con[d]
    BY <1>1, <1>2, <1>3 DEF Becomes
  <2>3. TypeOK'
    BY <1>1, <2>1, <2>2 DEF TypeOK
  <2>4. ListedOnce'
    BY <2>1, <2>2 DEF IInv, ListedOnce
  <2>5. (\A d \in Conns : Good(con[d]))'
    BY <1>2, <2>2 DEF IInv
  <2>. QED
    BY <2>3, <2>4, <2>5 DEF IInv
<1>4. CASE Becomes(c, l) /\ UNCHANGED Pool
  BY <1>1, <1>2, <1>4, ConStep DEF Pool
<1>. QED
  BY <1>3, <1>4 DEF Release, r, l

(* Protocols of strangers that join and leave the list keep IInv.          *)
LEMMA StrangerStep ==
    ASSUME IInv, NEW e \in Strangers, StrangerLogin(e) \/ StrangerRelease(e)
    PROVE  IInv'
<1>1. UNCHANGED <<con, packets>>
  BY DEF StrangerLogin, StrangerRelease
<1>2. /\ buffered' \in Seq(Conns \cup Strangers) /\ chains' \in Nat
      /\ IsInjective(buffered') /\ Range(buffered') \subseteq Range(buffered) \cup {e}
  <2>1. CASE StrangerLogin(e)
    BY <2>1, AddKeepsOnce DEF StrangerLogin, IInv, ListedOnce
  <2>2. CASE StrangerRelease(e)
    BY <2>2, RemoveForgets DEF StrangerRelease, IInv, ListedOnce
  <2>. QED
    BY <2>1, <2>2
<1>3. TypeOK'
  BY <1>1, <1>2 DEF IInv, TypeOK
<1>4. ListedOnce'
  BY <1>1, <1>2, NetworkAssumption DEF IInv, ListedOnce
<1>5. (\A d \in Conns : Good(con[d]))'
  BY <1>1 DEF IInv
<1>. QED
  BY <1>3, <1>4, <1>5 DEF IInv

(* The periodic sendAll keeps IInv.                                        *)
LEMMA SendAllStep == ASSUME IInv, SendAll PROVE IInv'
<1>1. /\ UNCHANGED <<packets, buffered>> /\ chains \in Nat /\ chains > 0
      /\ con' = [c \in Conns |-> IF c \in Range(buffered) THEN Flush(con[c]) ELSE con[c]]
  BY DEF SendAll, IInv, TypeOK
<1>2. chains' \in Nat
  BY <1>1 DEF SendAll
<1>3. \A c \in Conns : Good(con'[c]) /\ Keeps(con[c], con'[c])
  <2>1. \A c \in Conns : Good(con[c]) /\ Keeps(con[c], con[c])
    BY DEF IInv, Keeps
  <2>2. \A c \in Conns : Good(Flush(con[c])) /\ Keeps(con[c], Flush(con[c]))
    BY <2>1, FlushGood
  <2>. QED
    BY <1>1, <2>1, <2>2
<1>4. con' \in [Conns -> Record]
  <2>1. \A c \in Conns : con'[c] \in Record
    BY <1>3 DEF Good, Part
  <2>. QED
    BY <1>1, <2>1
<1>5. TypeOK'
  BY <1>1, <1>2, <1>4 DEF IInv, TypeOK
<1>6. ListedOnce'
  BY <1>1, <1>3 DEF IInv, ListedOnce, Keeps
<1>. QED
  BY <1>3, <1>5, <1>6 DEF IInv

---------------------------------------------------------------------------
(* IInv holds at first.                                                    *)
LEMMA InitIInv == Init => IInv
<1> SUFFICES ASSUME Init PROVE IInv
  OBVIOUS
<1>1. New \in Record
  <2>1. /\ <<>> \in Seq(Messages) /\ <<>> \in Seq(Nat) /\ 0 \in 0 .. MaxSeqNo
        /\ NoMsg \in Messages \cup {NoMsg} /\ <<>> \in Messages
    BY ConnectionAssumption DEF Messages
  <2>. QED
    BY <2>1 DEF New, Record
<1>2. Good(New)
  BY <1>1 DEF New, Good, Part, Writer, InFlight, Numbers, Life, Open, Closed
<1>3. con \in [Conns -> Record] /\ \A c \in Conns : con[c] = New
  BY <1>1 DEF Init
<1>4. TypeOK
  BY <1>3 DEF Init, TypeOK
<1>5. ListedOnce
  BY RangeEmpty DEF Init, ListedOnce
<1>. QED
  BY <1>2, <1>3, <1>4, <1>5 DEF IInv

(* Every step keeps IInv.                                                  *)
LEMMA StepIInv == IInv /\ [Next]_vars => IInv'
<1> SUFFICES ASSUME IInv, [Next]_vars PROVE IInv'
  OBVIOUS
<1>1. CASE UNCHANGED vars
  BY <1>1 DEF vars, IInv, TypeOK, ListedOnce
<1>2. CASE SendAll
  BY <1>2, SendAllStep
<1>3. ASSUME NEW e \in Strangers, StrangerLogin(e) \/ StrangerRelease(e) PROVE IInv'
  BY <1>3, StrangerStep
<1>4. ASSUME NEW c \in Conns, Connect(c) PROVE IInv'
  BY <1>4, ConnectStep
<1>5. ASSUME NEW c \in Conns, NetworkThread(c) PROVE IInv'
  BY <1>5, NetworkThreadStep
<1>6. ASSUME NEW c \in Conns, DispatcherEvent(c) PROVE IInv'
  BY <1>6, GreetStep, LoginStep, DisconnectLaterStep, ParseStep, ReleaseStep
     DEF DispatcherEvent
<1>7. ASSUME NEW c \in Conns, Write(c) PROVE IInv'
  BY <1>7, WriteStep
<1>. QED
  BY <1>1, <1>2, <1>3, <1>4, <1>5, <1>6, <1>7 DEF Next

(* The inductive invariant.                                                *)
THEOREM Invariant == Spec => []IInv
BY InitIInv, StepIInv, PTL DEF Spec

(* The variables keep their types.                                         *)
THEOREM TypeCorrect == Spec => []TypeOK
<1>1. IInv => TypeOK
  BY DEF IInv
<1>. QED
  BY <1>1, Invariant, PTL

(* Connection::send and its writer: one message of each connection is at   *)
(* work at a time, and one is as long as messages are queued.              *)
THEOREM WriterIsOne == Spec => []OneWriter
<1>1. IInv => OneWriter
  BY DEF IInv, Good, Part, Writer, OneWriter
<1>. QED
  BY <1>1, Invariant, PTL

(* Reads and packets that wait for the dispatcher take turns with msg.     *)
THEOREM ReaderIsOne == Spec => []OneReader
<1>1. ASSUME IInv, NEW c \in Conns
      PROVE  /\ con[c].reads + con[c].parses <= 1
             /\ Open(con[c]) => con[c].reads + con[c].parses = 1
  <2>1. Good(con[c]) /\ con[c].reads \in Nat /\ con[c].parses \in Nat
    BY <1>1 DEF IInv, Good, Part, Record
  <2>. QED
    BY <2>1 DEF Good, Part
<1>2. IInv => OneReader
  BY <1>1 DEF OneReader
<1>. QED
  BY <1>2, Invariant, PTL

(* The sequence numbers of a connection count from 1 and wrap at the last, *)
(* for any last number.                                                    *)
THEOREM NumbersCount == Spec => []Numbered
<1>1. IInv => Numbered
  BY DEF IInv, Good, Part, Numbers, NumberOf, Numbered
<1>. QED
  BY <1>1, Invariant, PTL

(* No protocol stays in the autosend list after its release.               *)
THEOREM ReleasedIsOut == Spec => []ReleasedIsForgotten
<1>1. IInv => ReleasedIsForgotten
  BY DEF IInv, ListedOnce, ReleasedIsForgotten
<1>. QED
  BY <1>1, Invariant, PTL

---------------------------------------------------------------------------
(***************************************************************************)
(* The channel.  What is written for a client reaches it in order, none    *)
(* twice and none left out.  Between the socket and the game the items are *)
(* in the queue and in the output buffer; the invariant says that these    *)
(* continue one another.                                                   *)
(***************************************************************************)

(* Message m holds the items after a up to b.                              *)
Carries(m, a, b) == a + Len(m) = b /\ \A i \in 1 .. Len(m) : m[i] = a + i

(* f cuts the items into what was delivered, the messages of the queue,    *)
(* and the output buffer.                                                  *)
Cuts(r, f) ==
    /\ f[0] = Len(r.wire)
    /\ \A i \in 1 .. Len(r.queue) : Carries(r.queue[i], f[i - 1], f[i])
    /\ \A i \in 0 .. Len(r.queue) : f[i] <= r.data
    /\ ~Closed(r) => Carries(r.buffer, f[Len(r.queue)], r.data)

InOrder(r) == \E f \in [0 .. Len(r.queue) -> Nat] : Cuts(r, f)

(* The writer is at the front of the queue.                                *)
AtFront(r) ==
    /\ r.encoding # NoMsg => r.encoding = Head(r.queue)
    /\ r.writing # NoMsg => r.writing = Head(r.queue)

(* Nothing is written before a client connects, and only a closed          *)
(* connection shuts its socket.                                            *)
InTurn(r) ==
    /\ r.state = "unborn" => ~r.first /\ r.data = 0
    /\ r.shut => Closed(r)

Flows(r) == InOrder(r) /\ AtFront(r) /\ InTurn(r)

(* Nothing is written or delivered, and nothing that ended goes on.        *)
Quiet(r, s) ==
    /\ s.wire = r.wire /\ s.data = r.data
    /\ r.shut => s.shut
    /\ r.state # "unborn" => s.state # "unborn"
    /\ Closed(r) => Closed(s)

Follows(r, s) == Flows(s) /\ Quiet(r, s)

(* What the six members that hold items, and the state, tell.              *)
SameItems(r, s) ==
    /\ s.queue = r.queue /\ s.wire = r.wire /\ s.data = r.data /\ s.buffer = r.buffer
    /\ s.encoding = r.encoding /\ s.writing = r.writing

---------------------------------------------------------------------------
(* Moves of items.                                                         *)

(* Closing, or any step that leaves the items alone, keeps their order.    *)
LEMMA OrderStays ==
    ASSUME NEW r, NEW s, InOrder(r), s.queue = r.queue, s.wire = r.wire, s.data = r.data,
           ~Closed(s) => ~Closed(r) /\ s.buffer = r.buffer
    PROVE  InOrder(s)
<1>1. PICK f \in [0 .. Len(r.queue) -> Nat] : Cuts(r, f)
  BY DEF InOrder
<1>2. Cuts(s, f)
  BY <1>1 DEF Cuts
<1>. QED
  BY <1>1, <1>2 DEF InOrder

(* Appending a notice, or the output buffer, to the queue.                 *)
LEMMA OrderAppend ==
    ASSUME NEW r, r \in Record, NEW s, NEW m, InOrder(r), ~Closed(r),
           s.queue = Append(r.queue, m), s.wire = r.wire, s.data = r.data,
           \/ m = Notice /\ s.buffer = r.buffer
           \/ m = r.buffer /\ s.buffer = <<>>
    PROVE  InOrder(s)
<1> DEFINE n == Len(r.queue)
<1>1. /\ r.queue \in Seq(Messages) /\ n \in Nat /\ r.buffer \in Seq(Nat) /\ r.data \in Nat
      /\ m \in Messages
  BY NoticeIsMessage DEF Record, Messages
<1>2. PICK f \in [0 .. n -> Nat] : Cuts(r, f)
  BY DEF InOrder
<1> DEFINE e == IF m = Notice /\ s.buffer = r.buffer THEN f[n] ELSE r.data
           g == [i \in 0 .. (n + 1) |-> IF i = n + 1 THEN e ELSE f[i]]
<1>3. /\ Len(s.queue) = n + 1 /\ s.queue[n + 1] = m
      /\ \A i \in 1 .. n : s.queue[i] = r.queue[i]
  BY <1>1
<1>4. f[n] \in Nat /\ f[n] <= r.data /\ Carries(r.buffer, f[n], r.data)
  BY <1>1, <1>2 DEF Cuts
<1>5. /\ e \in Nat /\ e <= r.data
      /\ Carries(m, f[n], e) /\ Carries(s.buffer, e, r.data)
  <2>1. CASE m = Notice /\ s.buffer = r.buffer
    BY <1>1, <1>4, <2>1 DEF Carries, Notice
  <2>2. CASE ~(m = Notice /\ s.buffer = r.buffer)
    <3>1. m = r.buffer /\ s.buffer = <<>> /\ e = r.data
      BY <2>2
    <3>. QED
      BY <1>1, <1>4, <3>1 DEF Carries
  <2>. QED
    BY <2>1, <2>2
<1> HIDE DEF e, n
<1>6. /\ g \in [0 .. (n + 1) -> Nat] /\ g[n + 1] = e
      /\ \A i \in 0 .. n : g[i] = f[i]
  BY <1>1, <1>5
<1> HIDE DEF g
<1>7. ASSUME NEW i \in 1 .. (n + 1) PROVE Carries(s.queue[i], g[i - 1], g[i])
  <2>1. CASE i = n + 1
    <3>1. g[i - 1] = f[n] /\ g[i] = e /\ s.queue[i] = m
      BY <1>1, <1>3, <1>6, <2>1
    <3>. QED
      BY <1>5, <3>1
  <2>2. CASE i # n + 1
    <3>1. i \in 1 .. n /\ i - 1 \in 0 .. n /\ i \in 0 .. n
      BY <1>1, <2>2
    <3>2. g[i - 1] = f[i - 1] /\ g[i] = f[i] /\ s.queue[i] = r.queue[i]
      BY <1>3, <1>6, <3>1
    <3>. QED
      BY <1>2, <3>1, <3>2 DEF Cuts, n
  <2>. QED
    BY <2>1, <2>2
<1>8. \A i \in 0 .. (n + 1) : g[i] <= s.data
  <2>1. \A i \in 0 .. n : g[i] <= r.data
    BY <1>2, <1>6 DEF Cuts, n
  <2>2. \A i \in 0 .. (n + 1) : i \in 0 .. n \/ i = n + 1
    BY <1>1
  <2>. QED
    BY <1>5, <1>6, <2>1, <2>2
<1>9. g[0] = Len(s.wire)
  BY <1>1, <1>2, <1>6 DEF Cuts
<1>10. Carries(s.buffer, g[Len(s.queue)], s.data)
  BY <1>3, <1>5, <1>6
<1>. QED
  BY <1>3, <1>6, <1>7, <1>8, <1>9, <1>10 DEF InOrder, Cuts

(* The front of the queue is written to the socket.                        *)
LEMMA OrderTail ==
    ASSUME NEW r, r \in Record, NEW s, InOrder(r), r.queue # <<>>,
           s.queue = Tail(r.queue), s.wire = r.wire \o Head(r.queue), s.data = r.data,
           ~Closed(s) => ~Closed(r) /\ s.buffer = r.buffer
    PROVE  /\ InOrder(s)
           /\ Carries(Head(r.queue), Len(r.wire), Len(s.wire)) /\ Len(s.wire) <= r.data
<1> DEFINE n == Len(r.queue)
<1>1. /\ r.queue \in Seq(Messages) /\ n \in Nat \ {0} /\ r.data \in Nat
      /\ r.wire \in Seq(Nat) /\ r.queue[1] \in Seq(Nat) /\ Head(r.queue) = r.queue[1]
  BY DEF Record, Messages
<1>2. PICK f \in [0 .. n -> Nat] : Cuts(r, f)
  BY DEF InOrder
<1> DEFINE g == [i \in 0 .. (n - 1) |-> f[i + 1]]
<1>3. /\ Len(s.queue) = n - 1
      /\ \A i \in 1 .. (n - 1) : s.queue[i] = r.queue[i + 1]
  BY <1>1
<1>4. /\ f[0] = Len(r.wire) /\ Carries(r.queue[1], f[0], f[1]) /\ f[1] <= r.data
  <2>1. 1 \in 1 .. n /\ 1 \in 0 .. n /\ 1 - 1 = 0
    BY <1>1
  <2>2. Carries(r.queue[1], f[1 - 1], f[1])
    BY <1>2, <2>1 DEF Cuts
  <2>. QED
    BY <1>2, <2>1, <2>2 DEF Cuts
<1>5. Len(s.wire) = f[1]
  <2>1. Len(r.wire \o r.queue[1]) = Len(r.wire) + Len(r.queue[1])
    BY <1>1
  <2>. QED
    BY <1>1, <1>4, <2>1 DEF Carries
<1> HIDE DEF n
<1>6. g \in [0 .. (n - 1) -> Nat] /\ \A i \in 0 .. (n - 1) : g[i] = f[i + 1]
  BY <1>1
<1> HIDE DEF g
<1>7. ASSUME NEW i \in 1 .. (n - 1) PROVE Carries(s.queue[i], g[i - 1], g[i])
  <2>1. /\ i + 1 \in 1 .. n /\ i - 1 \in 0 .. (n - 1) /\ i \in 0 .. (n - 1)
        /\ (i - 1) + 1 = i /\ (i + 1) - 1 = i
    BY <1>1
  <2>2. Carries(r.queue[i + 1], f[(i + 1) - 1], f[i + 1])
    BY <1>2, <2>1 DEF Cuts, n
  <2>3. g[i - 1] = f[i] /\ g[i] = f[i + 1] /\ s.queue[i] = r.queue[i + 1]
    BY <1>3, <1>6, <2>1
  <2>. QED
    BY <2>1, <2>2, <2>3
<1>8. ASSUME NEW i \in 0 .. (n - 1) PROVE g[i] <= s.data
  <2>1. i + 1 \in 0 .. n
    BY <1>1
  <2>. QED
    BY <1>2, <1>6, <2>1 DEF Cuts, n
<1>9. g[0] = Len(s.wire)
  <2>1. 0 \in 0 .. (n - 1) /\ 0 + 1 = 1
    BY <1>1
  <2>. QED
    BY <1>5, <1>6, <2>1
<1>10. ~Closed(s) => Carries(s.buffer, g[Len(s.queue)], s.data)
  <2>1. g[n - 1] = f[n]
    BY <1>1, <1>6
  <2>. QED
    BY <1>2, <1>3, <2>1 DEF Cuts, n
<1>. QED
  BY <1>1, <1>3, <1>4, <1>5, <1>6, <1>7, <1>8, <1>9, <1>10 DEF InOrder, Cuts

(* A closed connection gives its queue up.                                 *)
LEMMA OrderCleared ==
    ASSUME NEW r, r \in Record, NEW s, InOrder(r), Closed(s),
           s.queue = <<>>, s.wire = r.wire, s.data = r.data
    PROVE  InOrder(s)
<1>1. PICK f \in [0 .. Len(r.queue) -> Nat] : Cuts(r, f)
  BY DEF InOrder
<1>2. Len(r.wire) <= r.data /\ Len(r.wire) \in Nat /\ Len(s.queue) = 0
  BY <1>1 DEF Cuts, Record, Messages
<1> DEFINE g == [i \in 0 .. 0 |-> Len(r.wire)]
<1>3. g \in [0 .. Len(s.queue) -> Nat] /\ Cuts(s, g)
  BY <1>2 DEF Cuts
<1>. QED
  BY <1>3 DEF InOrder

(* A new item goes to the end of the output buffer.                        *)
LEMMA OrderWrite ==
    ASSUME NEW r, r \in Record, NEW s, InOrder(r), s.queue = r.queue, s.wire = r.wire,
           s.data = r.data + 1, s.buffer = Append(r.buffer, r.data + 1),
           Closed(s) <=> Closed(r)
    PROVE  InOrder(s)
<1>1. PICK f \in [0 .. Len(r.queue) -> Nat] : Cuts(r, f)
  BY DEF InOrder
<1>2. r.buffer \in Seq(Nat) /\ r.data \in Nat /\ Len(r.queue) \in Nat
  BY DEF Record, Messages
<1>3. \A i \in 0 .. Len(s.queue) : f[i] <= s.data
  BY <1>1, <1>2 DEF Cuts
<1>4. ASSUME ~Closed(s) PROVE Carries(s.buffer, f[Len(s.queue)], s.data)
  <2> DEFINE a == f[Len(r.queue)]
  <2>1. a \in Nat /\ Carries(r.buffer, a, r.data)
    BY <1>1, <1>2, <1>4 DEF Cuts
  <2> HIDE DEF a
  <2>2. a + Len(r.buffer) = r.data /\ \A i \in 1 .. Len(r.buffer) : r.buffer[i] = a + i
    BY <2>1 DEF Carries
  <2>3. Len(s.buffer) = Len(r.buffer) + 1 /\ s.buffer[Len(r.buffer) + 1] = r.data + 1
    BY <1>2
  <2>4. \A i \in 1 .. Len(r.buffer) : s.buffer[i] = r.buffer[i]
    BY <1>2
  <2>5. a + Len(s.buffer) = r.data + 1
    BY <1>2, <2>1, <2>2, <2>3
  <2>6. ASSUME NEW i \in 1 .. Len(s.buffer) PROVE s.buffer[i] = a + i
    <3>1. CASE i \in 1 .. Len(r.buffer)
      BY <2>2, <2>4, <3>1
    <3>2. CASE i = Len(r.buffer) + 1
      BY <1>2, <2>1, <2>2, <2>3, <3>2
    <3>. QED
      BY <1>2, <2>3, <3>1, <3>2
  <2>7. Carries(s.buffer, a, s.data)
    BY <2>5, <2>6 DEF Carries
  <2>. QED
    BY <2>7 DEF a
<1>. QED
  BY <1>1, <1>3, <1>4 DEF InOrder, Cuts

---------------------------------------------------------------------------
(* The handlers, one after another.                                        *)

(* A step that leaves the items alone.                                     *)
LEMMA Aside ==
    ASSUME NEW r, NEW s, Flows(r), SameItems(r, s), r.shut => s.shut, s.shut => r.shut \/ Closed(s),
           Closed(r) => Closed(s), r.state # "unborn" => s.state # "unborn",
           s.state = "unborn" => s.first = r.first
    PROVE  Follows(r, s)
<1>1. InOrder(s)
  BY OrderStays DEF Flows, SameItems
<1>2. AtFront(s) /\ InTurn(s) /\ Quiet(r, s)
  BY DEF Flows, AtFront, InTurn, Quiet, SameItems
<1>. QED
  BY <1>1, <1>2 DEF Flows, Follows

(* Steps follow one another.                                               *)
LEMMA FollowsOn ==
    ASSUME NEW r, NEW s, NEW t, Follows(r, s), Follows(s, t)
    PROVE  Follows(r, t)
BY DEF Follows, Quiet

(* A step that was none.                                                   *)
LEMMA FollowsSelf == ASSUME NEW r, Flows(r) PROVE Follows(r, r)
BY DEF Follows, Quiet

(* Connection::close.                                                      *)
LEMMA CloseFollows ==
    ASSUME NEW r, r \in Record, Flows(r), NEW f \in BOOLEAN
    PROVE  Follows(r, Close(r, f)) /\ Closed(Close(r, f))
<1> DEFINE s == Close(r, f)
<1>1. CASE Closed(r)
  BY <1>1, FollowsSelf DEF Close
<1>2. CASE ~Closed(r)
  <2> DEFINE h == r.queue = <<>> \/ f
  <2>1. s = [r EXCEPT !.state = "closed", !.release = "posted", !.shut = h]
    BY <1>2 DEF Close
  <2> HIDE DEF h
  <2>2. SameItems(r, s) /\ s.state = "closed" /\ s.shut = h
    BY <2>1 DEF Record, SameItems
  <2>3. ~r.shut
    BY <1>2 DEF Flows, InTurn
  <2> HIDE DEF s
  <2>4. Closed(s) /\ s.state # "unborn"
    BY <2>2 DEF Closed
  <2>5. Follows(r, s)
    BY <2>2, <2>3, <2>4, Aside
  <2>. QED
    BY <2>4, <2>5 DEF s
<1>. QED
  BY <1>1, <1>2

(* A message is sent and leaves b in the output buffer.                    *)
SendLeaving(r, m, b) == [Send(r, m) EXCEPT !.buffer = b]

(* Connection::send of a notice, or of the output buffer, which is then    *)
(* empty.                                                                  *)
LEMMA SendFlows ==
    ASSUME NEW r, Part(r), Flows(r), NEW m \in Messages, NEW b,
           (m = Notice /\ b = r.buffer) \/ (m = r.buffer /\ b = <<>>),
           Open(r) \/ b = r.buffer \/ Closed(r)
    PROVE  Follows(r, SendLeaving(r, m, b))
<1> DEFINE u == Send(r, m)  s == [u EXCEPT !.buffer = b]
<1>1. r \in Record
  BY DEF Part
<1>2. CASE Open(r)
  <2> DEFINE q == Append(r.queue, m)
             w == IF r.queue = <<>> THEN r.worker + 1 ELSE r.worker
  <2>1. u = [r EXCEPT !.queue = q, !.worker = w]
    BY <1>2 DEF Send
  <2>2. s.queue = Append(r.queue, m) /\ s.buffer = b
    BY <1>1, <2>1 DEF Record
  <2> HIDE DEF q, w
  <2>3. /\ s.wire = r.wire /\ s.data = r.data /\ s.encoding = r.encoding
        /\ s.writing = r.writing /\ s.state = r.state /\ s.shut = r.shut /\ s.first = r.first
    BY <1>1, <2>1 DEF Record
  <2> HIDE DEF s
  <2>4. ~Closed(r) /\ r.state # "unborn"
    BY <1>2 DEF Open, Closed
  <2>5. InOrder(s)
    BY <1>1, <2>2, <2>3, <2>4, OrderAppend DEF Flows
  <2>6. AtFront(s)
    <3>1. CASE r.queue = <<>>
      <4>1. r.encoding = NoMsg /\ r.writing = NoMsg
        BY <1>1, <3>1 DEF Part, Writer, InFlight, Record
      <4>. QED
        BY <2>3, <4>1 DEF AtFront
    <3>2. CASE r.queue # <<>>
      <4>1. Head(Append(r.queue, m)) = Head(r.queue)
        BY <1>1, <3>2 DEF Record
      <4>. QED
        BY <2>2, <2>3, <4>1 DEF Flows, AtFront
    <3>. QED
      BY <3>1, <3>2
  <2>7. InTurn(s) /\ Quiet(r, s)
    BY <2>3, <2>4 DEF Flows, InTurn, Quiet, Closed
  <2>. QED
    BY <2>5, <2>6, <2>7 DEF Flows, Follows, SendLeaving, s
<1>3. CASE ~Open(r)
  <2>1. s = [r EXCEPT !.buffer = b]
    BY <1>3 DEF Send
  <2>2. /\ s.queue = r.queue /\ s.wire = r.wire /\ s.data = r.data
        /\ s.encoding = r.encoding /\ s.writing = r.writing /\ s.buffer = b
        /\ s.state = r.state /\ s.shut = r.shut /\ s.first = r.first
    BY <1>1, <2>1 DEF Record
  <2> HIDE DEF s
  <2>3. InOrder(s)
    BY <1>3, <2>2, OrderStays DEF Flows, Closed
  <2>4. AtFront(s) /\ InTurn(s) /\ Quiet(r, s)
    BY <2>2 DEF Flows, AtFront, InTurn, Quiet, Closed
  <2>. QED
    BY <1>3, <2>3, <2>4 DEF Flows, Follows, SendLeaving, s
<1>. QED
  BY <1>2, <1>3

(* A notice is sent.                                                       *)
LEMMA NoticeFollows ==
    ASSUME NEW r, Part(r), Flows(r)
    PROVE  Follows(r, Send(r, Notice))
<1> DEFINE u == Send(r, Notice)  b == r.buffer
<1>1. u \in Record /\ r \in Record /\ u.buffer = b
  <2>1. u \in Record /\ r \in Record
    BY SendPart, NoticeIsMessage DEF Part
  <2>. QED
    BY <2>1 DEF Send, Record
<1>2. [u EXCEPT !.buffer = b] = u
  BY <1>1 DEF Record
<1>3. b = r.buffer /\ Notice \in Messages
  BY NoticeIsMessage
<1> HIDE DEF b, u
<1>4. Follows(r, SendLeaving(r, Notice, b))
  BY <1>3, SendFlows
<1>. QED
  BY <1>2, <1>4 DEF u, SendLeaving

(* disconnectClient.                                                       *)
LEMMA DisconnectFollows ==
    ASSUME NEW r, Part(r), Flows(r)
    PROVE  Follows(r, DisconnectClient(r)) /\ Closed(DisconnectClient(r))
<1> DEFINE u == Send(r, Notice)
<1>1. Follows(r, u) /\ u \in Record
  BY NoticeFollows, SendPart, NoticeIsMessage DEF Part
<1> HIDE DEF u
<1>2. Follows(u, Close(u, FALSE)) /\ Closed(Close(u, FALSE))
  BY <1>1, CloseFollows DEF Follows
<1>3. DisconnectClient(r) = Close(u, FALSE)
  BY DEF DisconnectClient, u
<1>. QED
  BY <1>1, <1>2, <1>3, FollowsOn

(* The output buffer is sent.                                              *)
LEMMA FlushFollows ==
    ASSUME NEW r, Good(r), Flows(r)
    PROVE  Follows(r, Flush(r))
<1>1. CASE r.buffer = <<>>
  BY <1>1, FollowsSelf DEF Flush
<1>2. CASE r.buffer # <<>>
  <2>1. Part(r) /\ r \in Record /\ r.buffer \in Messages
    BY DEF Good, Part, Record
  <2>2. Open(r) \/ Closed(r)
    <3>1. CASE r.state = "unborn"
      <4>1. ~Closed(r) /\ r.data = 0 /\ r.buffer \in Seq(Nat)
        BY <2>1, <3>1 DEF Flows, InTurn, Closed, Messages
      <4>2. PICK f \in [0 .. Len(r.queue) -> Nat] : Cuts(r, f)
        BY DEF Flows, InOrder
      <4>3. Len(r.queue) \in Nat
        BY <2>1 DEF Record
      <4>4. f[Len(r.queue)] + Len(r.buffer) = 0 /\ f[Len(r.queue)] \in Nat
        BY <4>1, <4>2, <4>3 DEF Cuts, Carries
      <4>5. Len(r.buffer) = 0
        BY <4>1, <4>4
      <4>. QED
        BY <1>2, <4>1, <4>5
    <3>2. CASE r.state # "unborn"
      BY <2>1, <3>2 DEF Record, Open, Closed
    <3>. QED
      BY <3>1, <3>2
  <2>. QED
    BY <1>2, <2>1, <2>2, SendFlows DEF Flush, SendLeaving
<1>. QED
  BY <1>1, <1>2

(* internalWorker takes the front of the queue.                            *)
LEMMA InternalWorkerFollows ==
    ASSUME NEW r, Good(r), Flows(r), r.worker > 0
    PROVE  Follows(r, InternalWorker(r))
<1> DEFINE m == Head(r.queue)  n == r.worker - 1
           s == [r EXCEPT !.worker = n, !.encoding = m]
<1>1. r \in Record /\ r.worker \in Nat
  BY DEF Good, Part, Record
<1>2. r.queue # <<>> /\ r.encoding = NoMsg /\ r.writing = NoMsg
  BY <1>1 DEF Good, Part, Writer, InFlight
<1>3. InternalWorker(r) = s
  BY <1>1, <1>2 DEF InternalWorker, TakeFront, Record
<1> HIDE DEF m, n
<1>4. /\ s.queue = r.queue /\ s.wire = r.wire /\ s.data = r.data /\ s.buffer = r.buffer
      /\ s.encoding = m /\ s.writing = NoMsg
      /\ s.state = r.state /\ s.shut = r.shut /\ s.first = r.first
  BY <1>1, <1>2 DEF Record
<1> HIDE DEF s
<1>5. InOrder(s)
  BY <1>4, OrderStays DEF Flows, Closed
<1>6. AtFront(s) /\ InTurn(s) /\ Quiet(r, s)
  BY <1>4 DEF Flows, AtFront, InTurn, Quiet, Closed, m
<1>. QED
  BY <1>3, <1>5, <1>6 DEF Flows, Follows

(* onSendMessage hands the front of the queue to the socket.               *)
LEMMA OnSendMessageFollows ==
    ASSUME NEW r, Good(r), Flows(r), r.encoding # NoMsg
    PROVE  Follows(r, OnSendMessage(r))
<1> DEFINE s == OnSendMessage(r)
<1>1. r \in Record
  BY DEF Good, Part
<1>2. /\ s.queue = r.queue /\ s.wire = r.wire /\ s.data = r.data /\ s.buffer = r.buffer
      /\ s.encoding = NoMsg /\ s.writing = r.encoding
      /\ s.state = r.state /\ s.shut = r.shut /\ s.first = r.first
  BY <1>1 DEF OnSendMessage, Record
<1> HIDE DEF s
<1>3. InOrder(s)
  BY <1>2, OrderStays DEF Flows, Closed
<1>4. AtFront(s) /\ InTurn(s) /\ Quiet(r, s)
  BY <1>2 DEF Flows, AtFront, InTurn, Quiet, Closed
<1>. QED
  BY <1>3, <1>4 DEF Flows, Follows, s

(* onWriteOperation: the front of the queue has reached the client.  Every *)
(* other handler is Quiet; this one delivers.                              *)
LEMMA OnWriteOperationFlows ==
    ASSUME NEW r, Good(r), Flows(r), r.writing # NoMsg
    PROVE  LET s == OnWriteOperation(r)
           IN  /\ Flows(s) /\ s.data = r.data /\ s.wire = r.wire \o r.writing
               /\ Carries(r.writing, Len(r.wire), Len(s.wire)) /\ Len(s.wire) <= r.data
               /\ s.state = r.state /\ (r.shut => s.shut)
<1> DEFINE q == Tail(r.queue)  w == r.wire \o r.writing
           u == [r EXCEPT !.writing = NoMsg, !.queue = q, !.wire = w]
           s == OnWriteOperation(r)
<1>1. r \in Record /\ r.worker \in Nat
  BY DEF Good, Part, Record
<1>2. r.queue # <<>> /\ r.encoding = NoMsg /\ r.writing = Head(r.queue)
  BY <1>1 DEF Good, Part, Writer, InFlight, Flows, AtFront
<1>3. s = IF u.queue # <<>> THEN TakeFront(u) ELSE CloseSocketIfDrained(u)
  BY DEF OnWriteOperation
<1> HIDE DEF q, w
<1>4. /\ u.queue = q /\ u.wire = w /\ u.data = r.data /\ u.buffer = r.buffer
      /\ u.encoding = NoMsg /\ u.writing = NoMsg
      /\ u.state = r.state /\ u.shut = r.shut /\ u.first = r.first
  BY <1>1, <1>2 DEF Record
<1>5. /\ s.queue = q /\ s.wire = w /\ s.data = r.data /\ s.buffer = r.buffer
      /\ s.writing = NoMsg /\ s.encoding \in {NoMsg, Head(q)}
      /\ s.state = r.state /\ s.first = r.first
      /\ (r.shut => s.shut) /\ (s.shut => r.shut \/ Closed(s))
  <2>1. CASE u.queue # <<>>
    <3>1. s = [r EXCEPT !.writing = NoMsg, !.queue = q, !.wire = w, !.encoding = Head(q)]
      BY <1>1, <1>3, <1>4, <2>1 DEF TakeFront, Record
    <3>. QED
      BY <1>1, <3>1 DEF Record
  <2>2. CASE u.queue = <<>> /\ Closed(u)
    <3>1. s = [r EXCEPT !.writing = NoMsg, !.queue = q, !.wire = w, !.shut = TRUE]
      BY <1>1, <1>3, <2>2 DEF CloseSocketIfDrained, Record
    <3>2. Closed(r)
      BY <1>4, <2>2 DEF Closed
    <3>. QED
      BY <1>1, <1>2, <3>1, <3>2 DEF Record, Closed
  <2>3. CASE u.queue = <<>> /\ ~Closed(u)
    <3>1. s = u
      BY <1>3, <2>3 DEF CloseSocketIfDrained
    <3>. QED
      BY <1>4, <3>1
  <2>. QED
    BY <2>1, <2>2, <2>3
<1> HIDE DEF u, s
<1>6. /\ InOrder(s)
      /\ Carries(Head(r.queue), Len(r.wire), Len(s.wire)) /\ Len(s.wire) <= r.data
  BY <1>1, <1>2, <1>5, OrderTail DEF Flows, Closed, q, w
<1>7. AtFront(s) /\ InTurn(s)
  BY <1>5 DEF Flows, AtFront, InTurn, Closed
<1>. QED
  BY <1>2, <1>5, <1>6, <1>7 DEF Flows, s, w

(* A write that failed: the queue is given up, and the connection closed.  *)
LEMMA OnWriteErrorFollows ==
    ASSUME NEW r, Good(r), Flows(r), r.writing # NoMsg
    PROVE  Follows(r, OnWriteError(r))
<1> DEFINE u == [r EXCEPT !.writing = NoMsg, !.queue = <<>>]
           s == OnWriteError(r)
<1>1. r \in Record /\ r.worker \in Nat /\ r.state \in {"unborn", "identifying", "readings", "open", "closed"}
  BY DEF Good, Part, Record
<1>2. r.encoding = NoMsg
  BY <1>1 DEF Good, Part, Writer, InFlight
<1>3. /\ s.queue = <<>> /\ s.wire = r.wire /\ s.data = r.data
      /\ s.encoding = NoMsg /\ s.writing = NoMsg
      /\ Closed(s) /\ (r.shut => s.shut)
  <2>1. CASE Closed(r)
    <3>1. s = u
      BY <1>1, <2>1 DEF OnWriteError, Close, Closed, Record
    <3>. QED
      BY <1>1, <1>2, <2>1, <3>1 DEF Record, Closed
  <2>2. CASE ~Closed(r)
    <3>1. s = [r EXCEPT !.writing = NoMsg, !.queue = <<>>, !.state = "closed",
                        !.release = "posted", !.shut = TRUE]
      BY <1>1, <2>2 DEF OnWriteError, Close, Closed, Record
    <3>. QED
      BY <1>1, <1>2, <3>1 DEF Record, Closed
  <2>. QED
    BY <2>1, <2>2
<1> HIDE DEF s
<1>4. InOrder(s)
  BY <1>1, <1>3, OrderCleared DEF Flows
<1>5. AtFront(s) /\ InTurn(s) /\ Quiet(r, s)
  BY <1>3 DEF AtFront, InTurn, Quiet, Closed
<1>. QED
  BY <1>4, <1>5 DEF Flows, Follows, s

---------------------------------------------------------------------------
(* Reading.                                                                *)

(* A read is started.                                                      *)
LEMMA AcceptInternalFollows ==
    ASSUME NEW r, r \in Record, Flows(r)
    PROVE  Follows(r, AcceptInternal(r))
<1> DEFINE s == AcceptInternal(r)
<1>1. SameItems(r, s) /\ s.state = r.state /\ s.shut = r.shut /\ s.first = r.first
  BY DEF AcceptInternal, SameItems, Record
<1> HIDE DEF s
<1>2. Follows(r, s)
  BY <1>1, Aside DEF Closed
<1>. QED
  BY <1>2 DEF s

(* A read has ended.                                                       *)
LEMMA ReadFollows ==
    ASSUME NEW r, Good(r), Flows(r), r.reads > 0
    PROVE  Follows(r, Read(r)) /\ Part(Read(r)) /\ Read(r) \in Record
<1> DEFINE s == Read(r)
<1>1. r \in Record
  BY DEF Good, Part
<1>2. SameItems(r, s) /\ s.state = r.state /\ s.shut = r.shut /\ s.first = r.first
  BY <1>1 DEF Read, SameItems, Record
<1>3. Part(s) /\ s \in Record
  BY ReadPart DEF Part
<1> HIDE DEF s
<1>4. Follows(r, s)
  BY <1>2, Aside DEF Closed
<1>. QED
  BY <1>3, <1>4 DEF s

(* The connection is closed by the handler of a read.                      *)
LEMMA ReadCloseFollows ==
    ASSUME NEW r, Good(r), Flows(r), r.reads > 0, NEW f \in BOOLEAN
    PROVE  Follows(r, Close(Read(r), f))
<1>1. Follows(r, Read(r)) /\ Read(r) \in Record
  BY ReadFollows
<1>2. Follows(Read(r), Close(Read(r), f))
  BY <1>1, CloseFollows DEF Follows
<1>. QED
  BY <1>1, <1>2, FollowsOn

(* The handler goes on reading in another state.                           *)
LEMMA ReadingOnFollows ==
    ASSUME NEW r, r \in Record, Flows(r), Open(r), NEW x \in {"readings", "open"}
    PROVE  /\ Follows(r, [r EXCEPT !.state = x])
           /\ Follows(r, [r EXCEPT !.state = x, !.stage = "body"])
<1>1. ~Closed(r)
  BY DEF Open, Closed
<1> DEFINE s == [r EXCEPT !.state = x]
<1>2. SameItems(r, s) /\ s.state = x /\ s.shut = r.shut
  BY DEF SameItems, Record
<1> HIDE DEF s
<1>3. Follows(r, s)
  BY <1>1, <1>2, Aside
<1> DEFINE t == [r EXCEPT !.state = x, !.stage = "body"]
<1>4. SameItems(r, t) /\ t.state = x /\ t.shut = r.shut
  BY DEF SameItems, Record
<1> HIDE DEF t
<1>5. Follows(r, t)
  BY <1>1, <1>4, Aside
<1>. QED
  BY <1>3, <1>5 DEF s, t

(* parseHeader.                                                            *)
LEMMA ParseHeaderFollows ==
    ASSUME NEW r, Good(r), Flows(r), Open(r), r.reads > 0
    PROVE  \A s \in ParseHeader(r) : Follows(r, s)
<1>1. Follows(r, [r EXCEPT !.state = "open", !.stage = "body"])
  BY ReadingOnFollows DEF Good, Part
<1>2. Follows(r, Close(Read(r), FALSE)) /\ Follows(r, Close(Read(r), TRUE))
  BY ReadCloseFollows
<1>. QED
  BY <1>1, <1>2 DEF ParseHeader

(* parseProxyIdentification.                                               *)
LEMMA ParseProxyIdentificationFollows ==
    ASSUME NEW r, Good(r), Flows(r), Open(r), r.reads > 0
    PROVE  \A s \in ParseProxyIdentification(r) : Follows(r, s)
<1> DEFINE u == [r EXCEPT !.state = "open"]  v == [r EXCEPT !.state = "readings"]
<1>1. r \in Record
  BY DEF Good, Part
<1>2. Follows(r, u) /\ Follows(r, v)
  BY <1>1, ReadingOnFollows
<1>3. Good(u) /\ Open(u) /\ u.reads > 0
  <2> DEFINE y == r.stage  w == [r EXCEPT !.state = "open", !.stage = y]
  <2>1. u = w /\ y \in {"header", "body"}
    BY <1>1 DEF Record
  <2> HIDE DEF y
  <2>2. Good(w) /\ Open(w) /\ w.reads = r.reads
    BY <2>1, ReadingOn
  <2>. QED
    BY <2>1, <2>2
<1>4. Follows(r, Close(Read(r), TRUE))
  BY ReadCloseFollows
<1> HIDE DEF u, v
<1>5. \A s \in ParseHeader(u) : Follows(r, s)
  BY <1>2, <1>3, ParseHeaderFollows, FollowsOn DEF Follows
<1>. QED
  BY <1>2, <1>4, <1>5 DEF ParseProxyIdentification, u, v

(* A member of the connection's life changes.                              *)
LEMMA LifeFollows ==
    ASSUME NEW r, r \in Record, Flows(r)
    PROVE  /\ \A x : Follows(r, [r EXCEPT !.next = x])
           /\ \A x : Follows(r, [r EXCEPT !.release = x])
           /\ \A x : Follows(r, [r EXCEPT !.greet = x])
           /\ \A x : Follows(r, [r EXCEPT !.parses = x])
           /\ \A x : Follows(r, [r EXCEPT !.peer = x])
           /\ r.state # "unborn" => Follows(r, [r EXCEPT !.first = TRUE])
<1> DEFINE Alike(s) == SameItems(r, s) /\ s.state = r.state /\ s.shut = r.shut
<1>1. ASSUME NEW s, Alike(s), s.first = r.first \/ r.state # "unborn" PROVE Follows(r, s)
  BY <1>1, Aside DEF Closed
<1>2. ASSUME NEW x
      PROVE  LET s == [r EXCEPT !.next = x] IN Alike(s) /\ s.first = r.first
  BY DEF SameItems, Record
<1>3. ASSUME NEW x
      PROVE  LET s == [r EXCEPT !.release = x] IN Alike(s) /\ s.first = r.first
  BY DEF SameItems, Record
<1>4. ASSUME NEW x
      PROVE  LET s == [r EXCEPT !.greet = x] IN Alike(s) /\ s.first = r.first
  BY DEF SameItems, Record
<1>5. ASSUME NEW x
      PROVE  LET s == [r EXCEPT !.parses = x] IN Alike(s) /\ s.first = r.first
  BY DEF SameItems, Record
<1>6. ASSUME NEW x
      PROVE  LET s == [r EXCEPT !.peer = x] IN Alike(s) /\ s.first = r.first
  BY DEF SameItems, Record
<1>7. Alike([r EXCEPT !.first = TRUE])
  BY DEF SameItems, Record
<1> HIDE DEF Alike
<1>. QED
  BY <1>1, <1>2, <1>3, <1>4, <1>5, <1>6, <1>7

(* onRecvFirstMessage.                                                     *)
LEMMA FirstMessageFollows ==
    ASSUME NEW r, Good(r), Flows(r), Open(r), r.reads > 0
    PROVE  \A s \in FirstMessage(r) : Follows(r, s)
<1> DEFINE u == Read(r)  s == [u EXCEPT !.first = TRUE]
           n == Send(s, Notice)  d == DisconnectClient(s)
<1>1. Follows(r, u) /\ Part(u) /\ u \in Record /\ u.state = r.state /\ u.release = "none"
  BY ReadFollows, ReadPart DEF Good, Part, Life, Open, Closed
<1> HIDE DEF u
<1>2. s \in Record
  BY <1>1 DEF Record
<1>3. /\ s.queue = u.queue /\ s.worker = u.worker /\ s.encoding = u.encoding
      /\ s.writing = u.writing /\ s.numbers = u.numbers /\ s.seqNo = u.seqNo
      /\ s.first = TRUE /\ s.state = u.state /\ s.next = u.next
      /\ s.release = "none" /\ s.reads = u.reads /\ s.parses = u.parses
  BY <1>1 DEF Record
<1>4. Follows(u, s)
  <2>1. u.state # "unborn" /\ Flows(u)
    BY <1>1 DEF Open, Follows
  <2>. QED
    BY <1>1, <2>1, LifeFollows
<1> HIDE DEF s
<1>5. Part(s) /\ Flows(s) /\ Follows(r, s)
  <2>1. Part(s)
    BY <1>1, <1>2, <1>3 DEF Part, Writer, InFlight, Numbers, Life, Open, Closed
  <2>. QED
    BY <1>1, <1>4, <2>1, FollowsOn DEF Follows
<1>6. ASSUME NEW v, Follows(r, v), v \in Record, NEW x \in {"login", "disconnect"}
      PROVE  Follows(r, AcceptInternal([v EXCEPT !.next = x]))
  <2> DEFINE w == [v EXCEPT !.next = x]
  <2>1. w \in Record
    BY <1>6 DEF Record
  <2>2. Follows(v, w)
    BY <1>6, LifeFollows DEF Follows
  <2> HIDE DEF w
  <2>3. Follows(w, AcceptInternal(w))
    BY <2>1, <2>2, AcceptInternalFollows DEF Follows
  <2>. QED
    BY <1>6, <2>2, <2>3, FollowsOn DEF w
<1>7. Follows(r, AcceptInternal([s EXCEPT !.next = "login"]))
  BY <1>2, <1>5, <1>6
<1>8. Follows(r, AcceptInternal(d))
  <2>1. Follows(s, d) /\ d \in Record
    BY <1>5, DisconnectFollows, DisconnectGood DEF Good, Part
  <2>2. Follows(d, AcceptInternal(d))
    BY <2>1, AcceptInternalFollows DEF Follows
  <2>. QED
    BY <1>5, <2>1, <2>2, FollowsOn
<1>9. Follows(r, AcceptInternal([n EXCEPT !.next = "disconnect"]))
  <2>1. Follows(s, n) /\ n \in Record
    BY <1>5, NoticeFollows, SendPart, NoticeIsMessage DEF Part
  <2>. QED
    BY <1>5, <1>6, <2>1, FollowsOn
<1>10. Follows(r, AcceptInternal(Close(s, FALSE)))
  <2> DEFINE e == Close(s, FALSE)
  <2>1. Follows(s, e) /\ e \in Record
    BY <1>2, <1>5, CloseFollows, CloseGood DEF Good, Part
  <2> HIDE DEF e
  <2>2. Follows(e, AcceptInternal(e))
    BY <2>1, AcceptInternalFollows DEF Follows
  <2>. QED
    BY <1>5, <2>1, <2>2, FollowsOn DEF e
<1>. QED
  BY <1>7, <1>8, <1>9, <1>10 DEF FirstMessage, s, u

(* onRecvMessage.                                                          *)
LEMMA LaterMessageFollows ==
    ASSUME NEW r, Good(r), Flows(r), r.reads > 0
    PROVE  \A s \in LaterMessage(r) : Follows(r, s)
<1> DEFINE u == Read(r)  n == u.parses + 1
<1>1. Follows(r, u) /\ u \in Record /\ Flows(u)
  BY ReadFollows DEF Follows
<1> HIDE DEF u
<1>2. Follows(r, AcceptInternal(u))
  BY <1>1, AcceptInternalFollows, FollowsOn
<1>3. Follows(r, [u EXCEPT !.parses = n])
  BY <1>1, LifeFollows, FollowsOn
<1>. QED
  BY <1>2, <1>3 DEF LaterMessage, u

(* Every handler of a read.                                                *)
LEMMA OnReadFollows ==
    ASSUME NEW r, Good(r), Flows(r), r.reads > 0
    PROVE  \A s \in OnRead(r) : Follows(r, s)
<1>1. CASE Closed(r)
  BY <1>1, ReadFollows DEF OnRead
<1>2. CASE ~Closed(r)
  <2>1. Open(r)
    <3>1. r \in Record /\ r.state # "unborn"
      BY ReadPart DEF Good, Part
    <3>. QED
      BY <1>2, <3>1 DEF Record, Open, Closed
  <2>2. \A s \in ParsePacket(r) : Follows(r, s)
    BY <2>1, FirstMessageFollows, LaterMessageFollows DEF ParsePacket
  <2>. QED
    BY <1>2, <2>1, <2>2, ParseHeaderFollows, ParseProxyIdentificationFollows DEF OnRead
<1>. QED
  BY <1>1, <1>2

(* The client is gone.                                                     *)
LEMMA LostFollows ==
    ASSUME NEW r, r \in Record, Flows(r)
    PROVE  Follows(r, Lost(r))
BY FollowsSelf, LifeFollows DEF Lost

(* getOutputBuffer and append: the one operation that writes.              *)
LEMMA WriteFlows ==
    ASSUME NEW r, Good(r), Flows(r), r.state # "unborn"
    PROVE  LET s == WriteToOutputBuffer(r)
           IN  /\ Flows(s) /\ s.wire = r.wire /\ s.data = r.data + 1
               /\ s.state = r.state /\ s.shut = r.shut
               /\ Closed(r) => Alive(s) = Alive(r)
<1> DEFINE u == IF Len(r.buffer) >= BufferSize THEN Flush(r) ELSE r
           n == u.data + 1  b == Append(u.buffer, n)
           s == [u EXCEPT !.data = n, !.buffer = b]
<1>1. Follows(r, u) /\ u \in Record /\ r \in Record
  BY FlushFollows, FlushGood, FollowsSelf DEF Good, Part
<1>2. /\ u.state = r.state /\ u.shut = r.shut
      /\ Closed(r) => /\ u.worker = r.worker /\ u.reads = r.reads
                      /\ u.encoding = r.encoding /\ u.writing = r.writing
  <2>1. CASE Open(r)
    <3>1. ~Closed(r)
      BY <2>1 DEF Open, Closed
    <3>. QED
      BY <1>1, <2>1, <3>1 DEF Flush, Send, Record
  <2>2. CASE ~Open(r)
    BY <1>1, <2>2 DEF Flush, Send, Record
  <2>. QED
    BY <2>1, <2>2
<1>3. WriteToOutputBuffer(r) = s
  BY DEF WriteToOutputBuffer
<1> HIDE DEF u, b
<1>4. /\ s.queue = u.queue /\ s.wire = u.wire /\ s.data = u.data + 1 /\ s.buffer = b
      /\ s.encoding = u.encoding /\ s.writing = u.writing
      /\ s.state = u.state /\ s.shut = u.shut /\ s.first = u.first
      /\ s.worker = u.worker /\ s.reads = u.reads
  BY <1>1 DEF Record
<1> HIDE DEF s, n
<1>5. InOrder(s)
  BY <1>1, <1>4, OrderWrite DEF Follows, Flows, Closed, b, n
<1>6. AtFront(s) /\ InTurn(s)
  BY <1>1, <1>2, <1>4 DEF Follows, Flows, AtFront, InTurn, Closed
<1>7. Closed(r) => Alive(s) = Alive(r)
  BY <1>2, <1>4 DEF Alive, Open, Closed
<1>. QED
  BY <1>1, <1>2, <1>3, <1>4, <1>5, <1>6, <1>7 DEF Follows, Quiet, Flows

---------------------------------------------------------------------------
(* Steps of the channel.                                                   *)

(* No further item will reach the client.                                  *)
Over(r) == r.state # "unborn" /\ ~SocketOpen(r)

Silent(r, s) == s.wire = r.wire /\ s.data = r.data /\ (Over(r) => Over(s))

Writes(r, s) == s.wire = r.wire /\ s.data = r.data + 1 /\ Over(s) = Over(r)

Delivers(r, s) ==
    /\ ~Over(r) /\ s.data = r.data /\ Len(s.wire) <= r.data
    /\ r.writing \in Messages \ {<<>>} /\ s.wire = r.wire \o r.writing
    /\ Carries(r.writing, Len(r.wire), Len(s.wire))

Moves(r, s) == Silent(r, s) \/ Writes(r, s) \/ Delivers(r, s)

(* Each of the three is a step of Channel, or none.                        *)
LEMMA ChannelSteps ==
    ASSUME NEW c \in Conns, con[c] \in Record, con'[c] \in Record, Moves(con[c], con'[c])
    PROVE  [ChannelOf(c)!Next]_(ChannelOf(c)!vars)
<1> DEFINE r == con[c]  s == con'[c]
<1>1. CASE Silent(r, s)
  <2>1. CASE Over(s)
    BY <1>1, <2>1
       DEF Silent, Over, ChannelOf!Next, ChannelOf!Finish, SocketOpen, Alive, Open, Closed
  <2>2. CASE ~Over(s)
    <3>1. ~Over(r)
      BY <1>1, <2>2 DEF Silent
    <3>2. Over(s) = Over(r)
      BY <2>2, <3>1 DEF Over
    <3>. QED
      BY <1>1, <3>2
         DEF Silent, Over, ChannelOf!vars, SocketOpen, Alive, Open, Closed
  <2>. QED
    BY <2>1, <2>2
<1>2. CASE Writes(r, s)
  BY <1>2 DEF Writes, Over, ChannelOf!Next, ChannelOf!Write, SocketOpen, Alive, Open, Closed
<1>3. CASE Delivers(r, s)
  <2> DEFINE m == r.writing  n == Len(m)  k == Len(r.wire)
             new == [i \in 1 .. n |-> k + i]
  <2>0. m \in Seq(Nat) /\ m # <<>> /\ r.wire \in Seq(Nat) /\ r.data \in Nat
    BY <1>3 DEF Delivers, Messages, Record
  <2> HIDE DEF r, s
  <2>1. n \in Nat /\ n # 0 /\ k \in Nat
    BY <2>0
  <2>2. Len(s.wire) = k + n /\ k + n <= r.data
    BY <1>3, <2>0, <2>1 DEF Delivers, Carries
  <2>3. n \in 1 .. (r.data - k)
    <3>1. \A x \in Nat, y \in Nat, z \in Nat : x # 0 /\ y + x <= z => x \in 1 .. (z - y)
      OBVIOUS
    <3> HIDE DEF n, k
    <3>. QED
      BY <2>0, <2>1, <2>2, <3>1
  <2>4. m = new
    <3>1. DOMAIN m = 1 .. n /\ m = [i \in 1 .. n |-> m[i]]
      BY <2>0
    <3>2. \A i \in 1 .. n : m[i] = k + i
      BY <1>3 DEF Delivers, Carries
    <3>. QED
      BY <3>1, <3>2
  <2>5. s.wire = r.wire \o new /\ s.data = r.data /\ ~Over(r)
    BY <1>3, <2>4 DEF Delivers
  <2>6. Over(s) \in BOOLEAN
    BY DEF Over
  <2> HIDE DEF m, n
  <2>7. ChannelOf(c)!Deliver
    BY <2>3, <2>5, <2>6 DEF ChannelOf!Deliver, Over, r, s
  <2>. QED
    BY <2>7 DEF ChannelOf!Next
<1>. QED
  BY <1>1, <1>2, <1>3 DEF Moves

(* What Over looks at.                                                     *)
LEMMA SameEnd ==
    ASSUME NEW r, NEW s, s.state = r.state, s.shut = r.shut, s.worker = r.worker,
           s.reads = r.reads, s.encoding = r.encoding, s.writing = r.writing
    PROVE  Over(s) = Over(r)
BY DEF Over, SocketOpen, Alive, Open, Closed

(* A handler that is at work on a connection does not find it ended,       *)
(* unless its socket was shut; which it stays.                             *)
LEMMA HandlerSilent ==
    ASSUME NEW r, NEW s, r.state = "unborn" \/ Alive(r), Follows(r, s)
    PROVE  Silent(r, s)
BY DEF Silent, Follows, Quiet, Over, SocketOpen

(* The dispatcher's events may come when all is over: what they send and   *)
(* close has no effect then.                                               *)
LEMMA EventSilent ==
    ASSUME NEW r, r \in Record, NEW s, s \in Record, Follows(r, s), Over(s) = Over(r),
           NEW t, t \in {s, Send(s, Notice), DisconnectClient(s), Close(s, FALSE)},
           Follows(r, t)
    PROVE  Silent(r, t)
<1>1. CASE Closed(s)
  <2>1. t = s
    BY <1>1 DEF Send, DisconnectClient, Close, Open, Closed
  <2>. QED
    BY <2>1 DEF Silent, Follows, Quiet
<1>2. CASE ~Closed(s)
  <2>1. ~Closed(r)
    BY <1>2 DEF Follows, Quiet
  <2>2. r.state = "unborn" \/ Alive(r)
    BY <2>1 DEF Record, Closed, Alive, Open
  <2>. QED
    BY <2>2, HandlerSilent
<1>. QED
  BY <1>1, <1>2

(* The periodic event sends a buffer.                                      *)
LEMMA FlushSilent ==
    ASSUME NEW r, Good(r), Flows(r)
    PROVE  Silent(r, Flush(r))
<1>1. Follows(r, Flush(r)) /\ r \in Record
  BY FlushFollows DEF Good, Part
<1>2. CASE Closed(r)
  <2>1. Flush(r) = r \/ Flush(r) = [r EXCEPT !.buffer = <<>>]
    BY <1>2 DEF Flush, Send, Open, Closed
  <2>2. Over(Flush(r)) = Over(r)
    BY <1>1, <2>1, SameEnd DEF Record
  <2>. QED
    BY <1>1, <2>2 DEF Silent, Follows, Quiet
<1>3. CASE ~Closed(r)
  <2>1. r.state = "unborn" \/ Alive(r)
    BY <1>1, <1>3 DEF Record, Closed, Alive, Open
  <2>. QED
    BY <1>1, <2>1, HandlerSilent
<1>. QED
  BY <1>2, <1>3

---------------------------------------------------------------------------
(* The connections.                                                        *)

FlowInv == \A c \in Conns : Flows(con[c])

AllMove == \A c \in Conns : Moves(con[c], con'[c])

(* A step of one connection.                                               *)
LEMMA OneMoves ==
    ASSUME IInv, FlowInv, NEW c \in Conns, NEW s, Becomes(c, s), Flows(s), Moves(con[c], s)
    PROVE  FlowInv' /\ AllMove
<1>1. con' = [con EXCEPT ![c] = s] /\ con \in [Conns -> Record]
  BY DEF Becomes, IInv, TypeOK
<1>2. con'[c] = s /\ \A d \in Conns \ {c} : con'[d] = con[d]
  BY <1>1
<1>3. \A d \in Conns : Silent(con[d], con[d])
  BY DEF Silent
<1>4. FlowInv'
  BY <1>2 DEF FlowInv
<1>5. AllMove
  BY <1>2, <1>3 DEF AllMove, Moves
<1>. QED
  BY <1>4, <1>5

(* A silent step of one connection.                                        *)
LEMMA OneSilent ==
    ASSUME IInv, FlowInv, NEW c \in Conns, NEW s, Becomes(c, s), Follows(con[c], s),
           Silent(con[c], s)
    PROVE  FlowInv' /\ AllMove
BY OneMoves DEF Follows, Moves

(* A client connects.                                                      *)
LEMMA ConnectMoves == ASSUME IInv, FlowInv, NEW c \in Conns, Connect(c) PROVE FlowInv' /\ AllMove
<1> DEFINE r == con[c]  s == [r EXCEPT !.state = "identifying", !.greet = TRUE]
<1>1. r.state = "unborn" /\ Becomes(c, AcceptInternal(s)) /\ r \in Record /\ Flows(r)
  BY DEF Connect, Accept, IInv, Good, Part, FlowInv
<1> HIDE DEF r
<1>2. SameItems(r, s) /\ s.state = "identifying" /\ s.shut = r.shut /\ s \in Record
  BY <1>1 DEF SameItems, Record
<1> HIDE DEF s
<1>3. Follows(r, s)
  BY <1>1, <1>2, Aside DEF Closed
<1>4. Follows(r, AcceptInternal(s))
  BY <1>2, <1>3, AcceptInternalFollows, FollowsOn DEF Follows
<1>5. Silent(r, AcceptInternal(s))
  BY <1>1, <1>4, HandlerSilent
<1>. QED
  BY <1>1, <1>4, <1>5, OneSilent DEF r

(* The network thread; one of its handlers delivers.                       *)
LEMMA NetworkThreadMoves ==
    ASSUME IInv, FlowInv, NEW c \in Conns, NetworkThread(c) PROVE FlowInv' /\ AllMove
<1> DEFINE r == con[c]
<1>1. Good(r) /\ Part(r) /\ r \in Record /\ Flows(r)
  BY DEF IInv, Good, Part, FlowInv
<1>2. ASSUME \/ r.reads > 0 \/ r.worker > 0
             \/ r.encoding # NoMsg \/ r.writing # NoMsg \/ Open(r)
      PROVE  r.state = "unborn" \/ Alive(r)
  <2>1. r.reads \in Nat /\ r.worker \in Nat
    BY <1>1 DEF Record
  <2>. QED
    BY <1>1, <1>2, <2>1 DEF Record, Alive, Open, Closed
<1>3. CASE ReadDone(c)
  <2>1. PICK s \in OnRead(r) : Becomes(c, s)
    BY <1>3 DEF ReadDone
  <2>2. Follows(r, s) /\ Silent(r, s)
    BY <1>1, <1>2, <1>3, <2>1, OnReadFollows, HandlerSilent DEF ReadDone
  <2>. QED
    BY <2>1, <2>2, OneSilent
<1>4. CASE ReadFails(c)
  <2> DEFINE s == OnReadError(r)
  <2>1. Follows(r, s) /\ s \in Record
    BY <1>1, <1>4, ReadCloseFollows, OnReadErrorGood DEF ReadFails, OnReadError, Good, Part
  <2> HIDE DEF s
  <2>2. Follows(r, Lost(s))
    BY <2>1, LostFollows, FollowsOn DEF Follows
  <2>3. Silent(r, Lost(s))
    BY <1>2, <1>4, <2>2, HandlerSilent DEF ReadFails
  <2>. QED
    BY <1>4, <2>2, <2>3, OneSilent DEF ReadFails, s
<1>5. CASE Superseded(c)
  <2>1. Follows(r, r) /\ Follows(r, DisconnectClient(r))
    BY <1>1, FollowsSelf, DisconnectFollows
  <2>2. Silent(r, DisconnectClient(r))
    BY <1>1, <2>1, EventSilent
  <2>. QED
    BY <1>5, <2>1, <2>2, OneSilent DEF Superseded
<1>6. CASE Worker(c)
  <2>1. Follows(r, InternalWorker(r)) /\ Silent(r, InternalWorker(r))
    BY <1>1, <1>2, <1>6, InternalWorkerFollows, HandlerSilent DEF Worker
  <2>. QED
    BY <1>6, <2>1, OneSilent DEF Worker
<1>7. CASE Encoded(c)
  <2>1. Follows(r, OnSendMessage(r)) /\ Silent(r, OnSendMessage(r))
    BY <1>1, <1>2, <1>7, OnSendMessageFollows, HandlerSilent DEF Encoded
  <2>. QED
    BY <1>7, <2>1, OneSilent DEF Encoded
<1>8. CASE WriteDone(c)
  <2> DEFINE s == OnWriteOperation(r)
  <2>1. r.writing # NoMsg /\ ~r.shut /\ Becomes(c, s)
    BY <1>8 DEF WriteDone, Broken
  <2>2. /\ Flows(s) /\ s.data = r.data /\ s.wire = r.wire \o r.writing
        /\ Carries(r.writing, Len(r.wire), Len(s.wire)) /\ Len(s.wire) <= r.data
        /\ s.state = r.state
    BY <1>1, <2>1, OnWriteOperationFlows
  <2> HIDE DEF s
  <2>3. ~Over(r)
    BY <1>2, <2>1 DEF Over, SocketOpen
  <2>4. r.writing \in Messages /\ r.wire \in Seq(Nat)
    BY <1>1, <2>1 DEF Record, Messages
  <2>5. CASE r.writing = <<>>
    <3>1. s.wire = r.wire
      BY <2>2, <2>4, <2>5
    <3>. QED
      BY <2>1, <2>2, <2>3, <3>1, OneMoves DEF Moves, Silent
  <2>6. CASE r.writing # <<>>
    BY <2>1, <2>2, <2>3, <2>4, <2>6, OneMoves DEF Moves, Delivers
  <2>. QED
    BY <2>5, <2>6
<1>9. CASE WriteFails(c)
  <2> DEFINE s == OnWriteError(r)
  <2>1. Follows(r, s) /\ s \in Record
    BY <1>1, <1>9, OnWriteErrorFollows, OnWriteErrorGood DEF WriteFails, Good, Part
  <2> HIDE DEF s
  <2>2. Follows(r, Lost(s))
    BY <2>1, LostFollows, FollowsOn DEF Follows
  <2>3. Silent(r, Lost(s))
    BY <1>2, <1>9, <2>2, HandlerSilent DEF WriteFails
  <2>. QED
    BY <1>9, <2>2, <2>3, OneSilent DEF WriteFails, s
<1>10. CASE Timeout(c)
  <2>1. Follows(r, Close(r, TRUE)) /\ Silent(r, Close(r, TRUE))
    BY <1>1, <1>2, <1>10, CloseFollows, HandlerSilent DEF Timeout
  <2>. QED
    BY <1>10, <2>1, OneSilent DEF Timeout
<1>. QED
  BY <1>3, <1>4, <1>5, <1>6, <1>7, <1>8, <1>9, <1>10 DEF NetworkThread

(* The dispatcher's events.                                                *)
LEMMA DispatcherMoves ==
    ASSUME IInv, FlowInv, NEW c \in Conns, DispatcherEvent(c) PROVE FlowInv' /\ AllMove
<1> DEFINE r == con[c]
<1>1. Good(r) /\ Part(r) /\ r \in Record /\ Flows(r)
  BY DEF IInv, Good, Part, FlowInv
<1>2. CASE Greet(c)
  <2> DEFINE s == [r EXCEPT !.greet = FALSE]
  <2>1. Good(s) /\ Part(s) /\ s \in Record
    BY <1>1, EventTaken DEF Good, Part
  <2>2. Over(s) = Over(r)
    BY <1>1, SameEnd DEF Record
  <2>3. Follows(r, s)
    BY <1>1, LifeFollows
  <2>4. Becomes(c, Send(s, Notice)) \/ Becomes(c, s)
    BY <1>2 DEF Greet
  <2> HIDE DEF r, s
  <2>5. Follows(r, Send(s, Notice))
    BY <2>1, <2>3, NoticeFollows, FollowsOn DEF Follows
  <2>6. Silent(r, Send(s, Notice)) /\ Silent(r, s)
    BY <1>1, <2>1, <2>2, <2>3, <2>5, EventSilent
  <2>. QED
    BY <2>3, <2>4, <2>5, <2>6, OneSilent DEF r
<1>3. CASE Login(c) \/ DisconnectLater(c)
  <2> DEFINE s == [r EXCEPT !.next = "done"]
  <2>1. Good(s) /\ Part(s) /\ s \in Record
    <3>1. r.next # "none"
      BY <1>3 DEF Login, DisconnectLater
    <3>. QED
      BY <1>1, <3>1, EventTaken DEF Good, Part
  <2>2. Over(s) = Over(r)
    BY <1>1, SameEnd DEF Record
  <2>3. Follows(r, s)
    BY <1>1, LifeFollows
  <2>4. Becomes(c, s) \/ Becomes(c, DisconnectClient(s)) \/ Becomes(c, Close(s, FALSE))
    BY <1>3 DEF Login, DisconnectLater
  <2> HIDE DEF r, s
  <2>5. Follows(r, DisconnectClient(s)) /\ Follows(r, Close(s, FALSE))
    BY <2>1, <2>3, DisconnectFollows, CloseFollows, FollowsOn DEF Follows
  <2>6. Silent(r, s) /\ Silent(r, DisconnectClient(s)) /\ Silent(r, Close(s, FALSE))
    BY <1>1, <2>1, <2>2, <2>3, <2>5, EventSilent
  <2>. QED
    BY <2>3, <2>4, <2>5, <2>6, OneSilent DEF r
<1>4. CASE Parse(c)
  <2> DEFINE n == r.parses - 1  s == [r EXCEPT !.parses = n]
             d == DisconnectClient(s)  e == Close(s, FALSE)
  <2>1. r.parses = 1 /\ r.reads = 0 /\ n = 0 /\ n \in Nat
    BY <1>1, <1>4 DEF Parse, Part, Record
  <2>2. Follows(r, s)
    BY <1>1, LifeFollows
  <2>3. CASE ~Alive(r)
    <3>1. Becomes(c, s)
      BY <1>4, <2>3 DEF Parse
    <3>2. Over(s) = Over(r)
      BY <1>1, SameEnd DEF Record
    <3> HIDE DEF s
    <3>3. Silent(r, s)
      BY <2>2, <3>2 DEF Silent, Follows, Quiet
    <3>. QED
      BY <2>2, <3>1, <3>3, OneSilent
  <2>4. CASE Alive(r)
    <3>1. \/ Becomes(c, AcceptInternal(s)) \/ Becomes(c, AcceptInternal(d))
          \/ Becomes(c, AcceptInternal(e))
      BY <1>4, <2>4 DEF Parse, ResumeWork
    <3> HIDE DEF n
    <3>2. s \in Record
      BY <1>1, <2>1 DEF Record
    <3>3. /\ s.queue = r.queue /\ s.worker = r.worker /\ s.encoding = r.encoding
          /\ s.writing = r.writing /\ s.numbers = r.numbers /\ s.seqNo = r.seqNo
          /\ s.first = r.first /\ s.state = r.state /\ s.next = r.next /\ s.release = r.release
          /\ s.reads = 0 /\ s.parses = 0
      BY <1>1, <2>1 DEF Record
    <3> HIDE DEF s
    <3>4. Part(s)
      BY <1>1, <3>2, <3>3 DEF Part, Writer, InFlight, Numbers, Life, Closed
    <3>5. Follows(s, d) /\ d \in Record
      BY <2>2, <3>4, DisconnectFollows, DisconnectGood DEF Follows, Good, Part
    <3>6. Follows(s, e) /\ e \in Record
      BY <2>2, <3>2, <3>4, CloseFollows, CloseGood DEF Follows, Good, Part
    <3> HIDE DEF d, e
    <3>7. /\ Follows(r, AcceptInternal(s)) /\ Follows(r, AcceptInternal(d))
          /\ Follows(r, AcceptInternal(e))
      <4>1. /\ Follows(s, AcceptInternal(s)) /\ Follows(d, AcceptInternal(d))
            /\ Follows(e, AcceptInternal(e))
        BY <2>2, <3>2, <3>5, <3>6, AcceptInternalFollows DEF Follows
      <4>. QED
        BY <2>2, <3>5, <3>6, <4>1, FollowsOn
    <3>8. /\ Silent(r, AcceptInternal(s)) /\ Silent(r, AcceptInternal(d))
          /\ Silent(r, AcceptInternal(e))
      BY <2>4, <3>7, HandlerSilent
    <3>. QED
      BY <3>1, <3>7, <3>8, OneSilent
  <2>. QED
    BY <2>3, <2>4
<1>5. CASE Release(c)
  <2> DEFINE s(x) == [r EXCEPT !.release = x]
  <2>1. ASSUME NEW x, Becomes(c, s(x)) PROVE FlowInv' /\ AllMove
    <3>1. Over(s(x)) = Over(r)
      BY <1>1, SameEnd DEF Record
    <3>2. Follows(r, s(x))
      BY <1>1, LifeFollows
    <3> HIDE DEF s
    <3>3. Silent(r, s(x))
      BY <3>1, <3>2 DEF Silent, Follows, Quiet
    <3>. QED
      BY <2>1, <3>2, <3>3, OneSilent
  <2>2. Becomes(c, s("done")) \/ Becomes(c, s("discarded"))
    BY <1>5 DEF Release
  <2>. QED
    BY <2>1, <2>2
<1>. QED
  BY <1>2, <1>3, <1>4, <1>5 DEF DispatcherEvent

(* The game writes.                                                        *)
LEMMA WriteMoves == ASSUME IInv, FlowInv, NEW c \in Conns, Write(c) PROVE FlowInv' /\ AllMove
<1> DEFINE r == con[c]  s == WriteToOutputBuffer(r)
<1>1. Good(r) /\ Part(r) /\ r \in Record /\ Flows(r) /\ r.next = "done" /\ Becomes(c, s)
  BY DEF IInv, Good, Part, FlowInv, Write
<1>2. r.state # "unborn"
  BY <1>1 DEF Part, Life, Flows, InTurn
<1>3. /\ Flows(s) /\ s.wire = r.wire /\ s.data = r.data + 1
      /\ s.state = r.state /\ s.shut = r.shut
      /\ Closed(r) => Alive(s) = Alive(r)
  BY <1>1, <1>2, WriteFlows
<1> HIDE DEF r, s
<1>4. Over(s) = Over(r)
  <2>1. ~Closed(r) => Alive(s) /\ Alive(r)
    BY <1>1, <1>2, <1>3 DEF Record, Closed, Alive, Open
  <2>2. Alive(s) = Alive(r)
    BY <1>3, <2>1 DEF Alive
  <2>. QED
    BY <1>3, <2>2 DEF Over, SocketOpen
<1>. QED
  BY <1>1, <1>3, <1>4, OneMoves DEF Moves, Writes, r

(* The periodic event sends the buffers of the list.                       *)
LEMMA SendAllMoves == ASSUME IInv, FlowInv, SendAll PROVE FlowInv' /\ AllMove
<1>1. con' = [c \in Conns |-> IF c \in Range(buffered) THEN Flush(con[c]) ELSE con[c]]
  BY DEF SendAll
<1>2. ASSUME NEW c \in Conns PROVE Flows(con'[c]) /\ Silent(con[c], con'[c])
  <2>1. Good(con[c]) /\ Flows(con[c])
    BY DEF IInv, FlowInv
  <2>2. Flows(Flush(con[c])) /\ Silent(con[c], Flush(con[c]))
    BY <2>1, FlushFollows, FlushSilent DEF Follows
  <2>3. Silent(con[c], con[c])
    BY DEF Silent
  <2>. QED
    BY <1>1, <2>1, <2>2, <2>3
<1>. QED
  BY <1>2 DEF FlowInv, AllMove, Moves

---------------------------------------------------------------------------
(* The order holds at first.                                               *)
LEMMA InitFlows == Init => FlowInv /\ \A c \in Conns : ChannelOf(c)!Init
<1> SUFFICES ASSUME Init, NEW c \in Conns PROVE Flows(con[c]) /\ ChannelOf(c)!Init
  BY DEF FlowInv
<1>1. con[c] = New
  BY DEF Init
<1>2. /\ New.queue = <<>> /\ New.wire = <<>> /\ New.data = 0 /\ New.buffer = <<>>
      /\ New.encoding = NoMsg /\ New.writing = NoMsg
      /\ New.state = "unborn" /\ New.shut = FALSE /\ New.first = FALSE
  BY DEF New
<1> DEFINE f == [i \in 0 .. 0 |-> 0]
<1>3. f \in [0 .. Len(New.queue) -> Nat] /\ Cuts(New, f)
  BY <1>2 DEF Cuts, Carries
<1>4. Flows(New)
  BY <1>2, <1>3 DEF Flows, InOrder, AtFront, InTurn
<1>5. ChannelOf(c)!Init
  BY <1>1, <1>2 DEF ChannelOf!Init
<1>. QED
  BY <1>1, <1>4, <1>5

(* Every step keeps the order and is one of each channel, or none.         *)
LEMMA StepFlows ==
    IInv /\ FlowInv /\ [Next]_vars =>
        FlowInv' /\ \A c \in Conns : [ChannelOf(c)!Next]_(ChannelOf(c)!vars)
<1> SUFFICES ASSUME IInv, FlowInv, [Next]_vars
             PROVE  FlowInv' /\ \A c \in Conns : [ChannelOf(c)!Next]_(ChannelOf(c)!vars)
  OBVIOUS
<1>1. FlowInv' /\ AllMove
  <2>1. CASE con' = con
    BY <2>1 DEF FlowInv, AllMove, Moves, Silent
  <2>2. UNCHANGED vars \/ (\E e \in Strangers : StrangerLogin(e) \/ StrangerRelease(e)) => con' = con
    BY DEF vars, StrangerLogin, StrangerRelease
  <2>3. ASSUME NEW c \in Conns,
               Connect(c) \/ NetworkThread(c) \/ DispatcherEvent(c) \/ Write(c)
        PROVE  FlowInv' /\ AllMove
    BY <2>3, ConnectMoves, NetworkThreadMoves, DispatcherMoves, WriteMoves
  <2>. QED
    BY <2>1, <2>2, <2>3, SendAllMoves DEF Next
<1>2. con \in [Conns -> Record] /\ con' \in [Conns -> Record]
  BY StepIInv DEF IInv, TypeOK
<1>3. \A c \in Conns : [ChannelOf(c)!Next]_(ChannelOf(c)!vars)
  BY <1>1, <1>2, ChannelSteps DEF AllMove
<1>. QED
  BY <1>1, <1>3

(* Output buffer, autosend list, queue and socket of every connection are  *)
(* one Channel: Connection::send, internalWorker, onWriteOperation, close  *)
(* and the errors in between deliver what writeToOutputBuffer was given,   *)
(* in order and without a gap, up to the end.                              *)
THEOREM NetworkImplementsChannel == Spec => ImplementsChannel
<1>1. Init => FlowInv /\ \A c \in Conns : ChannelOf(c)!Init
  BY InitFlows
<1>2. IInv /\ FlowInv /\ [Next]_vars => FlowInv'
  BY StepFlows
<1>3. IInv /\ FlowInv /\ [Next]_vars =>
          [\A c \in Conns : [ChannelOf(c)!Next]_(ChannelOf(c)!vars)]_vars
  BY StepFlows
<1>. QED
  BY <1>1, <1>2, <1>3, Invariant, PTL DEF Spec, ImplementsChannel

=============================================================================
