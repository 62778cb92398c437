---------------------------- MODULE ModbusProofs ----------------------------
(***************************************************************************)
(* Theorems about Modbus, for any frames, any sizes of the buffer and the  *)
(* FIFOs, any losses, any master: requests are executed once, answers are  *)
(* true and responses whole, and received bytes are not left alone.        *)
(***************************************************************************)
EXTENDS Modbus, BoundedRecursion, SequenceTheorems

----------------------------------------------------------------------------
(* Types.                                                                  *)

Valuations == UNION {[D -> Nat] : D \in SUBSET Nat}
Replies == [request : Frames, ok : BOOLEAN, len : {2, 3}, values : Valuations]
InBytes == Frames \X Nat
OutBytes == Replies \X Nat

\* The buffer holds what has been received, or a response of which a part is sent.
BufferType ==
  IF rsp_size = 0 THEN buffer \in Seq(InBytes) /\ ptr = Len(buffer) /\ ptr <= BufferSize
  ELSE buffer \in Seq(OutBytes) /\ rsp_size = Len(buffer) /\ ptr \in 0 .. rsp_size - 1

Types ==
  /\ rx \in Seq(InBytes) /\ Len(rx) <= RxSize
  /\ tx \in Seq(OutBytes) /\ Len(tx) <= TxSize
  /\ BufferType
  /\ pend \in Seq({"worker", "clear"})
  /\ waiting \in BOOLEAN /\ cut \in BOOLEAN
  /\ recent \in BOOLEAN /\ skipped \in BOOLEAN
  /\ data \in [Addresses -> Nat]
  /\ unsent \subseteq Frames /\ lost \subseteq Frames
  /\ line \in Seq(InBytes)
  /\ answers \in Seq(Replies)
  /\ wire \in Seq(OutBytes)

Received == IF rsp_size = 0 THEN buffer ELSE << >>
Unsent == IF rsp_size = 0 THEN << >> ELSE SubSeq(buffer, ptr + 1, rsp_size)

\* Three sequences of bytes, one after the other.
LEMMA InAssoc == \A a, b, c \in Seq(InBytes) : (a \o b) \o c = a \o (b \o c)
  BY ConcatAssociative

LEMMA OutAssoc == \A a, b, c \in Seq(OutBytes) : (a \o b) \o c = a \o (b \o c)
  BY ConcatAssociative

\* The bytes of a message.
LEMMA BytesType ==
  ASSUME NEW M, NEW m \in M, m.len \in Nat
  PROVE  /\ Bytes(m) \in Seq(M \X Nat) /\ Len(Bytes(m)) = m.len
         /\ \A i \in 1 .. m.len : Bytes(m)[i] = <<m, i>>
  BY DEF Bytes

\* A task that is to run.
LEMMA ExecType ==
  ASSUME NEW list \in Seq({"worker", "clear"}), NEW t \in {"worker", "clear"}
  PROVE  Exec(list, t) \in Seq({"worker", "clear"}) /\ Exec(list, t) # << >>
<1>1. CASE t \in ToSet(list)
  <2>1. list # << >>
    BY <1>1 DEF ToSet
  <2> QED
    BY <1>1, <2>1 DEF Exec
<1>2. CASE t \notin ToSet(list)
  BY <1>2, AppendProperties DEF Exec
<1> QED
  BY <1>1, <1>2

\* An answer tells what the request has found.
LEMMA ResponseType ==
  ASSUME Types, NEW f \in Frames
  PROVE  /\ Response(f) \in Replies /\ Response(f).request = f
         /\ Response(f).len \in {2, 3}
         /\ Bytes(Response(f)) \in Seq(OutBytes) /\ Len(Bytes(Response(f))) = Response(f).len
<1>1. f.first \in Nat /\ f.count \in Nat
  BY ModbusAssumption
<1>2. Accepted(f) => [a \in Cells(f) |-> data[a]] \in Valuations
  <2> SUFFICES ASSUME Accepted(f) PROVE [a \in Cells(f) |-> data[a]] \in Valuations
    OBVIOUS
  <2>1. Cells(f) \in SUBSET Nat /\ \A a \in Cells(f) : data[a] \in Nat
    BY ModbusAssumption DEF Types, Accepted
  <2>2. [a \in Cells(f) |-> data[a]] \in [Cells(f) -> Nat]
    BY <2>1
  <2> QED
    BY <2>1, <2>2 DEF Valuations
<1>3. << >> \in Valuations
  <2>1. << >> \in [{} -> Nat] /\ {} \in SUBSET Nat
    OBVIOUS
  <2> QED
    BY <2>1 DEF Valuations
<1>4. Accepted(f) \in BOOLEAN
  BY DEF Accepted
<1>5. Response(f) \in Replies
  BY <1>2, <1>3, <1>4 DEF Response, Replies
<1>6. Response(f).request = f /\ Response(f).len \in {2, 3}
  BY DEF Response
<1>7. Response(f).len \in Nat
  BY <1>6
<1> QED
  BY <1>5, <1>6, <1>7, BytesType DEF OutBytes

\* Writing keeps the types of the registers.
LEMMA WriteType ==
  ASSUME Types, NEW f \in Frames
  PROVE  bus_req_write(f) \in [Addresses -> Nat]
<1>1. f.value \in Nat
  BY ModbusAssumption
<1> QED
  BY <1>1 DEF bus_req_write, Types

----------------------------------------------------------------------------
(* What the tasks do with the two ends of the buffer.                      *)

\* What is left of a response, and the queue of bytes that it goes to.
LEMMA SendParts ==
  ASSUME NEW bytes \in Seq(OutBytes), bytes # << >>, NEW p \in 0 .. Len(bytes) - 1,
         NEW q \in Seq(OutBytes), NEW n \in 0 .. Len(bytes) - p
  PROVE  /\ q \o SubSeq(bytes, p + 1, p + n) \in Seq(OutBytes)
         /\ Len(q \o SubSeq(bytes, p + 1, p + n)) = Len(q) + n
         /\ SubSeq(bytes, p + n + 1, Len(bytes)) \in Seq(OutBytes)
         /\ (q \o SubSeq(bytes, p + 1, p + n)) \o SubSeq(bytes, p + n + 1, Len(bytes))
              = q \o SubSeq(bytes, p + 1, Len(bytes))
<1>1. Len(bytes) \in Nat /\ \A i \in 1 .. Len(bytes) : bytes[i] \in OutBytes
  BY ElementOfSeq, LenProperties
<1>2. /\ SubSeq(bytes, p + 1, p + n) \in Seq(OutBytes)
      /\ Len(SubSeq(bytes, p + 1, p + n)) = n
  <2>1. \A i \in p + 1 .. p + n : bytes[i] \in OutBytes
    BY <1>1
  <2>2. /\ SubSeq(bytes, p + 1, p + n) \in Seq(OutBytes)
        /\ Len(SubSeq(bytes, p + 1, p + n)) =
             IF p + 1 <= p + n THEN (p + n) - (p + 1) + 1 ELSE 0
    BY <2>1, SubSeqProperties
  <2> QED
    BY <1>1, <2>2
<1>3. SubSeq(bytes, p + n + 1, Len(bytes)) \in Seq(OutBytes)
  <2>1. \A i \in p + n + 1 .. Len(bytes) : bytes[i] \in OutBytes
    BY <1>1
  <2> QED
    BY <1>1, <2>1, SubSeqProperties
<1>4. SubSeq(bytes, p + 1, p + n) \o SubSeq(bytes, p + n + 1, Len(bytes))
        = SubSeq(bytes, p + 1, Len(bytes))
  <2>1. p + 1 \in 1 .. Len(bytes) + 1 /\ p + n \in (p + 1) - 1 .. Len(bytes)
        /\ Len(bytes) \in p + n .. Len(bytes)
    BY <1>1
  <2> QED
    BY <2>1, ConcatAdjacentSubSeq
<1>5. (q \o SubSeq(bytes, p + 1, p + n)) \o SubSeq(bytes, p + n + 1, Len(bytes))
        = q \o SubSeq(bytes, p + 1, Len(bytes))
  <2>2. (q \o SubSeq(bytes, p + 1, p + n)) \o SubSeq(bytes, p + n + 1, Len(bytes))
          = q \o (SubSeq(bytes, p + 1, p + n) \o SubSeq(bytes, p + n + 1, Len(bytes)))
    BY <1>2, <1>3, OutAssoc, Zenon
  <2> QED
    BY <1>4, <2>2, Zenon
<1> QED
  BY <1>2, <1>3, <1>5, ConcatProperties

\* An attempt to send: what was left of the response is now in tx or left still,
\* and received bytes have the worker or a response to come for them.
Sent(bytes, p) ==
  /\ tx' \in Seq(OutBytes) /\ Len(tx') <= TxSize
  /\ pend' \in Seq({"worker", "clear"})
  /\ BufferType' /\ Received' = << >> /\ Unsent' \in Seq(OutBytes)
  /\ tx' \o Unsent' = tx \o SubSeq(bytes, p + 1, Len(bytes))
  /\ rx' # << >> => pend' # << >> \/ rsp_size' # 0

LEMMA TrySends ==
  ASSUME Types, pend # << >>, NEW bytes \in Seq(OutBytes), bytes # << >>,
         NEW p \in 0 .. Len(bytes) - 1, modbus_tx_try(bytes, p, Len(bytes))
  PROVE  Sent(bytes, p)
<1> DEFINE size == Len(bytes)  n == Least(size - p, TxSize - Len(tx))
<1>1. size \in Nat /\ Len(tx) \in Nat /\ Len(tx) <= TxSize /\ TxSize \in Nat
  BY ModbusAssumption, LenProperties DEF Types
<1>2. n \in 0 .. size - p /\ n <= TxSize - Len(tx)
  BY <1>1 DEF Least
<1>3. /\ tx' = tx \o SubSeq(bytes, p + 1, p + n)
      /\ IF p + n = size
         THEN /\ buffer' = << >> /\ ptr' = 0 /\ rsp_size' = 0
              /\ pend' = IF rx' # << >> THEN Exec(Rest, "worker") ELSE Rest
         ELSE /\ buffer' = bytes /\ ptr' = p + n /\ rsp_size' = size
              /\ pend' = Rest
  BY DEF modbus_tx_try
<1> HIDE DEF n
<1>4. /\ tx' \in Seq(OutBytes) /\ Len(tx') = Len(tx) + n
      /\ SubSeq(bytes, p + n + 1, size) \in Seq(OutBytes)
      /\ tx' \o SubSeq(bytes, p + n + 1, size) = tx \o SubSeq(bytes, p + 1, size)
  BY <1>2, <1>3, SendParts DEF Types
<1>5. Rest \in Seq({"worker", "clear"})
  BY HeadTailProperties DEF Types, Rest
<1>6. CASE p + n = size
  <2>1. Received' = << >> /\ Unsent' = << >> /\ rsp_size' = 0
    BY <1>3, <1>6 DEF Received, Unsent
  <2>2. SubSeq(bytes, p + n + 1, size) = << >>
    BY <1>1, <1>6, SubSeqEmpty
  <2>3. BufferType'
    BY <1>3, <1>6, ModbusAssumption DEF BufferType
  <2>4. pend' \in Seq({"worker", "clear"}) /\ (rx' # << >> => pend' # << >>)
    BY <1>3, <1>5, <1>6, ExecType
  <2> QED
    <3>1. tx' \o Unsent' = tx \o SubSeq(bytes, p + 1, size)
      BY <1>4, <2>1, <2>2, Zenon
    <3>2. Unsent' \in Seq(OutBytes)
      BY <2>1
    <3>3. Len(tx') <= TxSize
      BY <1>1, <1>2, <1>4
    <3> QED
      BY <1>4, <2>1, <2>3, <2>4, <3>1, <3>2, <3>3 DEF Sent
<1>7. CASE p + n # size
  <2>1. /\ buffer' = bytes /\ ptr' = p + n /\ rsp_size' = size /\ rsp_size' # 0
        /\ pend' = Rest
    BY <1>1, <1>3, <1>7
  <2>2. Received' = << >> /\ Unsent' = SubSeq(bytes, p + n + 1, size)
    BY <2>1 DEF Received, Unsent
  <2>3. BufferType'
    BY <1>1, <1>2, <1>7, <2>1 DEF BufferType
  <2> QED
    <3>1. tx' \o Unsent' = tx \o SubSeq(bytes, p + 1, size) /\ Unsent' \in Seq(OutBytes)
      BY <1>4, <2>2, Zenon
    <3>2. Len(tx') <= TxSize
      BY <1>1, <1>2, <1>4
    <3> QED
      BY <1>4, <1>5, <2>1, <2>2, <2>3, <3>1, <3>2 DEF Sent
<1> QED
  BY <1>6, <1>7

\* All bytes that have been sent to this server, and not looked at.
Inbox == Received \o (rx \o line)

\* The worker has taken bytes, and left rest in the FIFO.
Took(bytes, rest) ==
  /\ bytes \in Seq(InBytes) /\ Len(bytes) <= BufferSize
  /\ rest \in Seq(InBytes) /\ Len(rest) <= RxSize
  /\ Inbox = bytes \o (rest \o line)
  /\ bytes = << >> => rest = << >>

LEMMA ReadParts ==
  ASSUME Types, rsp_size = 0, NEW n \in ReadSizes
  PROVE  Took(SubSeq(buffer, 1, ptr) \o SubSeq(rx, 1, n), SubSeq(rx, n + 1, Len(rx)))
<1> DEFINE most == Least(Len(rx), BufferSize - ptr)
           head == SubSeq(rx, 1, n)
           rest == SubSeq(rx, n + 1, Len(rx))
<1>1. /\ buffer \in Seq(InBytes) /\ ptr = Len(buffer) /\ ptr <= BufferSize /\ ptr \in Nat
      /\ rx \in Seq(InBytes) /\ Len(rx) \in Nat /\ Len(rx) <= RxSize
      /\ BufferSize \in Nat \ {0} /\ RxSize \in Nat
  BY ModbusAssumption, LenProperties DEF Types, BufferType
<1>2. /\ most \in 0 .. Len(rx) /\ most <= BufferSize - ptr
      /\ most = 0 => Len(rx) = 0 \/ ptr = BufferSize
      /\ most = Len(rx) \/ most = BufferSize - ptr
  BY <1>1 DEF Least
<1>3. n \in 0 .. most /\ (most > 0 => n > 0) /\ (~ShortReads => n = most)
  BY <1>2 DEF ReadSizes
<1> HIDE DEF most
<1>4. SubSeq(buffer, 1, ptr) = buffer
  BY <1>1, SubSeqFull
<1>5. /\ head \in Seq(InBytes) /\ Len(head) = n
      /\ rest \in Seq(InBytes) /\ Len(rest) = Len(rx) - n
  <2>1. \A i \in 1 .. Len(rx) : rx[i] \in InBytes
    BY <1>1, ElementOfSeq
  <2>2. /\ \A i \in 1 .. n : rx[i] \in InBytes
        /\ \A i \in n + 1 .. Len(rx) : rx[i] \in InBytes
    BY <1>1, <1>2, <1>3, <2>1
  <2>3. n \in Int /\ Len(rx) \in Int /\ n + 1 \in Int
    BY <1>1, <1>2, <1>3
  <2>4. head \in Seq(InBytes) /\ Len(head) = IF 1 <= n THEN n - 1 + 1 ELSE 0
    BY <2>2, <2>3, SubSeqProperties
  <2>5. rest \in Seq(InBytes)
        /\ Len(rest) = IF n + 1 <= Len(rx) THEN Len(rx) - (n + 1) + 1 ELSE 0
    BY <2>2, <2>3, SubSeqProperties
  <2> QED
    BY <1>1, <1>2, <1>3, <2>4, <2>5
<1>6. head \o rest = rx
  <2>1. 1 \in 1 .. Len(rx) + 1 /\ n \in 1 - 1 .. Len(rx) /\ Len(rx) \in n .. Len(rx)
    BY <1>1, <1>2, <1>3
  <2>2. head \o rest = SubSeq(rx, 1, Len(rx))
    BY <1>1, <2>1, ConcatAdjacentSubSeq
  <2> QED
    BY <1>1, <2>2, SubSeqFull
<1> HIDE DEF head, rest
<1>7. buffer \o head \in Seq(InBytes) /\ Len(buffer \o head) = ptr + n
  BY <1>1, <1>5, ConcatProperties
<1>8. Inbox = (buffer \o head) \o (rest \o line)
  <2>1. rest \o line \in Seq(InBytes) /\ line \in Seq(InBytes)
    BY <1>5, ConcatProperties DEF Types
  <2>2. (head \o rest) \o line = head \o (rest \o line)
    BY <1>5, InAssoc, <2>1, Zenon
  <2>3. (buffer \o head) \o (rest \o line) = buffer \o (head \o (rest \o line))
    BY <1>1, <1>5, InAssoc, <2>1, Zenon
  <2>4. Inbox = buffer \o (rx \o line)
    BY DEF Inbox, Received
  <2> QED
    BY <1>6, <2>2, <2>3, <2>4, Zenon
<1>9. buffer \o head = << >> => rest = << >>
  <2> SUFFICES ASSUME buffer \o head = << >> PROVE rest = << >>
    OBVIOUS
  <2>1. ptr + n = 0
    BY <1>7
  <2>2. ptr = 0 /\ n = 0
    BY <1>1, <1>3, <2>1
  <2>3. Len(rest) = 0
    BY <1>1, <1>2, <1>3, <1>5, <2>2
  <2> QED
    BY <1>5, <2>3, EmptySeq
<1>10. Len(buffer \o head) <= BufferSize /\ Len(rest) <= RxSize
  BY <1>1, <1>2, <1>3, <1>5, <1>7
<1>11. Took(buffer \o head, rest)
  BY <1>5, <1>7, <1>8, <1>9, <1>10 DEF Took
<1> QED
  BY <1>4, <1>11 DEF head, rest

----------------------------------------------------------------------------
(* The steps, by what they do to the bytes received and sent.              *)

Base == Types /\ NoStall

\* Bytes are looked at: those of a request, and perhaps others.
Executes(f) ==
  /\ \E bytes \in Seq(InBytes) : f \in Complete(bytes) /\ Inbox = bytes \o Inbox'
  /\ answers' = Append(answers, Response(f))
  /\ Stream' = Stream \o Bytes(Response(f))
  /\ UNCHANGED <<unsent, lost, cut>>

\* Bytes may be dropped, and a response cut.
Forgets ==
  /\ \E bytes \in Seq(InBytes) : Inbox = bytes \o Inbox'
  /\ cut' \/ (UNCHANGED <<cut, Stream>>)
  /\ UNCHANGED <<answers, unsent, lost>>

Starts(f) ==
  /\ f \in unsent /\ unsent' = unsent \ {f}
  /\ Inbox' = Inbox \o Bytes(f)
  /\ UNCHANGED <<answers, lost, cut, Stream>>

Loses ==
  /\ \E a, b \in Seq(InBytes), x \in InBytes :
       /\ Inbox = a \o (<<x>> \o b) /\ Inbox' = a \o b
       /\ lost' = lost \cup {x[1]}
  /\ UNCHANGED <<answers, unsent, cut, Stream>>

\* What each step is.
Outcome ==
  \/ \E f \in Frames : Executes(f) \/ Starts(f)
  \/ Forgets
  \/ Loses

\* The parts of the stream and of the inbox.
LEMMA Parts ==
  ASSUME Types
  PROVE  /\ Received \in Seq(InBytes) /\ Unsent \in Seq(OutBytes) /\ Inbox \in Seq(InBytes)
         /\ Stream = wire \o (tx \o Unsent) /\ Stream \in Seq(OutBytes)
<1>1. Received \in Seq(InBytes)
  BY DEF Types, BufferType, Received
<1>2. Unsent \in Seq(OutBytes)
  <2>1. CASE rsp_size = 0
    BY <2>1 DEF Unsent
  <2>2. CASE rsp_size # 0
    <3>1. buffer \in Seq(OutBytes) /\ rsp_size = Len(buffer) /\ ptr \in 0 .. rsp_size - 1
      BY <2>2 DEF Types, BufferType
    <3>2. Len(buffer) \in Nat /\ \A i \in 1 .. Len(buffer) : buffer[i] \in OutBytes
      BY <3>1, LenProperties, ElementOfSeq
    <3>3. \A i \in ptr + 1 .. rsp_size : buffer[i] \in OutBytes
      BY <3>1, <3>2
    <3>4. SubSeq(buffer, ptr + 1, rsp_size) \in Seq(OutBytes)
      BY <3>1, <3>2, <3>3, SubSeqProperties
    <3> QED
      BY <2>2, <3>4 DEF Unsent
  <2> QED
    BY <2>1, <2>2
<1>3. Inbox \in Seq(InBytes)
  <2>1. rx \o line \in Seq(InBytes)
    BY ConcatProperties DEF Types
  <2> QED
    BY <1>1, <2>1, ConcatProperties DEF Inbox
<1>4. wire \in Seq(OutBytes) /\ tx \in Seq(OutBytes)
  BY DEF Types
<1>5. Stream = (wire \o tx) \o Unsent
  BY DEF Stream, Unsent
<1>7. wire \o tx \in Seq(OutBytes)
  BY <1>4, ConcatProperties
<1>8. Stream \in Seq(OutBytes)
  BY <1>2, <1>5, <1>7, ConcatProperties
<1> QED
  BY <1>1, <1>2, <1>3, <1>4, <1>5, <1>8, OutAssoc, Zenon

\* The pending list after the first task has been removed.
LEMMA RestType ==
  ASSUME Types, NEW t \in {"worker", "clear"}, Runs(t)
  PROVE  /\ pend # << >> /\ Rest \in Seq({"worker", "clear"})
         /\ \A u \in ToSet(pend) \ {t} : u \in ToSet(Rest)
<1>1. pend \in Seq({"worker", "clear"}) /\ pend # << >> /\ Head(pend) = t
  BY DEF Types, Runs
<1>2. /\ Tail(pend) \in Seq({"worker", "clear"}) /\ Len(Tail(pend)) = Len(pend) - 1
      /\ \A i \in 1 .. Len(Tail(pend)) : Tail(pend)[i] = pend[i + 1]
  BY <1>1, HeadTailProperties
<1>3. Len(pend) \in Nat /\ DOMAIN pend = 1 .. Len(pend) /\ pend[1] = t
      /\ DOMAIN Tail(pend) = 1 .. Len(Tail(pend))
  BY <1>1, <1>2, LenProperties
<1>4. ASSUME NEW u \in ToSet(pend), u # t PROVE u \in ToSet(Rest)
  <2>1. PICK i \in 1 .. Len(pend) : pend[i] = u
    BY <1>3, <1>4 DEF ToSet
  <2>2. i - 1 \in 1 .. Len(Tail(pend)) /\ Tail(pend)[i - 1] = u
    BY <1>2, <1>3, <1>4, <2>1
  <2> QED
    BY <1>3, <2>2 DEF ToSet, Rest
<1> QED
  BY <1>1, <1>2, <1>4 DEF Rest

\* The same bytes, cut elsewhere, after the same bytes.
Rejoins(w, s, u, t, v) == s \o u = t \o v => (w \o s) \o u = (w \o t) \o v

LEMMA Rejoined ==
  ASSUME NEW w \in Seq(OutBytes), NEW s \in Seq(OutBytes), NEW u \in Seq(OutBytes),
         NEW t \in Seq(OutBytes), NEW v \in Seq(OutBytes)
  PROVE  Rejoins(w, s, u, t, v)
<1>1. (w \o s) \o u = w \o (s \o u)
  BY OutAssoc
<1>2. (w \o t) \o v = w \o (t \o v)
  BY OutAssoc
<1> QED
  BY <1>1, <1>2 DEF Rejoins

\* When nothing received is left in the buffer, what is in the FIFO and on the line
\* is all there is.
LEMMA NothingReceived ==
  ASSUME Received' = << >>, line' = line, NEW rest \in Seq(InBytes), rx' = rest, Types
  PROVE  Inbox' = rest \o line /\ Inbox' \in Seq(InBytes)
<1>1. rest \o line \in Seq(InBytes)
  BY ConcatProperties DEF Types
<1>2. << >> \o (rest \o line) = rest \o line
  BY <1>1, ConcatEmptySeq
<1> QED
  BY <1>1, <1>2 DEF Inbox

\* A response that is sent on, or just made.
LEMMA SentStream ==
  ASSUME Types, NEW bytes \in Seq(OutBytes), NEW left \in Seq(OutBytes),
         tx' \in Seq(OutBytes), Unsent' \in Seq(OutBytes), wire' = wire
  PROVE  tx' \o Unsent' = tx \o left =>
           /\ left = Unsent => Stream' = Stream
           /\ rsp_size = 0 => Stream' = Stream \o left
<1>1. wire \in Seq(OutBytes) /\ tx \in Seq(OutBytes) /\ wire \o tx \in Seq(OutBytes)
  BY ConcatProperties DEF Types
<1>3. Stream' = (wire \o tx') \o Unsent' /\ Stream = (wire \o tx) \o Unsent
  BY DEF Stream, Unsent
<1>4. Unsent \in Seq(OutBytes)
  BY Parts
<1>5. tx' \o Unsent' = tx \o left => (wire \o tx') \o Unsent' = (wire \o tx) \o left
  <2>1. wire \in Seq(OutBytes) /\ tx \in Seq(OutBytes)
    BY <1>1
  <2>2. Rejoins(wire, tx', Unsent', tx, left)
    BY <2>1, Rejoined
  <2> QED
    BY <2>2 DEF Rejoins
<1>6. rsp_size = 0 => Stream = wire \o tx
  <2>1. rsp_size = 0 => Unsent = << >>
    BY DEF Unsent
  <2>2. (wire \o tx) \o << >> = wire \o tx
    BY <1>1, ConcatEmptySeq
  <2> QED
    BY <1>3, <2>1, <2>2
<1> QED
  BY <1>3, <1>5, <1>6

\* The worker goes on with a response.
LEMMA SendKeeps ==
  ASSUME Base, Runs("worker"), rsp_size # 0, skipped' = FALSE, UNCHANGED <<rx, timer, data, answers>>,
         modbus_tx_try(buffer, ptr, rsp_size), UNCHANGED <<received, wire, cut>>
  PROVE  Base' /\ Forgets
<1>1. /\ buffer \in Seq(OutBytes) /\ rsp_size = Len(buffer) /\ ptr \in 0 .. Len(buffer) - 1
      /\ buffer # << >> /\ Types
  BY EmptySeq DEF Base, Types, BufferType
<1>2. Sent(buffer, ptr)
  BY <1>1, RestType, TrySends
<1>3. UNCHANGED <<unsent, line, lost, waiting, recent>>
  BY DEF received, timer
<1>4. Unsent = SubSeq(buffer, ptr + 1, Len(buffer)) /\ Unsent \in Seq(OutBytes) /\ Received = << >>
  BY <1>1, Parts DEF Unsent, Received
<1>5. Stream' = Stream
  BY <1>1, <1>2, <1>4, SentStream DEF Sent
<1>6. rx \in Seq(InBytes) /\ rx' = rx
  BY <1>1 DEF Types
<1>7. Inbox' = rx \o line /\ Inbox' \in Seq(InBytes)
  BY <1>1, <1>2, <1>3, <1>6, NothingReceived DEF Sent
<1>8. Inbox = << >> \o Inbox'
  BY <1>4, <1>7 DEF Inbox
<1>9. Forgets
  <2>1. << >> \in Seq(InBytes)
    OBVIOUS
  <2>2. \E bytes \in Seq(InBytes) : Inbox = bytes \o Inbox'
    BY <1>8, <2>1, Zenon
  <2> QED
    BY <1>3, <1>5, <2>2 DEF Forgets
<1>10. Types'
  BY <1>1, <1>2, <1>3 DEF Types, Sent
<1>11. NoStall'
  BY <1>2 DEF Sent, NoStall
<1> QED
  BY <1>9, <1>10, <1>11 DEF Base

\* A request is executed.
LEMMA ExecuteKeeps ==
  ASSUME Base, Runs("worker"), rsp_size = 0, NEW bytes, Took(bytes, rx'),
         NEW f \in Complete(bytes), bus_req_handle(f), UNCHANGED <<received, wire, cut>>
  PROVE  Base' /\ Executes(f)
<1>1. /\ f \in Frames /\ Types /\ bytes \in Seq(InBytes) /\ rx' \in Seq(InBytes)
      /\ Len(rx') <= RxSize /\ Inbox = bytes \o (rx' \o line)
  BY DEF Complete, Base, Took
<1> DEFINE r == Response(f)  all == Bytes(Response(f))
<1>2. /\ r \in Replies /\ r.len \in {2, 3} /\ all \in Seq(OutBytes) /\ Len(all) = r.len
  BY <1>1, ResponseType
<1>3. /\ data' = bus_req_write(f) /\ answers' = Append(answers, r)
      /\ modbus_tx_try(all, 0, Len(all)) /\ skipped' = FALSE
      /\ UNCHANGED <<waiting, recent>>
  BY <1>2 DEF bus_req_handle, timer
<1> HIDE DEF r, all
<1>4. all # << >> /\ 0 \in 0 .. Len(all) - 1
  BY <1>2, EmptySeq
<1>5. Sent(all, 0)
  BY <1>1, <1>2, <1>3, <1>4, RestType, TrySends
<1>6. UNCHANGED <<unsent, line, lost>>
  BY DEF received
<1>7. SubSeq(all, 0 + 1, Len(all)) = all
  BY <1>2, SubSeqFull
<1>8. Stream' = Stream \o all
  BY <1>1, <1>2, <1>5, <1>7, SentStream DEF Sent
<1>9. PICK rest \in Seq(InBytes) : rx' = rest
  BY <1>1
<1>10. Inbox' = rest \o line
  BY <1>1, <1>5, <1>6, <1>9, NothingReceived DEF Sent
<1>11. Executes(f)
  BY <1>1, <1>3, <1>6, <1>8, <1>9, <1>10 DEF Executes, r, all
<1>12. data' \in [Addresses -> Nat] /\ answers' \in Seq(Replies)
  <2>1. answers \in Seq(Replies)
    BY <1>1 DEF Types
  <2> QED
    BY <1>1, <1>2, <1>3, <2>1, WriteType, AppendProperties
<1>13. Types'
  BY <1>1, <1>3, <1>5, <1>6, <1>12 DEF Types, Sent
<1>14. NoStall'
  BY <1>5 DEF Sent, NoStall
<1> QED
  BY <1>11, <1>13, <1>14 DEF Base

\* What has been taken is dropped.
LEMMA DropKeeps ==
  ASSUME Base, Runs("worker"), rsp_size = 0, NEW bytes, Took(bytes, rx'),
         Drop, UNCHANGED <<received, wire, cut>>
  PROVE  Base' /\ Forgets
<1>1. /\ Types /\ bytes \in Seq(InBytes) /\ rx' \in Seq(InBytes)
      /\ Len(rx') <= RxSize /\ Inbox = bytes \o (rx' \o line)
  BY DEF Base, Took
<1>2. /\ buffer' = << >> /\ ptr' = 0 /\ rsp_size' = 0 /\ pend' = Rest
      /\ skipped' = (rx' # << >>)
      /\ UNCHANGED <<tx, waiting, recent, data, answers, unsent, line, lost>>
  BY DEF Drop, received, timer
<1>3. Received' = << >> /\ Unsent' = << >> /\ Unsent = << >>
  BY <1>2 DEF Received, Unsent
<1>4. Stream' = Stream
  BY <1>2, <1>3 DEF Stream
<1>5. PICK rest \in Seq(InBytes) : rx' = rest
  BY <1>1
<1>6. Inbox' = rest \o line
  BY <1>1, <1>2, <1>3, <1>5, NothingReceived
<1>7. Forgets
  BY <1>1, <1>2, <1>4, <1>5, <1>6 DEF Forgets
<1>8. pend' \in Seq({"worker", "clear"})
  BY <1>1, <1>2, RestType
<1>9. BufferType'
  BY <1>2, ModbusAssumption DEF BufferType
<1>10. skipped' \in BOOLEAN
  BY <1>2
<1>11. Types'
  BY <1>1, <1>2, <1>8, <1>9, <1>10 DEF Types
<1>12. NoStall'
  BY <1>2 DEF NoStall
<1> QED
  BY <1>7, <1>11, <1>12 DEF Base

\* What has been taken is kept.
LEMMA WaitKeeps ==
  ASSUME Base, Runs("worker"), rsp_size = 0, NEW bytes, Took(bytes, rx'),
         Wait(bytes), UNCHANGED <<received, wire, cut>>
  PROVE  Base' /\ Forgets
<1>1. /\ Types /\ bytes \in Seq(InBytes) /\ rx' \in Seq(InBytes) /\ Len(bytes) <= BufferSize
      /\ Len(rx') <= RxSize /\ Inbox = bytes \o (rx' \o line)
  BY DEF Base, Took
<1>2. /\ buffer' = bytes /\ ptr' = Len(bytes) /\ rsp_size' = 0 /\ pend' = Rest
      /\ IF bytes # << >> /\ "clear" \notin ToSet(pend)
         THEN waiting' = TRUE /\ recent' = TRUE
         ELSE waiting' = waiting /\ recent' = recent
      /\ skipped' = FALSE
      /\ UNCHANGED <<tx, data, answers, unsent, line, lost>>
  BY DEF Wait, received, timer
<1>3. Received' = bytes /\ Unsent' = << >> /\ Unsent = << >>
  BY <1>2 DEF Received, Unsent
<1>4. Stream' = Stream
  BY <1>2, <1>3 DEF Stream
<1>5. Inbox' = Inbox
  BY <1>1, <1>2, <1>3 DEF Inbox
<1>6. Inbox = << >> \o Inbox'
  BY <1>1, <1>5, Parts, ConcatEmptySeq
<1>7. Forgets
  <2>1. << >> \in Seq(InBytes)
    OBVIOUS
  <2>2. \E taken \in Seq(InBytes) : Inbox = taken \o Inbox'
    BY <1>6, <2>1, Zenon
  <2> QED
    BY <1>2, <1>4, <2>2 DEF Forgets
<1>8. /\ pend' \in Seq({"worker", "clear"})
      /\ \A u \in ToSet(pend) \ {"worker"} : u \in ToSet(pend')
  BY <1>1, <1>2, RestType
<1>9. BufferType'
  BY <1>1, <1>2 DEF BufferType
<1>10. waiting' \in BOOLEAN /\ recent' \in BOOLEAN /\ skipped' \in BOOLEAN
  BY <1>1, <1>2 DEF Types
<1>11. Types'
  BY <1>1, <1>2, <1>8, <1>9, <1>10 DEF Types
<1>12. bytes # << >> => waiting' \/ "clear" \in ToSet(pend')
  BY <1>2, <1>8
<1>13. "clear" \in ToSet(pend') => pend' # << >>
  BY DEF ToSet
<1>14. NoStall'
  BY <1>2, <1>12, <1>13 DEF NoStall, Took
<1> QED
  BY <1>7, <1>11, <1>14 DEF Base

LEMMA WorkKeeps ==
  ASSUME Base, on_work
  PROVE  Base' /\ Outcome
<1>1. CASE rsp_size # 0
  BY <1>1, SendKeeps DEF on_work, Outcome
<1>2. CASE rsp_size = 0
  <2>1. Runs("worker") /\ modbus_rx_try /\ UNCHANGED <<received, wire, cut>>
    BY <1>2 DEF on_work
  <2>2. PICK n \in ReadSizes :
          LET bytes == SubSeq(buffer, 1, ptr) \o SubSeq(rx, 1, n) IN
          /\ rx' = SubSeq(rx, n + 1, Len(rx))
          /\ \/ \E f \in Complete(bytes) :
                  IF f.kind # "response" /\ f.to = "us" THEN bus_req_handle(f) ELSE Drop
             \/ Complete(bytes) = {} /\ ~Early(bytes) /\ Wait(bytes)
             \/ Complete(bytes) = {} /\ (Early(bytes) \/ Misread(bytes)) /\ Drop
    BY <2>1 DEF modbus_rx_try
  <2> DEFINE bytes == SubSeq(buffer, 1, ptr) \o SubSeq(rx, 1, n)
  <2>3. Took(bytes, rx')
    BY <1>2, <2>2, ReadParts DEF Base
  <2>4. \/ \E f \in Complete(bytes) : bus_req_handle(f)
        \/ Drop
        \/ Wait(bytes)
    BY <2>2
  <2> HIDE DEF bytes
  <2>5. CASE \E f \in Complete(bytes) : bus_req_handle(f)
    <3>1. PICK f \in Complete(bytes) : bus_req_handle(f)
      BY <2>5
    <3>2. f \in Frames
      BY DEF Complete
    <3>3. Base' /\ Executes(f)
      BY <1>2, <2>1, <2>3, <3>1, ExecuteKeeps
    <3> QED
      BY <3>2, <3>3 DEF Outcome
  <2>6. CASE Drop
    BY <1>2, <2>1, <2>3, <2>6, DropKeeps DEF Outcome
  <2>7. CASE Wait(bytes)
    BY <1>2, <2>1, <2>3, <2>7, WaitKeeps DEF Outcome
  <2> QED
    BY <2>4, <2>5, <2>6, <2>7
<1> QED
  BY <1>1, <1>2

\* A byte moves from the start of one sequence to the end of the other.
LEMMA HeadMoves ==
  ASSUME NEW S, NEW s \in Seq(S), NEW t \in Seq(S), t # << >>
  PROVE  /\ Append(s, Head(t)) \in Seq(S) /\ Len(Append(s, Head(t))) = Len(s) + 1
         /\ Head(t) \in S /\ Tail(t) \in Seq(S)
         /\ Append(s, Head(t)) \o Tail(t) = s \o t
         /\ t = <<Head(t)>> \o Tail(t)
<1>1. /\ Head(t) \in S /\ Head(t) = t[1] /\ Tail(t) \in Seq(S)
      /\ Len(t) \in Nat \ {0} /\ Len(Tail(t)) = Len(t) - 1
      /\ \A i \in 1 .. Len(Tail(t)) : Tail(t)[i] = t[i + 1]
  BY HeadTailProperties, EmptySeq
<1>2. /\ Append(s, Head(t)) = s \o <<Head(t)>> /\ Append(s, Head(t)) \in Seq(S)
      /\ Len(Append(s, Head(t))) = Len(s) + 1
  BY <1>1, AppendIsConcat, AppendProperties
<1>3. <<Head(t)>> \in Seq(S)
  BY <1>1
<1>4. t = <<Head(t)>> \o Tail(t)
  <2> DEFINE h == <<Head(t)>>
  <2>1. h \in Seq(S) /\ Len(h) = 1 /\ h[1] = t[1]
    BY <1>1
  <2> HIDE DEF h
  <2>0. /\ h \o Tail(t) \in Seq(S)
        /\ Len(h \o Tail(t)) = Len(h) + Len(Tail(t))
        /\ \A i \in 1 .. Len(h) + Len(Tail(t)) :
             (h \o Tail(t))[i] = IF i <= Len(h) THEN h[i] ELSE Tail(t)[i - Len(h)]
    BY <1>1, <2>1, ConcatProperties, Zenon
  <2>4. Len(h) + Len(Tail(t)) = Len(t)
    BY <1>1, <2>1
  <2>2. /\ h \o Tail(t) \in Seq(S) /\ Len(h \o Tail(t)) = Len(t)
        /\ \A i \in 1 .. Len(t) : (h \o Tail(t))[i] = IF i <= 1 THEN h[i] ELSE Tail(t)[i - 1]
    BY <2>0, <2>1, <2>4, Zenon
  <2>3. ASSUME NEW i \in 1 .. Len(t) PROVE (h \o Tail(t))[i] = t[i]
    <3>1. CASE i = 1
      BY <1>1, <2>1, <2>2, <3>1
    <3>2. CASE i # 1
      <4>1. i - 1 \in 1 .. Len(Tail(t)) /\ (i - 1) + 1 = i
        BY <1>1, <3>2
      <4> QED
        BY <1>1, <2>2, <3>2, <4>1
    <3> QED
      BY <3>1, <3>2
  <2> QED
    BY <2>2, <2>3, SeqEqual DEF h
<1>5. (s \o <<Head(t)>>) \o Tail(t) = s \o (<<Head(t)>> \o Tail(t))
  BY <1>1, <1>3, ConcatAssociative
<1> QED
  BY <1>1, <1>2, <1>4, <1>5

LEMMA ClearKeeps ==
  ASSUME Base, on_clear
  PROVE  Base' /\ Forgets
<1>1. /\ Types /\ Runs("clear")
      /\ buffer' = << >> /\ ptr' = 0 /\ rsp_size' = 0
      /\ pend' = IF rx # << >> THEN Exec(Rest, "worker") ELSE Rest
      /\ cut' = (cut \/ rsp_size # 0)
      /\ skipped' = FALSE
      /\ UNCHANGED <<rx, tx, waiting, recent, data, unsent, line, lost, answers, wire>>
  BY DEF Base, on_clear, received, timer
<1>2. Received' = << >> /\ Unsent' = << >> /\ (rsp_size = 0 => Unsent = << >>)
  BY <1>1 DEF Received, Unsent
<1>3. cut' \/ UNCHANGED <<cut, Stream>>
  BY <1>1, <1>2 DEF Stream, Types
<1>4. Received \in Seq(InBytes) /\ rx \in Seq(InBytes)
  BY <1>1, Parts DEF Types
<1>5. Inbox' = rx \o line
  BY <1>1, <1>2, <1>4, NothingReceived
<1>6. Forgets
  BY <1>1, <1>3, <1>4, <1>5 DEF Forgets, Inbox
<1>7. Rest \in Seq({"worker", "clear"})
  BY <1>1, RestType
<1>8. pend' \in Seq({"worker", "clear"}) /\ (rx' # << >> => pend' # << >>)
  BY <1>1, <1>7, ExecType
<1>9. BufferType'
  BY <1>1, ModbusAssumption DEF BufferType
<1>10. cut' \in BOOLEAN
  BY <1>1 DEF Types
<1>11. Types'
  BY <1>1, <1>8, <1>9, <1>10 DEF Types
<1>12. NoStall'
  BY <1>1, <1>8 DEF NoStall
<1> QED
  BY <1>6, <1>11, <1>12 DEF Base

LEMMA TimeoutKeeps ==
  ASSUME Base, TimeoutEnds
  PROVE  Base' /\ Forgets
<1>1. /\ Types /\ waiting' = FALSE /\ pend' = Exec(pend, "clear")
      /\ UNCHANGED <<rx, tx, buffer, ptr, rsp_size, recent, data, unsent, line, lost, answers,
                     wire, cut, skipped>>
  BY DEF Base, TimeoutEnds, received, bus
<1>2. pend' \in Seq({"worker", "clear"}) /\ pend' # << >>
  BY <1>1, ExecType DEF Types
<1>3. Types'
  BY <1>1, <1>2 DEF Types, BufferType
<1>4. NoStall'
  BY <1>1, <1>2 DEF NoStall
<1>5. Stream' = Stream /\ Inbox' = Inbox
  BY <1>1 DEF Stream, Inbox, Received
<1>6. << >> \in Seq(InBytes) /\ Inbox = << >> \o Inbox'
  BY <1>1, <1>5, Parts, ConcatEmptySeq
<1>7. \E taken \in Seq(InBytes) : Inbox = taken \o Inbox'
  BY <1>6, Zenon
<1> QED
  BY <1>1, <1>3, <1>4, <1>5, <1>7 DEF Base, Forgets

LEMMA StartKeeps ==
  ASSUME Base, FrameStarts
  PROVE  Base' /\ Outcome
<1>1. PICK f \in unsent :
        /\ line = << >> /\ unsent' = unsent \ {f} /\ line' = Bytes(f)
        /\ recent' = FALSE
        /\ UNCHANGED <<rx, tx, buffer, ptr, rsp_size, pend, waiting, data, lost, answers, wire,
                       cut, skipped>>
  BY DEF FrameStarts, bus
<1>2. /\ Types /\ f \in Frames /\ f.len \in Nat
  BY ModbusAssumption DEF Base, Types
<1>3. Bytes(f) \in Seq(InBytes)
  BY <1>2, BytesType DEF InBytes
<1>4. /\ Received \in Seq(InBytes) /\ rx \in Seq(InBytes) /\ Received' = Received
      /\ Stream' = Stream
  BY <1>1, <1>2, Parts DEF Types, Received, Stream
<1>5. Inbox = Received \o rx
  <2>1. rx \o << >> = rx
    BY <1>4, ConcatEmptySeq
  <2> QED
    BY <1>1, <2>1 DEF Inbox
<1>6. Inbox' = Received \o (rx \o Bytes(f))
  BY <1>1, <1>4 DEF Inbox
<1>7. Inbox' = Inbox \o Bytes(f)
  BY <1>3, <1>4, <1>5, <1>6, InAssoc, Zenon
<1>8. Starts(f)
  BY <1>1, <1>4, <1>7 DEF Starts
<1>9. Types'
  BY <1>1, <1>2, <1>3 DEF Types, BufferType
<1>10. NoStall'
  BY <1>1 DEF Base, NoStall
<1> QED
  BY <1>2, <1>8, <1>9, <1>10 DEF Base, Outcome

LEMMA ArriveKeeps ==
  ASSUME Base, ByteArrives
  PROVE  Base' /\ Forgets
<1>1. /\ Types /\ line # << >> /\ Len(rx) < RxSize
      /\ rx' = Append(rx, Head(line)) /\ line' = Tail(line)
      /\ pend' = Exec(pend, "worker")
      /\ UNCHANGED <<tx, buffer, ptr, rsp_size, waiting, recent, data, unsent, lost, answers,
                     wire, cut, skipped>>
  BY DEF Base, ByteArrives, bus, timer
<1>2. /\ rx \in Seq(InBytes) /\ line \in Seq(InBytes) /\ Len(rx) \in Nat /\ RxSize \in Nat
  BY <1>1, ModbusAssumption, LenProperties DEF Types
<1>3. /\ rx' \in Seq(InBytes) /\ Len(rx') = Len(rx) + 1 /\ line' \in Seq(InBytes)
      /\ rx' \o line' = rx \o line
  BY <1>1, <1>2, HeadMoves
<1>4. Inbox' = Inbox /\ Stream' = Stream
  BY <1>1, <1>3 DEF Inbox, Received, Stream
<1>5. << >> \in Seq(InBytes) /\ Inbox = << >> \o Inbox'
  BY <1>1, <1>4, Parts, ConcatEmptySeq
<1>6. \E taken \in Seq(InBytes) : Inbox = taken \o Inbox'
  BY <1>5, Zenon
<1>7. pend' \in Seq({"worker", "clear"}) /\ pend' # << >>
  BY <1>1, ExecType DEF Types
<1>8. Types'
  BY <1>1, <1>2, <1>3, <1>7 DEF Types, BufferType
<1>9. NoStall'
  BY <1>7 DEF NoStall
<1> QED
  BY <1>1, <1>4, <1>6, <1>8, <1>9 DEF Base, Forgets

LEMMA LostKeeps ==
  ASSUME Base, ByteLost
  PROVE  Base' /\ Loses
<1>1. /\ Types /\ line # << >> /\ line' = Tail(line)
      /\ lost' = lost \cup {Head(line)[1]}
      /\ UNCHANGED <<rx, tx, buffer, ptr, rsp_size, pend, waiting, recent, data, unsent,
                     answers, wire, cut, skipped>>
  BY DEF Base, ByteLost, bus, timer
<1>2. /\ rx \in Seq(InBytes) /\ line \in Seq(InBytes)
  BY <1>1 DEF Types
<1>3. /\ Head(line) \in InBytes /\ line' \in Seq(InBytes) /\ line = <<Head(line)>> \o line'
  BY <1>1, <1>2, HeadMoves
<1>4. /\ Received \in Seq(InBytes) /\ Received' = Received /\ Stream' = Stream
  BY <1>1, Parts DEF Received, Stream
<1> DEFINE a == Received \o rx
<1>5. a \in Seq(InBytes) /\ Inbox = a \o line /\ Inbox' = a \o line'
  <2>1. a \in Seq(InBytes)
    BY <1>2, <1>4, ConcatProperties
  <2>2. Inbox = Received \o (rx \o line) /\ Inbox' = Received \o (rx \o line')
    BY <1>1, <1>4 DEF Inbox
  <2> QED
    BY <1>2, <1>3, <1>4, <2>1, <2>2, InAssoc, Zenon
<1> HIDE DEF a
<1>6. Inbox = a \o (<<Head(line)>> \o line')
  BY <1>3, <1>5
<1>7. \E c, b \in Seq(InBytes), x \in InBytes :
        Inbox = c \o (<<x>> \o b) /\ Inbox' = c \o b /\ lost' = lost \cup {x[1]}
  BY <1>1, <1>3, <1>5, <1>6, Zenon
<1>8. Head(line)[1] \in Frames
  BY <1>3 DEF InBytes
<1>9. Types'
  BY <1>1, <1>3, <1>8 DEF Types, BufferType
<1>10. NoStall'
  BY <1>1 DEF Base, NoStall
<1> QED
  BY <1>1, <1>4, <1>7, <1>9, <1>10 DEF Base, Loses

LEMMA SentKeeps ==
  ASSUME Base, ByteSent
  PROVE  Base' /\ Forgets
<1>1. /\ Types /\ tx # << >>
      /\ wire' = Append(wire, Head(tx)) /\ tx' = Tail(tx)
      /\ pend' = Exec(pend, "worker")
      /\ UNCHANGED <<rx, buffer, ptr, rsp_size, waiting, recent, data, unsent, line, lost,
                     answers, cut, skipped>>
  BY DEF Base, ByteSent, bus, received, timer
<1>2. wire \in Seq(OutBytes) /\ tx \in Seq(OutBytes)
  BY <1>1 DEF Types
<1>3. /\ wire' \in Seq(OutBytes) /\ tx' \in Seq(OutBytes) /\ wire' \o tx' = wire \o tx
  BY <1>1, <1>2, HeadMoves
<1>4. Len(tx') <= TxSize
  <2>1. Len(tx') = Len(tx) - 1 /\ Len(tx) \in Nat /\ Len(tx) <= TxSize /\ TxSize \in Nat
    BY <1>1, <1>2, HeadTailProperties, LenProperties, ModbusAssumption DEF Types
  <2> QED
    BY <2>1
<1>5. Inbox' = Inbox /\ Stream' = Stream
  BY <1>1, <1>3 DEF Inbox, Received, Stream
<1>6. << >> \in Seq(InBytes) /\ Inbox = << >> \o Inbox'
  BY <1>1, <1>5, Parts, ConcatEmptySeq
<1>7. \E taken \in Seq(InBytes) : Inbox = taken \o Inbox'
  BY <1>6, Zenon
<1>8. pend' \in Seq({"worker", "clear"}) /\ pend' # << >>
  BY <1>1, ExecType DEF Types
<1>9. Types'
  BY <1>1, <1>3, <1>4, <1>8 DEF Types, BufferType
<1>10. NoStall'
  BY <1>8 DEF NoStall
<1> QED
  BY <1>1, <1>5, <1>7, <1>9, <1>10 DEF Base, Forgets

\* Each step is one of a few.
LEMMA StepOutcome == Base /\ [Next]_vars => Base' /\ Outcome
<1> SUFFICES ASSUME Base, [Next]_vars PROVE Base' /\ Outcome
  OBVIOUS
<1>1. CASE UNCHANGED vars
  <2>1. UNCHANGED <<rx, tx, buffer, ptr, rsp_size, pend, waiting, recent, data, unsent, line,
                    lost, answers, wire, cut, skipped>>
    BY <1>1 DEF vars, bus, received, timer
  <2>2. Base'
    BY <2>1 DEF Base, Types, BufferType, NoStall
  <2>3. Inbox' = Inbox /\ Stream' = Stream
    BY <2>1 DEF Inbox, Received, Stream
  <2>4. << >> \in Seq(InBytes) /\ Inbox = << >> \o Inbox'
    BY <2>3, Parts, ConcatEmptySeq DEF Base
  <2>5. \E taken \in Seq(InBytes) : Inbox = taken \o Inbox'
    BY <2>4, Zenon
  <2> QED
    BY <2>1, <2>2, <2>3, <2>5 DEF Forgets, Outcome
<1> QED
  BY <1>1, WorkKeeps, ClearKeeps, TimeoutKeeps, StartKeeps, ArriveKeeps, LostKeeps, SentKeeps
  DEF Next, Outcome

LEMMA InitBase == Init => Base
<1> SUFFICES ASSUME Init PROVE Base
  OBVIOUS
<1>1. data \in [Addresses -> Nat]
  BY DEF Init
<1>2. rx \in Seq(InBytes) /\ line \in Seq(InBytes) /\ Len(rx) = 0
  BY DEF Init
<1>3. tx \in Seq(OutBytes) /\ wire \in Seq(OutBytes) /\ Len(tx) = 0
  BY DEF Init
<1>4. answers \in Seq(Replies) /\ pend \in Seq({"worker", "clear"})
  BY DEF Init
<1>5. BufferType
  BY ModbusAssumption DEF Init, BufferType
<1>6. /\ waiting \in BOOLEAN /\ cut \in BOOLEAN
      /\ recent \in BOOLEAN /\ skipped \in BOOLEAN
      /\ unsent \subseteq Frames /\ lost \subseteq Frames
      /\ Len(rx) <= RxSize /\ Len(tx) <= TxSize
  <2>1. RxSize \in Nat /\ TxSize \in Nat
    BY ModbusAssumption
  <2>2. Len(rx) <= RxSize /\ Len(tx) <= TxSize
    BY <1>2, <1>3, <2>1
  <2> QED
    BY <2>2 DEF Init
<1>7. Types
  BY <1>1, <1>2, <1>3, <1>4, <1>5, <1>6 DEF Types
<1>8. NoStall
  BY DEF Init, NoStall
<1> QED
  BY <1>7, <1>8 DEF Base

LEMMA SpecBase == Spec => []Base
<1>1. Base /\ [Next]_vars => Base'
  BY StepOutcome
<1> QED
  BY InitBase, <1>1, PTL DEF Spec

\* Received bytes wait with nobody to look at them only where the worker has dropped
\* a frame and left them in rx, however few of the bytes pr_fifo_read returns and
\* however small the buffer is.
THEOREM BytesAttended == Spec => []NoStall
<1>1. Base => NoStall
  BY DEF Base
<1> QED
  BY SpecBase, <1>1, PTL

----------------------------------------------------------------------------
(* Requests are executed once.                                             *)

\* The bytes of two sequences, one after the other.
LEMMA ConcatSets ==
  ASSUME NEW a \in Seq(InBytes), NEW b \in Seq(InBytes)
  PROVE  /\ ToSet(a \o b) = ToSet(a) \cup ToSet(b)
         /\ IsInjective(a \o b) <=>
              IsInjective(a) /\ IsInjective(b) /\ ToSet(a) \cap ToSet(b) = {}
<1> DEFINE c == a \o b
<1>1. /\ Len(a) \in Nat /\ Len(b) \in Nat /\ Len(c) = Len(a) + Len(b)
      /\ DOMAIN a = 1 .. Len(a) /\ DOMAIN b = 1 .. Len(b) /\ DOMAIN c = 1 .. Len(a) + Len(b)
      /\ \A i \in 1 .. Len(a) + Len(b) : c[i] = IF i <= Len(a) THEN a[i] ELSE b[i - Len(a)]
  BY ConcatProperties, LenProperties
<1> HIDE DEF c
<1>2. /\ \A i \in DOMAIN a : i \in DOMAIN c /\ c[i] = a[i]
      /\ \A i \in DOMAIN b : Len(a) + i \in DOMAIN c /\ c[Len(a) + i] = b[i]
      /\ \A i \in DOMAIN c : \/ i \in DOMAIN a
                             \/ i - Len(a) \in DOMAIN b /\ i > Len(a)
  <2>1. ASSUME NEW i \in DOMAIN b
        PROVE  Len(a) + i \in DOMAIN c /\ c[Len(a) + i] = b[i]
    <3>1. Len(a) + i \in 1 .. Len(a) + Len(b) /\ ~(Len(a) + i <= Len(a))
          /\ (Len(a) + i) - Len(a) = i
      BY <1>1
    <3> QED
      BY <1>1, <3>1
  <2> QED
    BY <1>1, <2>1
<1>3. ToSet(c) = ToSet(a) \cup ToSet(b)
  <2>1. ASSUME NEW i \in DOMAIN c PROVE c[i] \in ToSet(a) \cup ToSet(b)
    <3>1. CASE i \in DOMAIN a
      BY <1>2, <3>1 DEF ToSet
    <3>2. CASE i - Len(a) \in DOMAIN b /\ i > Len(a)
      <4>1. c[i] = b[i - Len(a)]
        BY <1>1, <3>2
      <4> QED
        BY <3>2, <4>1 DEF ToSet
    <3> QED
      BY <1>2, <3>1, <3>2
  <2>2. ASSUME NEW i \in DOMAIN a PROVE a[i] \in ToSet(c)
    BY <1>2 DEF ToSet
  <2>3. ASSUME NEW i \in DOMAIN b PROVE b[i] \in ToSet(c)
    <3>1. Len(a) + i \in DOMAIN c /\ c[Len(a) + i] = b[i]
      BY <1>2
    <3> QED
      BY <3>1 DEF ToSet
  <2> QED
    BY <2>1, <2>2, <2>3 DEF ToSet
<1>4. ASSUME IsInjective(c)
      PROVE  IsInjective(a) /\ IsInjective(b) /\ ToSet(a) \cap ToSet(b) = {}
  <2>1. IsInjective(a)
    BY <1>2, <1>4 DEF IsInjective
  <2>2. ASSUME NEW i \in DOMAIN b, NEW j \in DOMAIN b, b[i] = b[j] PROVE i = j
    <3>1. Len(a) + i = Len(a) + j
      BY <1>2, <1>4, <2>2 DEF IsInjective
    <3> QED
      BY <1>1, <3>1
  <2>3. ASSUME NEW i \in DOMAIN a, NEW j \in DOMAIN b PROVE a[i] # b[j]
    <3>1. i # Len(a) + j
      BY <1>1
    <3> QED
      BY <1>2, <1>4, <3>1 DEF IsInjective
  <2> QED
    BY <2>1, <2>2, <2>3 DEF IsInjective, ToSet
<1>5. ASSUME IsInjective(a), IsInjective(b), ToSet(a) \cap ToSet(b) = {}
      PROVE  IsInjective(c)
  <2>0. \A i \in DOMAIN a, j \in DOMAIN b : a[i] # b[j]
    BY <1>5 DEF ToSet
  <2> SUFFICES ASSUME NEW i \in DOMAIN c, NEW j \in DOMAIN c, c[i] = c[j] PROVE i = j
    BY DEF IsInjective
  <2>1. \A k \in DOMAIN c : \/ k \in DOMAIN a /\ c[k] = a[k]
                            \/ k - Len(a) \in DOMAIN b /\ c[k] = b[k - Len(a)]
    BY <1>1, <1>2
  <2>2. CASE i \in DOMAIN a /\ c[i] = a[i]
    BY <1>5, <2>0, <2>1, <2>2 DEF IsInjective
  <2>3. CASE i - Len(a) \in DOMAIN b /\ c[i] = b[i - Len(a)]
    <3>1. j - Len(a) \in DOMAIN b /\ c[j] = b[j - Len(a)]
      BY <2>0, <2>1, <2>3
    <3>2. i - Len(a) = j - Len(a)
      BY <1>5, <2>3, <3>1 DEF IsInjective
    <3> QED
      BY <1>1, <3>2
  <2> QED
    BY <2>1, <2>2, <2>3
<1> QED
  BY <1>3, <1>4, <1>5 DEF c

\* The bytes of a frame.
LEMMA FrameBytes ==
  ASSUME NEW f \in Frames
  PROVE  /\ Bytes(f) \in Seq(InBytes) /\ IsInjective(Bytes(f))
         /\ \A x \in ToSet(Bytes(f)) : x[1] = f /\ x[2] \in 1 .. f.len
         /\ \A k \in 1 .. f.len : <<f, k>> \in ToSet(Bytes(f))
<1>1. f.len \in Nat
  BY ModbusAssumption
<1>2. Bytes(f) \in Seq(InBytes) /\ Len(Bytes(f)) = f.len
  BY <1>1, BytesType DEF InBytes
<1>3. DOMAIN Bytes(f) = 1 .. f.len /\ \A i \in 1 .. f.len : Bytes(f)[i] = <<f, i>>
  BY DEF Bytes
<1> QED
  BY <1>2, <1>3 DEF IsInjective, ToSet

\* A whole frame at the start of the buffer.
LEMMA CompleteBytes ==
  ASSUME NEW bytes \in Seq(InBytes), NEW f \in Complete(bytes)
  PROVE  f \in Frames /\ \A k \in 1 .. f.len : <<f, k>> \in ToSet(bytes)
<1>1. f \in Frames /\ IsPrefix(Bytes(f), bytes)
  BY DEF Complete
<1>2. f.len \in Nat
  BY <1>1, ModbusAssumption
<1>3. Len(Bytes(f)) = f.len /\ \A i \in 1 .. f.len : Bytes(f)[i] = <<f, i>>
  BY <1>1, <1>2, BytesType
<1>4. Bytes(f) \in Seq(InBytes)
  BY <1>1, FrameBytes
<1>5. /\ f.len <= Len(bytes) /\ Len(bytes) \in Nat /\ DOMAIN bytes = 1 .. Len(bytes)
      /\ SubSeq(Bytes(f), 1, f.len) = SubSeq(bytes, 1, f.len)
  BY <1>1, <1>3, LenProperties DEF IsPrefix
<1>6. SubSeq(Bytes(f), 1, f.len) = Bytes(f)
  BY <1>3, <1>4, SubSeqFull
<1>7. ASSUME NEW k \in 1 .. f.len PROVE <<f, k>> \in ToSet(bytes)
  <2>1. \A i \in 1 .. f.len : bytes[i] \in InBytes
    BY <1>2, <1>5, ElementOfSeq
  <2>2. SubSeq(bytes, 1, f.len)[k] = bytes[k]
    BY <1>2, <1>5
  <2>3. bytes[k] = <<f, k>> /\ k \in DOMAIN bytes
    BY <1>2, <1>3, <1>5, <1>6, <2>2
  <2> QED
    BY <2>3 DEF ToSet
<1> QED
  BY <1>1, <1>7

\* A byte received was sent once, and its frame is not executed before all of them
\* are looked at; a frame that has lost a byte will never be whole.
Once ==
  /\ IsInjective(Inbox)
  /\ \A x \in ToSet(Inbox) :
       /\ x[2] \in 1 .. x[1].len
       /\ x[1] \notin unsent
       /\ \A i \in DOMAIN answers : answers[i].request # x[1]
  /\ \A f \in lost : f \notin unsent /\ \E k \in 1 .. f.len : <<f, k>> \notin ToSet(Inbox)
  /\ ExecutedOnce

LEMMA ExecutesOnce ==
  ASSUME Types, Inbox' \in Seq(InBytes), Once, NEW f \in Frames, Executes(f)
  PROVE  Once'
<1>1. PICK bytes \in Seq(InBytes) : f \in Complete(bytes) /\ Inbox = bytes \o Inbox'
  BY DEF Executes
<1>2. answers' = Append(answers, Response(f)) /\ UNCHANGED <<unsent, lost>>
  BY DEF Executes
<1>3. /\ ToSet(Inbox) = ToSet(bytes) \cup ToSet(Inbox') /\ IsInjective(Inbox')
      /\ ToSet(bytes) \cap ToSet(Inbox') = {}
  BY <1>1, ConcatSets DEF Once
<1>4. \A k \in 1 .. f.len : <<f, k>> \in ToSet(bytes)
  BY <1>1, CompleteBytes
<1>5. f.len \in Nat \ {0, 1}
  BY ModbusAssumption
<1>6. <<f, 1>> \in ToSet(Inbox)
  BY <1>3, <1>4, <1>5
<1>7. f \notin unsent /\ f \notin lost /\ \A i \in DOMAIN answers : answers[i].request # f
  <2>1. \A k \in 1 .. f.len : <<f, k>> \in ToSet(Inbox)
    BY <1>3, <1>4
  <2>2. <<f, 1>>[1] = f
    OBVIOUS
  <2> QED
    BY <1>6, <2>1, <2>2 DEF Once
<1>8. \A x \in ToSet(Inbox') : x[1] # f
  <2> SUFFICES ASSUME NEW x \in ToSet(Inbox'), x[1] = f PROVE FALSE
    OBVIOUS
  <2>1. x \in ToSet(Inbox) /\ x[2] \in 1 .. f.len
    BY <1>3 DEF Once
  <2>2. x \in InBytes
    <3>1. \E i \in DOMAIN Inbox' : x = Inbox'[i]
      BY DEF ToSet
    <3> QED
      BY <3>1, LenProperties, ElementOfSeq
  <2>3. x = <<f, x[2]>>
    BY <2>2 DEF InBytes
  <2>4. x \in ToSet(bytes)
    BY <1>4, <2>1, <2>3
  <2> QED
    BY <1>3, <2>4
<1>9. /\ Len(answers) \in Nat /\ DOMAIN answers = 1 .. Len(answers)
      /\ DOMAIN answers' = 1 .. Len(answers) + 1
      /\ \A i \in 1 .. Len(answers) : answers'[i] = answers[i]
      /\ answers'[Len(answers) + 1].request = f
  <2>1. answers \in Seq(Replies) /\ Response(f) \in Replies /\ Response(f).request = f
    BY ResponseType DEF Types
  <2>2. /\ Len(answers') = Len(answers) + 1 /\ answers' \in Seq(Replies)
        /\ \A i \in 1 .. Len(answers) : answers'[i] = answers[i]
        /\ answers'[Len(answers) + 1] = Response(f)
    BY <1>2, <2>1, AppendProperties
  <2> QED
    BY <2>1, <2>2, LenProperties
<1>10. \A i \in DOMAIN answers' : i \in DOMAIN answers \/ i = Len(answers) + 1
  BY <1>9
<1>11. \A x \in ToSet(Inbox') :
         /\ x[2] \in 1 .. x[1].len
         /\ x[1] \notin unsent
         /\ \A i \in DOMAIN answers' : answers'[i].request # x[1]
  BY <1>3, <1>8, <1>9, <1>10 DEF Once
<1>12. \A g \in lost' : g \notin unsent' /\ \E k \in 1 .. g.len : <<g, k>> \notin ToSet(Inbox')
  BY <1>2, <1>3 DEF Once
<1>13. ExecutedOnce'
  BY <1>2, <1>7, <1>9, <1>10 DEF Once, ExecutedOnce
<1> QED
  BY <1>2, <1>3, <1>11, <1>12, <1>13 DEF Once

LEMMA ForgetsOnce ==
  ASSUME Types, Inbox' \in Seq(InBytes), Once, Forgets
  PROVE  Once'
<1>1. PICK bytes \in Seq(InBytes) : Inbox = bytes \o Inbox'
  BY DEF Forgets
<1>2. UNCHANGED <<answers, unsent, lost>>
  BY DEF Forgets
<1>3. ToSet(Inbox) = ToSet(bytes) \cup ToSet(Inbox') /\ IsInjective(Inbox')
  BY <1>1, ConcatSets DEF Once
<1> QED
  BY <1>2, <1>3 DEF Once, ExecutedOnce

LEMMA StartsOnce ==
  ASSUME Types, Once, NEW f \in Frames, Starts(f)
  PROVE  Once'
<1>1. /\ f \in unsent /\ unsent' = unsent \ {f} /\ Inbox' = Inbox \o Bytes(f)
      /\ UNCHANGED <<answers, lost>>
  BY DEF Starts
<1>2. /\ Bytes(f) \in Seq(InBytes) /\ IsInjective(Bytes(f))
      /\ \A x \in ToSet(Bytes(f)) : x[1] = f /\ x[2] \in 1 .. f.len
  BY FrameBytes
<1>3. ToSet(Inbox) \cap ToSet(Bytes(f)) = {}
  BY <1>1, <1>2 DEF Once
<1>4. ToSet(Inbox') = ToSet(Inbox) \cup ToSet(Bytes(f)) /\ IsInjective(Inbox')
  BY <1>1, <1>2, <1>3, Parts, ConcatSets DEF Once
<1>5. f \notin lost /\ \A i \in DOMAIN answers : answers[i].request # f
  BY <1>1 DEF Once, ExecutedOnce
<1>6. \A x \in ToSet(Inbox') :
        /\ x[2] \in 1 .. x[1].len
        /\ x[1] \notin unsent'
        /\ \A i \in DOMAIN answers : answers[i].request # x[1]
  BY <1>1, <1>2, <1>4, <1>5 DEF Once
<1>7. ASSUME NEW g \in lost
      PROVE  g \notin unsent' /\ \E k \in 1 .. g.len : <<g, k>> \notin ToSet(Inbox')
  <2>1. PICK k \in 1 .. g.len : <<g, k>> \notin ToSet(Inbox)
    BY DEF Once
  <2>2. <<g, k>>[1] = g /\ g # f /\ g \notin unsent
    BY <1>5 DEF Once
  <2>3. <<g, k>> \notin ToSet(Bytes(f))
    BY <1>2, <2>2
  <2> QED
    BY <1>1, <1>4, <2>1, <2>2, <2>3
<1>8. ExecutedOnce'
  BY <1>1 DEF Once, ExecutedOnce
<1> QED
  BY <1>1, <1>4, <1>6, <1>7, <1>8 DEF Once

LEMMA LosesOnce ==
  ASSUME Types, Once, Loses
  PROVE  Once'
<1>1. PICK a \in Seq(InBytes), b \in Seq(InBytes), x \in InBytes :
        Inbox = a \o (<<x>> \o b) /\ Inbox' = a \o b /\ lost' = lost \cup {x[1]}
  BY DEF Loses
<1>2. UNCHANGED <<answers, unsent>>
  BY DEF Loses
<1> DEFINE c == <<x>>  d == c \o b
<1>3. c \in Seq(InBytes) /\ ToSet(c) = {x}
  BY DEF ToSet
<1> HIDE DEF c
<1>4. /\ d \in Seq(InBytes) /\ ToSet(d) = {x} \cup ToSet(b)
      /\ IsInjective(d) => IsInjective(b) /\ x \notin ToSet(b)
  BY <1>3, ConcatSets, ConcatProperties
<1> HIDE DEF d
<1>5. Inbox = a \o d
  BY <1>1 DEF c, d
<1>6. /\ ToSet(Inbox) = ToSet(a) \cup ToSet(d)
      /\ IsInjective(a) /\ IsInjective(d) /\ ToSet(a) \cap ToSet(d) = {}
  BY <1>4, <1>5, ConcatSets DEF Once
<1>7. /\ ToSet(Inbox') = ToSet(a) \cup ToSet(b) /\ IsInjective(Inbox')
      /\ x \notin ToSet(Inbox') /\ x \in ToSet(Inbox)
  BY <1>1, <1>4, <1>6, ConcatSets
<1>8. ToSet(Inbox') \subseteq ToSet(Inbox)
  BY <1>4, <1>6, <1>7
<1>9. x[2] \in 1 .. x[1].len /\ x[1] \notin unsent
      /\ \A i \in DOMAIN answers : answers[i].request # x[1]
  BY <1>7 DEF Once
<1>10. x = <<x[1], x[2]>>
  BY DEF InBytes
<1>11. ASSUME NEW f \in lost'
       PROVE  f \notin unsent /\ \E k \in 1 .. f.len : <<f, k>> \notin ToSet(Inbox')
  <2>1. CASE f = x[1]
    BY <1>7, <1>9, <1>10, <2>1
  <2>2. CASE f \in lost
    BY <1>8, <2>2 DEF Once
  <2> QED
    BY <1>1, <2>1, <2>2
<1>12. ExecutedOnce'
  BY <1>1, <1>2, <1>9 DEF Once, ExecutedOnce
<1> QED
  BY <1>2, <1>7, <1>8, <1>11, <1>12 DEF Once

\* A request is executed once at most, and not if a byte of it was lost.
THEOREM RequestsExecutedOnce == Spec => []ExecutedOnce
<1>1. Init => Base /\ Once
  <2>1. Init => Inbox = << >> /\ lost = {} /\ answers = << >>
    BY DEF Init, Inbox, Received
  <2>2. ToSet(<< >>) = {} /\ IsInjective(<< >>)
    BY DEF ToSet, IsInjective
  <2> QED
    BY <2>1, <2>2, InitBase DEF Once, ExecutedOnce
<1>2. Base /\ Once /\ [Next]_vars => (Base /\ Once)'
  <2> SUFFICES ASSUME Base, Once, [Next]_vars PROVE (Base /\ Once)'
    OBVIOUS
  <2>1. Base' /\ Outcome
    BY StepOutcome
  <2>2. Types /\ Inbox' \in Seq(InBytes)
    <3>1. Received' \in Seq(InBytes)
      BY <2>1 DEF Base, Types, BufferType, Received
    <3>2. rx' \o line' \in Seq(InBytes)
      BY <2>1, ConcatProperties DEF Base, Types
    <3>3. Received' \o (rx' \o line') \in Seq(InBytes)
      BY <3>1, <3>2, ConcatProperties
    <3> QED
      BY <3>3 DEF Base, Inbox
  <2> QED
    BY <2>1, <2>2, ExecutesOnce, ForgetsOnce, StartsOnce, LosesOnce DEF Outcome
<1>3. Once => ExecutedOnce
  BY DEF Once
<1> QED
  BY <1>1, <1>2, <1>3, PTL DEF Spec

----------------------------------------------------------------------------
(* Responses are whole.                                                    *)

\* flat[i] is the first i of the sequences ss, one after the other.
Flat(flat, ss, n) ==
  flat = [i \in 1 .. n |-> IF i = 1 THEN ss[i] ELSE flat[i - 1] \o ss[i]]

LEMMA FlatExists ==
  ASSUME NEW S, NEW ss \in Seq(Seq(S))
  PROVE  \E flat \in [1 .. Len(ss) -> Seq(S)] : Flat(flat, ss, Len(ss))
<1> DEFINE T == {n \in Nat : n <= Len(ss) => \E flat \in [1 .. n -> Seq(S)] : Flat(flat, ss, n)}
<1>1. Len(ss) \in Nat /\ \A i \in 1 .. Len(ss) : ss[i] \in Seq(S)
  BY LenProperties, ElementOfSeq
<1>2. 0 \in T
  <2> DEFINE flat == [i \in 1 .. 0 |-> << >>]
  <2>1. flat \in [1 .. 0 -> Seq(S)]
    OBVIOUS
  <2>2. Flat(flat, ss, 0)
    BY DEF Flat
  <2> QED
    BY <2>1, <2>2
<1>3. ASSUME NEW n \in Nat, n \in T PROVE n + 1 \in T
  <2> SUFFICES ASSUME n + 1 <= Len(ss)
               PROVE  \E flat \in [1 .. n + 1 -> Seq(S)] : Flat(flat, ss, n + 1)
    OBVIOUS
  <2>1. PICK f \in [1 .. n -> Seq(S)] : Flat(f, ss, n)
    BY <1>1, <1>3
  <2>2. ss[n + 1] \in Seq(S)
    BY <1>1
  <2> DEFINE last == IF n = 0 THEN ss[1] ELSE f[n] \o ss[n + 1]
             g == [i \in 1 .. n + 1 |-> IF i = n + 1 THEN last ELSE f[i]]
  <2>3. last \in Seq(S)
    <3>1. CASE n = 0
      BY <2>2, <3>1
    <3>2. CASE n # 0
      <4>1. f[n] \in Seq(S)
        BY <2>1, <3>2
      <4> QED
        BY <2>2, <3>2, <4>1, ConcatProperties
    <3> QED
      BY <3>1, <3>2
  <2>4. g \in [1 .. n + 1 -> Seq(S)]
    BY <2>1, <2>3
  <2>5. ASSUME NEW i \in 1 .. n + 1
        PROVE  g[i] = IF i = 1 THEN ss[i] ELSE g[i - 1] \o ss[i]
    <3>1. CASE i = n + 1
      <4>1. n # 0 => g[n] = f[n]
        OBVIOUS
      <4>2. g[i] = last
        BY <3>1
      <4> HIDE DEF g
      <4>3. CASE n = 0
        BY <3>1, <4>2, <4>3
      <4>4. CASE n # 0
        <5>1. i - 1 = n /\ i # 1
          BY <3>1, <4>4
        <5> QED
          BY <3>1, <4>1, <4>2, <4>4, <5>1
      <4> QED
        BY <4>3, <4>4
    <3>2. CASE i # n + 1
      <4>1. i \in 1 .. n /\ g[i] = f[i]
        BY <3>2
      <4>2. i # 1 => g[i - 1] = f[i - 1]
        BY <4>1
      <4>3. f[i] = IF i = 1 THEN ss[i] ELSE f[i - 1] \o ss[i]
        BY <2>1, <4>1 DEF Flat
      <4> HIDE DEF g
      <4> QED
        BY <4>1, <4>2, <4>3
    <3> QED
      BY <3>1, <3>2
  <2>6. g = [i \in 1 .. n + 1 |-> g[i]]
    OBVIOUS
  <2> HIDE DEF g
  <2>7. Flat(g, ss, n + 1)
    BY <2>5, <2>6 DEF Flat
  <2> QED
    BY <2>4, <2>7
<1>4. Len(ss) \in T
  BY <1>1, <1>2, <1>3, SetInduction
<1> QED
  BY <1>4

\* What a longer sequence starts with is flattened to the same.
Agree(f, g, n) == \A i \in 1 .. n : f[i] = g[i]

LEMMA FlatAgrees ==
  ASSUME NEW ss, NEW tt, NEW n \in Nat, NEW m \in Nat, NEW f, NEW g,
         Flat(f, ss, n), Flat(g, tt, m), n <= m, Agree(ss, tt, n)
  PROVE  Agree(f, g, n)
<1> DEFINE T == {k \in Nat : k + 1 <= n => f[k + 1] = g[k + 1]}
<1>1. ASSUME NEW i \in 1 .. n
      PROVE  /\ f[i] = IF i = 1 THEN ss[i] ELSE f[i - 1] \o ss[i]
             /\ g[i] = IF i = 1 THEN ss[i] ELSE g[i - 1] \o ss[i]
  <2>1. f[i] = IF i = 1 THEN ss[i] ELSE f[i - 1] \o ss[i]
    BY DEF Flat
  <2>2. i \in 1 .. m /\ ss[i] = tt[i]
    BY DEF Agree
  <2>3. g[i] = IF i = 1 THEN tt[i] ELSE g[i - 1] \o tt[i]
    BY <2>2 DEF Flat
  <2> QED
    BY <2>1, <2>2, <2>3
<1>2. 0 \in T
  BY <1>1
<1>3. ASSUME NEW k \in Nat, k \in T PROVE k + 1 \in T
  <2> SUFFICES ASSUME k + 2 <= n PROVE f[k + 2] = g[k + 2]
    OBVIOUS
  <2>1. f[k + 1] = g[k + 1] /\ k + 2 \in 1 .. n /\ (k + 2) - 1 = k + 1 /\ k + 2 # 1
    BY <1>3
  <2>2. f[k + 2] = f[k + 1] \o ss[k + 2] /\ g[k + 2] = g[k + 1] \o ss[k + 2]
    BY <1>1, <2>1
  <2> QED
    BY <2>1, <2>2
<1>4. Nat \subseteq T
  BY <1>2, <1>3, SetInduction
<1>5. ASSUME NEW i \in 1 .. n PROVE f[i] = g[i]
  <2>1. i - 1 \in T /\ (i - 1) + 1 = i
    BY <1>4
  <2> QED
    BY <2>1
<1> QED
  BY <1>5 DEF Agree

\* FlattenSeq is the last of them.
LEMMA FlattenIsFlat ==
  ASSUME NEW S, NEW ss \in Seq(Seq(S)), Len(ss) # 0
  PROVE  \E flat \in [1 .. Len(ss) -> Seq(S)] :
           Flat(flat, ss, Len(ss)) /\ FlattenSeq(ss) = flat[Len(ss)]
<1> DEFINE flatten == CHOOSE f :
             f = [i \in 1 .. Len(ss) |-> IF i = 1 THEN ss[i] ELSE f[i - 1] \o ss[i]]
<1>1. FlattenSeq(ss) = flatten[Len(ss)]
  BY DEF FlattenSeq
<1>2. PICK g \in [1 .. Len(ss) -> Seq(S)] : Flat(g, ss, Len(ss))
  BY FlatExists
<1>3. Flat(flatten, ss, Len(ss))
  BY <1>2 DEF Flat
<1> HIDE DEF flatten
<1>4. Len(ss) \in Nat
  BY LenProperties
<1>5. Agree(flatten, g, Len(ss))
  <2>1. Agree(ss, ss, Len(ss))
    BY DEF Agree
  <2> QED
    BY <1>2, <1>3, <1>4, <2>1, FlatAgrees
<1>6. FlattenSeq(ss) = g[Len(ss)]
  <2>1. Len(ss) \in 1 .. Len(ss)
    BY <1>4
  <2> QED
    BY <1>1, <1>5, <2>1 DEF Agree
<1> QED
  BY <1>2, <1>6

\* One more sequence at the end.
LEMMA FlattenAppend ==
  ASSUME NEW S, NEW ss \in Seq(Seq(S)), NEW s \in Seq(S)
  PROVE  FlattenSeq(Append(ss, s)) = FlattenSeq(ss) \o s
<1> DEFINE tt == Append(ss, s)
<1>1. /\ tt \in Seq(Seq(S)) /\ Len(tt) = Len(ss) + 1 /\ Len(ss) \in Nat
      /\ \A i \in 1 .. Len(ss) : tt[i] = ss[i]
      /\ tt[Len(ss) + 1] = s
  BY AppendProperties, LenProperties
<1> HIDE DEF tt
<1>2. PICK g \in [1 .. Len(tt) -> Seq(S)] : Flat(g, tt, Len(tt)) /\ FlattenSeq(tt) = g[Len(tt)]
  <2>1. Len(tt) # 0
    BY <1>1
  <2> QED
    BY <1>1, <2>1, FlattenIsFlat, Zenon
<1>3. g[Len(tt)] = IF Len(tt) = 1 THEN s ELSE g[Len(ss)] \o s
  <2>1. Len(tt) \in 1 .. Len(tt) /\ Len(tt) - 1 = Len(ss) /\ tt[Len(tt)] = s
    BY <1>1
  <2>2. g[Len(tt)] = IF Len(tt) = 1 THEN tt[Len(tt)] ELSE g[Len(tt) - 1] \o tt[Len(tt)]
    BY <1>2, <2>1 DEF Flat
  <2> QED
    BY <2>1, <2>2
<1>4. CASE Len(ss) = 0
  <2>1. ss = << >>
    BY <1>4, EmptySeq
  <2>2. FlattenSeq(ss) = << >>
    BY <1>4, <2>1 DEF FlattenSeq
  <2>3. << >> \o s = s
    BY ConcatEmptySeq
  <2>4. FlattenSeq(tt) = s
    BY <1>1, <1>2, <1>3, <1>4
  <2> QED
    BY <2>2, <2>3, <2>4 DEF tt
<1>5. CASE Len(ss) # 0
  <2>1. PICK f \in [1 .. Len(ss) -> Seq(S)] : Flat(f, ss, Len(ss)) /\ FlattenSeq(ss) = f[Len(ss)]
    BY <1>5, FlattenIsFlat
  <2>2. \A i \in 1 .. Len(ss) : f[i] = g[i]
    <3>1. Agree(ss, tt, Len(ss))
      BY <1>1 DEF Agree
    <3>2. Len(ss) <= Len(tt) /\ Len(tt) \in Nat /\ Len(ss) \in Nat
      BY <1>1
    <3>3. Flat(f, ss, Len(ss)) /\ Flat(g, tt, Len(tt))
      BY <1>2, <2>1
    <3>4. Agree(f, g, Len(ss))
      BY <3>1, <3>2, <3>3, FlatAgrees
    <3> QED
      BY <3>4 DEF Agree
  <2>3. f[Len(ss)] = g[Len(ss)] /\ Len(tt) # 1
    BY <1>1, <1>5, <2>2
  <2> QED
    BY <1>2, <1>3, <2>1, <2>3 DEF tt
<1> QED
  BY <1>4, <1>5

LEMMA ExecutesWhole ==
  ASSUME Types, WholeUnlessCut, NEW f \in Frames, Executes(f)
  PROVE  WholeUnlessCut'
<1>1. /\ answers' = Append(answers, Response(f)) /\ cut' = cut
      /\ Stream' = Stream \o Bytes(Response(f))
  BY DEF Executes
<1> DEFINE r == Response(f)  all == Bytes(Response(f))
           ms == [i \in DOMAIN answers |-> Bytes(answers[i])]
           ns == [i \in DOMAIN answers' |-> Bytes(answers'[i])]
<1>2. all \in Seq(OutBytes) /\ r \in Replies /\ answers \in Seq(Replies)
  BY ResponseType DEF Types
<1>3. /\ Len(answers) \in Nat /\ DOMAIN answers = 1 .. Len(answers)
      /\ DOMAIN answers' = 1 .. Len(answers) + 1
      /\ \A i \in 1 .. Len(answers) : answers'[i] = answers[i]
      /\ answers'[Len(answers) + 1] = r
  <2>1. /\ Len(answers') = Len(answers) + 1 /\ answers' \in Seq(Replies)
        /\ \A i \in 1 .. Len(answers) : answers'[i] = answers[i]
        /\ answers'[Len(answers) + 1] = r
    BY <1>1, <1>2, AppendProperties
  <2> QED
    BY <1>2, <2>1, LenProperties
<1>4. ms \in Seq(Seq(OutBytes)) /\ Len(ms) = Len(answers)
  <2>1. ASSUME NEW i \in 1 .. Len(answers) PROVE Bytes(answers[i]) \in Seq(OutBytes)
    <3>1. answers[i] \in Replies
      BY <1>2, ElementOfSeq
    <3>2. answers[i].len \in {2, 3}
      BY <3>1 DEF Replies
    <3>3. answers[i].len \in Nat
      BY <3>2
    <3> QED
      BY <3>1, <3>3, BytesType DEF OutBytes
  <2> QED
    BY <1>3, <2>1
<1>5. ns = Append(ms, all)
  <2>1. DOMAIN ns = 1 .. Len(answers) + 1 /\ \A i \in DOMAIN ns : ns[i] = Bytes(answers'[i])
    BY <1>3
  <2>2. \A i \in 1 .. Len(answers) : ns[i] = ms[i]
    BY <1>3
  <2>3. ns[Len(answers) + 1] = all
    BY <1>3
  <2>4. /\ Append(ms, all) \in Seq(Seq(OutBytes)) /\ Len(Append(ms, all)) = Len(answers) + 1
        /\ \A i \in 1 .. Len(answers) : Append(ms, all)[i] = ms[i]
        /\ Append(ms, all)[Len(answers) + 1] = all
    BY <1>2, <1>4, AppendProperties
  <2>5. ASSUME NEW i \in 1 .. Len(answers) + 1 PROVE ns[i] = Append(ms, all)[i]
    <3>1. i \in 1 .. Len(answers) \/ i = Len(answers) + 1
      BY <1>3
    <3> QED
      BY <2>2, <2>3, <2>4, <3>1
  <2>6. ns \in Seq(Seq(OutBytes)) /\ Len(ns) = Len(answers) + 1
    <3>1. \A i \in 1 .. Len(answers) + 1 : ns[i] \in Seq(OutBytes)
      <4>1. \A i \in 1 .. Len(answers) : ms[i] \in Seq(OutBytes)
        BY <1>4, ElementOfSeq
      <4> QED
        BY <1>2, <1>3, <2>2, <2>3, <4>1
    <3>2. ns = [i \in 1 .. Len(answers) + 1 |-> ns[i]]
      BY <2>1
    <3> HIDE DEF ns
    <3> QED
      BY <1>3, <3>1, <3>2
  <2> HIDE DEF ns, ms, all
  <2> QED
    BY <2>4, <2>5, <2>6, SeqEqual
<1>6. FlattenSeq(ns) = FlattenSeq(ms) \o all
  BY <1>2, <1>4, <1>5, FlattenAppend
<1>7. WholeResponses => WholeResponses'
  BY <1>1, <1>6 DEF WholeResponses
<1> QED
  BY <1>1, <1>7 DEF WholeUnlessCut

\* What has been sent, what waits in the FIFO and what is left in the buffer are
\* the responses one after the other, each whole, unless a timeout has hit one.
THEOREM ResponsesWhole == Spec => []WholeUnlessCut
<1>1. Init => Base /\ WholeUnlessCut
  <2>1. Init => Stream = << >> /\ answers = << >>
    BY DEF Init, Stream
  <2>2. FlattenSeq([i \in DOMAIN << >> |-> Bytes(<< >>[i])]) = << >>
    <3>1. [i \in DOMAIN << >> |-> Bytes(<< >>[i])] = << >>
      OBVIOUS
    <3>2. FlattenSeq(<< >>) = << >>
      BY DEF FlattenSeq
    <3> QED
      BY <3>1, <3>2
  <2> QED
    BY <2>1, <2>2, InitBase DEF WholeUnlessCut, WholeResponses
<1>2. Base /\ WholeUnlessCut /\ [Next]_vars => (Base /\ WholeUnlessCut)'
  <2> SUFFICES ASSUME Base, WholeUnlessCut, [Next]_vars PROVE Base' /\ WholeUnlessCut'
    OBVIOUS
  <2>1. Base' /\ Outcome /\ Types
    BY StepOutcome DEF Base
  <2>2. CASE \E f \in Frames : Executes(f)
    BY <2>1, <2>2, ExecutesWhole
  <2>3. CASE Forgets \/ Loses \/ \E f \in Frames : Starts(f)
    <3>1. answers' = answers /\ (cut' \/ UNCHANGED <<cut, Stream>>)
      BY <2>3 DEF Forgets, Loses, Starts
    <3>2. CASE cut'
      BY <2>1, <3>2 DEF WholeUnlessCut
    <3>3. CASE UNCHANGED <<answers, cut, Stream>>
      <4>1. WholeResponses => WholeResponses'
        BY <3>3 DEF WholeResponses
      <4> QED
        BY <2>1, <3>3, <4>1 DEF WholeUnlessCut
    <3> QED
      BY <3>1, <3>2, <3>3
  <2> QED
    BY <2>1, <2>2, <2>3 DEF Outcome
<1> QED
  BY <1>1, <1>2, PTL DEF Spec

----------------------------------------------------------------------------
(* Answers are true.                                                       *)

\* A request that is accepted reaches all its registers, and one that is not, or
\* that only reads, changes no other.
LEMMA HandleTrue ==
  ASSUME Types, NEW f \in Frames, NEW r, r = Response(f), data' = bus_req_write(f)
  PROVE  /\ r.request = f
         /\ r.ok => /\ f.kind = "write" => \A a \in Cells(f) : data'[a] = f.value
                    /\ f.kind = "read" => \A a \in Cells(f) : r.values[a] = data'[a]
         /\ ~r.ok => ~(Cells(f) \subseteq Addresses)
         /\ \A a \in Addresses \ Cells(f) : data'[a] = data[a]
<1>1. r.request = f /\ r.ok = Accepted(f)
  BY DEF Response
<1>2. Accepted(f) => \A a \in Cells(f) : a \in Addresses /\ a \in Reached(f)
  BY DEF Accepted, Reached
<1>3. f.kind = "write" =>
        data' = [a \in Addresses |-> IF a \in Reached(f) THEN f.value ELSE data[a]]
  BY DEF bus_req_write
<1>4. f.kind # "write" => data' = data
  BY DEF bus_req_write
<1>5. Accepted(f) /\ f.kind = "read" => r.values = [a \in Cells(f) |-> data[a]]
  BY DEF Response
<1>6. Reached(f) \subseteq Cells(f)
  BY DEF Reached
<1>7. r.ok /\ f.kind = "write" => \A a \in Cells(f) : data'[a] = f.value
  BY <1>1, <1>2, <1>3
<1>8. r.ok /\ f.kind = "read" => \A a \in Cells(f) : r.values[a] = data'[a]
  BY <1>1, <1>4, <1>5
<1>9. ~r.ok => ~(Cells(f) \subseteq Addresses)
  BY <1>1 DEF Accepted
<1>10. \A a \in Addresses \ Cells(f) : data'[a] = data[a]
  BY <1>3, <1>4, <1>6
<1> QED
  BY <1>1, <1>7, <1>8, <1>9, <1>10

\* A positive answer to a write means that every register holds the value, and to
\* a read that the values are those of the registers; a negative one that a
\* register does not exist.  No other register changes.
THEOREM AnswersTrue == Spec => AnswersTruthful
<1> DEFINE True(f) ==
      LET r == Last(answers') IN
      /\ r.request = f
      /\ r.ok => /\ f.kind = "write" => \A a \in Cells(f) : data'[a] = f.value
                 /\ f.kind = "read" => \A a \in Cells(f) : r.values[a] = data'[a]
      /\ ~r.ok => ~(Cells(f) \subseteq Addresses)
      /\ \A a \in Addresses \ Cells(f) : data'[a] = data[a]
<1>1. ASSUME Base, [Next]_vars, Len(answers') > Len(answers)
      PROVE  \E f \in Frames : True(f)
  <2>1. Types
    BY <1>1 DEF Base
  <2>2. answers' # answers
    BY <1>1, <2>1, LenProperties DEF Types
  <2>3. PICK f \in Frames : bus_req_handle(f)
    <3>1. on_work
      BY <1>1, <2>2 DEF Next, on_clear, TimeoutEnds, FrameStarts, ByteArrives, ByteLost, ByteSent,
                       vars
    <3>2. modbus_rx_try
      BY <2>2, <3>1 DEF on_work
    <3>3. \E f \in Frames : bus_req_handle(f)
      BY <2>2, <3>2 DEF modbus_rx_try, Drop, Wait, Complete
    <3> QED
      BY <3>3
  <2>4. answers' = Append(answers, Response(f)) /\ data' = bus_req_write(f)
    BY <2>3 DEF bus_req_handle
  <2>5. Last(answers') = Response(f)
    <3>1. /\ Len(answers') = Len(answers) + 1
          /\ answers'[Len(answers) + 1] = Response(f)
      BY <2>1, <2>4, ResponseType, AppendProperties DEF Types
    <3> QED
      BY <3>1 DEF Last
  <2>6. True(f)
    BY <2>1, <2>4, <2>5, HandleTrue
  <2> QED
    BY <2>6
<1>2. ASSUME NEW f \in Frames, True(f)
      PROVE  LET r == Last(answers')  g == r.request IN
               /\ r.ok => /\ g.kind = "write" => \A a \in Cells(g) : data'[a] = g.value
                          /\ g.kind = "read" => \A a \in Cells(g) : r.values[a] = data'[a]
               /\ ~r.ok => ~(Cells(g) \subseteq Addresses)
               /\ \A a \in Addresses \ Cells(g) : data'[a] = data[a]
  BY <1>2
<1> HIDE DEF True
<1>3. Base /\ [Next]_vars =>
        [Len(answers') > Len(answers) =>
          LET r == Last(answers')  f == r.request IN
          /\ r.ok => /\ f.kind = "write" => \A a \in Cells(f) : data'[a] = f.value
                     /\ f.kind = "read" => \A a \in Cells(f) : r.values[a] = data'[a]
          /\ ~r.ok => ~(Cells(f) \subseteq Addresses)
          /\ \A a \in Addresses \ Cells(f) : data'[a] = data[a]]_vars
  BY <1>1, <1>2
<1> QED
  BY SpecBase, <1>3, PTL DEF Spec, AnswersTruthful
=============================================================================
