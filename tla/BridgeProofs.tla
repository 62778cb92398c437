---------------------------- MODULE BridgeProofs ----------------------------
(***************************************************************************)
(* Theorems about Bridge, for any sizes of the queues, FIFOs and endpoints *)
(* and any bounds on the bytes: bytes cross in order, and none is left     *)
(* with nobody to come for it.                                             *)
(***************************************************************************)
EXTENDS Bridge, SequenceTheorems, TLAPS

----------------------------------------------------------------------------
(* The schedule.                                                           *)

Schedules == [pend : Seq(Tasks), timed : SUBSET Tasks]

\* Whoever was to run still is, and whoever had a timeout has one or is to run.
Keeps(s, s2) ==
  /\ s2 \in Schedules
  /\ \A t \in Tasks :
       /\ Scheduled(s, t) => Scheduled(s2, t)
       /\ t \in s.timed => t \in s2.timed \/ Scheduled(s2, t)

LEMMA ExecKeeps ==
  ASSUME NEW s \in Schedules, NEW t \in Tasks
  PROVE  Keeps(s, Exec(s, t)) /\ Scheduled(Exec(s, t), t)
<1> DEFINE all == Append(s.pend, t)
<1>1. s.pend \in Seq(Tasks) /\ s.timed \subseteq Tasks
  BY DEF Schedules
<1>2. /\ all \in Seq(Tasks) /\ Len(all) = Len(s.pend) + 1 /\ Len(s.pend) \in Nat
      /\ \A i \in 1 .. Len(s.pend) : all[i] = s.pend[i]
      /\ all[Len(s.pend) + 1] = t
  BY <1>1, AppendProperties, LenProperties
<1> HIDE DEF all
<1>3. DOMAIN s.pend = 1 .. Len(s.pend) /\ DOMAIN all = 1 .. Len(s.pend) + 1
  BY <1>1, <1>2, LenProperties
<1>4. ToSet(s.pend) \subseteq ToSet(all) /\ t \in ToSet(all)
  <2>1. \A i \in DOMAIN s.pend : i \in DOMAIN all /\ all[i] = s.pend[i]
    BY <1>2, <1>3
  <2>2. Len(s.pend) + 1 \in DOMAIN all
    BY <1>2, <1>3
  <2> QED
    BY <1>2, <2>1, <2>2 DEF ToSet
<1>5. CASE Scheduled(s, t)
  BY <1>5 DEF Exec, Keeps
<1>6. CASE ~Scheduled(s, t)
  <2> DEFINE s2 == [pend |-> all, timed |-> s.timed \ {t}]
  <2>1. Exec(s, t) = s2
    BY <1>6 DEF Exec, all
  <2>2. s2 \in Schedules
    BY <1>1, <1>2 DEF Schedules
  <2>3. s2.pend = all /\ s2.timed = s.timed \ {t}
    OBVIOUS
  <2> HIDE DEF s2
  <2> QED
    BY <1>4, <2>1, <2>2, <2>3 DEF Keeps, Scheduled
<1> QED
  BY <1>5, <1>6

LEMMA ExecInKeeps ==
  ASSUME NEW s \in Schedules, NEW t \in Tasks
  PROVE  /\ Keeps(s, ExecIn(s, t))
         /\ Scheduled(ExecIn(s, t), t) \/ t \in ExecIn(s, t).timed
<1>1. CASE Scheduled(s, t)
  BY <1>1 DEF ExecIn, Keeps
<1>2. CASE ~Scheduled(s, t)
  <2> DEFINE s2 == [s EXCEPT !.timed = @ \cup {t}]
  <2>1. ExecIn(s, t) = s2
    BY <1>2 DEF ExecIn
  <2>2. s2 \in Schedules /\ s2.pend = s.pend /\ s2.timed = s.timed \cup {t}
    BY DEF Schedules
  <2> HIDE DEF s2
  <2> QED
    BY <2>1, <2>2 DEF Keeps, Scheduled
<1> QED
  BY <1>1, <1>2

LEMMA ExecIfKeeps ==
  ASSUME NEW s \in Schedules, NEW t \in Tasks, NEW test \in BOOLEAN
  PROVE  Keeps(s, ExecIf(test, s, t)) /\ (test => Scheduled(ExecIf(test, s, t), t))
<1>1. Keeps(s, s)
  BY DEF Keeps
<1> QED
  BY <1>1, ExecKeeps DEF ExecIf

LEMMA KeepsOn ==
  ASSUME NEW s, NEW s2, NEW s3, Keeps(s, s2), Keeps(s2, s3)
  PROVE  Keeps(s, s3)
  BY DEF Keeps

\* The first task is taken from the list.
Removes(s, t, s2) ==
  /\ s2 \in Schedules
  /\ \A u \in Tasks \ {t} :
       /\ Scheduled(s, u) => Scheduled(s2, u)
       /\ u \in s.timed => u \in s2.timed

LEMMA HeadRemoved ==
  ASSUME NEW s \in Schedules, s.pend # << >>
  PROVE  Removes(s, Head(s.pend), [s EXCEPT !.pend = Tail(@)])
<1> DEFINE s2 == [s EXCEPT !.pend = Tail(@)]
<1>1. s.pend \in Seq(Tasks) /\ Len(s.pend) \in Nat /\ DOMAIN s.pend = 1 .. Len(s.pend)
  BY LenProperties DEF Schedules
<1>2. /\ Tail(s.pend) \in Seq(Tasks) /\ Len(Tail(s.pend)) = Len(s.pend) - 1
      /\ \A i \in 1 .. Len(Tail(s.pend)) : Tail(s.pend)[i] = s.pend[i + 1]
      /\ Head(s.pend) = s.pend[1]
  BY <1>1, HeadTailProperties
<1>3. s2 \in Schedules /\ s2.pend = Tail(s.pend) /\ s2.timed = s.timed
  BY <1>2 DEF Schedules
<1> HIDE DEF s2
<1>4. ASSUME NEW u \in Tasks, u # Head(s.pend), Scheduled(s, u) PROVE Scheduled(s2, u)
  <2>1. PICK i \in 1 .. Len(s.pend) : s.pend[i] = u
    BY <1>1, <1>4 DEF Scheduled, ToSet
  <2>2. i - 1 \in 1 .. Len(Tail(s.pend)) /\ Tail(s.pend)[i - 1] = u
    BY <1>1, <1>2, <1>4, <2>1
  <2>3. DOMAIN Tail(s.pend) = 1 .. Len(Tail(s.pend))
    BY <1>2, LenProperties
  <2> QED
    BY <1>3, <2>2, <2>3 DEF Scheduled, ToSet
<1> QED
  BY <1>3, <1>4 DEF Removes, s2

\* The two parts of the bridge use one scheduler.
LEMMA UartExec ==
  ASSUME NEW s, NEW t, NEW test
  PROVE  Uart!Exec(s, t) = Exec(s, t) /\ Uart!ExecIf(test, s, t) = ExecIf(test, s, t)
  BY DEF Uart!Exec, Uart!ExecIf, Uart!Scheduled, Uart!ToSet, Exec, ExecIf, Scheduled, ToSet

LEMMA CdcExec ==
  ASSUME NEW s, NEW t, NEW test
  PROVE  /\ Cdc!Exec(s, t) = Exec(s, t) /\ Cdc!ExecIf(test, s, t) = ExecIf(test, s, t)
         /\ Cdc!ExecIn(s, t) = ExecIn(s, t)
  BY DEF Cdc!Exec, Cdc!ExecIf, Cdc!ExecIn, Cdc!Scheduled, Cdc!ToSet,
         Exec, ExecIf, ExecIn, Scheduled, ToSet

----------------------------------------------------------------------------
(* What the two ways hold, and who is to come for it.                      *)

\* Bytes are told apart by their numbers.
Values == Nat

Up == got \o in \o up \o rxbuf \o hwrx
Down == said \o hwtx \o txbuf \o down \o out

Types ==
  /\ got \in Seq(Values) /\ in \in Seq(Values) /\ up \in Seq(Values)
  /\ rxbuf \in Seq(Values) /\ hwrx \in Seq(Values)
  /\ said \in Seq(Values) /\ hwtx \in Seq(Values) /\ txbuf \in Seq(Values)
  /\ down \in Seq(Values) /\ out \in Seq(Values)
  /\ heard \in Nat /\ given \in Nat
  /\ raised \in BOOLEAN /\ (raised => Len(hwtx) <= TxTrigger)
  /\ enables \in [rx : BOOLEAN, tx : BOOLEAN]
  /\ flushed \in 0 .. Len(in)
  /\ open \in BOOLEAN /\ connected \in BOOLEAN
  /\ sched \in Schedules
  /\ running \in {"none", "from_port", "to_port", "enable"}

\* Room for a byte has somebody to come for it, whether or not there is a byte, and
\* the FIFO to the host is empty while the task of the interface sleeps.
RxEnabled == rxbuf = << >> => enables.rx \/ Enabling
TxEnabled == txbuf # << >> => enables.tx \/ Enabling
Asleep == open => Scheduled(sched, "handler") \/ ("handler" \in sched.timed /\ up = << >>)

Watched == RxEnabled /\ TxEnabled /\ FifosAttended /\ Asleep

Base == Types /\ Watched

\* A step moves bytes on, or brings one.
Moved ==
  /\ \/ heard' = heard /\ Up' = Up
     \/ heard' = heard + 1 /\ Up' = Append(Up, heard')
  /\ \/ given' = given /\ Down' = Down
     \/ given' = given + 1 /\ Down' = Append(Down, given')

\* The same bytes, cut elsewhere, after the same bytes.
LEMMA Joined == \A a, b, c \in Seq(Values) : (a \o b) \o c = a \o (b \o c)
  BY ConcatAssociative

Same(s, t, u, v) == s \o t = u \o v
Rejoins(w, s, u, t, v) == Same(s, u, t, v) => Same(w \o s, u, w \o t, v)

LEMMA Rejoined ==
  ASSUME NEW w \in Seq(Values), NEW s \in Seq(Values), NEW u \in Seq(Values),
         NEW t \in Seq(Values), NEW v \in Seq(Values)
  PROVE  Rejoins(w, s, u, t, v)
<1>1. (w \o s) \o u = w \o (s \o u)
  BY Joined
<1>2. (w \o t) \o v = w \o (t \o v)
  BY Joined
<1> QED
  BY <1>1, <1>2 DEF Rejoins, Same

\* The first n of the bytes of t go to the end of s.
LEMMA FirstMove ==
  ASSUME NEW s \in Seq(Values), NEW t \in Seq(Values), NEW n \in 0 .. Len(t)
  PROVE  /\ s \o SubSeq(t, 1, n) \in Seq(Values) /\ Len(s \o SubSeq(t, 1, n)) = Len(s) + n
         /\ SubSeq(t, n + 1, Len(t)) \in Seq(Values)
         /\ Len(SubSeq(t, n + 1, Len(t))) = Len(t) - n
         /\ (s \o SubSeq(t, 1, n)) \o SubSeq(t, n + 1, Len(t)) = s \o t
<1> DEFINE head == SubSeq(t, 1, n)  rest == SubSeq(t, n + 1, Len(t))
<1>1. Len(t) \in Nat /\ \A i \in 1 .. Len(t) : t[i] \in Values
  BY LenProperties, ElementOfSeq
<1>2. /\ head \in Seq(Values) /\ Len(head) = n
      /\ rest \in Seq(Values) /\ Len(rest) = Len(t) - n
  <2>1. /\ \A i \in 1 .. n : t[i] \in Values
        /\ \A i \in n + 1 .. Len(t) : t[i] \in Values
        /\ n \in Int /\ n + 1 \in Int /\ Len(t) \in Int
    BY <1>1
  <2>2. head \in Seq(Values) /\ Len(head) = IF 1 <= n THEN n - 1 + 1 ELSE 0
    BY <2>1, SubSeqProperties
  <2>3. rest \in Seq(Values)
        /\ Len(rest) = IF n + 1 <= Len(t) THEN Len(t) - (n + 1) + 1 ELSE 0
    BY <2>1, SubSeqProperties
  <2> QED
    BY <1>1, <2>2, <2>3
<1>3. head \o rest = t
  <2>1. 1 \in 1 .. Len(t) + 1 /\ n \in 1 - 1 .. Len(t) /\ Len(t) \in n .. Len(t)
    BY <1>1
  <2>2. head \o rest = SubSeq(t, 1, Len(t))
    BY <2>1, ConcatAdjacentSubSeq
  <2> QED
    BY <2>2, SubSeqFull
<1> HIDE DEF head, rest
<1>4. (s \o head) \o rest = s \o t
  BY <1>2, <1>3, Joined, Zenon
<1>5. s \o head \in Seq(Values) /\ Len(s \o head) = Len(s) + n
  BY <1>2, ConcatProperties
<1> QED
  BY <1>2, <1>4, <1>5 DEF head, rest

\* The first byte of t goes to the end of s.
LEMMA HeadMoves ==
  ASSUME NEW s \in Seq(Values), NEW t \in Seq(Values), t # << >>
  PROVE  /\ Head(t) \in Values /\ Tail(t) \in Seq(Values) /\ Len(Tail(t)) = Len(t) - 1
         /\ Append(s, Head(t)) \in Seq(Values) /\ Append(s, Head(t)) # << >>
         /\ Append(s, Head(t)) \o Tail(t) = s \o t
         /\ <<Head(t)>> \o Tail(t) = << >> \o t
<1>1. /\ Head(t) \in Values /\ Head(t) = t[1] /\ Tail(t) \in Seq(Values)
      /\ Len(t) \in Nat \ {0} /\ Len(Tail(t)) = Len(t) - 1
      /\ \A i \in 1 .. Len(Tail(t)) : Tail(t)[i] = t[i + 1]
  BY HeadTailProperties, EmptySeq
<1>2. /\ Append(s, Head(t)) = s \o <<Head(t)>> /\ Append(s, Head(t)) \in Seq(Values)
      /\ Append(s, Head(t)) # << >>
  BY <1>1, AppendIsConcat, AppendProperties
<1>3. t = <<Head(t)>> \o Tail(t)
  <2> DEFINE h == <<Head(t)>>
  <2>1. h \in Seq(Values) /\ Len(h) = 1 /\ h[1] = t[1]
    BY <1>1
  <2> HIDE DEF h
  <2>2. /\ h \o Tail(t) \in Seq(Values)
        /\ Len(h \o Tail(t)) = Len(h) + Len(Tail(t))
        /\ \A i \in 1 .. Len(h) + Len(Tail(t)) :
             (h \o Tail(t))[i] = IF i <= Len(h) THEN h[i] ELSE Tail(t)[i - Len(h)]
    BY <1>1, <2>1, ConcatProperties, Zenon
  <2>3. Len(h) + Len(Tail(t)) = Len(t)
    BY <1>1, <2>1
  <2>4. /\ h \o Tail(t) \in Seq(Values) /\ Len(h \o Tail(t)) = Len(t)
        /\ \A i \in 1 .. Len(t) : (h \o Tail(t))[i] = IF i <= 1 THEN h[i] ELSE Tail(t)[i - 1]
    BY <2>1, <2>2, <2>3, Zenon
  <2>5. ASSUME NEW i \in 1 .. Len(t) PROVE (h \o Tail(t))[i] = t[i]
    <3>1. CASE i = 1
      BY <1>1, <2>1, <2>4, <3>1
    <3>2. CASE i # 1
      <4>1. i - 1 \in 1 .. Len(Tail(t)) /\ (i - 1) + 1 = i
        BY <1>1, <3>2
      <4> QED
        BY <1>1, <2>4, <3>2, <4>1
    <3> QED
      BY <3>1, <3>2
  <2> QED
    BY <2>4, <2>5, SeqEqual DEF h
<1>4. <<Head(t)>> \in Seq(Values)
  BY <1>1
<1>5. (s \o <<Head(t)>>) \o Tail(t) = s \o (<<Head(t)>> \o Tail(t))
  BY <1>1, <1>4, Joined, Zenon
<1>6. << >> \o t = t
  BY ConcatEmptySeq
<1> QED
  BY <1>1, <1>2, <1>3, <1>5, <1>6

\* What comes before a place on its way.
LEMMA Parts ==
  ASSUME Types
  PROVE  /\ got \o in \in Seq(Values) /\ got \o in \o up \in Seq(Values)
         /\ got \o in \o up \o rxbuf \in Seq(Values) /\ Up \in Seq(Values)
         /\ said \o hwtx \in Seq(Values) /\ said \o hwtx \o txbuf \in Seq(Values)
         /\ said \o hwtx \o txbuf \o down \in Seq(Values) /\ Down \in Seq(Values)
<1>1. got \o in \in Seq(Values) /\ said \o hwtx \in Seq(Values)
  BY ConcatProperties DEF Types
<1>2. got \o in \o up \in Seq(Values) /\ said \o hwtx \o txbuf \in Seq(Values)
  BY <1>1, ConcatProperties DEF Types
<1>3. got \o in \o up \o rxbuf \in Seq(Values) /\ said \o hwtx \o txbuf \o down \in Seq(Values)
  BY <1>2, ConcatProperties DEF Types
<1>4. Up \in Seq(Values) /\ Down \in Seq(Values)
  BY <1>3, ConcatProperties DEF Types, Up, Down
<1> QED
  BY <1>1, <1>2, <1>3, <1>4

\* One more byte at the end.
LEMMA Grows ==
  ASSUME NEW w \in Seq(Values), NEW e \in Seq(Values), NEW x \in Values
  PROVE  w \o Append(e, x) = Append(w \o e, x)
<1>1. w \o e \in Seq(Values) /\ <<x>> \in Seq(Values)
  BY ConcatProperties
<1>2. Append(w \o e, x) = (w \o e) \o <<x>> /\ Append(e, x) = e \o <<x>>
  BY <1>1, AppendIsConcat
<1>3. (w \o e) \o <<x>> = w \o (e \o <<x>>)
  BY <1>1, Joined
<1> QED
  BY <1>2, <1>3, Zenon

----------------------------------------------------------------------------
(* The UART.                                                               *)

LEMMA UartRuns ==
  ASSUME Base, NEW t \in {"from_port", "to_port"}, Uart!Runs(t), UNCHANGED cdc
  PROVE  Base' /\ Moved
<1>1. /\ running = "none" /\ running' = t /\ sched.pend # << >> /\ Head(sched.pend) = t
      /\ sched' = [sched EXCEPT !.pend = Tail(@)]
      /\ UNCHANGED <<hwrx, hwtx, raised, enables, rxbuf, txbuf, heard, said, up, down,
                     in, out, flushed, connected, open, events, given, got, toggles>>
  BY DEF Uart!Runs, Uart!uart, Uart!hw, Uart!bufs, Uart!line, cdc
<1>2. Removes(sched, t, sched')
  BY <1>1, HeadRemoved DEF Base, Types
<1>3. Types'
  BY <1>1, <1>2 DEF Base, Types, Removes
<1>4. "handler" \in Tasks /\ "from_port" \in Tasks /\ "to_port" \in Tasks
  BY DEF Tasks
<1>5. Asleep'
  BY <1>1, <1>2, <1>4 DEF Base, Watched, Asleep, Removes
<1>6. Coming("from_port") => Coming("from_port")'
  BY <1>1, <1>2, <1>4 DEF Coming, Removes
<1>7. Coming("to_port") => Coming("to_port")'
  BY <1>1, <1>2, <1>4 DEF Coming, Removes
<1>8. FifosAttended'
  BY <1>1, <1>6, <1>7 DEF Base, Watched, FifosAttended
<1>9. RxEnabled' /\ TxEnabled'
  BY <1>1 DEF RxEnabled, TxEnabled, Enabling
<1>10. Moved
  BY <1>1 DEF Moved, Up, Down
<1> QED
  BY <1>3, <1>5, <1>8, <1>9, <1>10 DEF Base, Watched

LEMMA WriteFifoKeeps ==
  ASSUME Base, Uart!WriteFifo, UNCHANGED cdc
  PROVE  Base' /\ Moved
<1>1. /\ running = "from_port" /\ rxbuf # << >> /\ up' = up \o rxbuf /\ rxbuf' = << >>
      /\ sched' = Exec(sched, "handler")
      /\ UNCHANGED <<hwrx, hwtx, raised, enables, txbuf, heard, said, down, running,
                     in, out, flushed, connected, open, events, given, got, toggles>>
  BY UartExec DEF Uart!WriteFifo, Uart!hw, Uart!line, cdc
<1>2. "handler" \in Tasks /\ "from_port" \in Tasks /\ "to_port" \in Tasks
  BY DEF Tasks
<1>3. Keeps(sched, sched') /\ Scheduled(sched', "handler")
  BY <1>1, <1>2, ExecKeeps DEF Base, Types
<1>4. /\ up \in Seq(Values) /\ rxbuf \in Seq(Values) /\ up' \in Seq(Values) /\ rxbuf' \in Seq(Values)
      /\ Same(up', rxbuf', up, rxbuf)
  <2>1. up \in Seq(Values) /\ rxbuf \in Seq(Values)
    BY DEF Base, Types
  <2>2. up \o rxbuf \in Seq(Values)
    BY <2>1, ConcatProperties
  <2> QED
    BY <1>1, <2>1, <2>2, ConcatEmptySeq DEF Same
<1>5. Types'
  BY <1>1, <1>3, <1>4 DEF Base, Types, Keeps
<1>6. Same(got \o in \o up', rxbuf', got \o in \o up, rxbuf)
  <2>1. Rejoins(got \o in, up', rxbuf', up, rxbuf)
    BY <1>4, Parts, Rejoined DEF Base
  <2> QED
    BY <1>4, <2>1 DEF Rejoins
<1>7. Moved
  BY <1>1, <1>6 DEF Moved, Up, Down, Same
<1>8. FifosAttended'
  BY <1>1, <1>2, <1>3 DEF Base, Watched, FifosAttended, Coming, Keeps
<1> QED
  BY <1>1, <1>3, <1>5, <1>7, <1>8 DEF Base, Watched, RxEnabled, TxEnabled, Enabling, Asleep

LEMMA GetcKeeps ==
  ASSUME Base, Uart!uart_getc, UNCHANGED cdc
  PROVE  Base' /\ Moved
<1>1. /\ running = "from_port" /\ rxbuf = << >> /\ hwrx # << >>
      /\ rxbuf' = <<Head(hwrx)>> /\ hwrx' = Tail(hwrx)
      /\ UNCHANGED <<hwtx, raised, enables, txbuf, heard, said, up, down, sched, running,
                     in, out, flushed, connected, open, events, given, got, toggles>>
  BY DEF Uart!uart_getc, Uart!line, cdc
<1>2. /\ hwrx \in Seq(Values) /\ rxbuf \in Seq(Values)
      /\ hwrx' \in Seq(Values) /\ rxbuf' \in Seq(Values) /\ Same(rxbuf', hwrx', rxbuf, hwrx)
  <2>1. hwrx \in Seq(Values) /\ rxbuf \in Seq(Values)
    BY DEF Base, Types
  <2>2. /\ Head(hwrx) \in Values /\ Tail(hwrx) \in Seq(Values)
        /\ <<Head(hwrx)>> \o Tail(hwrx) = << >> \o hwrx
    BY <1>1, <2>1, HeadMoves
  <2>3. <<Head(hwrx)>> \in Seq(Values)
    BY <2>2
  <2> QED
    BY <1>1, <2>1, <2>2, <2>3 DEF Same
<1>3. Types'
  BY <1>1, <1>2 DEF Base, Types
<1>4. Same(got \o in \o up \o rxbuf', hwrx', got \o in \o up \o rxbuf, hwrx)
  <2>1. Rejoins(got \o in \o up, rxbuf', hwrx', rxbuf, hwrx)
    BY <1>2, Parts, Rejoined DEF Base
  <2> QED
    BY <1>2, <2>1 DEF Rejoins
<1>5. Moved
  BY <1>1, <1>4 DEF Moved, Up, Down, Same
<1> QED
  BY <1>1, <1>3, <1>5 DEF Base, Watched, RxEnabled, TxEnabled, Enabling, FifosAttended, Coming,
                        Asleep

LEMMA BreaksKeep ==
  ASSUME Base, Uart!FromPortBreaks \/ Uart!ToPortBreaks, UNCHANGED cdc
  PROVE  Base' /\ Moved
<1>1. /\ running' = "enable"
      /\ \/ running = "from_port" /\ (rxbuf # << >> => ~(Len(up) < FifoSize))
         \/ running = "to_port" /\ (txbuf = << >> => down = << >>)
      /\ UNCHANGED <<hwrx, hwtx, raised, enables, rxbuf, txbuf, heard, said, up, down, sched,
                     in, out, flushed, connected, open, events, given, got, toggles>>
  BY DEF Uart!FromPortBreaks, Uart!ToPortBreaks, Uart!Room, Uart!uart, Uart!hw, Uart!bufs,
         Uart!line, cdc
<1>2. Types'
  BY <1>1 DEF Base, Types
<1>3. RxEnabled' /\ TxEnabled' /\ Asleep'
  BY <1>1 DEF Base, Watched, RxEnabled, TxEnabled, Enabling, Asleep
<1>4. FifosAttended'
  BY <1>1 DEF Base, Watched, FifosAttended, Coming
<1>5. Moved
  BY <1>1 DEF Moved, Up, Down
<1> QED
  BY <1>2, <1>3, <1>4, <1>5 DEF Base, Watched

LEMMA ReadFifoKeeps ==
  ASSUME Base, Uart!ReadFifo, UNCHANGED cdc
  PROVE  Base' /\ Moved
<1>1. /\ running = "to_port" /\ txbuf = << >> /\ down # << >>
      /\ txbuf' = <<Head(down)>> /\ down' = Tail(down)
      /\ sched' = Exec(sched, "handler")
      /\ UNCHANGED <<hwrx, hwtx, raised, enables, rxbuf, heard, said, up, running,
                     in, out, flushed, connected, open, events, given, got, toggles>>
  BY UartExec DEF Uart!ReadFifo, Uart!hw, Uart!line, cdc
<1>2. "handler" \in Tasks /\ "from_port" \in Tasks /\ "to_port" \in Tasks
  BY DEF Tasks
<1>3. Keeps(sched, sched') /\ Scheduled(sched', "handler")
  BY <1>1, <1>2, ExecKeeps DEF Base, Types
<1>4. /\ down \in Seq(Values) /\ txbuf \in Seq(Values)
      /\ down' \in Seq(Values) /\ txbuf' \in Seq(Values) /\ Same(txbuf', down', txbuf, down)
  <2>1. down \in Seq(Values) /\ txbuf \in Seq(Values)
    BY DEF Base, Types
  <2>2. /\ Head(down) \in Values /\ Tail(down) \in Seq(Values)
        /\ <<Head(down)>> \o Tail(down) = << >> \o down
    BY <1>1, <2>1, HeadMoves
  <2>3. <<Head(down)>> \in Seq(Values)
    BY <2>2
  <2> QED
    BY <1>1, <2>1, <2>2, <2>3 DEF Same
<1>5. Types'
  BY <1>1, <1>3, <1>4 DEF Base, Types, Keeps
<1>6. Same(said \o hwtx \o txbuf', down', said \o hwtx \o txbuf, down)
  <2>1. Rejoins(said \o hwtx, txbuf', down', txbuf, down)
    BY <1>4, Parts, Rejoined DEF Base
  <2> QED
    BY <1>4, <2>1 DEF Rejoins
<1>7. Moved
  BY <1>1, <1>6 DEF Moved, Up, Down, Same
<1>8. FifosAttended'
  BY <1>1, <1>2, <1>3 DEF Base, Watched, FifosAttended, Coming, Keeps
<1>9. RxEnabled' /\ TxEnabled' /\ Asleep'
  BY <1>1, <1>3 DEF RxEnabled, TxEnabled, Enabling, Asleep
<1> QED
  BY <1>5, <1>7, <1>8, <1>9 DEF Base, Watched

LEMMA PutcKeeps ==
  ASSUME Base, Uart!uart_putc, UNCHANGED cdc
  PROVE  Base' /\ Moved
<1>1. /\ running = "to_port" /\ txbuf # << >> /\ hwtx' = hwtx \o txbuf /\ txbuf' = << >>
      /\ raised' = (raised /\ Len(hwtx') <= TxTrigger)
      /\ UNCHANGED <<hwrx, enables, rxbuf, heard, said, up, down, sched, running,
                     in, out, flushed, connected, open, events, given, got, toggles>>
  BY DEF Uart!uart_putc, Uart!line, cdc
<1>2. /\ hwtx \in Seq(Values) /\ txbuf \in Seq(Values)
      /\ hwtx' \in Seq(Values) /\ txbuf' \in Seq(Values) /\ Same(hwtx', txbuf', hwtx, txbuf)
  <2>1. hwtx \in Seq(Values) /\ txbuf \in Seq(Values)
    BY DEF Base, Types
  <2>2. hwtx \o txbuf \in Seq(Values)
    BY <2>1, ConcatProperties
  <2> QED
    BY <1>1, <2>1, <2>2, ConcatEmptySeq DEF Same
<1>3. Types'
  BY <1>1, <1>2 DEF Base, Types
<1>4. Same(said \o hwtx', txbuf', said \o hwtx, txbuf)
  <2>1. said \in Seq(Values)
    BY DEF Base, Types
  <2>2. Rejoins(said, hwtx', txbuf', hwtx, txbuf)
    BY <1>2, <2>1, Rejoined
  <2> QED
    BY <1>2, <2>2 DEF Rejoins
<1>5. Moved
  BY <1>1, <1>4 DEF Moved, Up, Down, Same
<1> QED
  BY <1>1, <1>3, <1>5 DEF Base, Watched, RxEnabled, TxEnabled, Enabling, FifosAttended, Coming,
                        Asleep

LEMMA EnablesKeep ==
  ASSUME Base, Uart!set_irq_enables, UNCHANGED cdc
  PROVE  Base' /\ Moved
<1>1. /\ running = "enable" /\ running' = "none"
      /\ enables' = [rx |-> rxbuf = << >>, tx |-> txbuf # << >>]
      /\ UNCHANGED <<hwrx, hwtx, raised, rxbuf, txbuf, heard, said, up, down, sched,
                     in, out, flushed, connected, open, events, given, got, toggles>>
  BY DEF Uart!set_irq_enables, Uart!bufs, Uart!line, cdc
<1>2. Types'
  BY <1>1 DEF Base, Types
<1>3. RxEnabled' /\ TxEnabled'
  BY <1>1 DEF RxEnabled, TxEnabled
<1>4. FifosAttended' /\ Asleep'
  BY <1>1 DEF Base, Watched, FifosAttended, Coming, Asleep
<1>5. Moved
  BY <1>1 DEF Moved, Up, Down
<1> QED
  BY <1>2, <1>3, <1>4, <1>5 DEF Base, Watched

\* The interrupt disables itself, and schedules a task that will enable it again:
\* the transmit interrupt is not raised while the queue is full.
LEMMA InterruptKeeps ==
  ASSUME Base, Uart!on_uart_io, UNCHANGED cdc
  PROVE  Base' /\ Moved
<1> DEFINE s == ExecIf(Len(hwtx) < HwSize, sched, "to_port")
<1>1. /\ (enables.rx /\ hwrx # << >>) \/ (enables.tx /\ raised)
      /\ sched' = ExecIf(hwrx # << >>, s, "from_port")
      /\ enables' = [rx |-> FALSE, tx |-> FALSE]
      /\ UNCHANGED <<hwrx, hwtx, raised, rxbuf, txbuf, heard, said, up, down, running,
                     in, out, flushed, connected, open, events, given, got, toggles>>
  BY UartExec DEF Uart!on_uart_io, Uart!Off, Uart!bufs, Uart!line, cdc
<1>2. "handler" \in Tasks /\ "from_port" \in Tasks /\ "to_port" \in Tasks
  BY DEF Tasks
<1>3. Keeps(sched, s) /\ (Len(hwtx) < HwSize => Scheduled(s, "to_port"))
  <2>1. (Len(hwtx) < HwSize) \in BOOLEAN /\ sched \in Schedules
    BY DEF Base, Types
  <2> QED
    BY <1>2, <2>1, ExecIfKeeps
<1> HIDE DEF s
<1>4. Keeps(s, sched') /\ (hwrx # << >> => Scheduled(sched', "from_port"))
  <2>1. (hwrx # << >>) \in BOOLEAN /\ s \in Schedules
    BY <1>3 DEF Keeps
  <2> QED
    BY <1>1, <1>2, <2>1, ExecIfKeeps
<1>5. Keeps(sched, sched') /\ (Len(hwtx) < HwSize => Scheduled(sched', "to_port"))
  BY <1>2, <1>3, <1>4, KeepsOn DEF Keeps
<1>6. Scheduled(sched', "from_port") \/ Scheduled(sched', "to_port")
  <2>1. raised => Len(hwtx) < HwSize
    <3>1. hwtx \in Seq(Values) /\ (raised => Len(hwtx) <= TxTrigger)
      BY DEF Base, Types
    <3>2. Len(hwtx) \in Nat
      BY <3>1, LenProperties
    <3> QED
      BY <3>1, <3>2, BridgeAssumption
  <2> QED
    BY <1>1, <1>4, <1>5, <2>1
<1>7. Types'
  BY <1>1, <1>5 DEF Base, Types, Keeps
<1>8. RxEnabled' /\ TxEnabled'
  BY <1>6 DEF RxEnabled, TxEnabled, Enabling
<1>9. FifosAttended'
  BY <1>1, <1>2, <1>5 DEF Base, Watched, FifosAttended, Coming, Keeps
<1>10. Asleep'
  BY <1>1, <1>2, <1>5 DEF Base, Watched, Asleep, Keeps
<1>11. Moved
  BY <1>1 DEF Moved, Up, Down
<1> QED
  BY <1>7, <1>8, <1>9, <1>10, <1>11 DEF Base, Watched

LEMMA ArrivesKeeps ==
  ASSUME Base, Uart!ByteArrives, UNCHANGED cdc
  PROVE  Base' /\ Moved
<1>1. /\ heard' = heard + 1 /\ hwrx' = Append(hwrx, heard')
      /\ UNCHANGED <<hwtx, raised, enables, rxbuf, txbuf, said, up, down, sched, running,
                     in, out, flushed, connected, open, events, given, got, toggles>>
  BY DEF Uart!ByteArrives, Uart!bufs, cdc
<1>2. hwrx \in Seq(Values) /\ heard' \in Nat /\ heard' \in Values
  BY <1>1 DEF Base, Types, Values
<1>3. hwrx' \in Seq(Values)
  BY <1>1, <1>2, AppendProperties
<1>4. Types'
  BY <1>1, <1>2, <1>3 DEF Base, Types
<1>5. Up' = Append(Up, heard')
  <2>1. (got \o in \o up \o rxbuf) \o Append(hwrx, heard')
          = Append((got \o in \o up \o rxbuf) \o hwrx, heard')
    BY <1>2, Parts, Grows DEF Base
  <2> QED
    BY <1>1, <2>1 DEF Up
<1>6. Down' = Down
  BY <1>1 DEF Down
<1>7. Moved
  BY <1>1, <1>5, <1>6 DEF Moved
<1> QED
  BY <1>1, <1>4, <1>7 DEF Base, Watched, RxEnabled, TxEnabled, Enabling, FifosAttended, Coming,
                        Asleep

LEMMA LeavesKeeps ==
  ASSUME Base, Uart!ByteLeaves, UNCHANGED cdc
  PROVE  Base' /\ Moved
<1>1. /\ hwtx # << >> /\ said' = Append(said, Head(hwtx)) /\ hwtx' = Tail(hwtx)
      /\ raised' = (raised \/ Len(hwtx') = TxTrigger)
      /\ UNCHANGED <<hwrx, enables, rxbuf, txbuf, heard, up, down, sched, running,
                     in, out, flushed, connected, open, events, given, got, toggles>>
  BY DEF Uart!ByteLeaves, Uart!bufs, cdc
<1>2. said \in Seq(Values) /\ hwtx \in Seq(Values) /\ (raised => Len(hwtx) <= TxTrigger)
  BY DEF Base, Types
<1>3. /\ said' \in Seq(Values) /\ hwtx' \in Seq(Values) /\ Len(hwtx') = Len(hwtx) - 1
      /\ said' \o hwtx' = said \o hwtx
  BY <1>1, <1>2, HeadMoves
<1>4. raised' => Len(hwtx') <= TxTrigger
  <2>1. Len(hwtx) \in Nat /\ TxTrigger \in Nat
    BY <1>2, LenProperties, BridgeAssumption
  <2>2. raised' => Len(hwtx) <= TxTrigger \/ Len(hwtx') = TxTrigger
    BY <1>1, <1>2, Zenon
  <2> QED
    BY <1>3, <2>1, <2>2
<1>5. raised' \in BOOLEAN
  BY <1>1 DEF Base, Types
<1>6. Types'
  BY <1>1, <1>3, <1>4, <1>5 DEF Base, Types
<1>7. Moved
  BY <1>1, <1>3 DEF Moved, Up, Down
<1> QED
  BY <1>1, <1>6, <1>7 DEF Base, Watched, RxEnabled, TxEnabled, Enabling, FifosAttended, Coming,
                        Asleep

LEMMA UartKeeps ==
  ASSUME Base, Uart!Next, UNCHANGED cdc
  PROVE  Base' /\ Moved
  BY UartRuns, WriteFifoKeeps, GetcKeeps, BreaksKeep, ReadFifoKeeps, PutcKeeps, EnablesKeep,
     InterruptKeeps, ArrivesKeeps, LeavesKeeps
  DEF Uart!Next, Uart!MainStep, Uart!on_from_port, Uart!on_to_port

----------------------------------------------------------------------------
(* The interface.                                                          *)

\* What the task of the interface leaves the scheduler with, from a schedule without
\* it, when it has sent n bytes and received m.
Leaves(s, n, m, s2) ==
  /\ Keeps(s, s2)
  /\ n > 0 => Scheduled(s2, "from_port")
  /\ m > 0 => Scheduled(s2, "to_port")
  /\ Scheduled(s2, "handler") \/ ("handler" \in s2.timed /\ n = Len(up))

LEMMA HandlerLeaves ==
  ASSUME NEW s \in Schedules, NEW n \in Nat, NEW m \in Nat, NEW some \in BOOLEAN,
         Len(in) = InSize => n = 0
  PROVE  Leaves(s, n, m,
           ExecIf(some, ExecIn(ExecIf(m > 0, Cdc!to_usb_try_send(s, n)[1], "to_port"),
                               "handler"), "on_event"))
<1> DEFINE after == ExecIf(n > 0, s, "from_port")
           s1 == Cdc!to_usb_try_send(s, n)[1]
           s2 == ExecIf(m > 0, s1, "to_port")
           s3 == ExecIn(s2, "handler")
           s4 == ExecIf(some, s3, "on_event")
<1>1. /\ "handler" \in Tasks /\ "from_port" \in Tasks /\ "to_port" \in Tasks /\ "on_event" \in Tasks
      /\ (n > 0) \in BOOLEAN /\ (m > 0) \in BOOLEAN
  BY DEF Tasks
<1>2. Keeps(s, s)
  BY DEF Keeps
<1>3. Keeps(s, after) /\ (n > 0 => Scheduled(after, "from_port"))
  BY <1>1, ExecIfKeeps
<1>4. after \in Schedules
  BY <1>3 DEF Keeps
<1>5. s1 = IF Len(in) = InSize THEN Exec(s, "handler")
           ELSE IF n = Len(up) THEN after ELSE Exec(after, "handler")
  BY CdcExec DEF Cdc!to_usb_try_send
<1> HIDE DEF after, s1
<1>6. /\ Keeps(s, s1) /\ (n > 0 => Scheduled(s1, "from_port"))
      /\ Scheduled(s1, "handler") \/ n = Len(up)
  <2>1. Keeps(s, Exec(s, "handler")) /\ Scheduled(Exec(s, "handler"), "handler")
    BY <1>1, ExecKeeps
  <2>2. Keeps(after, Exec(after, "handler")) /\ Scheduled(Exec(after, "handler"), "handler")
    BY <1>1, <1>4, ExecKeeps
  <2>3. Keeps(s, Exec(after, "handler"))
    BY <1>3, <2>2, KeepsOn
  <2>4. n > 0 => Scheduled(Exec(after, "handler"), "from_port")
    BY <1>1, <1>3, <2>2 DEF Keeps
  <2> QED
    BY <1>3, <1>5, <2>1, <2>2, <2>3, <2>4
<1>7. s1 \in Schedules
  BY <1>6 DEF Keeps
<1>8. Keeps(s1, s2) /\ (m > 0 => Scheduled(s2, "to_port"))
  BY <1>1, <1>7, ExecIfKeeps
<1> HIDE DEF s2
<1>9. s2 \in Schedules
  BY <1>8 DEF Keeps
<1>10. Keeps(s2, s3) /\ (Scheduled(s3, "handler") \/ "handler" \in s3.timed)
  BY <1>1, <1>9, ExecInKeeps
<1> HIDE DEF s3
<1>11. s3 \in Schedules
  BY <1>10 DEF Keeps
<1>12. Keeps(s3, s4)
  BY <1>1, <1>11, ExecIfKeeps
<1> HIDE DEF s4
<1>13. Keeps(s1, s4) /\ Keeps(s2, s4) /\ Keeps(s, s4)
  BY <1>6, <1>8, <1>10, <1>12, KeepsOn
<1>14. Leaves(s, n, m, s4)
  <2>1. n > 0 => Scheduled(s4, "from_port")
    BY <1>1, <1>6, <1>13 DEF Keeps
  <2>2. m > 0 => Scheduled(s4, "to_port")
    BY <1>1, <1>8, <1>13 DEF Keeps
  <2>3. Scheduled(s4, "handler") \/ "handler" \in s4.timed
    BY <1>1, <1>10, <1>12 DEF Keeps
  <2>4. Scheduled(s1, "handler") => Scheduled(s4, "handler")
    BY <1>1, <1>13 DEF Keeps
  <2> QED
    BY <1>6, <1>13, <2>1, <2>2, <2>3, <2>4 DEF Leaves
<1> QED
  BY <1>14 DEF s1, s2, s3, s4

\* The task runs: it is no longer scheduled, everything else is.
LEMMA HandlerFirst ==
  ASSUME Base, Cdc!First("handler")
  PROVE  Removes(sched, "handler", Cdc!Rest) /\ running = "none"
  BY HeadRemoved DEF Base, Types, Cdc!First, Cdc!Rest

LEMMA HandlerUpKeeps ==
  ASSUME Base, Cdc!handler, connected, UNCHANGED uart
  PROVE  Base' /\ Moved
<1> DEFINE s == Cdc!Rest
<1>1. Removes(sched, "handler", s) /\ running = "none" /\ s \in Schedules
  BY HandlerFirst DEF Cdc!handler, Removes
<1>2. Cdc!handler_up(s)
  BY DEF Cdc!handler
<1>3. UNCHANGED <<connected, given, got, toggles, running, hwrx, hwtx, raised, enables, rxbuf,
                  txbuf, heard, said>>
  BY DEF Cdc!handler, Cdc!host, uart
<1> HIDE DEF s
<1>4. PICK n \in Cdc!Sending, m \in Cdc!Receiving :
        /\ open' = TRUE
        /\ in' = in \o SubSeq(up, 1, n) /\ up' = SubSeq(up, n + 1, Len(up))
        /\ down' = down \o SubSeq(out, 1, m) /\ out' = SubSeq(out, m + 1, Len(out))
        /\ flushed' = Cdc!to_usb_try_send(s, n)[2]
        /\ sched' = Cdc!ExecIf(events' # {},
                      Cdc!ExecIn(Cdc!ExecIf(m > 0, Cdc!to_usb_try_send(s, n)[1], "to_port"),
                                 "handler"),
                      "on_event")
  BY <1>2 DEF Cdc!handler_up, Cdc!from_usb_try_recv
<1>5. /\ up \in Seq(Values) /\ in \in Seq(Values) /\ down \in Seq(Values) /\ out \in Seq(Values)
      /\ Len(up) \in Nat /\ Len(in) \in Nat /\ Len(down) \in Nat /\ Len(out) \in Nat
      /\ flushed \in 0 .. Len(in)
  BY LenProperties DEF Base, Types
<1>6. n \in 0 .. Len(up) /\ (Len(in) = InSize => n = 0)
  <2>1. InSize \in Nat
    BY BridgeAssumption
  <2> QED
    BY <1>5, <2>1 DEF Cdc!Sending, Cdc!Granted, Cdc!Least
<1>7. m \in 0 .. Len(out)
  <2>1. FifoSize \in Nat
    BY BridgeAssumption
  <2> QED
    BY <1>5, <2>1 DEF Cdc!Receiving, Cdc!Granted, Cdc!Least
<1>8. Leaves(s, n, m, sched')
  <2>1. (events' # {}) \in BOOLEAN /\ n \in Nat /\ m \in Nat
    BY <1>6, <1>7
  <2> DEFINE s1 == Cdc!to_usb_try_send(s, n)[1]
             s2 == ExecIf(m > 0, s1, "to_port")
             s3 == ExecIn(s2, "handler")
  <2>2. Cdc!ExecIf(m > 0, s1, "to_port") = s2 /\ Cdc!ExecIn(s2, "handler") = s3
        /\ Cdc!ExecIf(events' # {}, s3, "on_event") = ExecIf(events' # {}, s3, "on_event")
    BY CdcExec
  <2>3. sched' = ExecIf(events' # {}, s3, "on_event")
    BY <1>4, <2>2, Zenon
  <2>4. Leaves(s, n, m, ExecIf(events' # {}, s3, "on_event"))
    BY <1>1, <1>6, <2>1, HandlerLeaves
  <2> QED
    BY <2>3, <2>4, Zenon
<1>9. /\ in' \in Seq(Values) /\ up' \in Seq(Values) /\ Same(in', up', in, up)
      /\ Len(in') = Len(in) + n /\ Len(up') = Len(up) - n
  BY <1>4, <1>5, <1>6, FirstMove DEF Same
<1>10. down' \in Seq(Values) /\ out' \in Seq(Values) /\ Same(down', out', down, out)
  BY <1>4, <1>5, <1>7, FirstMove DEF Same
<1>11. flushed' \in 0 .. Len(in')
  <2>1. flushed' \in {flushed, Len(in) + n}
    BY <1>4 DEF Cdc!to_usb_try_send
  <2> QED
    BY <1>5, <1>6, <1>9, <2>1
<1>12. Types'
  BY <1>3, <1>4, <1>8, <1>9, <1>10, <1>11 DEF Base, Types, Leaves, Keeps
<1>13. Up' = Up
  <2>1. got \in Seq(Values)
    BY DEF Base, Types
  <2>2. Rejoins(got, in', up', in, up)
    BY <1>5, <1>9, <2>1, Rejoined
  <2>3. Same(got \o in', up', got \o in, up)
    BY <1>9, <2>2 DEF Rejoins
  <2> QED
    BY <1>3, <2>3 DEF Up, Same
<1>14. Down' = Down
  <2>1. Rejoins(said \o hwtx \o txbuf, down', out', down, out)
    BY <1>5, <1>10, Parts, Rejoined DEF Base
  <2>2. Same(said \o hwtx \o txbuf \o down', out', said \o hwtx \o txbuf \o down, out)
    BY <1>10, <2>1 DEF Rejoins
  <2> QED
    BY <1>3, <2>2 DEF Down, Same
<1>15. "handler" \in Tasks /\ "from_port" \in Tasks /\ "to_port" \in Tasks
  BY DEF Tasks
<1>16. /\ Scheduled(sched, "from_port") => Scheduled(sched', "from_port")
       /\ Scheduled(sched, "to_port") => Scheduled(sched', "to_port")
       /\ n > 0 => Scheduled(sched', "from_port")
       /\ m > 0 => Scheduled(sched', "to_port")
       /\ Scheduled(sched', "handler") \/ ("handler" \in sched'.timed /\ n = Len(up))
  BY <1>1, <1>8, <1>15 DEF Removes, Leaves, Keeps
<1>17. RxEnabled' /\ TxEnabled'
  BY <1>1, <1>3, <1>16 DEF Base, Watched, RxEnabled, TxEnabled, Enabling
<1>18. Asleep'
  <2>1. n = Len(up) => up' = << >>
    BY <1>5, <1>9, EmptySeq
  <2> QED
    BY <1>16, <2>1 DEF Asleep
<1>19. FifosAttended'
  <2>1. ASSUME rxbuf' # << >>, Len(up') < FifoSize PROVE Coming("from_port")'
    <3>1. CASE n = 0
      <4>1. Len(up) < FifoSize
        BY <1>5, <1>9, <2>1, <3>1
      <4> QED
        BY <1>1, <1>3, <1>16, <2>1, <4>1 DEF Base, Watched, FifosAttended, Coming
    <3>2. CASE n > 0
      BY <1>16, <3>2 DEF Coming
    <3> QED
      BY <1>6, <3>1, <3>2
  <2>2. ASSUME txbuf' = << >>, down' # << >> PROVE Coming("to_port")'
    <3>1. CASE m = 0
      <4>1. SubSeq(out, 1, 0) = << >> /\ down \o << >> = down
        BY <1>5, SubSeqEmpty, ConcatEmptySeq
      <4>2. down # << >>
        BY <1>4, <2>2, <3>1, <4>1
      <4> QED
        BY <1>1, <1>3, <1>16, <2>2, <4>2 DEF Base, Watched, FifosAttended, Coming
    <3>2. CASE m > 0
      BY <1>16, <3>2 DEF Coming
    <3> QED
      BY <1>7, <3>1, <3>2
  <2> QED
    BY <2>1, <2>2 DEF FifosAttended
<1> QED
  BY <1>3, <1>12, <1>13, <1>14, <1>17, <1>18, <1>19 DEF Base, Watched, Moved

\* What leaves the bytes and the UART alone, and schedules at most more tasks.
Quietly ==
  /\ Keeps(sched, sched')
  /\ UNCHANGED <<up, down, running, hwrx, hwtx, raised, enables, rxbuf, txbuf, heard, said>>

LEMMA QuietKeeps ==
  ASSUME Base, Quietly, UNCHANGED <<in, out, got, given, flushed>>,
         open' \in BOOLEAN, connected' \in BOOLEAN, open' => open
  PROVE  Base' /\ Moved
<1>1. "handler" \in Tasks /\ "from_port" \in Tasks /\ "to_port" \in Tasks
  BY DEF Tasks
<1>2. Types'
  BY DEF Base, Types, Quietly, Keeps
<1>3. RxEnabled' /\ TxEnabled' /\ FifosAttended'
  BY <1>1 DEF Base, Watched, RxEnabled, TxEnabled, Enabling, FifosAttended, Coming, Quietly, Keeps
<1>4. Asleep'
  BY <1>1 DEF Base, Watched, Asleep, Quietly, Keeps
<1>5. Moved
  BY DEF Moved, Up, Down, Quietly
<1> QED
  BY <1>2, <1>3, <1>4, <1>5 DEF Base, Watched

LEMMA HandlerDownKeeps ==
  ASSUME Base, Cdc!handler, ~connected, UNCHANGED uart
  PROVE  Base' /\ Moved
<1> DEFINE s == Cdc!Rest
<1>1. Removes(sched, "handler", s) /\ running = "none" /\ s \in Schedules
  BY HandlerFirst DEF Cdc!handler, Removes
<1>2. Cdc!handler_down(s)
  BY DEF Cdc!handler
<1> HIDE DEF s
<1>3. /\ open' = FALSE /\ sched' = ExecIf(events' # {}, s, "on_event")
      /\ UNCHANGED <<in, out, flushed, up, down, connected, given, got, toggles, running,
                     hwrx, hwtx, raised, enables, rxbuf, txbuf, heard, said>>
  <2>1. sched' = Cdc!ExecIf(events' # {}, s, "on_event")
    BY <1>2 DEF Cdc!handler_down
  <2> QED
    BY <1>2, <2>1, CdcExec DEF Cdc!handler, Cdc!handler_down, Cdc!host, uart
<1>4. "on_event" \in Tasks /\ "from_port" \in Tasks /\ "to_port" \in Tasks
  BY DEF Tasks
<1>5. Keeps(s, sched')
  <2>1. (events' # {}) \in BOOLEAN
    OBVIOUS
  <2> QED
    BY <1>1, <1>3, <1>4, <2>1, ExecIfKeeps
<1>6. /\ Scheduled(sched, "from_port") => Scheduled(sched', "from_port")
      /\ Scheduled(sched, "to_port") => Scheduled(sched', "to_port")
  BY <1>1, <1>4, <1>5 DEF Removes, Keeps
<1>7. Types'
  BY <1>3, <1>5 DEF Base, Types, Keeps
<1>8. RxEnabled' /\ TxEnabled' /\ FifosAttended' /\ Asleep'
  BY <1>3, <1>6 DEF Base, Watched, RxEnabled, TxEnabled, Enabling, FifosAttended, Coming, Asleep
<1>9. Moved
  BY <1>3 DEF Moved, Up, Down
<1> QED
  BY <1>7, <1>8, <1>9 DEF Base, Watched

LEMMA EventKeeps ==
  ASSUME Base, Cdc!on_event, UNCHANGED uart
  PROVE  Base' /\ Moved
<1>1. /\ Removes(sched, "on_event", sched') /\ running = "none"
      /\ UNCHANGED <<in, out, flushed, connected, open, given, got, toggles, up, down, running,
                     hwrx, hwtx, raised, enables, rxbuf, txbuf, heard, said>>
  <2>1. Removes(sched, "on_event", sched')
    BY HeadRemoved DEF Base, Types, Cdc!on_event, Cdc!First, Cdc!Rest
  <2> QED
    BY <2>1 DEF Cdc!on_event, Cdc!First, Cdc!stack, Cdc!host, uart
<1>2. {"handler", "from_port", "to_port"} \subseteq Tasks \ {"on_event"}
  BY DEF Tasks
<1>3. Types'
  BY <1>1 DEF Base, Types, Removes
<1>4. RxEnabled' /\ TxEnabled' /\ FifosAttended'
  BY <1>1, <1>2 DEF Base, Watched, RxEnabled, TxEnabled, Enabling, FifosAttended, Coming, Removes
<1>5. Asleep'
  BY <1>1, <1>2 DEF Base, Watched, Asleep, Removes
<1>6. Moved
  BY <1>1 DEF Moved, Up, Down
<1> QED
  BY <1>3, <1>4, <1>5, <1>6 DEF Base, Watched

LEMMA CompleteKeeps ==
  ASSUME Base, Cdc!tud_cdc_tx_complete_cb, UNCHANGED uart
  PROVE  Base' /\ Moved
<1>1. /\ running = "none"
      /\ got' = got \o SubSeq(in, 1, flushed) /\ in' = SubSeq(in, flushed + 1, Len(in))
      /\ flushed' = 0
      /\ sched' = Exec(sched, "handler")
      /\ UNCHANGED <<out, connected, open, events, given, toggles, up, down, running,
                     hwrx, hwtx, raised, enables, rxbuf, txbuf, heard, said>>
  BY CdcExec DEF Cdc!tud_cdc_tx_complete_cb, uart
<1>2. "handler" \in Tasks /\ "from_port" \in Tasks /\ "to_port" \in Tasks
  BY DEF Tasks
<1>3. Keeps(sched, sched') /\ Scheduled(sched', "handler")
  BY <1>1, <1>2, ExecKeeps DEF Base, Types
<1>4. got \in Seq(Values) /\ in \in Seq(Values) /\ flushed \in 0 .. Len(in) /\ Len(in) \in Nat
  BY LenProperties DEF Base, Types
<1>5. /\ got' \in Seq(Values) /\ in' \in Seq(Values) /\ Len(in') = Len(in) - flushed
      /\ got' \o in' = got \o in
  BY <1>1, <1>4, FirstMove
<1>6. flushed' \in 0 .. Len(in')
  BY <1>1, <1>4, <1>5
<1>7. Types'
  BY <1>1, <1>3, <1>5, <1>6 DEF Base, Types, Keeps
<1>8. RxEnabled' /\ TxEnabled' /\ FifosAttended' /\ Asleep'
  BY <1>1, <1>2, <1>3 DEF Base, Watched, RxEnabled, TxEnabled, Enabling, FifosAttended, Coming,
                          Asleep, Keeps
<1>9. Moved
  BY <1>1, <1>5 DEF Moved, Up, Down
<1> QED
  BY <1>7, <1>8, <1>9 DEF Base, Watched

LEMMA ReceivedKeeps ==
  ASSUME Base, Cdc!tud_cdc_rx_cb, UNCHANGED uart
  PROVE  Base' /\ Moved
<1>1. /\ given' = given + 1 /\ out' = Append(out, given')
      /\ sched' = Exec(sched, "handler")
      /\ UNCHANGED <<in, flushed, connected, open, events, got, toggles, up, down, running,
                     hwrx, hwtx, raised, enables, rxbuf, txbuf, heard, said>>
  BY CdcExec DEF Cdc!tud_cdc_rx_cb, uart
<1>2. "handler" \in Tasks /\ "from_port" \in Tasks /\ "to_port" \in Tasks
  BY DEF Tasks
<1>3. Keeps(sched, sched') /\ Scheduled(sched', "handler")
  BY <1>1, <1>2, ExecKeeps DEF Base, Types
<1>4. out \in Seq(Values) /\ given' \in Nat /\ given' \in Values
  BY <1>1 DEF Base, Types, Values
<1>5. out' \in Seq(Values)
  BY <1>1, <1>4, AppendProperties
<1>6. Types'
  BY <1>1, <1>3, <1>4, <1>5 DEF Base, Types, Keeps
<1>7. RxEnabled' /\ TxEnabled' /\ FifosAttended' /\ Asleep'
  BY <1>1, <1>2, <1>3 DEF Base, Watched, RxEnabled, TxEnabled, Enabling, FifosAttended, Coming,
                          Asleep, Keeps
<1>8. Down' = Append(Down, given')
  <2>1. (said \o hwtx \o txbuf \o down) \o Append(out, given')
          = Append((said \o hwtx \o txbuf \o down) \o out, given')
    BY <1>4, Parts, Grows DEF Base
  <2> QED
    BY <1>1, <2>1 DEF Down
<1>9. Up' = Up
  BY <1>1 DEF Up
<1> QED
  BY <1>1, <1>6, <1>7, <1>8, <1>9 DEF Base, Watched, Moved

LEMMA CdcKeeps ==
  ASSUME Base, Cdc!Next, UNCHANGED uart
  PROVE  Base' /\ Moved
<1>1. "handler" \in Tasks /\ "on_event" \in Tasks /\ sched \in Schedules
  BY DEF Tasks, Base, Types
<1>2. UNCHANGED <<hwrx, hwtx, raised, enables, rxbuf, txbuf, heard, said>>
  BY DEF uart
<1>3. CASE Cdc!TimeoutEnds
  <2>1. /\ sched' = Exec(sched, "handler")
        /\ UNCHANGED <<in, out, flushed, connected, open, given, got, up, down, running>>
    BY <1>3, CdcExec DEF Cdc!TimeoutEnds, Cdc!cdc, Cdc!stack, Cdc!host
  <2>2. Quietly
    BY <1>1, <1>2, <2>1, ExecKeeps DEF Quietly
  <2> QED
    BY <2>1, <2>2, QuietKeeps DEF Base, Types
<1>4. CASE Cdc!tud_cdc_line_state_cb \/ Cdc!tud_cdc_line_coding_cb
  <2>1. /\ sched' = Exec(sched, "on_event") /\ (connected' = ~connected \/ connected' = connected)
        /\ UNCHANGED <<in, out, flushed, open, given, got, up, down, running>>
    BY <1>4, CdcExec DEF Cdc!tud_cdc_line_state_cb, Cdc!tud_cdc_line_coding_cb,
                         Cdc!stack, Cdc!host
  <2>2. Quietly
    BY <1>1, <1>2, <2>1, ExecKeeps DEF Quietly
  <2>3. connected' \in BOOLEAN /\ open' \in BOOLEAN
    BY <2>1 DEF Base, Types
  <2> QED
    BY <2>1, <2>2, <2>3, QuietKeeps
<1> QED
  BY <1>3, <1>4, HandlerUpKeeps, HandlerDownKeeps, EventKeeps, CompleteKeeps, ReceivedKeeps
  DEF Cdc!Next, Cdc!MainStep

----------------------------------------------------------------------------
(* Results.                                                                *)

LEMMA NextMoves == Base /\ [Next]_vars => Base' /\ Moved
<1> SUFFICES ASSUME Base, [Next]_vars PROVE Base' /\ Moved
  OBVIOUS
<1>1. CASE UNCHANGED vars
  <2>1. UNCHANGED <<up, down, sched, running, hwrx, hwtx, raised, enables, rxbuf, txbuf, heard,
                    said, in, out, flushed, connected, open, given, got>>
    BY <1>1 DEF vars, uart, cdc
  <2>2. Types'
    BY <2>1 DEF Base, Types
  <2>3. Watched'
    BY <2>1 DEF Base, Watched, RxEnabled, TxEnabled, Enabling, FifosAttended, Coming, Asleep
  <2>4. Moved
    BY <2>1 DEF Moved, Up, Down
  <2> QED
    BY <2>2, <2>3, <2>4 DEF Base
<1> QED
  BY <1>1, UartKeeps, CdcKeeps DEF Next

LEMMA InitBase == Init => Base
<1> SUFFICES ASSUME Init PROVE Base
  OBVIOUS
<1>1. /\ hwrx = << >> /\ hwtx = << >> /\ raised = FALSE
      /\ enables = [rx |-> TRUE, tx |-> TRUE]
      /\ rxbuf = << >> /\ txbuf \in Unset /\ heard = 0 /\ said = << >>
  BY DEF Init, Uart!Init
<1>2. /\ in = << >> /\ out = << >> /\ flushed = 0 /\ connected \in BOOLEAN
      /\ open = FALSE /\ given = 0 /\ got = << >>
  BY DEF Init, Cdc!Init
<1>3. /\ up = << >> /\ down = << >> /\ running = "none"
      /\ sched = [pend |-> <<"handler">>, timed |-> {}]
  BY DEF Init
<1>4. sched \in Schedules
  BY <1>3 DEF Schedules, Tasks
<1>5. << >> \in Seq(Values) /\ Len(in) = 0 /\ txbuf \in Seq(Values)
  BY <1>1, <1>2, BridgeAssumption DEF Values
<1>6. Types
  <2>1. flushed \in 0 .. Len(in)
    BY <1>2, <1>5
  <2> QED
    BY <1>1, <1>2, <1>3, <1>4, <1>5, <2>1 DEF Types
<1>7. Watched
  BY <1>1, <1>2, <1>3 DEF Watched, RxEnabled, TxEnabled, FifosAttended, Asleep
<1> QED
  BY <1>6, <1>7 DEF Base

\* The numbers up to one more.
LEMMA Counted ==
  ASSUME NEW n \in Nat
  PROVE  [i \in 1 .. n + 1 |-> i] = Append([i \in 1 .. n |-> i], n + 1)
<1> DEFINE s == [i \in 1 .. n |-> i]  t == [i \in 1 .. n + 1 |-> i]
<1>1. s \in Seq(Nat) /\ Len(s) = n /\ t \in Seq(Nat) /\ Len(t) = n + 1
  OBVIOUS
<1>2. \A i \in 1 .. n + 1 : t[i] = i
  OBVIOUS
<1>3. \A i \in 1 .. n : s[i] = i
  OBVIOUS
<1> HIDE DEF s, t
<1>4. /\ Append(s, n + 1) \in Seq(Nat) /\ Len(Append(s, n + 1)) = Len(s) + 1
      /\ \A i \in 1 .. Len(s) : Append(s, n + 1)[i] = s[i]
      /\ Append(s, n + 1)[Len(s) + 1] = n + 1
  BY <1>1, AppendProperties
<1>5. ASSUME NEW i \in 1 .. Len(t) PROVE t[i] = Append(s, n + 1)[i]
  <2>1. i \in 1 .. n + 1 /\ (i \in 1 .. n \/ i = n + 1)
    BY <1>1
  <2>2. CASE i \in 1 .. n
    BY <1>1, <1>2, <1>3, <1>4, <2>1, <2>2, Zenon
  <2>3. CASE i = n + 1
    BY <1>1, <1>2, <1>4, <2>1, <2>3, Zenon
  <2> QED
    BY <2>1, <2>2, <2>3
<1>6. t = Append(s, n + 1)
  BY <1>1, <1>4, <1>5, SeqEqual
<1> QED
  BY <1>6 DEF s, t

\* Bytes cross the bridge in order, none lost or repeated, in a driver whose structure
\* is zero at the start.
THEOREM BridgeInOrder ==
  ASSUME Unset = {<< >>}
  PROVE  Spec => []BytesInOrder
<1> DEFINE Heard == Up = [i \in 1 .. heard |-> i]
           Given == Down = [i \in 1 .. given |-> i]
<1>1. Init => Base /\ Heard /\ Given
  <2> SUFFICES ASSUME Init PROVE Base /\ Heard /\ Given
    OBVIOUS
  <2>1. [i \in 1 .. 0 |-> i] = << >> /\ << >> \o << >> = << >>
    OBVIOUS
  <2>2. Up = << >> /\ Down = << >> /\ heard = 0 /\ given = 0
    BY <2>1 DEF Init, Uart!Init, Cdc!Init, Up, Down
  <2> QED
    BY <2>1, <2>2, InitBase
<1>2. Base /\ Heard /\ Given /\ [Next]_vars => (Base /\ Heard /\ Given)'
  <2> SUFFICES ASSUME Base, Heard, Given, [Next]_vars PROVE Base' /\ Heard' /\ Given'
    OBVIOUS
  <2>1. Base' /\ Moved
    BY NextMoves
  <2>2. heard \in Nat /\ given \in Nat
    BY DEF Base, Types
  <2>3. Heard'
    <3>1. CASE heard' = heard /\ Up' = Up
      BY <3>1
    <3>2. CASE heard' = heard + 1 /\ Up' = Append(Up, heard')
      BY <2>2, <3>2, Counted
    <3> QED
      BY <2>1, <3>1, <3>2 DEF Moved
  <2>4. Given'
    <3>1. CASE given' = given /\ Down' = Down
      BY <3>1
    <3>2. CASE given' = given + 1 /\ Down' = Append(Down, given')
      BY <2>2, <3>2, Counted
    <3> QED
      BY <2>1, <3>1, <3>2 DEF Moved
  <2> QED
    BY <2>1, <2>3, <2>4
<1>3. Heard /\ Given => BytesInOrder
  BY DEF Up, Down, BytesInOrder
<1> QED
  BY <1>1, <1>2, <1>3, PTL DEF Spec

\* No byte is left with nobody to come for it, although the interrupt of the UART
\* disables itself, and the task of the interface sleeps.
THEOREM BridgeAttended == Spec => []Attended
<1>1. Init => Base
  BY InitBase
<1>2. Base /\ [Next]_vars => Base'
  BY NextMoves
<1>3. Base => Attended
  BY DEF Base, Watched, RxEnabled, TxEnabled, Asleep, Attended, PortAttended, InterfaceAttended
<1> QED
  BY <1>1, <1>2, <1>3, PTL DEF Spec
=============================================================================
