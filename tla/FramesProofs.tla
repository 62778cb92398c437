---------------------------- MODULE FramesProofs ----------------------------
(***************************************************************************)
(* Theorems about what Modbus frames hold, on the board with the other     *)
(* parts: where a frame ends, that its checksum notices each wrong bit,    *)
(* what the checksums compute, and the coils and registers in it.          *)
(***************************************************************************)
EXTENDS Devices, BoundedRecursion, SequenceTheorems, FiniteSetTheorems

----------------------------------------------------------------------------
(* The checksum of ModbusFrames, for data of any length.                   *)

\* What a byte and the register hold.
Octets == SUBSET (0 .. 7)
States == SUBSET (0 .. 15)

\* One bit: the register moves by one, and what falls out of it and what comes in decide
\* whether the polynomial is added.
LEMMA Insert1Bits ==
  ASSUME NEW s \in States, NEW x
  PROVE  LET back == (0 \in s) # (x # {})
         IN  /\ F!modbus_crc16_insert1(s, x) \in States
             /\ \A j \in 0 .. 15 :
                  j \in F!modbus_crc16_insert1(s, x)
                    <=> ((j + 1 \in s) # (back /\ j \in {0, 13, 15}))
<1> DEFINE back == (0 \in s) # (x # {})
           shifted == F!Right(s, 1)
<1>1. shifted \in SUBSET (0 .. 14) /\ \A j \in 0 .. 15 : j \in shifted <=> j + 1 \in s
  BY DEF F!Right, States
<1>2. F!modbus_crc16_insert1(s, x) = IF back THEN F!SymDiff(shifted, {0, 13, 15}) ELSE shifted
  BY DEF F!modbus_crc16_insert1
<1>3. \A j : j \in F!SymDiff(shifted, {0, 13, 15}) <=> ((j \in shifted) # (j \in {0, 13, 15}))
  BY DEF F!SymDiff
<1> HIDE DEF shifted
<1>4. F!SymDiff(shifted, {0, 13, 15}) \in States
  BY <1>1 DEF F!SymDiff, States
<1> QED
  BY <1>1, <1>2, <1>3, <1>4 DEF States

\* a has the states of the register while the byte w goes in.
Shifts(a, s, w) ==
  /\ a \in [0 .. 8 -> States] /\ a[0] = s
  /\ \A n \in 1 .. 8 : a[n] = F!modbus_crc16_insert1(a[n - 1], F!Right(w, n - 1) \cap {0})

\* A byte goes in as eight bits, one after the other.
LEMMA InsertIs ==
  ASSUME NEW s \in States, NEW w \in Octets
  PROVE  \E a : Shifts(a, s, w) /\ F!Insert(s, w) = a[8]
<1> DEFINE move == [x \in (1 .. 8) \X States |->
                      F!modbus_crc16_insert1(x[2], F!Right(w, x[1] - 1) \cap {0})]
           IsAfter(f) == f = [n \in 0 .. 8 |->
                           IF n = 0 THEN s
                           ELSE F!modbus_crc16_insert1(f[n - 1], F!Right(w, n - 1) \cap {0})]
<1>1. move \in [(1 .. 8) \X States -> States]
  BY Insert1Bits
<1>2. PICK f \in [0 .. 8 -> States] : Recurses(f, 8, s, move)
  <2> HIDE DEF move
  <2> QED
    BY <1>1, RecursionExists
<1>3. IsAfter(f)
  <2>1. \A n \in 1 .. 8 : <<n, f[n - 1]>> \in (1 .. 8) \X States
    BY <1>2
  <2>2. \A n \in 1 .. 8 : move[<<n, f[n - 1]>>]
                        = F!modbus_crc16_insert1(f[n - 1], F!Right(w, n - 1) \cap {0})
    BY <2>1
  <2> HIDE DEF move
  <2> QED
    BY <1>2, <2>2 DEF Recurses
<1>4. F!Insert(s, w) = (CHOOSE g : IsAfter(g))[8]
  BY DEF F!Insert
<1> DEFINE a == CHOOSE g : IsAfter(g)
<1>5. IsAfter(a)
  <2> HIDE DEF IsAfter
  <2> QED
    BY <1>3
<1> HIDE DEF a
<1>6. a[0] = s /\ \A n \in 1 .. 8 :
        a[n] = F!modbus_crc16_insert1(a[n - 1], F!Right(w, n - 1) \cap {0})
  BY <1>5
<1>7. \A n \in 0 .. 8 : a[n] \in States
  <2>1. \A n \in 1 .. 8 : a[n - 1] \in States => a[n] \in States
    BY <1>6, Insert1Bits
  <2> QED
    BY <1>6, <2>1, IteratesStay
<1>8. a \in [0 .. 8 -> States]
  BY <1>5, <1>7
<1> QED
  BY <1>4, <1>6, <1>8 DEF Shifts, a

\* What a byte does to the register is what no byte does to the register and the byte
\* together.
LEMMA InsertTogether ==
  ASSUME NEW s \in States, NEW w \in Octets
  PROVE  /\ F!SymDiff(s, w) \in States
         /\ F!Insert(s, w) = F!Insert(F!SymDiff(s, w), {})
<1> DEFINE t == F!SymDiff(s, w)
<1>1. t \in States
  BY DEF F!SymDiff, States, Octets
<1>2. PICK a : Shifts(a, s, w) /\ F!Insert(s, w) = a[8]
  BY InsertIs
<1>3. PICK z : Shifts(z, t, {}) /\ F!Insert(t, {}) = z[8]
  <2> HIDE DEF t
  <2> QED
    BY <1>1, InsertIs DEF Octets
<1> DEFINE Both(n) == \A j \in 0 .. 15 : j \in z[n] <=> ((j \in a[n]) # (j + n \in w))
           Same == {n \in Nat : n <= 8 => Both(n)}
<1>4. 0 \in Same
  BY <1>2, <1>3 DEF Shifts, F!SymDiff
<1> HIDE DEF t
<1>5. ASSUME NEW n \in Nat, n \in Same PROVE n + 1 \in Same
  <2> SUFFICES ASSUME n + 1 <= 8 PROVE Both(n + 1)
    OBVIOUS
  <2>1. n + 1 \in 1 .. 8 /\ (n + 1) - 1 = n /\ n \in 0 .. 8
    OBVIOUS
  <2>2. a[n] \in States /\ z[n] \in States
    BY <1>2, <1>3, <2>1 DEF Shifts
  <2>3. /\ a[n + 1] = F!modbus_crc16_insert1(a[n], F!Right(w, n) \cap {0})
        /\ z[n + 1] = F!modbus_crc16_insert1(z[n], F!Right({}, n) \cap {0})
    BY <1>2, <1>3, <2>1 DEF Shifts
  <2>4. F!Right({}, n) \cap {0} = {} /\ (F!Right(w, n) \cap {0} # {} <=> n \in w)
    BY DEF F!Right, Octets
  <2>5. Both(n)
    BY <1>5, <2>1
  <2> DEFINE back == 0 \in z[n]
  <2>6. back <=> ((0 \in a[n]) # (n \in w))
    BY <2>5
  <2>7. \A j \in 0 .. 15 : j \in a[n + 1] <=> ((j + 1 \in a[n]) # (back /\ j \in {0, 13, 15}))
    BY <2>2, <2>3, <2>4, <2>6, Insert1Bits
  <2>8. \A j \in 0 .. 15 : j \in z[n + 1] <=> ((j + 1 \in z[n]) # (back /\ j \in {0, 13, 15}))
    BY <2>2, <2>3, <2>4, Insert1Bits
  <2>9. \A j \in 0 .. 15 : j + 1 \in z[n] <=> ((j + 1 \in a[n]) # (j + 1 + n \in w))
    <3>1. 16 \notin a[n] /\ 16 \notin z[n] /\ 16 + n \notin w
      BY <2>2 DEF States, Octets
    <3> QED
      BY <2>5, <3>1
  <2> HIDE DEF back
  <2>10. \A j \in 0 .. 15 : j + 1 + n = j + (n + 1)
    OBVIOUS
  <2> QED
    BY <2>7, <2>8, <2>9, <2>10
<1>6. Both(8)
  <2> HIDE DEF Both
  <2>1. Nat \subseteq Same
    BY <1>4, <1>5, SetInduction
  <2> QED
    BY <2>1
<1>7. a[8] = z[8]
  <2>1. a[8] \in States /\ z[8] \in States /\ \A j \in 0 .. 15 : j + 8 \notin w
    BY <1>2, <1>3 DEF Shifts, Octets
  <2> QED
    BY <1>6, <2>1 DEF States
<1> QED
  BY <1>1, <1>2, <1>3, <1>7 DEF t

\* Without a byte, other states become other states.
LEMMA InsertNothing ==
  ASSUME NEW s \in States, NEW t \in States, s # t
  PROVE  F!Insert(s, {}) # F!Insert(t, {})
<1>1. PICK a : Shifts(a, s, {}) /\ F!Insert(s, {}) = a[8]
  BY InsertIs DEF Octets
<1>2. PICK z : Shifts(z, t, {}) /\ F!Insert(t, {}) = z[8]
  BY InsertIs DEF Octets
<1> DEFINE Other == {n \in Nat : n <= 8 => a[n] # z[n]}
<1>3. 0 \in Other
  BY <1>1, <1>2 DEF Shifts
<1>4. ASSUME NEW n \in Nat, n \in Other PROVE n + 1 \in Other
  <2> SUFFICES ASSUME n + 1 <= 8, a[n + 1] = z[n + 1] PROVE FALSE
    OBVIOUS
  <2>1. n + 1 \in 1 .. 8 /\ (n + 1) - 1 = n /\ n \in 0 .. 8
    OBVIOUS
  <2>2. a[n] \in States /\ z[n] \in States
    BY <1>1, <1>2, <2>1 DEF Shifts
  <2>3. /\ a[n + 1] = F!modbus_crc16_insert1(a[n], {})
        /\ z[n + 1] = F!modbus_crc16_insert1(z[n], {})
    <3>1. F!Right({}, n) \cap {0} = {}
      BY DEF F!Right
    <3> QED
      BY <1>1, <1>2, <2>1, <3>1 DEF Shifts
  <2>4. /\ \A j \in 0 .. 15 : j \in a[n + 1]
               <=> ((j + 1 \in a[n]) # ((0 \in a[n]) /\ j \in {0, 13, 15}))
        /\ \A j \in 0 .. 15 : j \in z[n + 1]
               <=> ((j + 1 \in z[n]) # ((0 \in z[n]) /\ j \in {0, 13, 15}))
    <3>1. ASSUME NEW u \in States
          PROVE  \A j \in 0 .. 15 : j \in F!modbus_crc16_insert1(u, {})
                   <=> ((j + 1 \in u) # ((0 \in u) /\ j \in {0, 13, 15}))
      BY Insert1Bits
    <3>2. \A j \in 0 .. 15 : j \in F!modbus_crc16_insert1(a[n], {})
            <=> ((j + 1 \in a[n]) # ((0 \in a[n]) /\ j \in {0, 13, 15}))
      BY <2>2, <3>1
    <3>3. \A j \in 0 .. 15 : j \in F!modbus_crc16_insert1(z[n], {})
            <=> ((j + 1 \in z[n]) # ((0 \in z[n]) /\ j \in {0, 13, 15}))
      BY <2>2, <3>1
    <3> QED
      BY <2>3, <3>2, <3>3
  <2>5. 16 \notin a[n] /\ 16 \notin z[n]
    BY <2>2 DEF States
  <2>6. 0 \in a[n] <=> 0 \in z[n]
    BY <2>4, <2>5
  <2>7. \A j \in 0 .. 15 : j + 1 \in a[n] <=> j + 1 \in z[n]
    BY <2>4, <2>6
  <2>8. a[n] = z[n]
    <3>1. \A j \in 0 .. 15 : j \in a[n] <=> j \in z[n]
      <4> SUFFICES ASSUME NEW j \in 0 .. 15, j # 0 PROVE j \in a[n] <=> j \in z[n]
        BY <2>6
      <4>1. j - 1 \in 0 .. 15 /\ (j - 1) + 1 = j
        OBVIOUS
      <4> QED
        BY <2>7, <4>1
    <3> QED
      BY <2>2, <3>1 DEF States
  <2> QED
    BY <1>4, <2>1, <2>8
<1>5. Nat \subseteq Other
  BY <1>3, <1>4, SetInduction
<1> QED
  BY <1>1, <1>2, <1>5

\* Other bytes make other states of a state, and other states become others.
LEMMA InsertDiffers ==
  /\ \A s, t \in States, w \in Octets : s # t => F!Insert(s, w) # F!Insert(t, w)
  /\ \A s \in States, w, v \in Octets : w # v => F!Insert(s, w) # F!Insert(s, v)
<1>1. \A s, t \in States, w \in Octets : s # t => F!SymDiff(s, w) # F!SymDiff(t, w)
  BY Zenon DEF F!SymDiff
<1>2. \A s \in States, w, v \in Octets : w # v => F!SymDiff(s, w) # F!SymDiff(s, v)
  BY Zenon DEF F!SymDiff
<1>3. ASSUME NEW s \in States, NEW t \in States, NEW w \in Octets, s # t
      PROVE  F!Insert(s, w) # F!Insert(t, w)
  BY <1>1, <1>3, InsertTogether, InsertNothing
<1>4. ASSUME NEW s \in States, NEW w \in Octets, NEW v \in Octets, w # v
      PROVE  F!Insert(s, w) # F!Insert(s, v)
  BY <1>2, <1>4, InsertTogether, InsertNothing
<1> QED
  BY <1>3, <1>4

\* What is in the upper half moves to the lower.
LEMMA InsertMoves ==
  ASSUME NEW s \in SUBSET (8 .. 15)
  PROVE  F!Insert(s, {}) = F!Right(s, 8)
<1>0. s \in States
  BY DEF States
<1>1. PICK a : Shifts(a, s, {}) /\ F!Insert(s, {}) = a[8]
  BY <1>0, InsertIs DEF Octets
<1> DEFINE Moved(n) == \A j \in 0 .. 15 : j \in a[n] <=> j + n \in s
           All == {n \in Nat : n <= 8 => Moved(n)}
<1>2. 0 \in All
  BY <1>1 DEF Shifts
<1>3. ASSUME NEW n \in Nat, n \in All PROVE n + 1 \in All
  <2> SUFFICES ASSUME n + 1 <= 8 PROVE Moved(n + 1)
    OBVIOUS
  <2>1. n + 1 \in 1 .. 8 /\ (n + 1) - 1 = n /\ n \in 0 .. 8 /\ Moved(n)
    BY <1>3
  <2>2. a[n] \in States
    BY <1>1, <2>1 DEF Shifts
  <2>3. a[n + 1] = F!modbus_crc16_insert1(a[n], {})
    <3>1. F!Right({}, n) \cap {0} = {}
      BY DEF F!Right
    <3> QED
      BY <1>1, <2>1, <3>1 DEF Shifts
  <2>4. 0 \notin a[n]
    <3>1. 0 + n \notin s
      OBVIOUS
    <3> QED
      BY <2>1, <3>1
  <2>5. \A j \in 0 .. 15 : j \in a[n + 1] <=> j + 1 \in a[n]
    BY <2>2, <2>3, <2>4, Insert1Bits
  <2>6. \A j \in 0 .. 15 : j + 1 \in a[n] <=> j + 1 + n \in s
    <3>1. 16 \notin a[n] /\ 16 + n \notin s
      BY <2>2 DEF States
    <3> QED
      BY <2>1, <3>1
  <2>7. \A j \in 0 .. 15 : j + 1 + n = j + (n + 1)
    OBVIOUS
  <2> QED
    BY <2>5, <2>6, <2>7
<1>4. Moved(8)
  <2> HIDE DEF Moved
  <2>1. Nat \subseteq All
    BY <1>2, <1>3, SetInduction
  <2> QED
    BY <2>1
<1>5. F!Right(s, 8) \in States /\ \A j \in 0 .. 15 : j \in F!Right(s, 8) <=> j + 8 \in s
  BY DEF F!Right, States
<1>6. a[8] \in States
  BY <1>1 DEF Shifts
<1> QED
  BY <1>1, <1>4, <1>5, <1>6 DEF States

\* After both bytes of the register, the register is empty.
LEMMA InsertOwn ==
  ASSUME NEW s \in States
  PROVE  LET own == F!modbus_crc16_serialize(s)
         IN  /\ own[1] \in Octets /\ own[2] \in Octets
             /\ F!Insert(F!Insert(s, own[1]), own[2]) = {}
<1> DEFINE low == F!LowByte(s)
           high == F!LowByte(F!Right(s, 8))
<1>1. low \in Octets /\ high \in Octets /\ high \in States
  BY DEF F!LowByte, F!Right, Octets, States
<1>2. F!modbus_crc16_serialize(s) = <<low, high>>
  BY DEF F!modbus_crc16_serialize
<1>3. F!SymDiff(s, low) \in SUBSET (8 .. 15) /\ F!Right(F!SymDiff(s, low), 8) = high
  BY DEF F!SymDiff, F!LowByte, States, F!Right
<1> HIDE DEF low, high
<1>4. F!Insert(s, low) = high
  BY <1>1, <1>3, InsertTogether, InsertMoves
<1>5. F!SymDiff(high, high) = {}
  BY DEF F!SymDiff
<1>6. F!Insert(high, high) = F!Right({}, 8)
  <2>1. {} \in SUBSET (8 .. 15)
    OBVIOUS
  <2> QED
    BY <1>1, <1>5, <2>1, InsertTogether, InsertMoves
<1>7. F!Right({}, 8) = {}
  BY DEF F!Right
<1> QED
  BY <1>1, <1>2, <1>4, <1>6, <1>7

\* u has the states of the register while octets go in, byte by byte.
Runs(u, octets) ==
  /\ u \in [0 .. Len(octets) -> States] /\ u[0] = F!modbus_crc16_init
  /\ \A n \in 1 .. Len(octets) : u[n] = F!Insert(u[n - 1], octets[n])

\* A byte makes a state of a state.
LEMMA InsertType ==
  ASSUME NEW s \in States, NEW w \in Octets
  PROVE  F!Insert(s, w) \in States
<1>1. PICK a : Shifts(a, s, w) /\ F!Insert(s, w) = a[8]
  BY InsertIs
<1> QED
  BY <1>1 DEF Shifts

\* Data goes in as bytes, one after the other.
LEMMA UpdateIs ==
  ASSUME NEW octets \in Seq(Octets)
  PROVE  \E u : /\ Runs(u, octets)
                /\ F!modbus_crc16_update(F!modbus_crc16_init, octets) = u[Len(octets)]
<1> DEFINE N == Len(octets)
           s == F!modbus_crc16_init
           move == [x \in (1 .. N) \X States |-> F!Insert(x[2], octets[x[1]])]
           IsAfter(f) == f = [n \in 0 .. N |-> IF n = 0 THEN s ELSE F!Insert(f[n - 1], octets[n])]
<1>0. N \in Nat /\ s \in States /\ \A n \in 1 .. N : octets[n] \in Octets
  <2>1. N \in Nat /\ \A n \in 1 .. N : octets[n] \in Octets
    BY LenProperties, ElementOfSeq
  <2>2. s \in States
    BY DEF F!modbus_crc16_init, States
  <2> QED
    BY <2>1, <2>2
<1>1. F!modbus_crc16_update(s, octets) = (CHOOSE g : IsAfter(g))[N]
  BY DEF F!modbus_crc16_update
<1> HIDE DEF s
<1>2. move \in [(1 .. N) \X States -> States]
  BY <1>0, InsertType
<1>3. PICK f \in [0 .. N -> States] : Recurses(f, N, s, move)
  <2> HIDE DEF move, N
  <2> QED
    BY <1>0, <1>2, RecursionExists
<1>4. IsAfter(f)
  <2>1. \A n \in 1 .. N : <<n, f[n - 1]>> \in (1 .. N) \X States
    <3>1. \A n \in 1 .. N : n - 1 \in 0 .. N
      BY <1>0
    <3> HIDE DEF move, N
    <3>2. \A n \in 1 .. N : f[n - 1] \in States
      BY <1>3, <3>1
    <3> QED
      BY <3>2
  <2>2. \A n \in 1 .. N : move[<<n, f[n - 1]>>] = F!Insert(f[n - 1], octets[n])
    BY <2>1
  <2> HIDE DEF move, N
  <2> QED
    BY <1>0, <1>3, <2>2 DEF Recurses
<1> DEFINE u == CHOOSE g : IsAfter(g)
<1>5. IsAfter(u)
  <2> HIDE DEF IsAfter
  <2> QED
    BY <1>4
<1> HIDE DEF u
<1>6. u[0] = s /\ \A n \in 1 .. N : u[n] = F!Insert(u[n - 1], octets[n])
  BY <1>0, <1>5
<1>7. \A n \in 0 .. N : u[n] \in States
  <2>1. \A n \in 1 .. N : u[n - 1] \in States => u[n] \in States
    BY <1>0, <1>6, InsertType
  <2> QED
    BY <1>0, <1>6, <2>1, IteratesStay
<1>8. u \in [0 .. N -> States]
  BY <1>5, <1>7
<1> QED
  BY <1>1, <1>6, <1>8 DEF Runs, u, s

\* Octets that start alike runs alike.
LEMMA RunsAlike ==
  ASSUME NEW octets \in Seq(Octets), NEW other \in Seq(Octets), NEW u, NEW v,
         Runs(u, octets), Runs(v, other),
         NEW m \in Nat, m <= Len(octets), m <= Len(other), \A n \in 1 .. m : octets[n] = other[n]
  PROVE  u[m] = v[m]
<1> DEFINE Same == {n \in Nat : n <= m => u[n] = v[n]}
<1>1. 0 \in Same
  BY DEF Runs
<1>2. ASSUME NEW n \in Nat, n \in Same PROVE n + 1 \in Same
  <2> SUFFICES ASSUME n + 1 <= m PROVE u[n + 1] = v[n + 1]
    OBVIOUS
  <2>1. n + 1 \in 1 .. m /\ n + 1 \in 1 .. Len(octets) /\ n + 1 \in 1 .. Len(other)
        /\ (n + 1) - 1 = n
    BY LenProperties
  <2> QED
    BY <1>2, <2>1 DEF Runs
<1>3. Nat \subseteq Same
  BY <1>1, <1>2, SetInduction
<1> QED
  BY <1>3

\* Data of which one byte is another runs to another state.
LEMMA ChangeNoticed ==
  ASSUME NEW octets \in Seq(Octets), NEW other \in Seq(Octets), Len(octets) = Len(other),
         NEW k \in 1 .. Len(octets), octets[k] # other[k],
         \A n \in 1 .. Len(octets) : n # k => octets[n] = other[n]
  PROVE  F!modbus_crc16_update(F!modbus_crc16_init, octets)
           # F!modbus_crc16_update(F!modbus_crc16_init, other)
<1> DEFINE N == Len(octets)
<1>0. N \in Nat /\ \A n \in 1 .. N : octets[n] \in Octets /\ other[n] \in Octets
  BY LenProperties, ElementOfSeq
<1>1. PICK u : Runs(u, octets) /\ F!modbus_crc16_update(F!modbus_crc16_init, octets) = u[N]
  BY UpdateIs
<1>2. PICK v : Runs(v, other) /\ F!modbus_crc16_update(F!modbus_crc16_init, other) = v[N]
  BY UpdateIs
<1>3. u[k - 1] = v[k - 1]
  <2>1. k - 1 \in Nat /\ k - 1 <= N /\ \A n \in 1 .. k - 1 : n \in 1 .. N /\ n # k
    BY <1>0
  <2> QED
    BY <1>1, <1>2, <2>1, RunsAlike
<1>4. \A n \in 1 .. N : /\ u[n] = F!Insert(u[n - 1], octets[n]) /\ v[n] = F!Insert(v[n - 1], other[n])
                        /\ u[n - 1] \in States /\ v[n - 1] \in States
  <2>1. \A n \in 1 .. N : n - 1 \in 0 .. N
    BY <1>0
  <2> QED
    BY <1>1, <1>2, <2>1 DEF Runs
<1>5. u[k] # v[k]
  BY <1>0, <1>3, <1>4, InsertDiffers
<1> DEFINE Other == {n \in Nat : k + n <= N => u[k + n] # v[k + n]}
<1>6. 0 \in Other
  BY <1>0, <1>5
<1>7. ASSUME NEW n \in Nat, n \in Other PROVE n + 1 \in Other
  <2> SUFFICES ASSUME k + (n + 1) <= N PROVE u[k + (n + 1)] # v[k + (n + 1)]
    OBVIOUS
  <2>1. k + (n + 1) \in 1 .. N /\ k + (n + 1) - 1 = k + n /\ k + n <= N /\ k + (n + 1) # k
    BY <1>0
  <2>2. u[k + n] # v[k + n]
    BY <1>7, <2>1
  <2> HIDE DEF N
  <2>3. octets[k + (n + 1)] = other[k + (n + 1)]
    BY <2>1 DEF N
  <2> QED
    BY <1>0, <1>4, <2>1, <2>2, <2>3, InsertDiffers
<1>8. N - k \in Other /\ k + (N - k) = N
  <2> HIDE DEF Other
  <2>1. Nat \subseteq Other
    BY <1>6, <1>7, SetInduction
  <2> QED
    BY <1>0, <2>1
<1> QED
  BY <1>0, <1>1, <1>2, <1>8

----------------------------------------------------------------------------
(* Bytes and frames.                                                       *)

Bytes == 0 .. 255

\* A byte of some bits has those.
LEMMA NumberOf ==
  ASSUME NEW bits \in Octets
  PROVE  F!Number(bits) \in Bytes /\ F!Bits(F!Number(bits)) = bits
<1> DEFINE bit(b, w) == IF b \in bits THEN w ELSE 0
           n == bit(0, 1) + bit(1, 2) + bit(2, 4) + bit(3, 8) + bit(4, 16) + bit(5, 32)
                  + bit(6, 64) + bit(7, 128)
<1>1. F!Number(bits) = n
  BY DEF F!Number
<1>2. n \in Bytes
  BY DEF Bytes
<1>3. /\ (n \div 1) % 2 = 1 <=> 0 \in bits
      /\ (n \div 2) % 2 = 1 <=> 1 \in bits
      /\ (n \div 4) % 2 = 1 <=> 2 \in bits
      /\ (n \div 8) % 2 = 1 <=> 3 \in bits
      /\ (n \div 16) % 2 = 1 <=> 4 \in bits
      /\ (n \div 32) % 2 = 1 <=> 5 \in bits
      /\ (n \div 64) % 2 = 1 <=> 6 \in bits
      /\ (n \div 128) % 2 = 1 <=> 7 \in bits
  OBVIOUS
<1>4. ASSUME NEW b \in 0 .. 7 PROVE (n \div 2 ^ b) % 2 = 1 <=> b \in bits
  <2> HIDE DEF n
  <2>1. b = 0 \/ b = 1 \/ b = 2 \/ b = 3 \/ b = 4 \/ b = 5 \/ b = 6 \/ b = 7
    OBVIOUS
  <2>2. 2 ^ 0 = 1 /\ 2 ^ 1 = 2 /\ 2 ^ 2 = 4 /\ 2 ^ 3 = 8 /\ 2 ^ 4 = 16 /\ 2 ^ 5 = 32
        /\ 2 ^ 6 = 64 /\ 2 ^ 7 = 128
    OBVIOUS
  <2>3. /\ b = 0 => 2 ^ b = 2 ^ 0
        /\ b = 1 => 2 ^ b = 2 ^ 1
        /\ b = 2 => 2 ^ b = 2 ^ 2
        /\ b = 3 => 2 ^ b = 2 ^ 3
        /\ b = 4 => 2 ^ b = 2 ^ 4
        /\ b = 5 => 2 ^ b = 2 ^ 5
        /\ b = 6 => 2 ^ b = 2 ^ 6
        /\ b = 7 => 2 ^ b = 2 ^ 7
    BY Zenon
  <2>4. /\ b = 0 => 2 ^ b = 1
        /\ b = 1 => 2 ^ b = 2
        /\ b = 2 => 2 ^ b = 4
        /\ b = 3 => 2 ^ b = 8
        /\ b = 4 => 2 ^ b = 16
        /\ b = 5 => 2 ^ b = 32
        /\ b = 6 => 2 ^ b = 64
        /\ b = 7 => 2 ^ b = 128
    BY <2>2, <2>3, Zenon
  <2> QED
    BY <1>3, <2>1, <2>4
<1> HIDE DEF n
<1> QED
  BY <1>1, <1>2, <1>4 DEF F!Bits, Octets

\* The bits of a sequence of bytes.
BitsIn(s) == [i \in DOMAIN s |-> F!Bits(s[i])]

\* The checksum of bytes is that of their bits.
LEMMA BitsInType ==
  ASSUME NEW s \in Seq(Bytes)
  PROVE  /\ BitsIn(s) \in Seq(Octets) /\ Len(BitsIn(s)) = Len(s)
         /\ \A i \in 1 .. Len(s) : BitsIn(s)[i] = F!Bits(s[i])
         /\ F!CrcOf(s) = F!modbus_crc16_update(F!modbus_crc16_init, BitsIn(s))
<1>1. DOMAIN s = 1 .. Len(s) /\ Len(s) \in Nat
  BY LenProperties
<1>2. \A i \in 1 .. Len(s) : F!Bits(s[i]) \in Octets
  BY DEF F!Bits, Octets
<1>3. BitsIn(s) = [i \in 1 .. Len(s) |-> F!Bits(s[i])]
  BY <1>1 DEF BitsIn
<1>4. F!CrcOf(s) = F!modbus_crc16_update(F!modbus_crc16_init, BitsIn(s))
  BY DEF F!CrcOf, BitsIn
<1> QED
  BY <1>1, <1>2, <1>3, <1>4

\* One sequence of bytes after another.
LEMMA Joined ==
  ASSUME NEW a \in Seq(Bytes), NEW b \in Seq(Bytes)
  PROVE  /\ a \o b \in Seq(Bytes) /\ Len(a \o b) = Len(a) + Len(b)
         /\ \A i \in 1 .. Len(a) : (a \o b)[i] = a[i]
         /\ \A i \in 1 .. Len(b) : (a \o b)[Len(a) + i] = b[i]
<1> DEFINE t == a \o b
<1>1. Len(a) \in Nat /\ Len(b) \in Nat
  BY LenProperties
<1>2. /\ t \in Seq(Bytes) /\ Len(t) = Len(a) + Len(b)
      /\ \A i \in 1 .. Len(a) + Len(b) : t[i] = IF i <= Len(a) THEN a[i] ELSE b[i - Len(a)]
  BY ConcatProperties
<1> HIDE DEF t
<1>3. \A i \in 1 .. Len(b) : Len(a) + i \in 1 .. Len(a) + Len(b) /\ (Len(a) + i) - Len(a) = i
                            /\ ~(Len(a) + i <= Len(a))
  BY <1>1
<1>4. \A i \in 1 .. Len(a) : i \in 1 .. Len(a) + Len(b) /\ i <= Len(a)
  BY <1>1
<1> QED
  BY <1>2, <1>3, <1>4 DEF t

\* A frame is what is sent and its checksum, and the checksum of the whole is right.
LEMMA ClosedIs ==
  ASSUME NEW s \in Seq(Bytes)
  PROVE  /\ F!Closed(s) \in Seq(Bytes) /\ Len(F!Closed(s)) = Len(s) + 2
         /\ \A i \in 1 .. Len(s) : F!Closed(s)[i] = s[i]
         /\ F!CrcOf(F!Closed(s)) = {}
<1> DEFINE c == F!Closed(s)
           own == F!modbus_crc16_serialize(F!CrcOf(s))
           tail == [i \in 1 .. 2 |-> F!Number(own[i])]
           N == Len(s)
<1>1. PICK u : Runs(u, BitsIn(s)) /\ F!CrcOf(s) = u[N]
  BY BitsInType, UpdateIs
<1>2. N \in Nat /\ F!CrcOf(s) \in States
  BY <1>1, BitsInType, LenProperties DEF Runs
<1>3. own[1] \in Octets /\ own[2] \in Octets
      /\ F!Insert(F!Insert(F!CrcOf(s), own[1]), own[2]) = {}
  BY <1>2, InsertOwn
<1> HIDE DEF own
<1>4. tail \in Seq(Bytes) /\ Len(tail) = 2 /\ F!Bits(tail[1]) = own[1] /\ F!Bits(tail[2]) = own[2]
  BY <1>3, NumberOf
<1>5. c = s \o tail
  BY DEF F!Closed, own
<1> HIDE DEF tail, c
<1>6. /\ c \in Seq(Bytes) /\ Len(c) = N + 2 /\ \A i \in 1 .. N : c[i] = s[i]
      /\ c[N + 1] = tail[1] /\ c[N + 2] = tail[2]
  <2>1. /\ c \in Seq(Bytes) /\ Len(c) = N + Len(tail) /\ \A i \in 1 .. N : c[i] = s[i]
        /\ \A i \in 1 .. Len(tail) : c[N + i] = tail[i]
    BY <1>4, <1>5, Joined
  <2> QED
    BY <1>2, <1>4, <2>1
<1>7. PICK v : Runs(v, BitsIn(c)) /\ F!CrcOf(c) = v[N + 2]
  BY <1>6, BitsInType, UpdateIs
<1>8. /\ BitsIn(c) \in Seq(Octets) /\ Len(BitsIn(c)) = N + 2
      /\ BitsIn(s) \in Seq(Octets) /\ Len(BitsIn(s)) = N
      /\ \A i \in 1 .. N : BitsIn(s)[i] = BitsIn(c)[i]
      /\ BitsIn(c)[N + 1] = own[1] /\ BitsIn(c)[N + 2] = own[2]
  <2>1. /\ \A i \in 1 .. N + 2 : BitsIn(c)[i] = F!Bits(c[i])
        /\ \A i \in 1 .. N : BitsIn(s)[i] = F!Bits(s[i])
        /\ BitsIn(c) \in Seq(Octets) /\ Len(BitsIn(c)) = N + 2
        /\ BitsIn(s) \in Seq(Octets) /\ Len(BitsIn(s)) = N
    BY <1>6, BitsInType
  <2>2. N + 1 \in 1 .. N + 2 /\ N + 2 \in 1 .. N + 2 /\ \A i \in 1 .. N : i \in 1 .. N + 2
    BY <1>2
  <2> QED
    BY <1>4, <1>6, <2>1, <2>2
<1>9. v[N] = F!CrcOf(s)
  <2>1. N <= N + 2
    BY <1>2
  <2>2. u[N] = v[N]
    <3> HIDE DEF N
    <3> QED
      BY <1>1, <1>2, <1>7, <1>8, <2>1, RunsAlike
  <2> QED
    BY <1>1, <2>2
<1>10. v[N + 1] = F!Insert(v[N], own[1]) /\ v[N + 2] = F!Insert(v[N + 1], own[2])
  <2>1. N + 1 \in 1 .. N + 2 /\ N + 2 \in 1 .. N + 2 /\ (N + 1) - 1 = N /\ (N + 2) - 1 = N + 1
    BY <1>2
  <2> HIDE DEF N
  <2> QED
    BY <1>7, <1>8, <2>1 DEF Runs
<1>11. F!CrcOf(c) = {}
  BY <1>3, <1>7, <1>9, <1>10
<1> QED
  BY <1>6, <1>11 DEF c

\* No bit of a frame with the right checksum can be another without the checksum being
\* wrong.
LEMMA FlipNoticed ==
  ASSUME frame \in Seq(Bytes), F!CrcOf(frame) = {}, NEW i \in 0 .. 8 * Len(frame) - 1
  PROVE  F!CrcOf(F!Flipped(i)) # {}
<1> DEFINE k == 1 + (i \div 8)
           bit == i % 8
           flipped == F!SymDiff(F!Bits(frame[k]), {bit})
<1>1. Len(frame) \in Nat /\ DOMAIN frame = 1 .. Len(frame)
  BY LenProperties
<1>2. k \in 1 .. Len(frame) /\ bit \in 0 .. 7
  BY <1>1
<1>3. flipped \in Octets /\ flipped # F!Bits(frame[k])
  BY <1>2 DEF F!SymDiff, F!Bits, Octets
<1> DEFINE g == F!Flipped(i)
<1>4. g = [n \in 1 .. Len(frame) |-> IF n = k THEN F!Number(flipped) ELSE frame[n]]
  BY <1>1 DEF F!Flipped
<1> HIDE DEF k, bit, flipped, g
<1>5. F!Number(flipped) \in Bytes /\ F!Bits(F!Number(flipped)) = flipped
  BY <1>3, NumberOf
<1>6. \A n \in 1 .. Len(frame) : frame[n] \in Bytes
  BY ElementOfSeq
<1>7. g \in Seq(Bytes) /\ Len(g) = Len(frame) /\ g[k] = F!Number(flipped)
      /\ \A n \in 1 .. Len(frame) : n # k => g[n] = frame[n]
  BY <1>1, <1>2, <1>4, <1>5, <1>6
<1>8. /\ BitsIn(g) \in Seq(Octets) /\ Len(BitsIn(g)) = Len(frame)
      /\ BitsIn(frame) \in Seq(Octets) /\ Len(BitsIn(frame)) = Len(frame)
      /\ \A n \in 1 .. Len(frame) : n # k => BitsIn(frame)[n] = BitsIn(g)[n]
      /\ BitsIn(frame)[k] # BitsIn(g)[k]
  BY <1>2, <1>3, <1>5, <1>7, BitsInType
<1>9. F!modbus_crc16_update(F!modbus_crc16_init, BitsIn(frame))
        # F!modbus_crc16_update(F!modbus_crc16_init, BitsIn(g))
  BY <1>2, <1>8, ChangeNoticed
<1> QED
  BY <1>7, <1>9, BitsInType DEF g

\* The words below 65536.
LEMMA WordIs == F!Word16 = {v \in Nat : v < 65536}
  BY DEF F!Word16

\* A word in two bytes, and back.
LEMMA WordWritten ==
  ASSUME NEW v \in F!Word16
  PROVE  LET w == F!pr_be16_na_write(v)
         IN  /\ w \in Seq(Bytes) /\ Len(w) = 2 /\ w[1] * 256 + w[2] = v
             /\ w[1] \in Bytes /\ w[2] \in Bytes
<1> DEFINE q == v \div 256
<1>1. F!pr_be16_na_write(v) = <<q % 256, v % 256>>
  BY DEF F!pr_be16_na_write
<1>2. v \in Nat /\ v < 65536
  BY WordIs
<1>3. q \in Int /\ v % 256 \in 0 .. 255
  BY <1>2
<1>4. q >= 0
  BY <1>2
<1>5. q <= 255
  BY <1>2
<1>6. q * 256 + (v % 256) = v
  BY <1>2
<1> HIDE DEF q
<1>7. q % 256 = q
  BY <1>3, <1>4, <1>5
<1> QED
  BY <1>1, <1>3, <1>4, <1>5, <1>6, <1>7 DEF Bytes

\* A word is read with its first byte the high one.
LEMMA WordRead ==
  ASSUME frame \in Seq(Bytes), NEW i \in Nat, i + 2 <= Len(frame)
  PROVE  F!pr_be16_na_read(F!At(i)) = frame[i + 1] * 256 + frame[i + 2]
<1>1. Len(frame) \in Nat /\ \A n \in 1 .. Len(frame) : frame[n] \in Bytes
  BY LenProperties, ElementOfSeq
<1>2. /\ i + 1 \in 1 .. Len(frame) + 1 /\ Len(frame) \in i .. Len(frame)
      /\ \A n \in i + 1 .. Len(frame) : frame[n] \in Bytes
  BY <1>1
<1>3. F!At(i)[1] = frame[i + 1] /\ F!At(i)[2] = frame[i + 2]
  BY <1>1, <1>2 DEF F!At
<1> QED
  BY <1>3 DEF F!pr_be16_na_read

\* Words one after the other.
LEMMA WordsWritten ==
  ASSUME NEW s \in Seq(F!Word16)
  PROVE  /\ F!BytesOf(s) \in Seq(Bytes) /\ Len(F!BytesOf(s)) = 2 * Len(s)
         /\ \A i \in 1 .. Len(s) : F!BytesOf(s)[2 * i - 1] * 256 + F!BytesOf(s)[2 * i] = s[i]
<1>0. Len(s) \in Nat /\ \A i \in 1 .. Len(s) : s[i] \in F!Word16
  BY LenProperties, ElementOfSeq
<1> DEFINE b == F!BytesOf(s)
           w(i) == F!pr_be16_na_write(s[i])
<1>1. b = [k \in 1 .. 2 * Len(s) |-> w((k + 1) \div 2)[2 - (k % 2)]]
  BY DEF F!BytesOf
<1>2. \A i \in 1 .. Len(s) : w(i)[1] \in Bytes /\ w(i)[2] \in Bytes
                             /\ w(i)[1] * 256 + w(i)[2] = s[i]
  <2> SUFFICES ASSUME NEW i \in 1 .. Len(s)
               PROVE  w(i)[1] \in Bytes /\ w(i)[2] \in Bytes /\ w(i)[1] * 256 + w(i)[2] = s[i]
    OBVIOUS
  <2>1. s[i] \in F!Word16
    BY <1>0
  <2> QED
    BY <2>1, WordWritten
<1> HIDE DEF b, w
<1>3. \A k \in 1 .. 2 * Len(s) :
        /\ (k + 1) \div 2 \in 1 .. Len(s)
        /\ k % 2 = 0 \/ k % 2 = 1
        /\ k % 2 = 0 => 2 - (k % 2) = 2
        /\ k % 2 = 1 => 2 - (k % 2) = 1
  BY <1>0
<1>4. \A k \in 1 .. 2 * Len(s) : b[k] \in Bytes
  BY <1>1, <1>2, <1>3
<1>5. b \in Seq(Bytes) /\ Len(b) = 2 * Len(s)
  <2>1. 2 * Len(s) \in Nat
    BY <1>0
  <2> QED
    BY <1>1, <1>4, <2>1
<1>6. ASSUME NEW i \in 1 .. Len(s) PROVE b[2 * i - 1] * 256 + b[2 * i] = s[i]
  <2>1. /\ 2 * i - 1 \in 1 .. 2 * Len(s) /\ 2 * i \in 1 .. 2 * Len(s)
        /\ ((2 * i - 1) + 1) \div 2 = i /\ (2 * i + 1) \div 2 = i
        /\ 2 - ((2 * i - 1) % 2) = 1 /\ 2 - ((2 * i) % 2) = 2
    BY <1>0
  <2>2. b[2 * i - 1] = w(i)[1] /\ b[2 * i] = w(i)[2]
    BY <1>1, <2>1
  <2> QED
    BY <1>2, <2>2
<1> QED
  BY <1>5, <1>6 DEF b

\* The client packs bits into bytes, across their ends.
LEMMA BitsPacked ==
  ASSUME NEW on, NEW count \in Nat
  PROVE  /\ F!Packed(on, count) \in Seq(Bytes) /\ Len(F!Packed(on, count)) = (count + 7) \div 8
         /\ \A off \in 0 .. count - 1 :
              off % 8 \in F!Bits(F!Packed(on, count)[1 + (off \div 8)]) <=> off \in on
<1> DEFINE N == (count + 7) \div 8
           in(k) == {b \in 0 .. 7 : 8 * (k - 1) + b \in on /\ 8 * (k - 1) + b < count}
           p == F!Packed(on, count)
<1>1. N \in Nat /\ p = [k \in 1 .. N |-> F!Number(in(k))]
  BY DEF F!Packed
<1>2. \A k : in(k) \in Octets
  BY DEF Octets
<1> HIDE DEF p
<1>3. \A k \in 1 .. N : p[k] \in Bytes /\ F!Bits(p[k]) = in(k)
  <2> HIDE DEF in, N
  <2> QED
    BY <1>1, <1>2, NumberOf
<1>4. p \in Seq(Bytes) /\ Len(p) = N
  <2> HIDE DEF in, N
  <2> QED
    BY <1>1, <1>3
<1>5. ASSUME NEW off \in 0 .. count - 1 PROVE off % 8 \in F!Bits(p[1 + (off \div 8)]) <=> off \in on
  <2>1. 1 + (off \div 8) \in 1 .. N /\ off % 8 \in 0 .. 7 /\ 8 * (off \div 8) + (off % 8) = off
        /\ (1 + (off \div 8)) - 1 = off \div 8
    OBVIOUS
  <2>2. off % 8 \in in(1 + (off \div 8)) <=> off \in on
    BY <2>1
  <2> QED
    BY <1>3, <2>1, <2>2
<1> QED
  BY <1>4, <1>5 DEF p

\* The word at two bytes of a frame.
WordOf(f, i) == f[i] * 256 + f[i + 1]

\* Two bytes, a word and more.
LEMMA AfterWord ==
  ASSUME NEW x \in Bytes, NEW y \in Bytes, NEW a \in F!Word16, NEW body \in Seq(Bytes)
  PROVE  LET t == <<x, y>> \o F!pr_be16_na_write(a) \o body
         IN  /\ t \in Seq(Bytes) /\ Len(t) = 4 + Len(body)
             /\ t[1] = x /\ t[2] = y /\ WordOf(t, 3) = a
             /\ \A i \in 1 .. Len(body) : t[4 + i] = body[i]
<1> DEFINE w == F!pr_be16_na_write(a)
           e == <<x, y>>
           h == e \o w
           t == h \o body
<1>1. w \in Seq(Bytes) /\ Len(w) = 2 /\ w[1] * 256 + w[2] = a
  BY WordWritten
<1> HIDE DEF w
<1>2. e \in Seq(Bytes) /\ Len(e) = 2 /\ e[1] = x /\ e[2] = y
  OBVIOUS
<1> HIDE DEF e
<1>3. h \in Seq(Bytes) /\ Len(h) = 4 /\ h[1] = x /\ h[2] = y /\ h[3] = w[1] /\ h[4] = w[2]
  <2>1. /\ h \in Seq(Bytes) /\ Len(h) = 4
        /\ \A i \in 1 .. 2 : h[i] = e[i]
        /\ \A i \in 1 .. 2 : h[2 + i] = w[i]
    <3>1. /\ h \in Seq(Bytes) /\ Len(h) = Len(e) + Len(w)
          /\ \A i \in 1 .. Len(e) : h[i] = e[i]
          /\ \A i \in 1 .. Len(w) : h[Len(e) + i] = w[i]
      BY <1>1, <1>2, Joined
    <3> HIDE DEF h
    <3> QED
      BY <1>1, <1>2, <3>1
  <2> HIDE DEF h
  <2>2. h[1] = e[1] /\ h[2] = e[2] /\ h[2 + 1] = w[1] /\ h[2 + 2] = w[2]
    BY <2>1
  <2> QED
    BY <1>2, <2>1, <2>2
<1> HIDE DEF h
<1>4. Len(body) \in Nat
  BY LenProperties
<1>5. /\ t \in Seq(Bytes) /\ Len(t) = 4 + Len(body)
      /\ \A i \in 1 .. 4 : t[i] = h[i]
      /\ \A i \in 1 .. Len(body) : t[4 + i] = body[i]
  <2>1. /\ t \in Seq(Bytes) /\ Len(t) = Len(h) + Len(body)
        /\ \A i \in 1 .. Len(h) : t[i] = h[i]
        /\ \A i \in 1 .. Len(body) : t[Len(h) + i] = body[i]
    BY <1>3, Joined
  <2> HIDE DEF t
  <2> QED
    BY <1>3, <2>1
<1> HIDE DEF t
<1>6. t[1] = x /\ t[2] = y /\ t[3] = w[1] /\ t[3 + 1] = w[2]
  BY <1>3, <1>5
<1>7. t = <<x, y>> \o F!pr_be16_na_write(a) \o body
  BY DEF t, h, e, w
<1> QED
  BY <1>1, <1>5, <1>6, <1>7 DEF WordOf

\* A word, a byte and more.
LEMMA AfterCount ==
  ASSUME NEW c \in F!Word16, NEW n \in Bytes, NEW body \in Seq(Bytes)
  PROVE  LET t == F!pr_be16_na_write(c) \o <<n>> \o body
         IN  /\ t \in Seq(Bytes) /\ Len(t) = 3 + Len(body)
             /\ WordOf(t, 1) = c /\ t[3] = n
             /\ \A i \in 1 .. Len(body) : t[3 + i] = body[i]
<1> DEFINE w == F!pr_be16_na_write(c)
           e == <<n>>
           h == w \o e
           t == h \o body
<1>1. w \in Seq(Bytes) /\ Len(w) = 2 /\ w[1] * 256 + w[2] = c
  BY WordWritten
<1> HIDE DEF w
<1>2. e \in Seq(Bytes) /\ Len(e) = 1 /\ e[1] = n
  OBVIOUS
<1> HIDE DEF e
<1>3. h \in Seq(Bytes) /\ Len(h) = 3 /\ h[1] = w[1] /\ h[2] = w[2] /\ h[3] = n
  <2>1. /\ h \in Seq(Bytes) /\ Len(h) = 3
        /\ \A i \in 1 .. 2 : h[i] = w[i]
        /\ \A i \in 1 .. 1 : h[2 + i] = e[i]
    <3>1. /\ h \in Seq(Bytes) /\ Len(h) = Len(w) + Len(e)
          /\ \A i \in 1 .. Len(w) : h[i] = w[i]
          /\ \A i \in 1 .. Len(e) : h[Len(w) + i] = e[i]
      BY <1>1, <1>2, Joined
    <3> HIDE DEF h
    <3> QED
      BY <1>1, <1>2, <3>1
  <2> HIDE DEF h
  <2>2. h[1] = w[1] /\ h[2] = w[2] /\ h[2 + 1] = e[1]
    BY <2>1
  <2> QED
    BY <1>2, <2>1, <2>2
<1> HIDE DEF h
<1>4. Len(body) \in Nat
  BY LenProperties
<1>5. /\ t \in Seq(Bytes) /\ Len(t) = 3 + Len(body)
      /\ \A i \in 1 .. 3 : t[i] = h[i]
      /\ \A i \in 1 .. Len(body) : t[3 + i] = body[i]
  <2>1. /\ t \in Seq(Bytes) /\ Len(t) = Len(h) + Len(body)
        /\ \A i \in 1 .. Len(h) : t[i] = h[i]
        /\ \A i \in 1 .. Len(body) : t[Len(h) + i] = body[i]
    BY <1>3, Joined
  <2> HIDE DEF t
  <2> QED
    BY <1>3, <2>1
<1> HIDE DEF t
<1>6. t[1] = w[1] /\ t[1 + 1] = w[2] /\ t[3] = n
  BY <1>3, <1>5
<1>7. t = F!pr_be16_na_write(c) \o <<n>> \o body
  BY DEF t, h, e, w
<1> QED
  BY <1>1, <1>5, <1>6, <1>7 DEF WordOf

\* What the server finds in the request r.
Sent(r, f) ==
  /\ f \in Seq(Bytes) /\ F!CrcOf(f) = {} /\ Len(f) <= 256 /\ Len(f) >= 8
  /\ f[2] = r.func /\ WordOf(f, 3) = r.address
  /\ r.func \in 1 .. 6 => Len(f) = 8
  /\ r.func \in {1, 2, 3, 4, 15, 16} => WordOf(f, 5) = r.count
  /\ r.func \in {5, 6} => WordOf(f, 5) = r.values[1]
  /\ r.func = 15 =>
       /\ f[7] = (r.count + 7) \div 8 /\ Len(f) = f[7] + 9
       /\ \A off \in 0 .. r.count - 1 : off % 8 \in F!Bits(f[8 + (off \div 8)]) <=> off \in r.on
  /\ r.func = 16 =>
       /\ f[7] = 2 * r.count /\ Len(f) = f[7] + 9
       /\ \A off \in 0 .. r.count - 1 : WordOf(f, 8 + 2 * off) = r.values[off + 1]

\* What the client sends says what it asks for.
LEMMA RequestSent ==
  ASSUME F!FramesAssumption, NEW r \in Requests
  PROVE  Sent(r, F!Closed(<<F!Us, r.func>> \o F!pr_be16_na_write(r.address) \o F!BodyOf(r)))
<1> DEFINE body == F!BodyOf(r)
           t == <<F!Us, r.func>> \o F!pr_be16_na_write(r.address) \o body
           f == F!Closed(t)
<1>0. /\ r.func \in {1, 2, 3, 4, 5, 6, 15, 16}
      /\ r.address \in F!Word16 /\ r.count \in F!Word16 /\ r.values \in Seq(F!Word16)
      /\ r.func \in {5, 6} => r.count = 1 /\ Len(r.values) = 1
      /\ r.func = 15 => r.count <= 1976
      /\ r.func = 16 => r.count <= 123 /\ Len(r.values) = r.count
  BY DEF F!FramesAssumption, F!WRITE_SINGLE_COIL, F!WRITE_SINGLE_REGISTER,
         F!WRITE_MULTIPLE_COILS, F!WRITE_MULTIPLE_REGISTERS
<1>1. F!Us \in Bytes /\ r.func \in Bytes /\ r.count \in Nat
  BY <1>0, WordIs DEF F!Us, Bytes
<1>2. ASSUME body \in Seq(Bytes), Len(body) >= 2
      PROVE  /\ f \in Seq(Bytes) /\ F!CrcOf(f) = {} /\ Len(f) = 6 + Len(body)
             /\ f[2] = r.func /\ WordOf(f, 3) = r.address
             /\ \A i \in 1 .. Len(body) : f[4 + i] = body[i]
  <2>1. /\ t \in Seq(Bytes) /\ Len(t) = 4 + Len(body) /\ t[2] = r.func /\ WordOf(t, 3) = r.address
        /\ \A i \in 1 .. Len(body) : t[4 + i] = body[i]
    <3>1. r.address \in F!Word16 /\ F!Us \in Bytes /\ r.func \in Bytes /\ body \in Seq(Bytes)
      BY <1>0, <1>1, <1>2
    <3> HIDE DEF body
    <3> QED
      BY <3>1, AfterWord
  <2> HIDE DEF t, body
  <2>2. Len(body) \in Nat
    BY <1>2, LenProperties
  <2>3. /\ f \in Seq(Bytes) /\ F!CrcOf(f) = {} /\ Len(f) = Len(t) + 2
        /\ \A i \in 1 .. Len(t) : f[i] = t[i]
    BY <2>1, ClosedIs
  <2> HIDE DEF f
  <2>4. 2 \in 1 .. Len(t) /\ 3 \in 1 .. Len(t) /\ 3 + 1 \in 1 .. Len(t)
        /\ \A i \in 1 .. Len(body) : 4 + i \in 1 .. Len(t)
    BY <2>1, <2>2
  <2> QED
    BY <2>1, <2>2, <2>3, <2>4 DEF WordOf
<1> SUFFICES Sent(r, f)
  OBVIOUS
<1> HIDE DEF f
<1>3. CASE r.func \in 1 .. 4
  <2>1. body = F!pr_be16_na_write(r.count)
    BY <1>3 DEF F!BodyOf, F!READ_COILS, F!READ_INPUT_REGISTERS, F!WRITE_SINGLE_COIL,
                F!WRITE_SINGLE_REGISTER, F!WRITE_MULTIPLE_COILS, F!WRITE_MULTIPLE_REGISTERS
  <2>2. body \in Seq(Bytes) /\ Len(body) = 2 /\ body[1] * 256 + body[2] = r.count
    BY <1>0, <2>1, WordWritten
  <2> HIDE DEF body
  <2>3. f[5] = body[1] /\ f[5 + 1] = body[2] /\ Len(f) = 8
    BY <1>2, <2>2
  <2> QED
    BY <1>2, <1>3, <2>2, <2>3 DEF Sent, WordOf
<1>4. CASE r.func \in {5, 6}
  <2>1. body = F!pr_be16_na_write(r.values[1])
    BY <1>4 DEF F!BodyOf, F!READ_COILS, F!READ_INPUT_REGISTERS, F!WRITE_SINGLE_COIL,
                F!WRITE_SINGLE_REGISTER, F!WRITE_MULTIPLE_COILS, F!WRITE_MULTIPLE_REGISTERS
  <2>2. r.values[1] \in F!Word16
    BY <1>0, <1>4, ElementOfSeq
  <2>3. body \in Seq(Bytes) /\ Len(body) = 2 /\ body[1] * 256 + body[2] = r.values[1]
    BY <2>1, <2>2, WordWritten
  <2> HIDE DEF body
  <2>4. f[5] = body[1] /\ f[5 + 1] = body[2] /\ Len(f) = 8
    BY <1>2, <2>3
  <2> QED
    BY <1>2, <1>4, <2>3, <2>4 DEF Sent, WordOf
<1>5. CASE r.func = 15
  <2> DEFINE p == F!Packed(r.on, r.count)
             n == (r.count + 7) \div 8
  <2>1. p \in Seq(Bytes) /\ Len(p) = n
        /\ \A off \in 0 .. r.count - 1 : off % 8 \in F!Bits(p[1 + (off \div 8)]) <=> off \in r.on
    BY <1>1, BitsPacked
  <2>2. body = F!pr_be16_na_write(r.count) \o <<Len(p)>> \o p
    BY <1>5 DEF F!BodyOf, F!READ_COILS, F!READ_INPUT_REGISTERS, F!WRITE_SINGLE_COIL,
                F!WRITE_SINGLE_REGISTER, F!WRITE_MULTIPLE_COILS, F!WRITE_MULTIPLE_REGISTERS
  <2>3. n \in Bytes /\ n <= 247 /\ n \in Nat
    <3>1. r.count <= 1976 /\ r.count \in Nat
      BY <1>0, <1>1, <1>5
    <3>2. n \in Int
      BY <3>1
    <3>3. n >= 0
      BY <3>1
    <3>4. n <= 247
      BY <3>1
    <3> QED
      BY <3>2, <3>3, <3>4 DEF Bytes
  <2>4. \A off \in 0 .. r.count - 1 : 1 + (off \div 8) \in 1 .. n
    BY <1>1
  <2> HIDE DEF p, n
  <2>5. /\ body \in Seq(Bytes) /\ Len(body) = 3 + n /\ WordOf(body, 1) = r.count /\ body[3] = n
        /\ \A i \in 1 .. n : body[3 + i] = p[i]
    <3>1. r.count \in F!Word16 /\ body = F!pr_be16_na_write(r.count) \o <<n>> \o p
      BY <1>0, <2>1, <2>2
    <3> HIDE DEF body
    <3> QED
      BY <2>1, <2>3, <3>1, AfterCount
  <2> HIDE DEF body
  <2>6. Len(f) = n + 9 /\ f[5] = body[1] /\ f[5 + 1] = body[1 + 1] /\ f[7] = n
    <3>1. 1 \in 1 .. Len(body) /\ 1 + 1 \in 1 .. Len(body) /\ 3 \in 1 .. Len(body) /\ Len(body) >= 2
      BY <2>3, <2>5
    <3>2. /\ Len(f) = 6 + Len(body) /\ f[4 + 1] = body[1] /\ f[4 + (1 + 1)] = body[1 + 1]
          /\ f[4 + 3] = body[3]
      BY <1>2, <2>5, <3>1
    <3> QED
      BY <2>3, <2>5, <3>2
  <2>7. ASSUME NEW off \in 0 .. r.count - 1 PROVE f[8 + (off \div 8)] = p[1 + (off \div 8)]
    <3>1. 1 + (off \div 8) \in 1 .. n /\ off \div 8 \in Nat
      BY <1>1, <2>3, <2>4, <2>7
    <3>2. 3 + (1 + (off \div 8)) \in 1 .. Len(body)
          /\ 4 + (3 + (1 + (off \div 8))) = 8 + (off \div 8)
      BY <2>3, <2>5, <3>1
    <3>3. Len(body) >= 2
      BY <2>3, <2>5
    <3>4. f[8 + (off \div 8)] = body[3 + (1 + (off \div 8))]
      BY <1>2, <2>5, <3>2, <3>3
    <3> QED
      BY <2>5, <3>1, <3>4
  <2>8. Len(body) >= 2
    BY <2>3, <2>5
  <2>9. WordOf(f, 5) = r.count
    BY <2>5, <2>6 DEF WordOf
  <2>10. \A off \in 0 .. r.count - 1 : off % 8 \in F!Bits(f[8 + (off \div 8)]) <=> off \in r.on
    BY <2>1, <2>7
  <2>11. /\ f \in Seq(Bytes) /\ F!CrcOf(f) = {} /\ f[2] = r.func /\ WordOf(f, 3) = r.address
         /\ f[7] = n /\ Len(f) = n + 9 /\ Len(f) <= 256 /\ Len(f) >= 8
    BY <1>2, <2>3, <2>5, <2>6, <2>8
  <2> QED
    BY <1>5, <2>9, <2>10, <2>11 DEF Sent, n
<1>6. CASE r.func = 16
  <2> DEFINE b == F!BytesOf(r.values)
             n == 2 * r.count
  <2>1. b \in Seq(Bytes) /\ Len(b) = n
        /\ \A i \in 1 .. r.count : b[2 * i - 1] * 256 + b[2 * i] = r.values[i]
    <3>1. r.values \in Seq(F!Word16) /\ Len(r.values) = r.count
      BY <1>0, <1>6
    <3>2. /\ b \in Seq(Bytes) /\ Len(b) = 2 * Len(r.values)
          /\ \A i \in 1 .. Len(r.values) : b[2 * i - 1] * 256 + b[2 * i] = r.values[i]
      BY <3>1, WordsWritten
    <3> HIDE DEF b
    <3> QED
      BY <3>1, <3>2
  <2>2. body = F!pr_be16_na_write(r.count) \o <<n>> \o b
    BY <1>6 DEF F!BodyOf, F!READ_COILS, F!READ_INPUT_REGISTERS, F!WRITE_SINGLE_COIL,
                F!WRITE_SINGLE_REGISTER, F!WRITE_MULTIPLE_COILS, F!WRITE_MULTIPLE_REGISTERS
  <2>3. n \in Bytes /\ n <= 246 /\ n \in Nat
    <3>1. r.count <= 123 /\ r.count \in Nat
      BY <1>0, <1>1, <1>6
    <3> QED
      BY <3>1 DEF Bytes
  <2> HIDE DEF b
  <2>4. /\ body \in Seq(Bytes) /\ Len(body) = 3 + n /\ WordOf(body, 1) = r.count /\ body[3] = n
        /\ \A i \in 1 .. n : body[3 + i] = b[i]
    <3>1. r.count \in F!Word16
      BY <1>0
    <3> HIDE DEF n, body
    <3> QED
      BY <2>1, <2>2, <2>3, <3>1, AfterCount
  <2> HIDE DEF body
  <2>5. Len(f) = n + 9 /\ f[5] = body[1] /\ f[5 + 1] = body[1 + 1] /\ f[7] = n
    <3> HIDE DEF n
    <3> QED
      BY <1>2, <2>3, <2>4
  <2>6. ASSUME NEW off \in 0 .. r.count - 1 PROVE WordOf(f, 8 + 2 * off) = r.values[off + 1]
    <3>1. /\ 2 * off + 1 \in 1 .. n /\ 2 * off + 2 \in 1 .. n /\ off + 1 \in 1 .. r.count
          /\ 2 * (off + 1) - 1 = 2 * off + 1 /\ 2 * (off + 1) = 2 * off + 2
      BY <1>1, <2>6
    <3>2. /\ 3 + (2 * off + 1) \in 1 .. Len(body) /\ 4 + (3 + (2 * off + 1)) = 8 + 2 * off
          /\ 3 + (2 * off + 2) \in 1 .. Len(body) /\ 4 + (3 + (2 * off + 2)) = (8 + 2 * off) + 1
      BY <1>1, <2>4, <2>6
    <3>3. Len(body) >= 2
      BY <1>1, <2>4
    <3> HIDE DEF n
    <3>4. f[8 + 2 * off] = b[2 * off + 1] /\ f[(8 + 2 * off) + 1] = b[2 * off + 2]
      BY <1>2, <2>4, <3>1, <3>2, <3>3
    <3> QED
      BY <2>1, <3>1, <3>4 DEF WordOf
  <2>7. Len(body) >= 2
    BY <1>1, <2>4
  <2>8. WordOf(f, 5) = r.count
    BY <2>4, <2>5 DEF WordOf
  <2>9. /\ f \in Seq(Bytes) /\ F!CrcOf(f) = {} /\ f[2] = r.func /\ WordOf(f, 3) = r.address
        /\ f[7] = n /\ Len(f) = n + 9 /\ Len(f) <= 256 /\ Len(f) >= 8
    <3>1. /\ f \in Seq(Bytes) /\ F!CrcOf(f) = {} /\ f[2] = r.func /\ WordOf(f, 3) = r.address
      BY <1>2, <2>4, <2>7
    <3> HIDE DEF n
    <3> QED
      BY <2>3, <2>5, <3>1
  <2> QED
    BY <1>6, <2>6, <2>8, <2>9 DEF Sent
<1> QED
  BY <1>0, <1>3, <1>4, <1>5, <1>6

----------------------------------------------------------------------------
(* What the server does with a request, for any number of coils and        *)
(* registers.                                                              *)

CellsOf(r) == {r.address + off : off \in 0 .. r.count - 1}
AllOf(r) == IF r.func \in {1, 2, 5, 15} THEN F!Coils ELSE F!Regs
Accepted(r) == CellsOf(r) \subseteq AllOf(r) /\ F!FitsIn(r)

\* A coil in a response.
CoilOf(f, off) == off % 8 \in F!Bits(f[4 + (off \div 8)])

\* The response f to r, and the coils c and registers g after it, when b was before.
Truth(r, b, c, g, f) ==
  /\ f[2] < 128 <=> Accepted(r)
  /\ Accepted(r) =>
       /\ r.func = 1 => \A off \in 0 .. r.count - 1 : CoilOf(f, off) <=> r.address + off \in b.coils
       /\ r.func = 2 => \A off \in 0 .. r.count - 1 : CoilOf(f, off) <=> r.address + off \in F!Discrete
       /\ r.func = 3 => \A off \in 0 .. r.count - 1 : WordOf(f, 4 + 2 * off) = b.regs[r.address + off]
       /\ r.func = 4 =>
            \A off \in 0 .. r.count - 1 : WordOf(f, 4 + 2 * off) = F!Measured[r.address + off]
       /\ r.func \in {3, 4} => Len(f) = 2 * r.count + 5
       /\ r.func = 5 => (r.address \in c <=> r.values[1] # 0)
       /\ r.func = 6 => g[r.address] = r.values[1]
       /\ r.func = 15 => c \cap CellsOf(r) = {r.address + o : o \in r.on} \cap CellsOf(r)
       /\ r.func = 16 => \A off \in 0 .. r.count - 1 : g[r.address + off] = r.values[off + 1]
  /\ c \ CellsOf(r) = b.coils \ CellsOf(r)
  /\ \A a \in F!Regs \ CellsOf(r) : g[a] = b.regs[a]

\* A response with a length that its first bytes say.
Response(f) ==
  /\ f \in Seq(Bytes) /\ F!CrcOf(f) = {} /\ Len(f) <= 256 /\ Len(f) >= 5
  /\ \/ f[2] >= 128 /\ Len(f) = 5
     \/ f[2] \in 1 .. 4 /\ Len(f) = f[3] + 5
     \/ f[2] \in {5, 6, 15, 16} /\ Len(f) = 8

\* The server has a request.
Ready ==
  /\ F!FramesAssumption /\ request \in Requests /\ Sent(request, frame)
  /\ coils \in SUBSET F!Coils /\ regs \in [F!Regs -> F!Word16]

\* What the server reads out of a request is what the client wrote.
LEMMA Heard ==
  ASSUME Ready
  PROVE  /\ frame[2] = request.func /\ request.func \in {1, 2, 3, 4, 5, 6, 15, 16}
         /\ F!Address = request.address /\ request.address \in Nat /\ request.count \in Nat
         /\ request.address \in F!Word16 /\ request.count \in F!Word16
         /\ request.func \in {1, 2, 3, 4, 15, 16} => F!Word = request.count
         /\ request.func \in {5, 6} =>
              F!Word = request.values[1] /\ request.values[1] \in F!Word16 /\ request.count = 1
         /\ CoilCount \in Nat /\ RegCount \in Nat
<1>1. /\ request.func \in {1, 2, 3, 4, 5, 6, 15, 16}
      /\ request.address \in F!Word16 /\ request.count \in F!Word16
      /\ request.values \in Seq(F!Word16)
      /\ request.func \in {5, 6} => Len(request.values) = 1 /\ request.count = 1
  BY DEF Ready, F!FramesAssumption, F!WRITE_SINGLE_COIL, F!WRITE_SINGLE_REGISTER,
         F!WRITE_MULTIPLE_COILS, F!WRITE_MULTIPLE_REGISTERS
<1>2. frame \in Seq(Bytes) /\ Len(frame) >= 8 /\ Len(frame) \in Nat
  BY LenProperties DEF Ready, Sent
<1>3. F!Address = WordOf(frame, 3) /\ F!Word = WordOf(frame, 5)
  <2>1. 2 \in Nat /\ 4 \in Nat /\ 2 + 2 <= Len(frame) /\ 4 + 2 <= Len(frame)
    BY <1>2
  <2> QED
    BY <1>2, <2>1, WordRead DEF F!Address, F!Word, WordOf
<1>4. request.func \in {5, 6} => request.values[1] \in F!Word16
  BY <1>1, ElementOfSeq
<1>5. CoilCount \in Nat /\ RegCount \in Nat
  BY WordIs DEF Ready, F!FramesAssumption
<1>6. request.address \in Nat /\ request.count \in Nat
  BY <1>1, WordIs
<1>7. /\ frame[2] = request.func /\ WordOf(frame, 3) = request.address
      /\ request.func \in {1, 2, 3, 4, 15, 16} => WordOf(frame, 5) = request.count
      /\ request.func \in {5, 6} => WordOf(frame, 5) = request.values[1]
  BY DEF Ready, Sent
<1> QED
  BY <1>1, <1>3, <1>4, <1>5, <1>6, <1>7

\* A loop over the cells of a request reaches those before the first that is not there.
LEMMA Reaches ==
  ASSUME Ready, NEW there
  PROVE  LET reached == F!Reached(there, request.count)
         IN  /\ F!Fails(there, request.count) <=> ~(CellsOf(request) \subseteq there)
             /\ \A off \in reached : off \in 0 .. request.count - 1 /\ request.address + off \in there
             /\ ~F!Fails(there, request.count) => reached = 0 .. request.count - 1
<1>1. F!Address = request.address /\ request.address \in Nat /\ request.count \in Nat
  BY Heard
<1> DEFINE n == request.count
           reached == F!Reached(there, n)
<1>2. reached = {off \in 0 .. n - 1 : \A o \in 0 .. off : request.address + o \in there}
  BY <1>1 DEF F!Reached
<1>3. F!Fails(there, n) <=> reached # 0 .. n - 1
  BY DEF F!Fails
<1> HIDE DEF reached, n
<1>4. n \in Nat
  BY <1>1 DEF n
<1>5. ASSUME CellsOf(request) \subseteq there PROVE reached = 0 .. n - 1
  <2>1. \A off \in 0 .. n - 1 : request.address + off \in there
    BY <1>5 DEF CellsOf, n
  <2>2. \A off \in 0 .. n - 1 : \A o \in 0 .. off : o \in 0 .. n - 1
    BY <1>4
  <2> QED
    BY <1>2, <2>1, <2>2
<1>6. ASSUME reached = 0 .. n - 1 PROVE CellsOf(request) \subseteq there
  <2>1. \A off \in 0 .. n - 1 : off \in 0 .. off
    BY <1>4
  <2>2. \A off \in 0 .. n - 1 : request.address + off \in there
    BY <1>2, <1>6, <2>1
  <2> QED
    BY <2>2 DEF CellsOf, n
<1>7. \A off \in reached : off \in 0 .. n - 1 /\ request.address + off \in there
  <2>1. \A off \in 0 .. n - 1 : off \in 0 .. off
    BY <1>4
  <2> QED
    BY <1>2, <2>1
<1> QED
  BY <1>3, <1>5, <1>6, <1>7 DEF reached, n

\* The frame of an answer.
LEMMA AnswerIs ==
  ASSUME Ready, NEW s \in Seq(Bytes), F!Answer(s)
  PROVE  /\ frame' \in Seq(Bytes) /\ F!CrcOf(frame') = {} /\ Len(frame') = Len(s) + 4
         /\ frame'[2] = request.func
         /\ \A i \in 1 .. Len(s) : frame'[2 + i] = s[i]
<1> DEFINE e == <<F!Us, frame[2]>>
           t == e \o s
<1>1. e \in Seq(Bytes) /\ Len(e) = 2 /\ e[2] = request.func
  <2>1. F!Us \in Bytes /\ frame[2] \in Bytes /\ frame[2] = request.func
    <3>1. frame[2] = request.func /\ request.func \in {1, 2, 3, 4, 5, 6, 15, 16}
      BY Heard
    <3> QED
      BY <3>1 DEF F!Us, Bytes
  <2> QED
    BY <2>1
<1>2. frame' = F!Closed(t)
  BY DEF F!Answer
<1> HIDE DEF e
<1>3. /\ t \in Seq(Bytes) /\ Len(t) = Len(e) + Len(s)
      /\ \A i \in 1 .. Len(e) : t[i] = e[i]
      /\ \A i \in 1 .. Len(s) : t[Len(e) + i] = s[i]
  BY <1>1, Joined
<1> HIDE DEF t
<1>4. Len(s) \in Nat
  BY LenProperties
<1>5. /\ F!Closed(t) \in Seq(Bytes) /\ F!CrcOf(F!Closed(t)) = {} /\ Len(F!Closed(t)) = Len(t) + 2
      /\ \A i \in 1 .. Len(t) : F!Closed(t)[i] = t[i]
  BY <1>3, ClosedIs
<1>6. 2 \in 1 .. Len(t) /\ Len(t) + 2 = Len(s) + 4
      /\ \A i \in 1 .. Len(s) : 2 + i \in 1 .. Len(t)
  BY <1>1, <1>3, <1>4
<1> QED
  BY <1>1, <1>2, <1>3, <1>5, <1>6

\* The frame of an exception.
LEMMA ExceptionIs ==
  ASSUME Ready, NEW why \in Bytes, F!Exception(why)
  PROVE  Response(frame') /\ ~(frame'[2] < 128)
<1> DEFINE t == <<F!Us, frame[2] + 128, why>>
<1>1. F!Us \in Bytes /\ frame[2] + 128 \in Bytes /\ frame[2] + 128 >= 128
  BY Heard DEF F!Us, Bytes
<1>2. t \in Seq(Bytes) /\ Len(t) = 3 /\ t[2] = frame[2] + 128
  BY <1>1
<1>3. frame' = F!Closed(t)
  BY DEF F!Exception
<1> HIDE DEF t
<1>4. /\ frame' \in Seq(Bytes) /\ F!CrcOf(frame') = {} /\ Len(frame') = 5
      /\ frame'[2] = frame[2] + 128
  <2>1. F!Closed(t) \in Seq(Bytes) /\ F!CrcOf(F!Closed(t)) = {} /\ Len(F!Closed(t)) = Len(t) + 2
        /\ \A i \in 1 .. Len(t) : F!Closed(t)[i] = t[i]
    BY <1>2, ClosedIs
  <2> QED
    BY <1>2, <1>3, <2>1
<1>5. frame[2] + 128 \in Nat
  BY <1>1 DEF Bytes
<1> QED
  BY <1>1, <1>4, <1>5 DEF Response

\* Coils that are read are packed across the ends of bytes.
LEMMA CoilsRead ==
  ASSUME Ready, request.func \in {1, 2}, NEW getter, F!bus_req_coils_get_many(getter)
  PROVE  /\ Response(frame') /\ (frame'[2] < 128 <=> Accepted(request))
         /\ Accepted(request) =>
              \A off \in 0 .. request.count - 1 :
                CoilOf(frame', off) <=> request.address + off \in getter
<1> DEFINE count == request.count
           n == (count + 7) \div 8
           in(k) == {off % 8 : off \in {o \in 0 .. count - 1 :
                                          o \div 8 = k - 1 /\ request.address + o \in getter}}
           p == [k \in 1 .. n |-> F!Number(in(k))]
<1>1. /\ F!Word = count /\ F!Address = request.address /\ count \in Nat /\ request.address \in Nat
      /\ frame[2] = request.func
  BY Heard
<1>2. F!Fails(F!Coils, count) <=> ~(CellsOf(request) \subseteq F!Coils)
  BY Reaches
<1>3. F!FitsIn(request) <=> n <= 250
  <2>1. F!FitsIn(request) <=> count <= 2000
    BY DEF F!FitsIn, F!READ_COILS, F!READ_DISCRETE_INPUTS, F!READ_HOLDING_REGISTERS,
           F!READ_INPUT_REGISTERS
  <2>2. count <= 2000 => n <= 250
    BY <1>1
  <2>3. n <= 250 => count <= 2000
    BY <1>1
  <2> QED
    BY <2>1, <2>2, <2>3
<1>4. Accepted(request) <=> n <= 250 /\ ~F!Fails(F!Coils, count)
  BY <1>2, <1>3 DEF Accepted, AllOf
<1>5. CASE ~Accepted(request)
  <2>1. F!Exception(4) \/ F!Exception(2)
    BY <1>1, <1>4, <1>5 DEF F!bus_req_coils_get_many, F!SERVER_DEVICE_FAILURE,
                            F!ILLEGAL_DATA_ADDRESS
  <2>2. 4 \in Bytes /\ 2 \in Bytes
    BY DEF Bytes
  <2> QED
    BY <1>5, <2>1, <2>2, ExceptionIs
<1>6. CASE Accepted(request)
  <2>1. F!Answer(<<n>> \o p)
    BY <1>1, <1>4, <1>6 DEF F!bus_req_coils_get_many
  <2>2. n \in Nat
    BY <1>1
  <2>3. \A k : in(k) \in Octets
    <3>1. \A o \in 0 .. count - 1 : o % 8 \in 0 .. 7
      BY <1>1
    <3> QED
      BY <3>1 DEF Octets
  <2>4. \A k \in 1 .. n : p[k] \in Bytes /\ F!Bits(p[k]) = in(k)
    <3> HIDE DEF in, n
    <3> QED
      BY <2>3, NumberOf
  <2>5. p \in Seq(Bytes) /\ Len(p) = n
    <3> HIDE DEF in, n
    <3> QED
      BY <2>2, <2>4
  <2> DEFINE e == <<n>>
             s == e \o p
  <2>6. n \in Bytes /\ e \in Seq(Bytes) /\ Len(e) = 1 /\ e[1] = n
    <3>1. n \in Bytes
      BY <1>4, <1>6, <2>2 DEF Bytes
    <3> HIDE DEF n
    <3> QED
      BY <3>1
  <2>7. ASSUME NEW off \in 0 .. count - 1
        PROVE  /\ 1 + (off \div 8) \in 1 .. n
               /\ off % 8 \in F!Bits(p[1 + (off \div 8)]) <=> request.address + off \in getter
    <3>1. 1 + (off \div 8) \in 1 .. n /\ (1 + (off \div 8)) - 1 = off \div 8
      BY <1>1
    <3>2. \A o \in 0 .. count - 1 : o \div 8 = off \div 8 /\ o % 8 = off % 8 => o = off
      BY <1>1
    <3>3. off % 8 \in in(1 + (off \div 8)) <=> request.address + off \in getter
      BY <3>1, <3>2
    <3> HIDE DEF in, n, p
    <3> QED
      BY <2>4, <3>1, <3>3
  <2> HIDE DEF in, n, p, e
  <2>8. /\ s \in Seq(Bytes) /\ Len(s) = 1 + n /\ s[1] = n
        /\ \A i \in 1 .. n : s[1 + i] = p[i]
    <3>1. /\ s \in Seq(Bytes) /\ Len(s) = Len(e) + Len(p)
          /\ \A i \in 1 .. Len(e) : s[i] = e[i]
          /\ \A i \in 1 .. Len(p) : s[Len(e) + i] = p[i]
      BY <2>5, <2>6, Joined
    <3> HIDE DEF s
    <3> QED
      BY <2>5, <2>6, <3>1
  <2>9. F!Answer(s)
    BY <2>1 DEF e
  <2> HIDE DEF s
  <2>10. /\ frame' \in Seq(Bytes) /\ F!CrcOf(frame') = {} /\ Len(frame') = n + 5
         /\ frame'[2] = request.func /\ frame'[3] = n
         /\ \A i \in 1 .. n : frame'[3 + i] = p[i]
    <3>1. /\ frame' \in Seq(Bytes) /\ F!CrcOf(frame') = {} /\ Len(frame') = Len(s) + 4
          /\ frame'[2] = request.func
          /\ \A i \in 1 .. Len(s) : frame'[2 + i] = s[i]
      BY <2>8, <2>9, AnswerIs
    <3>2. 1 \in 1 .. Len(s) /\ \A i \in 1 .. n : 1 + i \in 1 .. Len(s) /\ 2 + (1 + i) = 3 + i
      BY <2>2, <2>8
    <3> QED
      BY <2>2, <2>8, <3>1, <3>2
  <2>11. \A off \in 0 .. count - 1 : CoilOf(frame', off) <=> request.address + off \in getter
    <3>1. \A off \in 0 .. count - 1 : frame'[4 + (off \div 8)] = p[1 + (off \div 8)]
      <4>1. \A off \in 0 .. count - 1 : 3 + (1 + (off \div 8)) = 4 + (off \div 8)
        BY <1>1
      <4> QED
        BY <2>7, <2>10, <4>1
    <3> QED
      BY <2>7, <3>1 DEF CoilOf
  <2>12. Response(frame') /\ frame'[2] < 128
    BY <1>4, <1>6, <2>2, <2>10 DEF Response
  <2> QED
    BY <1>6, <2>11, <2>12
<1> QED
  BY <1>5, <1>6

\* Registers that are read are words one after the other.
LEMMA RegsRead ==
  ASSUME Ready, request.func \in {3, 4}, NEW getter \in [F!Regs -> F!Word16],
         F!bus_req_regs_get_many(getter)
  PROVE  /\ Response(frame') /\ (frame'[2] < 128 <=> Accepted(request))
         /\ Accepted(request) =>
              /\ Len(frame') = 2 * request.count + 5
              /\ \A off \in 0 .. request.count - 1 :
                   WordOf(frame', 4 + 2 * off) = getter[request.address + off]
<1> DEFINE count == request.count
           n == 2 * count
           words == [i \in 1 .. count |-> getter[request.address + i - 1]]
           b == F!BytesOf(words)
<1>1. /\ F!Word = count /\ F!Address = request.address /\ count \in Nat /\ request.address \in Nat
      /\ frame[2] = request.func
  BY Heard
<1>2. F!Fails(F!Regs, count) <=> ~(CellsOf(request) \subseteq F!Regs)
  BY Reaches
<1>3. F!FitsIn(request) <=> n <= 250
  BY <1>1 DEF F!FitsIn, F!READ_COILS, F!READ_DISCRETE_INPUTS, F!READ_HOLDING_REGISTERS,
              F!READ_INPUT_REGISTERS
<1>4. Accepted(request) <=> n <= 250 /\ ~F!Fails(F!Regs, count)
  BY <1>2, <1>3 DEF Accepted, AllOf
<1>5. count * 2 = n
  BY <1>1
<1>6. CASE ~Accepted(request)
  <2>1. F!Exception(4) \/ F!Exception(2)
    BY <1>1, <1>4, <1>5, <1>6 DEF F!bus_req_regs_get_many, F!SERVER_DEVICE_FAILURE,
                                  F!ILLEGAL_DATA_ADDRESS
  <2>2. 4 \in Bytes /\ 2 \in Bytes
    BY DEF Bytes
  <2> QED
    BY <1>6, <2>1, <2>2, ExceptionIs
<1>7. CASE Accepted(request)
  <2>1. F!Answer(<<n>> \o b)
    BY <1>1, <1>4, <1>5, <1>7 DEF F!bus_req_regs_get_many
  <2>2. /\ words \in Seq(F!Word16) /\ Len(words) = count
        /\ \A i \in 1 .. count : words[i] = getter[request.address + i - 1]
    <3>1. \A i \in 1 .. count : request.address + i - 1 \in CellsOf(request)
      <4>1. \A i \in 1 .. count : i - 1 \in 0 .. count - 1
                                  /\ request.address + i - 1 = request.address + (i - 1)
        BY <1>1
      <4> QED
        BY <4>1 DEF CellsOf
    <3>2. CellsOf(request) \subseteq F!Regs
      BY <1>2, <1>4, <1>7
    <3>3. \A i \in 1 .. count : getter[request.address + i - 1] \in F!Word16
      BY <3>1, <3>2
    <3> QED
      BY <1>1, <3>3
  <2> HIDE DEF words
  <2>3. /\ b \in Seq(Bytes) /\ Len(b) = n
        /\ \A i \in 1 .. count : b[2 * i - 1] * 256 + b[2 * i] = words[i]
    BY <2>2, WordsWritten
  <2> DEFINE e == <<n>>
             s == e \o b
  <2>4. n \in Nat /\ n \in Bytes /\ e \in Seq(Bytes) /\ Len(e) = 1 /\ e[1] = n
    <3>1. n \in Bytes /\ n \in Nat
      BY <1>1, <1>4, <1>7 DEF Bytes
    <3> HIDE DEF n
    <3> QED
      BY <3>1
  <2> HIDE DEF b, e
  <2>5. /\ s \in Seq(Bytes) /\ Len(s) = 1 + n /\ s[1] = n
        /\ \A i \in 1 .. n : s[1 + i] = b[i]
    <3>1. /\ s \in Seq(Bytes) /\ Len(s) = Len(e) + Len(b)
          /\ \A i \in 1 .. Len(e) : s[i] = e[i]
          /\ \A i \in 1 .. Len(b) : s[Len(e) + i] = b[i]
      BY <2>3, <2>4, Joined, SMTT(40)
    <3> HIDE DEF s, n
    <3> QED
      BY <2>3, <2>4, <3>1
  <2>6. F!Answer(s)
    BY <2>1 DEF e
  <2> HIDE DEF s, n
  <2>7. /\ frame' \in Seq(Bytes) /\ F!CrcOf(frame') = {} /\ Len(frame') = n + 5
        /\ frame'[2] = request.func /\ frame'[3] = n
        /\ \A i \in 1 .. n : frame'[3 + i] = b[i]
    <3>1. /\ frame' \in Seq(Bytes) /\ F!CrcOf(frame') = {} /\ Len(frame') = Len(s) + 4
          /\ frame'[2] = request.func
          /\ \A i \in 1 .. Len(s) : frame'[2 + i] = s[i]
      BY <2>5, <2>6, AnswerIs
    <3>2. 1 \in 1 .. Len(s) /\ \A i \in 1 .. n : 1 + i \in 1 .. Len(s) /\ 2 + (1 + i) = 3 + i
      BY <2>4, <2>5
    <3> QED
      BY <2>4, <2>5, <3>1, <3>2
  <2>8. ASSUME NEW off \in 0 .. count - 1
        PROVE  WordOf(frame', 4 + 2 * off) = getter[request.address + off]
    <3>1. /\ off + 1 \in 1 .. count /\ 2 * (off + 1) - 1 = 1 + 2 * off /\ 2 * (off + 1) = 2 + 2 * off
          /\ 1 + 2 * off \in 1 .. n /\ 2 + 2 * off \in 1 .. n
          /\ 3 + (1 + 2 * off) = 4 + 2 * off /\ 3 + (2 + 2 * off) = (4 + 2 * off) + 1
          /\ request.address + (off + 1) - 1 = request.address + off
      BY <1>1, <2>8 DEF n
    <3>2. frame'[4 + 2 * off] = b[1 + 2 * off] /\ frame'[(4 + 2 * off) + 1] = b[2 + 2 * off]
      BY <2>7, <3>1
    <3>3. b[1 + 2 * off] * 256 + b[2 + 2 * off] = getter[request.address + off]
      BY <2>2, <2>3, <3>1
    <3> QED
      BY <3>2, <3>3 DEF WordOf
  <2>9. Response(frame') /\ frame'[2] < 128 /\ Len(frame') = 2 * request.count + 5
    BY <1>4, <1>7, <2>4, <2>7 DEF Response, n
  <2> QED
    BY <1>7, <2>8, <2>9
<1> QED
  BY <1>6, <1>7

\* A request that has been handled: before is what the application had.
Handled ==
  /\ Response(frame') /\ Truth(request, before, coils', regs', frame')
  /\ coils' \in SUBSET F!Coils /\ regs' \in [F!Regs -> F!Word16]

\* The answer to a write repeats two words of it.
LEMMA Repeated ==
  ASSUME Ready, request.func \in {5, 6, 15, 16}, NEW a \in F!Word16, NEW b \in F!Word16,
         F!Answer(F!pr_be16_na_write(a) \o F!pr_be16_na_write(b))
  PROVE  Response(frame') /\ frame'[2] < 128
<1> DEFINE x == F!pr_be16_na_write(a)
           y == F!pr_be16_na_write(b)
           s == x \o y
<1>1. x \in Seq(Bytes) /\ Len(x) = 2 /\ y \in Seq(Bytes) /\ Len(y) = 2
  BY WordWritten
<1>2. F!Answer(s)
  OBVIOUS
<1> HIDE DEF x, y
<1>3. s \in Seq(Bytes) /\ Len(s) = Len(x) + Len(y)
  BY <1>1, Joined
<1> HIDE DEF s
<1>4. Len(s) = 4
  BY <1>1, <1>3
<1>5. /\ frame' \in Seq(Bytes) /\ F!CrcOf(frame') = {} /\ Len(frame') = Len(s) + 4
      /\ frame'[2] = request.func
  BY <1>2, <1>3, AnswerIs
<1> QED
  BY <1>4, <1>5 DEF Response

\* A read changes nothing and tells what there is.
LEMMA ReadsHandled ==
  ASSUME Ready, before = [coils |-> coils, regs |-> regs], F!Reads
  PROVE  Handled
<1>1. frame[2] = request.func /\ RegCount \in Nat
  BY Heard
<1>2. coils' = coils /\ regs' = regs /\ before.coils = coils /\ before.regs = regs
  BY DEF F!Reads
<1>3. coils' \in SUBSET F!Coils /\ regs' \in [F!Regs -> F!Word16]
  BY <1>2 DEF Ready
<1>4. /\ coils' \ CellsOf(request) = before.coils \ CellsOf(request)
      /\ \A a \in F!Regs \ CellsOf(request) : regs'[a] = before.regs[a]
  BY <1>2
<1>5. ASSUME NEW getter, request.func \in {1, 2}, F!bus_req_coils_get_many(getter),
             request.func = 1 => getter = coils, request.func = 2 => getter = F!Discrete
      PROVE  Handled
  <2>1. /\ Response(frame') /\ (frame'[2] < 128 <=> Accepted(request))
        /\ Accepted(request) =>
             \A off \in 0 .. request.count - 1 :
               CoilOf(frame', off) <=> request.address + off \in getter
    BY <1>5, CoilsRead
  <2> QED
    BY <1>2, <1>3, <1>4, <1>5, <2>1 DEF Handled, Truth
<1>6. ASSUME NEW getter \in [F!Regs -> F!Word16], request.func \in {3, 4},
             F!bus_req_regs_get_many(getter),
             request.func = 3 => getter = regs, request.func = 4 => getter = F!Measured
      PROVE  Handled
  <2>1. /\ Response(frame') /\ (frame'[2] < 128 <=> Accepted(request))
        /\ Accepted(request) =>
             /\ Len(frame') = 2 * request.count + 5
             /\ \A off \in 0 .. request.count - 1 :
                  WordOf(frame', 4 + 2 * off) = getter[request.address + off]
    BY <1>6, RegsRead
  <2> QED
    BY <1>2, <1>3, <1>4, <1>6, <2>1 DEF Handled, Truth
<1>7. F!Measured \in [F!Regs -> F!Word16]
  <2>1. \A r \in F!Regs : (513 + r) % 65536 \in Nat /\ (513 + r) % 65536 < 65536
    BY <1>1 DEF F!Regs
  <2>2. 2 ^ 16 = 65536
    OBVIOUS
  <2> QED
    BY <2>1, <2>2, WordIs DEF F!Measured
<1>8. \/ request.func = 1 /\ F!bus_req_coils_get_many(coils)
      \/ request.func = 2 /\ F!bus_req_coils_get_many(F!Discrete)
      \/ request.func = 3 /\ F!bus_req_regs_get_many(regs)
      \/ request.func = 4 /\ F!bus_req_regs_get_many(F!Measured)
  BY <1>1 DEF F!Reads, F!READ_COILS, F!READ_DISCRETE_INPUTS, F!READ_HOLDING_REGISTERS,
              F!READ_INPUT_REGISTERS
<1>9. regs \in [F!Regs -> F!Word16]
  BY DEF Ready
<1> QED
  BY <1>5, <1>6, <1>7, <1>8, <1>9

\* A single coil or register: there is one cell, and it fits.
LEMMA OneCell ==
  ASSUME Ready, request.func \in {5, 6}
  PROVE  /\ CellsOf(request) = {request.address} /\ request.address \in Nat
         /\ Accepted(request) <=> request.address \in AllOf(request)
<1>1. request.count = 1 /\ request.address \in Nat
  BY Heard
<1>2. CellsOf(request) = {request.address}
  BY <1>1 DEF CellsOf
<1>3. F!FitsIn(request)
  BY DEF F!FitsIn, F!READ_COILS, F!READ_DISCRETE_INPUTS, F!READ_HOLDING_REGISTERS,
         F!READ_INPUT_REGISTERS
<1> QED
  BY <1>1, <1>2, <1>3 DEF Accepted

\* The write of a coil is answered as it was carried out.
LEMMA CoilHandled ==
  ASSUME Ready, before = [coils |-> coils, regs |-> regs], F!WriteSingleCoil
  PROVE  Handled
<1>1. frame[2] = 5
  BY DEF F!WriteSingleCoil, F!WRITE_SINGLE_COIL
<1>2. /\ request.func = 5 /\ F!Address = request.address /\ F!Word = request.values[1]
      /\ request.address \in F!Word16
  BY <1>1, Heard
<1>3. /\ CellsOf(request) = {request.address}
      /\ Accepted(request) <=> request.address \in F!Coils
  BY <1>2, OneCell DEF AllOf
<1>4. regs' = regs /\ before.coils = coils /\ before.regs = regs /\ coils \in SUBSET F!Coils
      /\ regs \in [F!Regs -> F!Word16]
  BY DEF F!WriteSingleCoil, Ready
<1>5. CASE request.address \notin F!Coils
  <2>1. F!Exception(2) /\ coils' = coils
    BY <1>2, <1>5 DEF F!WriteSingleCoil, F!ILLEGAL_DATA_ADDRESS
  <2>2. 2 \in Bytes
    BY DEF Bytes
  <2>3. Response(frame') /\ ~(frame'[2] < 128)
    BY <2>1, <2>2, ExceptionIs
  <2> QED
    BY <1>3, <1>4, <1>5, <2>1, <2>3 DEF Handled, Truth
<1>6. CASE request.address \in F!Coils
  <2> DEFINE said == IF F!Word # 0 THEN 65280 ELSE 0
  <2>1. /\ coils' = IF request.values[1] # 0 THEN coils \cup {request.address}
                    ELSE coils \ {request.address}
        /\ F!Answer(F!pr_be16_na_write(request.address) \o F!pr_be16_na_write(said))
    BY <1>2, <1>6 DEF F!WriteSingleCoil
  <2>2. said \in F!Word16
    BY WordIs
  <2> HIDE DEF said
  <2>3. Response(frame') /\ frame'[2] < 128
    BY <1>2, <2>1, <2>2, Repeated
  <2> QED
    BY <1>2, <1>3, <1>4, <1>6, <2>1, <2>3 DEF Handled, Truth
<1> QED
  BY <1>5, <1>6

\* The write of a register is answered as it was carried out.
LEMMA RegisterHandled ==
  ASSUME Ready, before = [coils |-> coils, regs |-> regs], F!WriteSingleRegister
  PROVE  Handled
<1>1. frame[2] = 6
  BY DEF F!WriteSingleRegister, F!WRITE_SINGLE_REGISTER
<1>2. /\ request.func = 6 /\ F!Address = request.address /\ F!Word = request.values[1]
      /\ request.address \in F!Word16 /\ request.values[1] \in F!Word16
  BY <1>1, Heard
<1>3. /\ CellsOf(request) = {request.address}
      /\ Accepted(request) <=> request.address \in F!Regs
  BY <1>2, OneCell DEF AllOf
<1>4. coils' = coils /\ before.coils = coils /\ before.regs = regs /\ coils \in SUBSET F!Coils
      /\ regs \in [F!Regs -> F!Word16]
  BY DEF F!WriteSingleRegister, Ready
<1>5. CASE request.address \notin F!Regs
  <2>1. F!Exception(2) /\ regs' = regs
    BY <1>2, <1>5 DEF F!WriteSingleRegister, F!ILLEGAL_DATA_ADDRESS
  <2>2. 2 \in Bytes
    BY DEF Bytes
  <2>3. Response(frame') /\ ~(frame'[2] < 128)
    BY <2>1, <2>2, ExceptionIs
  <2> QED
    BY <1>3, <1>4, <1>5, <2>1, <2>3 DEF Handled, Truth
<1>6. CASE request.address \in F!Regs
  <2>1. /\ regs' = [regs EXCEPT ![request.address] = request.values[1]]
        /\ F!Answer(F!pr_be16_na_write(request.address) \o F!pr_be16_na_write(request.values[1]))
    BY <1>2, <1>6 DEF F!WriteSingleRegister
  <2>2. Response(frame') /\ frame'[2] < 128
    BY <1>2, <2>1, Repeated
  <2> QED
    BY <1>2, <1>3, <1>4, <1>6, <2>1, <2>2 DEF Handled, Truth
<1> QED
  BY <1>5, <1>6

\* What is written of several cells, and the answer.
LEMMA SeveralWritten ==
  ASSUME Ready, request.func \in {15, 16}, F!Written(AllOf(request))
  PROVE  /\ Response(frame') /\ (frame'[2] < 128 <=> Accepted(request))
         /\ Accepted(request) <=> ~F!Fails(AllOf(request), request.count)
<1>1. /\ F!Word = request.count /\ F!Address = request.address
      /\ request.address \in F!Word16 /\ request.count \in F!Word16
  BY Heard
<1>2. F!Fails(AllOf(request), request.count) <=> ~(CellsOf(request) \subseteq AllOf(request))
  BY Reaches
<1>3. F!FitsIn(request)
  BY DEF F!FitsIn, F!READ_COILS, F!READ_DISCRETE_INPUTS, F!READ_HOLDING_REGISTERS,
         F!READ_INPUT_REGISTERS
<1>4. Accepted(request) <=> ~F!Fails(AllOf(request), request.count)
  BY <1>2, <1>3 DEF Accepted
<1>5. CASE Accepted(request)
  <2>1. F!Answer(F!pr_be16_na_write(request.address) \o F!pr_be16_na_write(request.count))
    BY <1>1, <1>4, <1>5 DEF F!Written
  <2> QED
    BY <1>1, <1>4, <1>5, <2>1, Repeated
<1>6. CASE ~Accepted(request)
  <2>1. F!Exception(2)
    BY <1>1, <1>4, <1>6 DEF F!Written, F!ILLEGAL_DATA_ADDRESS
  <2>2. 2 \in Bytes
    BY DEF Bytes
  <2> QED
    BY <1>4, <1>6, <2>1, <2>2, ExceptionIs
<1> QED
  BY <1>5, <1>6

\* Registers are written from words one after the other, those that are reached.
LEMMA RegistersHandled ==
  ASSUME Ready, before = [coils |-> coils, regs |-> regs], F!WriteMultipleRegisters
  PROVE  Handled
<1> DEFINE count == request.count
           a == request.address
           reached == F!Reached(F!Regs, count)
<1>1. frame[2] = 16
  BY DEF F!WriteMultipleRegisters, F!WRITE_MULTIPLE_REGISTERS
<1>2. /\ request.func = 16 /\ F!Address = a /\ F!Word = count
      /\ a \in Nat /\ count \in Nat /\ RegCount \in Nat
  BY <1>1, Heard
<1>3. /\ frame \in Seq(Bytes) /\ frame[7] = 2 * count /\ Len(frame) = frame[7] + 9
      /\ \A off \in 0 .. count - 1 : WordOf(frame, 8 + 2 * off) = request.values[off + 1]
  BY <1>2 DEF Ready, Sent
<1>4. /\ request.values \in Seq(F!Word16) /\ Len(request.values) = count
  BY <1>2 DEF Ready, F!FramesAssumption, F!WRITE_MULTIPLE_REGISTERS
<1>5. F!Word = frame[7] \div 2 /\ frame[7] + 9 = Len(frame)
  BY <1>2, <1>3
<1>6. /\ regs' = [r \in F!Regs |-> IF r - a \in reached
                                   THEN F!pr_be16_na_read(F!At(7 + 2 * (r - a))) ELSE regs[r]]
      /\ F!Written(F!Regs) /\ coils' = coils
  BY <1>2, <1>5 DEF F!WriteMultipleRegisters
<1>7. /\ \A off \in reached : off \in 0 .. count - 1 /\ a + off \in F!Regs
      /\ ~F!Fails(F!Regs, count) => reached = 0 .. count - 1
      /\ ~F!Fails(F!Regs, count) => CellsOf(request) \subseteq F!Regs
  BY Reaches
<1> HIDE DEF reached
<1>8. ASSUME NEW off \in 0 .. count - 1
      PROVE  F!pr_be16_na_read(F!At(7 + 2 * off)) = request.values[off + 1]
             /\ request.values[off + 1] \in F!Word16
  <2>1. 7 + 2 * off \in Nat /\ (7 + 2 * off) + 2 <= Len(frame)
        /\ (7 + 2 * off) + 1 = 8 + 2 * off /\ (7 + 2 * off) + 2 = (8 + 2 * off) + 1
        /\ off + 1 \in 1 .. count
    BY <1>2, <1>3
  <2>2. F!pr_be16_na_read(F!At(7 + 2 * off)) = WordOf(frame, 8 + 2 * off)
    BY <1>3, <2>1, WordRead DEF WordOf
  <2>3. request.values[off + 1] \in F!Word16
    BY <1>4, <2>1, ElementOfSeq
  <2> QED
    BY <1>3, <2>2, <2>3
<1>9. before.coils = coils /\ before.regs = regs /\ coils \in SUBSET F!Coils
      /\ regs \in [F!Regs -> F!Word16]
  BY DEF Ready
<1>10. regs' \in [F!Regs -> F!Word16]
  BY <1>6, <1>7, <1>8, <1>9
<1>11. /\ Response(frame') /\ (frame'[2] < 128 <=> Accepted(request))
       /\ Accepted(request) <=> ~F!Fails(F!Regs, count)
  <2>1. AllOf(request) = F!Regs
    BY <1>2 DEF AllOf
  <2> QED
    BY <1>2, <1>6, <2>1, SeveralWritten
<1>12. \A r \in F!Regs \ CellsOf(request) : regs'[r] = before.regs[r]
  <2>1. ASSUME NEW r \in F!Regs, r - a \in reached PROVE r \in CellsOf(request)
    <3>1. r \in Int /\ r = a + (r - a)
      BY <1>2 DEF F!Regs
    <3>2. r - a \in 0 .. count - 1
      BY <1>7, <2>1
    <3> QED
      BY <3>1, <3>2 DEF CellsOf
  <2> QED
    BY <1>6, <1>9, <2>1
<1>13. ASSUME Accepted(request), NEW off \in 0 .. count - 1
       PROVE  regs'[a + off] = request.values[off + 1]
  <2>1. a + off \in F!Regs
    BY <1>7, <1>11, <1>13 DEF CellsOf
  <2>2. (a + off) - a = off
    BY <1>2
  <2>3. off \in reached
    BY <1>7, <1>11, <1>13
  <2> QED
    BY <1>6, <1>8, <2>1, <2>2, <2>3
<1> QED
  BY <1>2, <1>6, <1>9, <1>10, <1>11, <1>12, <1>13 DEF Handled, Truth

\* Coils are written from bits across the ends of bytes.
LEMMA CoilsHandled ==
  ASSUME Ready, before = [coils |-> coils, regs |-> regs], F!WriteMultipleCoils
  PROVE  Handled
<1> DEFINE count == request.count
           a == request.address
           reached == F!Reached(F!Coils, count)
<1>1. frame[2] = 15
  BY DEF F!WriteMultipleCoils, F!WRITE_MULTIPLE_COILS
<1>2. /\ request.func = 15 /\ F!Address = a /\ F!Word = count
      /\ a \in Nat /\ count \in Nat /\ CoilCount \in Nat
  BY <1>1, Heard
<1>3. /\ frame[7] = (count + 7) \div 8 /\ Len(frame) = frame[7] + 9
      /\ \A off \in 0 .. count - 1 :
           off % 8 \in F!Bits(frame[8 + (off \div 8)]) <=> off \in request.on
  BY <1>2 DEF Ready, Sent
<1>4. request.on \subseteq Nat
  BY DEF Ready, F!FramesAssumption
<1>5. /\ coils' = {c \in F!Coils : IF c - a \in reached
                                  THEN (c - a) % 8 \in F!Bits(frame[8 + ((c - a) \div 8)])
                                  ELSE c \in coils}
      /\ F!Written(F!Coils) /\ regs' = regs
  BY <1>2, <1>3 DEF F!WriteMultipleCoils
<1>6. /\ \A off \in reached : off \in 0 .. count - 1 /\ a + off \in F!Coils
      /\ ~F!Fails(F!Coils, count) => reached = 0 .. count - 1
      /\ ~F!Fails(F!Coils, count) => CellsOf(request) \subseteq F!Coils
  BY Reaches
<1> HIDE DEF reached
<1>7. before.coils = coils /\ before.regs = regs /\ coils \in SUBSET F!Coils
      /\ regs \in [F!Regs -> F!Word16]
  BY DEF Ready
<1>8. coils' \in SUBSET F!Coils
  BY <1>5
<1>9. /\ Response(frame') /\ (frame'[2] < 128 <=> Accepted(request))
      /\ Accepted(request) <=> ~F!Fails(F!Coils, count)
  <2>1. AllOf(request) = F!Coils
    BY <1>2 DEF AllOf
  <2> QED
    BY <1>2, <1>5, <2>1, SeveralWritten
<1>10. \A c \in F!Coils : c \notin CellsOf(request) => c - a \notin reached
  <2>1. ASSUME NEW c \in F!Coils, c - a \in reached PROVE c \in CellsOf(request)
    <3>1. c \in Int /\ c = a + (c - a)
      BY <1>2 DEF F!Coils
    <3>2. c - a \in 0 .. count - 1
      BY <1>6, <2>1
    <3> QED
      BY <3>1, <3>2 DEF CellsOf
  <2> QED
    BY <2>1
<1>11. coils' \ CellsOf(request) = before.coils \ CellsOf(request)
  BY <1>5, <1>7, <1>10
<1>12. ASSUME Accepted(request)
       PROVE  coils' \cap CellsOf(request)
                = {a + o : o \in request.on} \cap CellsOf(request)
  <2>1. ASSUME NEW off \in 0 .. count - 1 PROVE a + off \in coils' <=> off \in request.on
    <3>1. a + off \in F!Coils
      BY <1>6, <1>9, <1>12 DEF CellsOf
    <3>2. (a + off) - a = off /\ off \in reached
      BY <1>2, <1>6, <1>9, <1>12
    <3> QED
      BY <1>3, <1>5, <3>1, <3>2
  <2>2. ASSUME NEW off \in 0 .. count - 1
        PROVE  a + off \in {a + o : o \in request.on} <=> off \in request.on
    <3>1. \A o \in request.on : a + o = a + off => o = off
      BY <1>2, <1>4
    <3> QED
      BY <3>1
  <2> QED
    BY <2>1, <2>2 DEF CellsOf
<1> QED
  BY <1>2, <1>5, <1>7, <1>8, <1>9, <1>11, <1>12 DEF Handled, Truth

\* The frame of a request, or of its response, is what its first bytes say.
FramesInv ==
  /\ coils \in SUBSET F!Coils /\ regs \in [F!Regs -> F!Word16]
  /\ turn \in {"client", "server"}
  /\ turn = "server" =>
       /\ request \in Requests /\ Sent(request, frame)
       /\ before = [coils |-> coils, regs |-> regs]
  /\ turn = "client" =>
       \/ request = F!NoRequest /\ frame = << >>
       \/ request \in Requests /\ Response(frame) /\ Truth(request, before, coils, regs, frame)

\* There is no request at first.
LEMMA FramesStart == ASSUME F!FramesAssumption, DevicesInit PROVE FramesInv
<1>1. /\ coils = {} /\ regs = [r \in 0 .. RegCount - 1 |-> 0] /\ request = F!NoRequest
      /\ frame = << >> /\ turn = "client"
  BY DEF DevicesInit, F!Init
<1>2. 0 \in F!Word16
  BY WordIs
<1> QED
  BY <1>1, <1>2 DEF FramesInv, F!Regs

\* Each step of the client and the server keeps it.
LEMMA FramesSteps == ASSUME F!FramesAssumption, FramesInv, [F!Next]_(F!vars) PROVE FramesInv'
<1>1. CASE UNCHANGED F!vars
  BY <1>1 DEF F!vars, FramesInv, F!Coils, F!Regs
<1>2. CASE F!Ask
  <2>1. PICK r \in Requests :
          /\ request' = r
          /\ frame' = F!Closed(<<F!Us, r.func>> \o F!pr_be16_na_write(r.address) \o F!BodyOf(r))
    BY <1>2 DEF F!Ask
  <2>2. Sent(request', frame')
    BY <2>1, RequestSent
  <2>3. /\ turn' = "server" /\ before' = [coils |-> coils, regs |-> regs]
        /\ coils' = coils /\ regs' = regs
    BY <1>2 DEF F!Ask
  <2> QED
    BY <2>1, <2>2, <2>3 DEF FramesInv
<1>3. CASE F!bus_req_handle
  <2>1. /\ turn = "server" /\ turn' = "client" /\ request' = request /\ before' = before
        /\ \/ F!Reads \/ F!WriteSingleCoil \/ F!WriteSingleRegister
           \/ F!WriteMultipleRegisters \/ F!WriteMultipleCoils
    BY <1>3 DEF F!bus_req_handle
  <2>2. Ready /\ before = [coils |-> coils, regs |-> regs] /\ request \in Requests
    BY <2>1 DEF FramesInv, Ready
  <2>3. Handled
    BY <2>1, <2>2, ReadsHandled, CoilHandled, RegisterHandled, RegistersHandled, CoilsHandled
  <2> QED
    BY <2>1, <2>2, <2>3 DEF Handled, FramesInv
<1> QED
  BY <1>1, <1>2, <1>3 DEF F!Next

\* A step of the whole is one of them, or leaves the frames alone.
LEMMA FramesPart == ASSUME [DevicesNext]_all PROVE [F!Next]_(F!vars)
<1>1. F!Next \/ UNCHANGED frames
  BY DEF DevicesNext, all, EepromStep, StripStep, InputStep, ExpanderStep, SpiStep,
         InfoStep, DevIdStep, FramesStep
<1>2. UNCHANGED frames => UNCHANGED F!vars
  BY DEF frames, F!vars
<1> QED
  BY <1>1, <1>2

----------------------------------------------------------------------------
(* What the invariant says of the frames.                                  *)

\* A frame with the right checksum, and a length.
LEMMA FrameIs ==
  ASSUME frame \in Seq(Bytes), Len(frame) <= 256, F!CrcOf(frame) = {}
  PROVE  /\ \A i \in DOMAIN frame : frame[i] \in 0 .. 255
         /\ F!CrcOf(frame) = F!modbus_crc16_check_state
         /\ \A i \in 0 .. 8 * Len(frame) - 1 : F!CrcOf(F!Flipped(i)) # F!modbus_crc16_check_state
<1>1. F!modbus_crc16_check_state = {}
  BY DEF F!modbus_crc16_check_state
<1>2. DOMAIN frame = 1 .. Len(frame) /\ \A i \in 1 .. Len(frame) : frame[i] \in Bytes
  BY LenProperties, ElementOfSeq
<1>3. \A i \in 0 .. 8 * Len(frame) - 1 : F!CrcOf(F!Flipped(i)) # {}
  BY FlipNoticed
<1> QED
  BY <1>1, <1>2, <1>3 DEF Bytes

\* The ends of frames are where they are, and each wrong bit is noticed.
LEMMA FramesFound == ASSUME F!FramesAssumption, FramesInv PROVE F!FramesSound
<1> SUFFICES ASSUME frame # << >>
             PROVE  /\ IF turn = "server" THEN F!Delimited(F!modbus_req_frame_len)
                       ELSE F!Delimited(F!modbus_rsp_frame_len)
                    /\ Len(frame) <= 256 /\ \A i \in DOMAIN frame : frame[i] \in 0 .. 255
                    /\ F!CrcOf(frame) = F!modbus_crc16_check_state
                    /\ \A i \in 0 .. 8 * Len(frame) - 1 :
                         F!CrcOf(F!Flipped(i)) # F!modbus_crc16_check_state
  BY DEF F!FramesSound
<1>1. CASE turn = "server"
  <2>1. request \in Requests /\ Sent(request, frame)
    BY <1>1 DEF FramesInv
  <2>2. /\ frame \in Seq(Bytes) /\ Len(frame) <= 256 /\ F!CrcOf(frame) = {} /\ Len(frame) >= 8
        /\ Len(frame) \in Nat
    BY <2>1, LenProperties DEF Sent
  <2>3. /\ frame[2] \in {1, 2, 3, 4, 5, 6, 15, 16}
        /\ frame[2] \in 1 .. 6 => Len(frame) = 8
        /\ frame[2] \in {15, 16} => Len(frame) = frame[7] + 9
    BY <2>1 DEF Sent, F!FramesAssumption, F!WRITE_MULTIPLE_COILS, F!WRITE_MULTIPLE_REGISTERS
  <2>4. F!Delimited(F!modbus_req_frame_len)
    <3>1. \A size \in 0 .. Len(frame) : F!modbus_req_frame_len(frame, size) \in {0, Len(frame)}
      BY <2>2, <2>3 DEF F!modbus_req_frame_len, F!WRITE_MULTIPLE_COILS,
                        F!WRITE_MULTIPLE_REGISTERS, F!READ_DEVICE_IDENTIFICATION
    <3>2. F!modbus_req_frame_len(frame, Len(frame)) = Len(frame)
      BY <2>2, <2>3 DEF F!modbus_req_frame_len, F!WRITE_MULTIPLE_COILS,
                        F!WRITE_MULTIPLE_REGISTERS, F!READ_DEVICE_IDENTIFICATION
    <3> QED
      BY <3>1, <3>2 DEF F!Delimited
  <2> QED
    BY <1>1, <2>2, <2>4, FrameIs
<1>2. CASE turn # "server"
  <2>1. Response(frame)
    BY <1>2 DEF FramesInv
  <2>2. /\ frame \in Seq(Bytes) /\ Len(frame) <= 256 /\ F!CrcOf(frame) = {} /\ Len(frame) >= 5
        /\ Len(frame) \in Nat
    BY <2>1, LenProperties DEF Response
  <2>3. /\ \/ frame[2] >= 128 /\ Len(frame) = 5
           \/ frame[2] \in 1 .. 4 /\ Len(frame) = frame[3] + 5
           \/ frame[2] \in {5, 6, 15, 16} /\ Len(frame) = 8
        /\ frame[2] \in Nat
    <3>1. 2 \in 1 .. Len(frame)
      BY <2>2
    <3>2. frame[2] \in Bytes
      BY <2>2, <3>1, ElementOfSeq
    <3>3. \A b \in Bytes : b \in Nat
      BY DEF Bytes
    <3> QED
      BY <2>1, <3>2, <3>3 DEF Response
  <2>4. F!Delimited(F!modbus_rsp_frame_len)
    <3>1. \A size \in 0 .. Len(frame) : F!modbus_rsp_frame_len(frame, size) \in {0, Len(frame)}
      BY <2>2, <2>3 DEF F!modbus_rsp_frame_len, F!WRITE_MULTIPLE_COILS,
                        F!WRITE_MULTIPLE_REGISTERS, F!READ_DEVICE_IDENTIFICATION
    <3>2. F!modbus_rsp_frame_len(frame, Len(frame)) = Len(frame)
      BY <2>2, <2>3 DEF F!modbus_rsp_frame_len, F!WRITE_MULTIPLE_COILS,
                        F!WRITE_MULTIPLE_REGISTERS, F!READ_DEVICE_IDENTIFICATION
    <3> QED
      BY <3>1, <3>2 DEF F!Delimited
  <2> QED
    BY <1>2, <2>2, <2>4, FrameIs
<1> QED
  BY <1>1, <1>2

\* A number in four bytes, and back, from either end.
LEMMA EndsOf == ASSUME NEW v \in Nat, v < 4294967296 PROVE F!EndsMeet(v)
<1> DEFINE q1 == v \div 256
           q2 == v \div 65536
           q3 == v \div 16777216
<1>1. 2 ^ 8 = 256 /\ 2 ^ 16 = 65536 /\ 2 ^ 24 = 16777216
  OBVIOUS
<1>2. /\ F!pr_be32_na_write(v) = <<q3 % 256, q2 % 256, q1 % 256, v % 256>>
      /\ F!pr_le32_na_write(v) = <<v % 256, q1 % 256, q2 % 256, q3 % 256>>
      /\ F!pr_be16_na_write(v) = <<q1 % 256, v % 256>>
      /\ F!pr_le16_na_write(v) = <<v % 256, q1 % 256>>
  BY <1>1 DEF F!pr_be32_na_write, F!pr_le32_na_write, F!pr_be16_na_write, F!pr_le16_na_write
<1>3. /\ q1 \in Int /\ q2 \in Int /\ q3 \in Int
  OBVIOUS
<1>4. q1 >= 0 /\ q2 >= 0 /\ q3 >= 0
  OBVIOUS
<1>5. q3 < 256
  OBVIOUS
<1>6. v = q1 * 256 + (v % 256)
  OBVIOUS
<1>7. q1 = q2 * 256 + (q1 % 256)
  OBVIOUS
<1>8. q2 = q3 * 256 + (q2 % 256)
  OBVIOUS
<1>9. v % 65536 = (q1 % 256) * 256 + (v % 256)
  <2>1. v = q2 * 65536 + (v % 65536) /\ v % 65536 \in Int
    OBVIOUS
  <2>2. q1 % 256 \in Int /\ v % 256 \in Int
    OBVIOUS
  <2> HIDE DEF q1, q2, q3
  <2> QED
    BY <1>3, <1>6, <1>7, <2>1, <2>2
<1>10. /\ v % 256 \in Int /\ q1 % 256 \in Int /\ q2 % 256 \in Int /\ q3 % 256 \in Int
  OBVIOUS
<1>11. v % 65536 = v % 2 ^ 16
  BY <1>1
<1> HIDE DEF q1, q2, q3
<1>12. q3 % 256 = q3
  BY <1>3, <1>4, <1>5
<1>13. (q3 % 256) * 16777216 + (q2 % 256) * 65536 + (q1 % 256) * 256 + (v % 256) = v
  BY <1>3, <1>6, <1>7, <1>8, <1>10, <1>12
<1>14. \A a, b, c, d : F!Reverse(<<a, b, c, d>>) = <<d, c, b, a>> /\ F!Reverse(<<a, b>>) = <<b, a>>
  BY DEF F!Reverse
<1>15. /\ F!pr_be32_na_read(F!pr_be32_na_write(v)) = v
       /\ F!pr_le32_na_read(F!pr_le32_na_write(v)) = v
  BY <1>1, <1>2, <1>13 DEF F!pr_be32_na_read, F!pr_le32_na_read
<1>16. /\ F!pr_le32_na_write(v) = F!Reverse(F!pr_be32_na_write(v))
       /\ F!pr_le16_na_write(v) = F!Reverse(F!pr_be16_na_write(v))
  BY <1>2, <1>14
<1>17. /\ F!pr_be16_na_read(F!pr_be16_na_write(v)) = v % 65536
       /\ F!pr_le16_na_read(F!Reverse(F!pr_be16_na_write(v))) = v % 65536
  BY <1>1, <1>2, <1>9, <1>14 DEF F!pr_be16_na_read, F!pr_le16_na_read
<1> QED
  BY <1>11, <1>15, <1>16, <1>17 DEF F!EndsMeet

\* What a client finds in a response is what the application has, and had.
LEMMA ExchangesTrue == ASSUME F!FramesAssumption, FramesInv PROVE F!ExchangeTrue
<1> SUFFICES ASSUME turn = "client", request # F!NoRequest PROVE F!ExchangeTrue
  BY DEF F!ExchangeTrue
<1> DEFINE r == request
           cells == {r.address + off : off \in 0 .. r.count - 1}
           there == IF r.func \in {F!READ_COILS, F!READ_DISCRETE_INPUTS,
                                   F!WRITE_SINGLE_COIL, F!WRITE_MULTIPLE_COILS}
                    THEN F!Coils ELSE F!Regs
<1>1. request \in Requests /\ Response(frame) /\ Truth(request, before, coils, regs, frame)
      /\ regs \in [F!Regs -> F!Word16]
  BY DEF FramesInv
<1>2. cells = CellsOf(r) /\ there = AllOf(r)
  BY DEF CellsOf, AllOf, F!READ_COILS, F!READ_DISCRETE_INPUTS, F!WRITE_SINGLE_COIL,
         F!WRITE_MULTIPLE_COILS
<1>3. r.count \in Nat /\ r.address \in Nat /\ r.address < 65536
      /\ r.func \in {1, 2, 3, 4, 5, 6, 15, 16}
  <2>1. r.count \in F!Word16 /\ r.address \in F!Word16
        /\ r.func \in {1, 2, 3, 4, 5, 6, 15, 16}
    BY <1>1 DEF F!FramesAssumption, F!WRITE_MULTIPLE_COILS, F!WRITE_MULTIPLE_REGISTERS
  <2> QED
    BY <2>1, WordIs
<1>4. (frame[2] < 128) <=> (cells \subseteq there /\ F!FitsIn(r))
  BY <1>1, <1>2 DEF Truth, Accepted
<1>5. /\ coils \ cells = before.coils \ cells
      /\ \A a \in F!Regs \ cells : regs[a] = before.regs[a]
  BY <1>1, <1>2 DEF Truth
<1>6. \A off : F!CoilIn(off) <=> CoilOf(frame, off)
  BY DEF F!CoilIn, CoilOf
<1>7. ASSUME Accepted(r), r.func \in {3, 4}, NEW off \in 0 .. r.count - 1
      PROVE  F!RegIn(off) = WordOf(frame, 4 + 2 * off)
  <2>1. frame \in Seq(Bytes) /\ Len(frame) = 2 * r.count + 5
    BY <1>1, <1>7 DEF Truth, Response
  <2>2. 3 + 2 * off \in Nat /\ (3 + 2 * off) + 2 <= Len(frame)
        /\ (3 + 2 * off) + 1 = 4 + 2 * off /\ (3 + 2 * off) + 2 = (4 + 2 * off) + 1
    BY <1>3, <2>1
  <2> QED
    BY <2>1, <2>2, WordRead DEF F!RegIn, WordOf
<1>8. ASSUME frame[2] < 128
      PROVE  /\ r.func = 1 => \A off \in 0 .. r.count - 1 :
                  F!CoilIn(off) <=> r.address + off \in before.coils
             /\ r.func = 2 => \A off \in 0 .. r.count - 1 :
                  F!CoilIn(off) <=> r.address + off \in F!Discrete
             /\ r.func = 3 => \A off \in 0 .. r.count - 1 :
                  F!RegIn(off) = before.regs[r.address + off]
             /\ r.func = 4 => \A off \in 0 .. r.count - 1 :
                  F!RegIn(off) = F!Measured[r.address + off]
             /\ r.func = 5 => (r.address \in coils <=> r.values[1] # 0)
             /\ r.func = 6 => regs[r.address] = r.values[1]
             /\ r.func = 15 => coils \cap cells = {r.address + o : o \in r.on} \cap cells
             /\ r.func = 16 => \A off \in 0 .. r.count - 1 :
                  regs[r.address + off] = r.values[off + 1]
  <2>1. Accepted(r)
    BY <1>1, <1>8 DEF Truth
  <2> HIDE DEF cells
  <2> QED
    BY <1>1, <1>2, <1>6, <1>7, <2>1 DEF Truth
<1>9. ASSUME NEW a \in DOMAIN regs PROVE F!EndsMeet(regs[a] * 2 ^ 15 + r.address)
  <2>1. regs[a] \in Nat /\ regs[a] < 65536
    BY <1>1, <1>9, WordIs
  <2>2. 2 ^ 15 = 32768
    OBVIOUS
  <2>3. regs[a] * 2 ^ 15 + r.address \in Nat /\ regs[a] * 2 ^ 15 + r.address < 4294967296
    BY <1>3, <2>1, <2>2
  <2> QED
    BY <2>3, EndsOf
<1> HIDE DEF cells, there
<1> QED
  BY <1>4, <1>5, <1>8, <1>9
  DEF F!ExchangeTrue, cells, there, F!READ_COILS, F!READ_DISCRETE_INPUTS, F!READ_HOLDING_REGISTERS,
      F!READ_INPUT_REGISTERS, F!WRITE_SINGLE_COIL, F!WRITE_SINGLE_REGISTER,
      F!WRITE_MULTIPLE_COILS, F!WRITE_MULTIPLE_REGISTERS

----------------------------------------------------------------------------
(* What the checksums compute: the remainder of a division.                *)

\* What a register of that width holds.
Words(width) == SUBSET (0 .. width - 1)

\* One bit: the register moves by one, and low is added if what falls out of it and the
\* bit of the message differ.
Shifted(s, k, message, low, width) ==
  {j \in 0 .. width - 1 : (j + 1 \in s) # (((0 \in s) # (k \in message)) /\ j \in low)}

\* s has the states of the register over n bits.
Register(s, n, message, low, width) ==
  /\ s \in [0 .. n -> Words(width)]
  /\ \A k \in 1 .. n : s[k] = Shifted(s[k - 1], k - 1, message, low, width)

\* The bits of a message, in the order in which they are sent.
Sending(octets) == {k \in 0 .. 8 * Len(octets) - 1 : k % 8 \in octets[1 + (k \div 8)]}

\* The bits of a message are those of its polynomial, the first with the greatest
\* exponent.
LEMMA PolynomialIs ==
  ASSUME NEW octets \in Seq(Octets)
  PROVE  /\ F!MessagePolynomial(octets) \in SUBSET Nat
         /\ \A e \in Int : e \in F!MessagePolynomial(octets)
                             <=> 8 * Len(octets) - 1 - e \in Sending(octets)
<1> DEFINE n == Len(octets)
           p(i, b) == 8 * n - 1 - (8 * (i - 1) + b)
<1>1. n \in Nat /\ DOMAIN octets = 1 .. n /\ \A i \in 1 .. n : octets[i] \subseteq 0 .. 7
  BY LenProperties, ElementOfSeq DEF Octets
<1>2. \A e : e \in F!MessagePolynomial(octets)
              <=> \E i \in DOMAIN octets : \E b \in octets[i] : e = p(i, b)
  BY DEF F!MessagePolynomial
<1> HIDE DEF n
<1>3. ASSUME NEW e \in Int, NEW i \in DOMAIN octets, NEW b \in octets[i], e = p(i, b)
      PROVE  8 * n - 1 - e \in Sending(octets)
  <2> DEFINE k == 8 * (i - 1) + b
  <2>1. i \in 1 .. n /\ b \in 0 .. 7
    BY <1>1, <1>3
  <2>2. \A x \in Nat, y \in 0 .. 7 : (8 * x + y) % 8 = y /\ (8 * x + y) \div 8 = x
    OBVIOUS
  <2>3. i - 1 \in Nat /\ 1 + (i - 1) = i /\ k \in 0 .. 8 * n - 1 /\ 8 * n - 1 - e = k
    <3>1. i - 1 \in Nat /\ i - 1 <= n - 1 /\ 1 + (i - 1) = i /\ b \in 0 .. 7
      BY <1>1, <2>1
    <3>2. k \in 0 .. 8 * n - 1
      BY <1>1, <3>1
    <3>3. \A x, y \in Int : y = x - 1 - k => x - 1 - y = k
      BY <3>2
    <3>4. 8 * n \in Int /\ e = 8 * n - 1 - k
      BY <1>1, <1>3
    <3> HIDE DEF k
    <3> QED
      BY <3>1, <3>2, <3>3, <3>4
  <2>4. k % 8 = b /\ 1 + (k \div 8) = i
    BY <2>1, <2>2, <2>3
  <2> QED
    BY <2>3, <2>4 DEF Sending, n
<1>4. ASSUME NEW e \in Int, 8 * n - 1 - e \in Sending(octets)
      PROVE  \E i \in DOMAIN octets : \E b \in octets[i] : e = p(i, b)
  <2> DEFINE k == 8 * n - 1 - e
  <2>1. k \in 0 .. 8 * n - 1 /\ k % 8 \in octets[1 + (k \div 8)]
    BY <1>4 DEF Sending, n
  <2>2. 1 + (k \div 8) \in 1 .. n /\ e = p(1 + (k \div 8), k % 8)
    BY <1>1, <2>1
  <2> QED
    BY <1>1, <2>1, <2>2
<1>5. ASSUME NEW i \in DOMAIN octets, NEW b \in octets[i] PROVE p(i, b) \in Nat
  <2>1. i \in 1 .. n /\ b \in 0 .. 7
    BY <1>1, <1>5
  <2> QED
    BY <1>1, <2>1
<1> HIDE DEF p
<1>6. F!MessagePolynomial(octets) \in SUBSET Nat
  BY <1>2, <1>5
<1> QED
  BY <1>2, <1>3, <1>4, <1>6 DEF n

\* Where the register is in the polynomial that is left after k bits, and the bits that
\* are not in it yet.
Standing(s, k, e, n, message, width) ==
  (width - 1 - e + n - k \in s)
    # (width <= e /\ e <= width + n - 1 - k /\ width + n - 1 - e \in message)

\* r is the polynomial that is left after k bits.
LeftOver(r, s, k, n, message, width) ==
  \A e \in Nat : e \in r <=> Standing(s, k, e, n, message, width)

\* The divisor, without its first exponent, is low seen from the other end.
Divides(divisor, low, width) ==
  divisor \in SUBSET Nat /\ \A e \in Nat : e \in divisor <=> e = width \/ width - 1 - e \in low

\* A polynomial without the exponent width + d.
Without(r, d, divisor, width) ==
  IF width + d \in r THEN F!SymDiff(r, F!Left(divisor, d)) ELSE r

\* One bit of the register removes one exponent.
LEMMA OneExponent ==
  ASSUME NEW width \in Nat \ {0}, NEW n \in Nat, NEW k \in 0 .. n - 1, NEW message,
         NEW low \in Words(width), NEW s \in Words(width), NEW divisor,
         Divides(divisor, low, width), NEW r \in SUBSET Nat, LeftOver(r, s, k, n, message, width)
  PROVE  LET rest == Without(r, n - (k + 1), divisor, width)
         IN  /\ rest \in SUBSET Nat
             /\ LeftOver(rest, Shifted(s, k, message, low, width), k + 1, n, message, width)
<1> DEFINE d == n - (k + 1)
           top == width + d
           rest == Without(r, d, divisor, width)
           t == Shifted(s, k, message, low, width)
           back == (0 \in s) # (k \in message)
<1>1. d \in Nat /\ top \in Nat /\ width - 1 - top + n - k = 0 /\ width + n - 1 - top = k
      /\ top = width + n - 1 - k
  OBVIOUS
<1>0. /\ rest = IF top \in r THEN F!SymDiff(r, F!Left(divisor, d)) ELSE r
      /\ divisor \in SUBSET Nat /\ \A e \in Nat : e \in divisor <=> e = width \/ width - 1 - e \in low
      /\ \A e \in Nat : e \in r <=> Standing(s, k, e, n, message, width)
  BY DEF Divides, LeftOver, Without
<1>2. top \in r <=> back
  BY <1>0, <1>1 DEF Standing
<1>3. \A e \in Nat : e \in F!Left(divisor, d) <=> e = top \/ width - 1 - (e - d) \in low
  <2>1. \A e \in Nat : e \in F!Left(divisor, d) <=> e - d \in divisor
    <3>1. \A e : e \in F!Left(divisor, d) <=> \E x \in divisor : e = x + d
      BY DEF F!Left
    <3>2. \A e \in Nat, x \in divisor : e = x + d <=> x = e - d
      BY <1>0, <1>1
    <3> QED
      BY <1>0, <3>1, <3>2
  <2>2. \A e \in Nat : e - d \in divisor <=> e - d = width \/ width - 1 - (e - d) \in low
    <3> SUFFICES ASSUME NEW e \in Nat
                 PROVE  e - d \in divisor <=> e - d = width \/ width - 1 - (e - d) \in low
      OBVIOUS
    <3>1. CASE e - d \in Nat
      BY <1>0, <3>1
    <3>2. CASE e - d \notin Nat
      <4>1. e - d \in Int /\ e - d < 0
        BY <1>1, <3>2
      <4>2. width - 1 - (e - d) \notin 0 .. width - 1 /\ e - d # width
        BY <4>1
      <4> QED
        BY <1>0, <3>2, <4>2 DEF Words
    <3> QED
      BY <3>1, <3>2
  <2> QED
    BY <1>1, <2>1, <2>2
<1>4. rest \in SUBSET Nat
  <2>1. \A x \in divisor : x + d \in Nat
    BY <1>0, <1>1
  <2>2. F!Left(divisor, d) \in SUBSET Nat
    BY <2>1 DEF F!Left
  <2> QED
    BY <1>0, <2>2 DEF F!SymDiff
<1>5. \A e \in Nat : e \in rest
        <=> ((e \in r) # (back /\ (e = top \/ width - 1 - (e - d) \in low)))
  BY <1>0, <1>2, <1>3 DEF F!SymDiff
<1>6. \A j : j \in t <=> j \in 0 .. width - 1 /\ ((j + 1 \in s) # (back /\ j \in low))
  BY DEF Shifted
<1> HIDE DEF rest, t, back
<1>7. ASSUME NEW e \in Nat
      PROVE  e \in rest <=> Standing(t, k + 1, e, n, message, width)
  <2> DEFINE j == width - 1 - e + n - (k + 1)
             m == width + n - 1 - e
  <2>1. /\ j \in Int /\ j + 1 = width - 1 - e + n - k /\ width - 1 - (e - d) = j
        /\ (e = top <=> j = -1) /\ m \in Int
        /\ e <= width + n - 1 - k <=> j + 1 >= 0
        /\ e <= width + n - 1 - (k + 1) <=> j >= 0
        /\ s \subseteq 0 .. width - 1 /\ low \subseteq 0 .. width - 1
    BY <1>1 DEF Words
  <2>2. e \in r <=> ((j + 1 \in s) # (width <= e /\ j + 1 >= 0 /\ m \in message))
    BY <1>0, <2>1 DEF Standing
  <2>3. Standing(t, k + 1, e, n, message, width)
          <=> ((j \in t) # (width <= e /\ j >= 0 /\ m \in message))
    BY <2>1 DEF Standing
  <2>4. e \in rest <=> ((e \in r) # (back /\ (j = -1 \/ j \in low)))
    BY <1>5, <2>1
  <2> HIDE DEF j, m
  <2>5. CASE j \in 0 .. width - 1
    BY <1>6, <2>1, <2>2, <2>3, <2>4, <2>5
  <2>6. CASE j > width - 1
    BY <1>6, <2>1, <2>2, <2>3, <2>4, <2>6
  <2>7. CASE j < -1
    BY <1>6, <2>1, <2>2, <2>3, <2>4, <2>7
  <2>8. CASE j = -1
    <3>1. e = top /\ j \notin t /\ ~(j >= 0) /\ j \notin low
      BY <1>6, <2>1, <2>8
    <3> QED
      BY <1>2, <2>3, <2>4, <2>8, <3>1
  <2> QED
    BY <2>1, <2>5, <2>6, <2>7, <2>8
<1> QED
  BY <1>4, <1>7 DEF rest, t, LeftOver

\* The last state of a register is the remainder of the message and its first state.
LEMMA ChecksumIs ==
  ASSUME NEW width \in Nat \ {0}, NEW octets \in Seq(Octets), NEW low \in Words(width),
         NEW divisor, Divides(divisor, low, width), NEW s,
         Register(s, 8 * Len(octets), Sending(octets), low, width)
  PROVE  F!Checksum(s[0], octets, divisor, width) = s[8 * Len(octets)]
<1> DEFINE n == 8 * Len(octets)
           message == Sending(octets)
           p == F!SymDiff(F!Left(F!MessagePolynomial(octets), width),
                          F!Left(F!Mirror(s[0], width), n))
           Fits(k, r) == LeftOver(r, s[k], k, n, message, width)
           IsReduced(f) ==
             f = [k \in 0 .. n |->
                    IF k = 0 THEN p
                    ELSE LET r == f[k - 1]
                             d == n - k
                         IN  IF width + d \in r THEN F!SymDiff(r, F!Left(divisor, d)) ELSE r]
           Less(k, r) == Without(r, n - k, divisor, width)
<1>1. n \in Nat /\ message \subseteq 0 .. n - 1
  BY LenProperties DEF Sending
<1>2. /\ s \in [0 .. n -> Words(width)]
      /\ \A k \in 1 .. n : s[k] = Shifted(s[k - 1], k - 1, message, low, width)
  BY DEF Register
<1>3. p \in SUBSET Nat /\ Fits(0, p)
  <2>1. 0 \in 0 .. n /\ s[0] \in Words(width)
    BY <1>1, <1>2
  <2>2. \A e \in Nat : e \in F!Left(F!Mirror(s[0], width), n) <=> width - 1 - e + n \in s[0]
    <3>1. \A e : e \in F!Left(F!Mirror(s[0], width), n)
                   <=> \E b \in s[0] : e = (width - 1 - b) + n
      BY DEF F!Left, F!Mirror
    <3>2. \A e \in Nat, b \in s[0] : e = (width - 1 - b) + n <=> b = width - 1 - e + n
      <4> SUFFICES ASSUME NEW e \in Nat, NEW b \in s[0]
                   PROVE  e = (width - 1 - b) + n <=> b = width - 1 - e + n
        OBVIOUS
      <4>1. b \in Int
        BY <2>1 DEF Words
      <4> HIDE DEF n
      <4> QED
        BY <1>1, <4>1
    <3> QED
      BY <3>1, <3>2
  <2>3. \A e \in Nat : e \in F!Left(F!MessagePolynomial(octets), width)
          <=> width <= e /\ e <= width + n - 1 /\ width + n - 1 - e \in message
    <3>1. \A e : e \in F!Left(F!MessagePolynomial(octets), width)
                   <=> \E x \in F!MessagePolynomial(octets) : e = x + width
      BY DEF F!Left
    <3>2. \A x \in F!MessagePolynomial(octets) : x \in Int
      BY PolynomialIs
    <3>3. \A x \in Int : x \in F!MessagePolynomial(octets) <=> n - 1 - x \in message
      BY PolynomialIs
    <3>4. ASSUME NEW e \in Nat
          PROVE  e \in F!Left(F!MessagePolynomial(octets), width) <=> width + n - 1 - e \in message
      <4>1. \A x \in Int : e = x + width <=> x = e - width
        OBVIOUS
      <4>2. e - width \in Int /\ n - 1 - (e - width) = width + n - 1 - e
        BY <1>1
      <4>3. e \in F!Left(F!MessagePolynomial(octets), width)
              <=> e - width \in F!MessagePolynomial(octets)
        BY <3>1, <3>2, <4>1, <4>2
      <4> QED
        BY <3>3, <4>2, <4>3
    <3>5. \A e \in Nat : width + n - 1 - e \in message => width <= e /\ e <= width + n - 1
      BY <1>1
    <3> QED
      BY <3>4, <3>5
  <2>4. p \in SUBSET Nat
    <3>1. F!Left(F!MessagePolynomial(octets), width) \in SUBSET Nat
      <4>1. \A x \in F!MessagePolynomial(octets) : x \in Nat
        BY PolynomialIs
      <4>2. \A x \in F!MessagePolynomial(octets) : x + width \in Nat
        BY <4>1
      <4> QED
        BY <4>2 DEF F!Left
    <3>2. F!Left(F!Mirror(s[0], width), n) \in SUBSET Nat
      <4>1. \A b \in s[0] : (width - 1 - b) + n \in Nat
        BY <1>1, <2>1 DEF Words
      <4> QED
        BY <4>1 DEF F!Left, F!Mirror
    <3> QED
      BY <3>1, <3>2 DEF F!SymDiff
  <2>5. \A e : e \in p <=> ((e \in F!Left(F!MessagePolynomial(octets), width))
                              # (e \in F!Left(F!Mirror(s[0], width), n)))
    BY DEF F!SymDiff
  <2> HIDE DEF p, n, message
  <2>6. \A e \in Nat : Standing(s[0], 0, e, n, message, width)
          <=> ((width - 1 - e + n \in s[0])
                # (width <= e /\ e <= width + n - 1 /\ width + n - 1 - e \in message))
    <3>1. \A e \in Nat : width - 1 - e + n - 0 = width - 1 - e + n
                          /\ width + n - 1 - 0 = width + n - 1
      BY <1>1
    <3> QED
      BY <3>1 DEF Standing
  <2> QED
    BY <2>2, <2>3, <2>4, <2>5, <2>6 DEF LeftOver
<1> HIDE DEF p
<1>4. ASSUME NEW k \in 1 .. n, NEW r \in SUBSET Nat
      PROVE  Less(k, r) \in SUBSET Nat /\ (Fits(k - 1, r) => Fits(k, Less(k, r)))
  <2>1. k - 1 \in 0 .. n - 1 /\ (k - 1) + 1 = k /\ k - 1 \in 0 .. n
    BY <1>1
  <2>2. s[k - 1] \in Words(width) /\ s[k] = Shifted(s[k - 1], k - 1, message, low, width)
    BY <1>2, <2>1
  <2>3. Less(k, r) \in SUBSET Nat
    <3>1. n - k \in Nat /\ divisor \in SUBSET Nat
      BY <1>1 DEF Divides
    <3>2. \A x \in divisor : x + (n - k) \in Nat
      BY <3>1
    <3>3. F!Left(divisor, n - k) \in SUBSET Nat
      BY <3>2 DEF F!Left
    <3> QED
      BY <3>3 DEF F!SymDiff, Without
  <2>4. ASSUME Fits(k - 1, r) PROVE Fits(k, Less(k, r))
    <3> DEFINE t == s[k - 1]
               o == k - 1
    <3>1. /\ t \in Words(width) /\ o \in 0 .. n - 1 /\ n \in Nat /\ o + 1 = k
          /\ LeftOver(r, t, o, n, message, width) /\ s[k] = Shifted(t, o, message, low, width)
      BY <1>1, <2>1, <2>2, <2>4
    <3> HIDE DEF t, o, n, message
    <3>2. LeftOver(Without(r, n - (o + 1), divisor, width), Shifted(t, o, message, low, width), o + 1,
                   n, message, width)
      BY <3>1, OneExponent
    <3> QED
      BY <3>1, <3>2
  <2> QED
    BY <2>3, <2>4
<1> DEFINE move == [x \in (1 .. n) \X SUBSET Nat |-> Less(x[1], x[2])]
<1>5. move \in [(1 .. n) \X SUBSET Nat -> SUBSET Nat]
  <2> HIDE DEF Less, Fits
  <2> QED
    BY <1>4
<1>6. PICK f \in [0 .. n -> SUBSET Nat] : Recurses(f, n, p, move)
  <2> HIDE DEF move, n
  <2> QED
    BY <1>1, <1>3, <1>5, RecursionExists
<1>7. \A k \in 1 .. n : f[k] = Less(k, f[k - 1])
  <2>1. \A k \in 1 .. n : k \in 0 .. n /\ k # 0 /\ k - 1 \in 0 .. n
    BY <1>1
  <2>2. \A k \in 1 .. n : <<k, f[k - 1]>> \in (1 .. n) \X SUBSET Nat
    BY <1>6, <2>1
  <2>3. \A k \in 1 .. n : move[<<k, f[k - 1]>>] = Less(k, f[k - 1])
    BY <2>2
  <2> HIDE DEF move, Less
  <2> QED
    BY <1>6, <2>1, <2>3 DEF Recurses
<1>8. IsReduced(f)
  <2>1. f[0] = p
    BY <1>1, <1>6 DEF Recurses
  <2> QED
    BY <1>6, <1>7, <2>1 DEF Without
<1> DEFINE v == CHOOSE g : IsReduced(g)
<1>9. IsReduced(v)
  <2> HIDE DEF IsReduced
  <2> QED
    BY <1>8
<1>10. F!Remainder(p, Len(octets), divisor, width) = v[n]
  BY DEF F!Remainder
<1> HIDE DEF v
<1>11. v[0] = p /\ \A k \in 1 .. n : v[k] = Less(k, v[k - 1])
  BY <1>1, <1>9 DEF Without
<1> DEFINE Good == {k \in Nat : k <= n => v[k] \in SUBSET Nat /\ Fits(k, v[k])}
<1>12. n \in Good
  <2>1. 0 \in Good
    BY <1>3, <1>11
  <2>2. ASSUME NEW k \in Nat, k \in Good PROVE k + 1 \in Good
    <3> SUFFICES ASSUME k + 1 <= n PROVE v[k + 1] \in SUBSET Nat /\ Fits(k + 1, v[k + 1])
      OBVIOUS
    <3>1. k + 1 \in 1 .. n /\ (k + 1) - 1 = k /\ v[k] \in SUBSET Nat /\ Fits(k, v[k])
      BY <1>1, <2>2
    <3>2. v[k + 1] = Less(k + 1, v[k])
      BY <1>11, <3>1
    <3> HIDE DEF Less, Fits
    <3> QED
      BY <1>4, <3>1, <3>2
  <2> HIDE DEF Good
  <2> QED
    BY <1>1, <2>1, <2>2, SetInduction
<1>13. v[n] \in SUBSET Nat /\ Fits(n, v[n])
  BY <1>1, <1>12
<1>14. \A e \in Nat : e \in v[n] <=> width - 1 - e \in s[n]
  <2>1. \A e \in Nat : width - 1 - e + n - n = width - 1 - e
                        /\ ~(width <= e /\ e <= width + n - 1 - n)
    BY <1>1
  <2> HIDE DEF n, message
  <2> QED
    BY <1>13, <2>1 DEF Standing, LeftOver
<1>15. F!Mirror(v[n], width) = s[n]
  <2>1. s[n] \in Words(width) /\ n \in 0 .. n
    BY <1>1, <1>2
  <2>2. \A x : x \in F!Mirror(v[n], width) <=> \E e \in v[n] : x = width - 1 - e
    BY DEF F!Mirror
  <2> HIDE DEF n
  <2>3. ASSUME NEW x \in s[n] PROVE \E e \in v[n] : x = width - 1 - e
    <3>1. x \in 0 .. width - 1
      BY <2>1, <2>3 DEF Words
    <3>2. width - 1 - x \in Nat /\ width - 1 - (width - 1 - x) = x
      BY <3>1
    <3> QED
      BY <1>14, <2>3, <3>2
  <2> QED
    <3>1. ASSUME NEW e \in v[n] PROVE width - 1 - e \in s[n]
      BY <1>13, <1>14
    <3>2. \A x : x \in F!Mirror(v[n], width) <=> x \in s[n]
      BY <2>2, <2>3, <3>1
    <3> QED
      BY <3>2
<1>16. F!Checksum(s[0], octets, divisor, width) = F!Mirror(v[n], width)
  BY <1>10 DEF F!Checksum, p
<1> QED
  BY <1>15, <1>16

\* The polynomials of the two checksums, from both ends.
LEMMA PolynomialsAre ==
  /\ Divides(F!Polynomial16, {0, 13, 15}, 16) /\ {0, 13, 15} \in Words(16)
  /\ Divides(F!Polynomial32, F!Poly32, 32) /\ F!Poly32 \in Words(32)
<1>1. F!Polynomial16 \in SUBSET Nat /\ F!Polynomial32 \in SUBSET Nat
  BY DEF F!Polynomial16, F!Polynomial32
<1>2. \A e \in Nat : e \in F!Polynomial16 <=> e = 16 \/ 16 - 1 - e \in {0, 13, 15}
  BY DEF F!Polynomial16
<1>3. \A e \in Nat : e \in F!Polynomial32 <=> e = 32 \/ 32 - 1 - e \in F!Poly32
  BY DEF F!Polynomial32, F!Poly32
<1>4. {0, 13, 15} \in Words(16) /\ F!Poly32 \in Words(32)
  BY DEF Words, F!Poly32
<1> QED
  BY <1>1, <1>2, <1>3, <1>4 DEF Divides

\* a has the states of the register while the byte goes in that takes it from one to
\* another.
ByteIn(a, from, to, byte, low, width) ==
  Register(a, 8, byte, low, width) /\ a[0] = from /\ a[8] = to

\* Bytes one after the other are their bits one after the other.
LEMMA BitsFollow ==
  ASSUME NEW width \in Nat \ {0}, NEW octets \in Seq(Octets), NEW low,
         NEW u \in [0 .. Len(octets) -> Words(width)],
         \A i \in 1 .. Len(octets) : \E a : ByteIn(a, u[i - 1], u[i], octets[i], low, width)
  PROVE  \E s : /\ Register(s, 8 * Len(octets), Sending(octets), low, width)
                /\ s[0] = u[0] /\ s[8 * Len(octets)] = u[Len(octets)]
<1> DEFINE n == Len(octets)
           by(i) == CHOOSE a : ByteIn(a, u[i - 1], u[i], octets[i], low, width)
           s == [k \in 0 .. 8 * n |-> IF k = 8 * n THEN u[n] ELSE by(1 + (k \div 8))[k % 8]]
<1>1. n \in Nat
  BY LenProperties
<1>2. \A i \in 1 .. n : ByteIn(by(i), u[i - 1], u[i], octets[i], low, width)
  OBVIOUS
<1> HIDE DEF by
<1>3. \A i \in 1 .. n :
        /\ by(i) \in [0 .. 8 -> Words(width)] /\ by(i)[0] = u[i - 1] /\ by(i)[8] = u[i]
        /\ \A k \in 1 .. 8 : by(i)[k] = Shifted(by(i)[k - 1], k - 1, octets[i], low, width)
  BY <1>2 DEF ByteIn, Register
<1> HIDE DEF n
<1>4. \A k \in 0 .. 8 * n : s[k] = IF k = 8 * n THEN u[n] ELSE by(1 + (k \div 8))[k % 8]
  OBVIOUS
<1>5. ASSUME NEW k \in 1 .. 8 * n
      PROVE  LET i == 1 + ((k - 1) \div 8)
                 b == (k - 1) % 8
             IN  /\ i \in 1 .. n /\ b \in 0 .. 7
                 /\ s[k - 1] = by(i)[b] /\ s[k] = by(i)[b + 1]
  <2> DEFINE i == 1 + ((k - 1) \div 8)
             b == (k - 1) % 8
  <2>1. /\ i \in 1 .. n /\ b \in 0 .. 7 /\ k = 8 * (i - 1) + b + 1
        /\ k - 1 \in 0 .. 8 * n /\ k \in 0 .. 8 * n /\ k - 1 # 8 * n
    BY <1>1
  <2>2. s[k - 1] = by(i)[b]
    BY <1>4, <2>1
  <2> SUFFICES s[k] = by(i)[b + 1]
    BY <2>1, <2>2
  <2> HIDE DEF s
  <2>3. CASE b < 7
    <3>1. k % 8 = b + 1 /\ 1 + (k \div 8) = i /\ k # 8 * n
      <4>1. \A x \in Nat, y \in 1 .. 7 : (8 * x + y) % 8 = y /\ (8 * x + y) \div 8 = x
        OBVIOUS
      <4>2. i - 1 \in Nat /\ b + 1 \in 1 .. 7 /\ k = 8 * (i - 1) + (b + 1)
        BY <1>1, <2>1, <2>3
      <4>3. k % 8 = b + 1 /\ k \div 8 = i - 1
        BY <4>1, <4>2
      <4> HIDE DEF i, b
      <4> QED
        BY <1>1, <2>1, <4>2, <4>3
    <3>2. k \in 0 .. 8 * n
      BY <2>1
    <3> HIDE DEF i, b
    <3> QED
      BY <1>4, <3>1, <3>2
  <2>4. CASE b = 7
    <3>1. k = 8 * i
      BY <2>1, <2>4
    <3> HIDE DEF i, b
    <3>2. k % 8 = 0 /\ k \div 8 = i
      <4>1. \A x \in Nat : (8 * x) % 8 = 0 /\ (8 * x) \div 8 = x
        OBVIOUS
      <4>2. i \in Nat
        BY <1>1, <2>1
      <4> QED
        BY <3>1, <4>1, <4>2
    <3>3. CASE i = n
      <4>1. s[k] = u[n] /\ by(i)[8] = u[i]
        BY <1>3, <1>4, <2>1, <3>1, <3>3
      <4> QED
        BY <2>4, <3>3, <4>1
    <3>4. CASE i # n
      <4>1. 1 + i \in 1 .. n /\ (1 + i) - 1 = i /\ k # 8 * n
        BY <1>1, <2>1, <3>1, <3>4
      <4>2. s[k] = by(1 + i)[0]
        BY <1>4, <2>1, <3>2, <4>1
      <4>3. by(1 + i)[0] = u[i] /\ by(i)[8] = u[i]
        BY <1>3, <2>1, <4>1
      <4> QED
        BY <2>1, <2>2, <2>4, <4>2, <4>3
    <3> QED
      BY <3>3, <3>4
  <2> QED
    BY <2>1, <2>3, <2>4
<1>6. s[0] = u[0] /\ s[8 * n] = u[n]
  <2>1. 0 \in 0 .. 8 * n /\ 8 * n \in 0 .. 8 * n /\ (n = 0 <=> 8 * n = 0)
    BY <1>1
  <2>2. n # 0 => by(1)[0] = u[0]
    <3>1. n # 0 => 1 \in 1 .. n /\ 1 - 1 = 0
      BY <1>1
    <3> QED
      BY <1>3, <3>1
  <2>3. 1 + (0 \div 8) = 1 /\ 0 % 8 = 0
    OBVIOUS
  <2> HIDE DEF s
  <2> QED
    BY <1>4, <2>1, <2>2, <2>3
<1>7. ASSUME NEW k \in 1 .. 8 * n
      PROVE  s[k] \in Words(width) /\ s[k] = Shifted(s[k - 1], k - 1, Sending(octets), low, width)
  <2> DEFINE i == 1 + ((k - 1) \div 8)
             b == (k - 1) % 8
  <2>1. /\ i \in 1 .. n /\ b \in 0 .. 7 /\ s[k - 1] = by(i)[b] /\ s[k] = by(i)[b + 1]
    BY <1>5
  <2>2. k - 1 \in Sending(octets) <=> b \in octets[i]
    <3>1. k - 1 \in 0 .. 8 * n - 1
      BY <1>1
    <3> QED
      BY <3>1 DEF Sending, n
  <2> HIDE DEF s, i, b
  <2>3. b + 1 \in 1 .. 8 /\ (b + 1) - 1 = b
    BY <2>1
  <2>4. by(i)[b + 1] = Shifted(by(i)[b], b, octets[i], low, width) /\ by(i)[b + 1] \in Words(width)
    BY <1>3, <2>1, <2>3
  <2> QED
    BY <2>1, <2>2, <2>4 DEF Shifted
<1>8. s \in [0 .. 8 * n -> Words(width)]
  <2>1. s = [k \in 0 .. 8 * n |-> s[k]]
    OBVIOUS
  <2>2. u[0] \in Words(width)
    BY <1>1 DEF n
  <2>3. \A k \in 0 .. 8 * n : k = 0 \/ k \in 1 .. 8 * n
    BY <1>1
  <2>4. \A k \in 0 .. 8 * n : s[k] \in Words(width)
    BY <1>6, <1>7, <2>2, <2>3
  <2> HIDE DEF s
  <2> QED
    BY <2>1, <2>4
<1>9. Register(s, 8 * n, Sending(octets), low, width)
  BY <1>7, <1>8 DEF Register
<1> HIDE DEF s
<1> QED
  BY <1>6, <1>9 DEF n

\* The checksum of Modbus, of any data.
LEMMA Checksum16 ==
  ASSUME NEW octets \in Seq(Octets)
  PROVE  F!modbus_crc16_update(F!modbus_crc16_init, octets)
           = F!Checksum(F!modbus_crc16_init, octets, F!Polynomial16, 16)
<1> DEFINE n == Len(octets)
           low == {0, 13, 15}
<1>1. PICK u : Runs(u, octets) /\ F!modbus_crc16_update(F!modbus_crc16_init, octets) = u[n]
  BY UpdateIs
<1>2. n \in Nat /\ \A i \in 1 .. n : octets[i] \in Octets
  BY LenProperties, ElementOfSeq
<1>3. /\ u \in [0 .. n -> Words(16)] /\ u[0] = F!modbus_crc16_init
      /\ \A i \in 1 .. n : u[i] = F!Insert(u[i - 1], octets[i])
  BY <1>1 DEF Runs, States, Words
<1>4. ASSUME NEW i \in 1 .. n PROVE \E a : ByteIn(a, u[i - 1], u[i], octets[i], low, 16)
  <2>1. u[i - 1] \in States /\ octets[i] \in Octets /\ States = Words(16)
    <3>1. i - 1 \in 0 .. n /\ 16 - 1 = 15
      BY <1>2
    <3>2. States = Words(16)
      BY <3>1 DEF States, Words
    <3> QED
      BY <1>2, <1>3, <3>1, <3>2
  <2>2. PICK a : Shifts(a, u[i - 1], octets[i]) /\ u[i] = a[8]
    BY <1>3, <2>1, InsertIs
  <2>3. ASSUME NEW k \in 1 .. 8 PROVE a[k] = Shifted(a[k - 1], k - 1, octets[i], low, 16)
    <3> DEFINE t == a[k - 1]
               x == F!Right(octets[i], k - 1) \cap {0}
    <3>1. t \in States /\ a[k] = F!modbus_crc16_insert1(t, x)
      <4>1. k - 1 \in 0 .. 8
        OBVIOUS
      <4> QED
        BY <2>2, <4>1 DEF Shifts
    <3>2. x # {} <=> k - 1 \in octets[i]
      <4>1. \A b \in octets[i] : b \in Int
        BY <2>1 DEF Octets
      <4>2. 0 \in F!Right(octets[i], k - 1) <=> \E b \in octets[i] : b >= k - 1 /\ 0 = b - (k - 1)
        BY DEF F!Right
      <4> QED
        BY <4>1, <4>2
    <3> HIDE DEF t, x
    <3>3. /\ F!modbus_crc16_insert1(t, x) \in States
          /\ \A j \in 0 .. 15 :
               j \in F!modbus_crc16_insert1(t, x)
                 <=> ((j + 1 \in t) # (((0 \in t) # (x # {})) /\ j \in {0, 13, 15}))
      BY <3>1, Insert1Bits
    <3>4. \A j : j \in Shifted(t, k - 1, octets[i], low, 16)
            <=> j \in 0 .. 15
                  /\ ((j + 1 \in t) # (((0 \in t) # (k - 1 \in octets[i])) /\ j \in {0, 13, 15}))
      BY DEF Shifted
    <3>5. F!modbus_crc16_insert1(t, x) = Shifted(t, k - 1, octets[i], low, 16)
      <4> DEFINE y == F!modbus_crc16_insert1(t, x)
                 z == Shifted(t, k - 1, octets[i], low, 16)
      <4>1. y \subseteq 0 .. 15 /\ z \subseteq 0 .. 15
        BY <3>3, <3>4 DEF States
      <4>2. \A j \in 0 .. 15 : j \in y <=> j \in z
        <5> SUFFICES ASSUME NEW j \in 0 .. 15 PROVE j \in y <=> j \in z
          OBVIOUS
        <5>1. j \in y <=> ((j + 1 \in t) # (((0 \in t) # (x # {})) /\ j \in {0, 13, 15}))
          BY <3>3
        <5>2. j \in z
                <=> ((j + 1 \in t) # (((0 \in t) # (k - 1 \in octets[i])) /\ j \in {0, 13, 15}))
          BY <3>4
        <5> HIDE DEF y, z
        <5> QED
          BY <3>2, <5>1, <5>2
      <4> HIDE DEF y, z
      <4>3. y = z
        BY <4>1, <4>2
      <4> QED
        BY <4>3 DEF y, z
    <3> QED
      BY <3>1, <3>5 DEF t
  <2> QED
    BY <2>1, <2>2, <2>3 DEF ByteIn, Register, Shifts
<1>5. PICK s : /\ Register(s, 8 * n, Sending(octets), low, 16)
               /\ s[0] = u[0] /\ s[8 * n] = u[n]
  <2> HIDE DEF low
  <2> QED
    BY <1>3, <1>4, BitsFollow
<1>6. F!Checksum(s[0], octets, F!Polynomial16, 16) = s[8 * n]
  BY <1>5, PolynomialsAre, ChecksumIs
<1> QED
  BY <1>1, <1>3, <1>5, <1>6

\* That of the CRC-32.
Words32 == Words(32)

\* One bit of the CRC-32, with the bit k of a message, or none.
Step32(s, k, message) == Shifted(s, k, message, F!Poly32, 32)

\* Its bits.
LEMMA Step32Bits ==
  ASSUME NEW s, NEW k, NEW message
  PROVE  /\ Step32(s, k, message) \in Words32
         /\ \A j \in 0 .. 31 : j \in Step32(s, k, message)
              <=> ((j + 1 \in s) # (((0 \in s) # (k \in message)) /\ j \in F!Poly32))
<1>1. 32 - 1 = 31
  OBVIOUS
<1> QED
  BY <1>1 DEF Step32, Shifted, Words32, Words

\* An odd number of four things.
LEMMA OddOfFour ==
  ASSUME NEW A \in SUBSET (0 .. 3)
  PROVE  Cardinality(A) % 2 = 1
           <=> ((0 \in A) # ((1 \in A) # ((2 \in A) # (3 \in A))))
<1> DEFINE upto(n) == A \cap (0 .. n)
           one(n) == IF n \in A THEN 1 ELSE 0
<1>1. ASSUME NEW n \in Nat, IsFiniteSet(upto(n))
      PROVE  /\ IsFiniteSet(upto(n + 1))
             /\ Cardinality(upto(n + 1)) = Cardinality(upto(n)) + one(n + 1)
  <2>1. n + 1 \notin upto(n)
    OBVIOUS
  <2>2. CASE n + 1 \in A
    <3>1. upto(n + 1) = upto(n) \cup {n + 1}
      BY <2>2
    <3> HIDE DEF upto
    <3> QED
      BY <1>1, <2>1, <2>2, <3>1, FS_AddElement
  <2>3. CASE n + 1 \notin A
    <3>1. upto(n + 1) = upto(n)
      BY <2>3
    <3>2. Cardinality(upto(n)) \in Nat
      <4> HIDE DEF upto
      <4> QED
        BY <1>1, FS_CardinalityType
    <3> HIDE DEF upto
    <3> QED
      BY <1>1, <2>3, <3>1, <3>2
  <2> QED
    BY <2>2, <2>3
<1>2. IsFiniteSet(upto(0)) /\ Cardinality(upto(0)) = one(0)
  <2>1. CASE 0 \in A
    <3>1. upto(0) = {0}
      BY <2>1
    <3> QED
      BY <2>1, <3>1, FS_Singleton
  <2>2. CASE 0 \notin A
    <3>1. upto(0) = {}
      BY <2>2
    <3> QED
      BY <2>2, <3>1, FS_EmptySet
  <2> QED
    BY <2>1, <2>2
<1>3. upto(3) = A
  OBVIOUS
<1> HIDE DEF upto, one
<1>4. /\ IsFiniteSet(upto(1)) /\ Cardinality(upto(1)) = Cardinality(upto(0)) + one(1)
  <2>1. 0 \in Nat /\ 0 + 1 = 1
    OBVIOUS
  <2> QED
    BY <1>1, <1>2, <2>1
<1>5. /\ IsFiniteSet(upto(2)) /\ Cardinality(upto(2)) = Cardinality(upto(1)) + one(2)
  <2>1. 1 \in Nat /\ 1 + 1 = 2
    OBVIOUS
  <2> QED
    BY <1>1, <1>4, <2>1
<1>6. /\ IsFiniteSet(upto(3)) /\ Cardinality(upto(3)) = Cardinality(upto(2)) + one(3)
  <2>1. 2 \in Nat /\ 2 + 1 = 3
    OBVIOUS
  <2> QED
    BY <1>1, <1>5, <2>1
<1>7. Cardinality(A) = one(0) + one(1) + one(2) + one(3)
  BY <1>2, <1>3, <1>4, <1>5, <1>6
<1> QED
  BY <1>7 DEF one

\* Four bits at once, by the table.
LEMMA NibbleIs ==
  ASSUME NEW s \in Words32
  PROVE  F!Nibble(s) = Step32(Step32(Step32(Step32(s, 0, {}), 0, {}), 0, {}), 0, {})
<1> DEFINE a == Step32(s, 0, {})
           b == Step32(a, 0, {})
           c == Step32(b, 0, {})
           d == Step32(c, 0, {})
           Tap(x) == x \in F!Poly32
           odd(x) == {sh \in s \cap (0 .. 3) : x \in F!Right(F!Poly32, 3 - sh)}
<1>1. a \in Words32 /\ \A j \in 0 .. 31 : j \in a <=> ((j + 1 \in s) # (0 \in s /\ Tap(j)))
  BY Step32Bits
<1> HIDE DEF a
<1>2. b \in Words32 /\ \A j \in 0 .. 31 : j \in b <=> ((j + 1 \in a) # (0 \in a /\ Tap(j)))
  BY Step32Bits
<1> HIDE DEF b
<1>3. c \in Words32 /\ \A j \in 0 .. 31 : j \in c <=> ((j + 1 \in b) # (0 \in b /\ Tap(j)))
  BY Step32Bits
<1> HIDE DEF c
<1>4. d \in Words32 /\ \A j \in 0 .. 31 : j \in d <=> ((j + 1 \in c) # (0 \in c /\ Tap(j)))
  BY Step32Bits
<1> HIDE DEF d
<1>5. ~Tap(0) /\ ~Tap(1) /\ ~Tap(2) /\ ~Tap(3) /\ \A j \in Int : Tap(j) => j \in 0 .. 31
  BY DEF F!Poly32
<1>6. Words32 = SUBSET (0 .. 31)
  <2>1. 32 - 1 = 31
    OBVIOUS
  <2> QED
    BY <2>1 DEF Words32, Words
<1>7. \A j \in Int : Tap(j) => j \in 0 .. 31
  BY <1>5
<1> HIDE DEF Tap
<1>8. \A j \in 0 .. 34 : j \in a <=> ((j + 1 \in s) # (0 \in s /\ Tap(j)))
  BY <1>1, <1>6, <1>7
<1>9. \A j \in 0 .. 33 : j \in b <=> ((j + 1 \in a) # (0 \in a /\ Tap(j)))
  BY <1>1, <1>2, <1>6, <1>7
<1>10. \A j \in 0 .. 32 : j \in c <=> ((j + 1 \in b) # (0 \in b /\ Tap(j)))
  BY <1>2, <1>3, <1>6, <1>7
<1>11. /\ 0 \in a <=> 1 \in s
       /\ 0 \in b <=> 2 \in s
       /\ 0 \in c <=> 3 \in s
  <2>1. (0 \in a <=> 1 \in s) /\ (1 \in a <=> 2 \in s) /\ (2 \in a <=> 3 \in s)
    BY <1>5, <1>8
  <2>2. (0 \in b <=> 1 \in a) /\ (1 \in b <=> 2 \in a)
    BY <1>5, <1>9
  <2>3. 0 \in c <=> 1 \in b
    BY <1>5, <1>10
  <2> QED
    BY <2>1, <2>2, <2>3
<1>12. ASSUME NEW j \in 0 .. 31
       PROVE  j \in d <=> ((j + 4 \in s)
                # ((0 \in s /\ Tap(j + 3)) # ((1 \in s /\ Tap(j + 2))
                     # ((2 \in s /\ Tap(j + 1)) # (3 \in s /\ Tap(j))))))
  <2>1. /\ j + 1 \in 0 .. 32 /\ j + 2 \in 0 .. 33 /\ j + 3 \in 0 .. 34
        /\ (j + 1) + 1 = j + 2 /\ (j + 2) + 1 = j + 3 /\ (j + 3) + 1 = j + 4
    OBVIOUS
  <2>2. j \in d <=> ((j + 1 \in c) # (3 \in s /\ Tap(j)))
    BY <1>4, <1>11
  <2>3. j + 1 \in c <=> ((j + 2 \in b) # (2 \in s /\ Tap(j + 1)))
    BY <1>10, <1>11, <2>1
  <2>4. j + 2 \in b <=> ((j + 3 \in a) # (1 \in s /\ Tap(j + 2)))
    BY <1>9, <1>11, <2>1
  <2>5. j + 3 \in a <=> ((j + 4 \in s) # (0 \in s /\ Tap(j + 3)))
    BY <1>8, <2>1
  <2> QED
    BY <2>2, <2>3, <2>4, <2>5
<1>13. ASSUME NEW j \in 0 .. 31
       PROVE  j \in F!Nibble(s) <=> ((j + 4 \in s)
                # ((0 \in s /\ Tap(j + 3)) # ((1 \in s /\ Tap(j + 2))
                     # ((2 \in s /\ Tap(j + 1)) # (3 \in s /\ Tap(j))))))
  <2>1. j \in F!Right(s, 4) <=> j + 4 \in s
    <3>1. \A x \in s : x \in Int
      BY <1>6
    <3>2. j \in F!Right(s, 4) <=> \E x \in s : x >= 4 /\ j = x - 4
      BY DEF F!Right
    <3> QED
      BY <3>1, <3>2
  <2>2. j \in F!T(s \cap (0 .. 3)) <=> Cardinality(odd(j)) % 2 = 1
    <3>1. F!T(s \cap (0 .. 3)) = {x \in 0 .. 31 : Cardinality(odd(x)) % 2 = 1}
      BY DEF F!T, F!Cardinality, Cardinality, F!IsFiniteSet, IsFiniteSet
    <3> HIDE DEF odd
    <3> QED
      BY <3>1
  <2>3. \A sh \in 0 .. 3 : sh \in odd(j) <=> sh \in s /\ Tap(j + (3 - sh))
    <3>1. ASSUME NEW sh \in 0 .. 3
          PROVE  j \in F!Right(F!Poly32, 3 - sh) <=> Tap(j + (3 - sh))
      <4>1. \A x \in F!Poly32 : x \in Int
        BY DEF F!Poly32
      <4>2. j \in F!Right(F!Poly32, 3 - sh) <=> \E x \in F!Poly32 : x >= 3 - sh /\ j = x - (3 - sh)
        BY DEF F!Right
      <4> QED
        BY <4>1, <4>2 DEF Tap
    <3> QED
      BY <3>1
  <2>4. odd(j) \in SUBSET (0 .. 3)
    OBVIOUS
  <2> HIDE DEF odd
  <2>5. Cardinality(odd(j)) % 2 = 1
          <=> ((0 \in odd(j)) # ((1 \in odd(j)) # ((2 \in odd(j)) # (3 \in odd(j)))))
    BY <2>4, OddOfFour
  <2>6. /\ 0 \in odd(j) <=> 0 \in s /\ Tap(j + 3)
        /\ 1 \in odd(j) <=> 1 \in s /\ Tap(j + 2)
        /\ 2 \in odd(j) <=> 2 \in s /\ Tap(j + 1)
        /\ 3 \in odd(j) <=> 3 \in s /\ Tap(j)
    <3>1. j + (3 - 0) = j + 3 /\ j + (3 - 1) = j + 2 /\ j + (3 - 2) = j + 1 /\ j + (3 - 3) = j
      OBVIOUS
    <3> QED
      BY <2>3, <3>1
  <2>7. j \in F!Nibble(s) <=> ((j \in F!Right(s, 4)) # (j \in F!T(s \cap (0 .. 3))))
    BY DEF F!Nibble, F!SymDiff
  <2> QED
    BY <2>1, <2>2, <2>5, <2>6, <2>7
<1>14. F!Nibble(s) \subseteq 0 .. 31
  <2>1. F!Right(s, 4) \subseteq 0 .. 31
    BY <1>6 DEF F!Right
  <2>2. F!T(s \cap (0 .. 3)) \subseteq 0 .. 31
    BY DEF F!T
  <2> QED
    BY <2>1, <2>2 DEF F!Nibble, F!SymDiff
<1>15. \A j \in 0 .. 31 : j \in F!Nibble(s) <=> j \in d
  BY <1>12, <1>13
<1>16. F!Nibble(s) = d
  BY <1>4, <1>6, <1>14, <1>15
<1> QED
  BY <1>16 DEF a, b, c, d

\* A state with the bits of a byte that have still to go in.
Apart(s, k, byte) == {j \in 0 .. 31 : (j \in s) # (j + k \in byte)}

\* The bits of a byte may be added at once, or one after the other.
LEMMA ApartStep ==
  ASSUME NEW s \in Words32, NEW byte \in Octets, NEW k \in 0 .. 7
  PROVE  /\ Apart(s, k, byte) \in Words32
         /\ Step32(Apart(s, k, byte), 0, {}) = Apart(Step32(s, k, byte), k + 1, byte)
<1> DEFINE e == Apart(s, k, byte)
           t == Step32(s, k, byte)
<1>1. Words32 = SUBSET (0 .. 31)
  <2>1. 32 - 1 = 31
    OBVIOUS
  <2> QED
    BY <2>1 DEF Words32, Words
<1>2. \A j : j \in e <=> j \in 0 .. 31 /\ ((j \in s) # (j + k \in byte))
  BY DEF Apart
<1>3. \A j : j \in Apart(t, k + 1, byte) <=> j \in 0 .. 31 /\ ((j \in t) # (j + (k + 1) \in byte))
  BY DEF Apart
<1>4. Step32(e, 0, {}) \in Words32 /\ \A j \in 0 .. 31 : j \in Step32(e, 0, {})
         <=> ((j + 1 \in e) # (((0 \in e) # (0 \in {})) /\ j \in F!Poly32))
  BY Step32Bits
<1>5. \A j \in 0 .. 31 : j \in t
         <=> ((j + 1 \in s) # (((0 \in s) # (k \in byte)) /\ j \in F!Poly32))
  BY Step32Bits
<1> HIDE DEF e, t
<1>6. 0 \in e <=> ((0 \in s) # (k \in byte))
  <2>1. 0 \in 0 .. 31 /\ 0 + k = k
    OBVIOUS
  <2> QED
    BY <1>2, <2>1
<1>7. ASSUME NEW j \in 0 .. 31
      PROVE  j \in Step32(e, 0, {}) <=> j \in Apart(t, k + 1, byte)
  <2>1. j + 1 \in e <=> ((j + 1 \in s) # (j + (k + 1) \in byte))
    <3>1. (j + 1) + k = j + (k + 1)
      OBVIOUS
    <3>2. CASE j = 31
      <4>1. j + 1 \notin 0 .. 31 /\ j + (k + 1) \notin 0 .. 7
        BY <3>2
      <4> QED
        BY <1>1, <1>2, <4>1 DEF Octets
    <3>3. CASE j # 31
      <4>1. j + 1 \in 0 .. 31
        BY <3>3
      <4> QED
        BY <1>2, <3>1, <4>1
    <3> QED
      BY <3>2, <3>3
  <2>2. j \in Step32(e, 0, {}) <=> ((j + 1 \in e) # ((0 \in e) /\ j \in F!Poly32))
    BY <1>4
  <2>3. j \in t <=> ((j + 1 \in s) # (((0 \in s) # (k \in byte)) /\ j \in F!Poly32))
    BY <1>5
  <2>4. j \in Apart(t, k + 1, byte) <=> ((j \in t) # (j + (k + 1) \in byte))
    BY <1>3
  <2> QED
    BY <1>6, <2>1, <2>2, <2>3, <2>4
<1>8. e \in Words32
  BY <1>1, <1>2
<1>9. Step32(e, 0, {}) = Apart(t, k + 1, byte)
  <2>1. Step32(e, 0, {}) \subseteq 0 .. 31 /\ Apart(t, k + 1, byte) \subseteq 0 .. 31
    BY <1>1, <1>3, <1>4
  <2> QED
    BY <1>7, <2>1
<1> QED
  BY <1>8, <1>9 DEF e, t

\* A byte of the CRC-32.
Byte32(s, byte) == F!Nibble(F!Nibble(F!SymDiff(s, byte)))

\* It is the byte's bits one after the other.
LEMMA Byte32Is ==
  ASSUME NEW c \in Words32, NEW byte \in Octets
  PROVE  /\ Byte32(c, byte) \in Words32
         /\ \E a : ByteIn(a, c, Byte32(c, byte), byte, F!Poly32, 32)
<1> DEFINE move == [x \in (1 .. 8) \X Words32 |-> Step32(x[2], x[1] - 1, byte)]
<1>1. move \in [(1 .. 8) \X Words32 -> Words32]
  <2>1. \A s, k : Step32(s, k, byte) \in Words32
    BY Step32Bits
  <2> QED
    BY <2>1
<1>2. PICK a \in [0 .. 8 -> Words32] : Recurses(a, 8, c, move)
  <2> HIDE DEF move
  <2> QED
    BY <1>1, RecursionExists
<1>3. a[0] = c /\ \A k \in 1 .. 8 : a[k] = Step32(a[k - 1], k - 1, byte)
  <2>1. \A k \in 1 .. 8 : <<k, a[k - 1]>> \in (1 .. 8) \X Words32
    BY <1>2
  <2>2. \A k \in 1 .. 8 : move[<<k, a[k - 1]>>] = Step32(a[k - 1], k - 1, byte)
    BY <2>1
  <2> HIDE DEF move
  <2> QED
    BY <1>2, <2>2 DEF Recurses
<1>4. Register(a, 8, byte, F!Poly32, 32)
  BY <1>2, <1>3 DEF Register, Step32, Words32
<1> DEFINE e(k) == Apart(a[k], k, byte)
<1>5. \A k \in 0 .. 7 : e(k) \in Words32 /\ Step32(e(k), 0, {}) = e(k + 1)
  <2> SUFFICES ASSUME NEW k \in 0 .. 7
               PROVE  e(k) \in Words32 /\ Step32(e(k), 0, {}) = e(k + 1)
    OBVIOUS
  <2>1. a[k] \in Words32 /\ a[k + 1] = Step32(a[k], k, byte)
    <3>1. k \in 0 .. 8 /\ k + 1 \in 1 .. 8 /\ (k + 1) - 1 = k
      OBVIOUS
    <3> QED
      BY <1>2, <1>3, <3>1
  <2> QED
    BY <2>1, ApartStep
<1>6. F!SymDiff(c, byte) = e(0)
  <2>1. c \subseteq 0 .. 31 /\ byte \subseteq 0 .. 31
    BY DEF Words32, Words, Octets
  <2>2. \A j : j \in F!SymDiff(c, byte) <=> ((j \in c) # (j \in byte))
    BY DEF F!SymDiff
  <2>3. \A j : j \in e(0) <=> j \in 0 .. 31 /\ ((j \in c) # (j \in byte))
    <3>1. \A j \in 0 .. 31 : j + 0 = j
      OBVIOUS
    <3>2. \A j : j \in e(0) <=> j \in 0 .. 31 /\ ((j \in c) # (j + 0 \in byte))
      BY <1>3 DEF Apart
    <3> HIDE DEF e
    <3> QED
      BY <3>1, <3>2
  <2>4. \A j : j \in c \/ j \in byte => j \in 0 .. 31
    BY <2>1
  <2> HIDE DEF e
  <2>5. \A j : j \in F!SymDiff(c, byte) <=> j \in e(0)
    BY <2>2, <2>3, <2>4
  <2> QED
    BY <2>5
<1>7. e(8) = a[8]
  <2>1. a[8] \subseteq 0 .. 31 /\ \A j \in 0 .. 31 : j + 8 \notin byte
    BY <1>2 DEF Words32, Words, Octets
  <2> QED
    BY <2>1 DEF Apart
<1> HIDE DEF e
<1>8. F!Nibble(e(0)) = e(4)
  <2>1. /\ e(0) \in Words32 /\ Step32(e(0), 0, {}) = e(1) /\ Step32(e(1), 0, {}) = e(2)
        /\ Step32(e(2), 0, {}) = e(3) /\ Step32(e(3), 0, {}) = e(4)
    <3>1. 0 + 1 = 1 /\ 1 + 1 = 2 /\ 2 + 1 = 3 /\ 3 + 1 = 4
      OBVIOUS
    <3> QED
      BY <1>5, <3>1
  <2> QED
    BY <2>1, NibbleIs
<1>9. F!Nibble(e(4)) = e(8)
  <2>1. /\ e(4) \in Words32 /\ Step32(e(4), 0, {}) = e(5) /\ Step32(e(5), 0, {}) = e(6)
        /\ Step32(e(6), 0, {}) = e(7) /\ Step32(e(7), 0, {}) = e(8)
    <3>1. 4 + 1 = 5 /\ 5 + 1 = 6 /\ 6 + 1 = 7 /\ 7 + 1 = 8
      OBVIOUS
    <3> QED
      BY <1>5, <3>1
  <2> QED
    BY <2>1, NibbleIs
<1>10. Byte32(c, byte) = a[8] /\ a[8] \in Words32
  BY <1>2, <1>6, <1>7, <1>8, <1>9 DEF Byte32
<1> QED
  BY <1>3, <1>4, <1>10 DEF ByteIn

\* u has the states of the CRC-32 over octets.
Runs32(u, octets, start) ==
  /\ u \in [0 .. Len(octets) -> Words32] /\ u[0] = start
  /\ \A n \in 1 .. Len(octets) : u[n] = Byte32(u[n - 1], octets[n])

\* There are such states.
LEMMA Runs32Exists ==
  ASSUME NEW octets \in Seq(Octets), NEW start \in Words32
  PROVE  \E u : Runs32(u, octets, start)
<1> DEFINE N == Len(octets)
           move == [x \in (1 .. N) \X Words32 |-> Byte32(x[2], octets[x[1]])]
<1>1. N \in Nat /\ \A n \in 1 .. N : octets[n] \in Octets
  BY LenProperties, ElementOfSeq
<1>2. move \in [(1 .. N) \X Words32 -> Words32]
  BY <1>1, Byte32Is
<1>3. PICK u \in [0 .. N -> Words32] : Recurses(u, N, start, move)
  <2> HIDE DEF move, N
  <2> QED
    BY <1>1, <1>2, RecursionExists
<1>4. \A n \in 1 .. N : u[n] = Byte32(u[n - 1], octets[n])
  <2>1. \A n \in 1 .. N : n \in 0 .. N /\ n # 0 /\ n - 1 \in 0 .. N
    BY <1>1
  <2>2. \A n \in 1 .. N : <<n, u[n - 1]>> \in (1 .. N) \X Words32
    BY <1>3, <2>1
  <2>3. \A n \in 1 .. N : move[<<n, u[n - 1]>>] = Byte32(u[n - 1], octets[n])
    BY <2>2
  <2> HIDE DEF move, N
  <2> QED
    BY <1>3, <2>1, <2>3 DEF Recurses
<1>5. u[0] = start
  BY <1>1, <1>3 DEF Recurses
<1> QED
  BY <1>3, <1>4, <1>5 DEF Runs32

\* The last of them is what the code computes.
LEMMA Update32Is ==
  ASSUME NEW octets \in Seq(Octets), NEW start \in Words32, NEW u, Runs32(u, octets, start)
  PROVE  F!Update32(start, octets) = u[Len(octets)]
<1> DEFINE N == Len(octets)
           IsAfter(f) ==
             f = [n \in 0 .. N |->
                    IF n = 0 THEN start ELSE F!Nibble(F!Nibble(F!SymDiff(f[n - 1], octets[n])))]
           g == CHOOSE f : IsAfter(f)
<1>1. N \in Nat
  BY LenProperties
<1>2. /\ u \in [0 .. N -> Words32] /\ u[0] = start
      /\ \A n \in 1 .. N : u[n] = Byte32(u[n - 1], octets[n])
  BY DEF Runs32
<1>3. F!Update32(start, octets) = g[N]
  BY DEF F!Update32
<1>4. IsAfter(u)
  <2>1. \A n \in 0 .. N : n = 0 \/ n \in 1 .. N
    BY <1>1
  <2>2. u = [n \in 0 .. N |-> u[n]]
    BY <1>2
  <2> HIDE DEF N
  <2> QED
    BY <1>2, <2>1, <2>2 DEF Byte32
<1>5. IsAfter(g)
  <2> HIDE DEF IsAfter
  <2> QED
    BY <1>4
<1> HIDE DEF g
<1>6. g[0] = start /\ \A n \in 1 .. N : g[n] = Byte32(g[n - 1], octets[n])
  <2>1. \A n \in 1 .. N : n \in 0 .. N /\ n # 0
    BY <1>1
  <2> HIDE DEF N
  <2> QED
    BY <1>1, <1>5, <2>1 DEF Byte32
<1> DEFINE Same == {n \in Nat : n <= N => g[n] = u[n]}
<1>7. N \in Same
  <2>1. 0 \in Same
    BY <1>2, <1>6
  <2>2. ASSUME NEW n \in Nat, n \in Same PROVE n + 1 \in Same
    <3>1. n + 1 <= N => n + 1 \in 1 .. N /\ (n + 1) - 1 = n /\ n <= N
      BY <1>1
    <3> QED
      BY <1>2, <1>6, <2>2, <3>1
  <2> HIDE DEF Same, N
  <2> QED
    BY <1>1, <2>1, <2>2, SetInduction
<1> QED
  BY <1>1, <1>3, <1>7

\* It stays within the register, and is the remainder that belongs to where it starts.
LEMMA Checksum32 ==
  ASSUME NEW octets \in Seq(Octets), NEW start \in Words32
  PROVE  /\ F!Update32(start, octets) \in Words32
         /\ F!Update32(start, octets) = F!Checksum(start, octets, F!Polynomial32, 32)
<1> DEFINE n == Len(octets)
<1>1. PICK u : Runs32(u, octets, start)
  BY Runs32Exists
<1>2. F!Update32(start, octets) = u[n]
  BY <1>1, Update32Is
<1>3. n \in Nat /\ \A i \in 1 .. n : octets[i] \in Octets
  BY LenProperties, ElementOfSeq
<1>4. /\ u \in [0 .. n -> Words(32)] /\ u[0] = start
      /\ \A i \in 1 .. n : u[i] = Byte32(u[i - 1], octets[i])
  BY <1>1 DEF Runs32, Words32
<1>5. \A i \in 1 .. n : \E a : ByteIn(a, u[i - 1], u[i], octets[i], F!Poly32, 32)
  <2> SUFFICES ASSUME NEW i \in 1 .. n
               PROVE  \E a : ByteIn(a, u[i - 1], u[i], octets[i], F!Poly32, 32)
    OBVIOUS
  <2>1. i - 1 \in 0 .. n
    BY <1>3
  <2>2. u[i - 1] \in Words32
    BY <1>4, <2>1 DEF Words32
  <2> QED
    BY <1>3, <1>4, <2>2, Byte32Is
<1>6. PICK s : /\ Register(s, 8 * n, Sending(octets), F!Poly32, 32)
               /\ s[0] = u[0] /\ s[8 * n] = u[n]
  BY <1>4, <1>5, BitsFollow
<1>7. F!Checksum(s[0], octets, F!Polynomial32, 32) = s[8 * n]
  BY <1>6, PolynomialsAre, ChecksumIs
<1>8. u[n] \in Words32
  BY <1>3, <1>4 DEF Words32
<1> QED
  BY <1>2, <1>4, <1>6, <1>7, <1>8

\* Data in two pieces.
LEMMA Pieces32 ==
  ASSUME NEW octets \in Seq(Octets), NEW start \in Words32, NEW n \in 0 .. Len(octets)
  PROVE  LET head == SubSeq(octets, 1, n)
             tail == SubSeq(octets, n + 1, Len(octets))
         IN  /\ head \in Seq(Octets) /\ tail \in Seq(Octets)
             /\ F!Update32(F!Update32(start, head), tail) = F!Update32(start, octets)
<1> DEFINE N == Len(octets)
           head == SubSeq(octets, 1, n)
           tail == SubSeq(octets, n + 1, N)
<1>1. N \in Nat /\ n \in 0 .. N /\ \A i \in 1 .. N : octets[i] \in Octets
  BY LenProperties, ElementOfSeq
<1>2. /\ head \in Seq(Octets) /\ Len(head) = n
      /\ \A i \in 1 .. n : head[i] = octets[i]
  <2>1. \A i \in 1 .. n : octets[i] \in Octets
    BY <1>1
  <2>2. n - 1 + 1 = n /\ (~(1 <= n) => n = 0) /\ \A i \in 1 .. n : 1 + i - 1 = i
    BY <1>1
  <2> HIDE DEF N
  <2> QED
    BY <1>1, <2>1, <2>2, SubSeqProperties
<1>3. /\ tail \in Seq(Octets) /\ Len(tail) = N - n
      /\ \A i \in 1 .. N - n : tail[i] = octets[n + i]
  <2>1. \A i \in n + 1 .. N : octets[i] \in Octets
    BY <1>1
  <2>2. /\ n + 1 \in Int /\ N \in Int /\ N - (n + 1) + 1 = N - n /\ (~(n + 1 <= N) => N - n = 0)
        /\ \A i \in 1 .. N - n : (n + 1) + i - 1 = n + i
    BY <1>1
  <2>3. /\ tail \in Seq(Octets) /\ Len(tail) = IF n + 1 <= N THEN N - (n + 1) + 1 ELSE 0
        /\ \A i \in 1 .. N - (n + 1) + 1 : tail[i] = octets[(n + 1) + i - 1]
    <3> DEFINE from == n + 1
    <3>1. from \in Int /\ N \in Int /\ \A i \in from .. N : octets[i] \in Octets
      BY <2>1, <2>2
    <3> HIDE DEF from, N
    <3>2. /\ SubSeq(octets, from, N) \in Seq(Octets)
          /\ Len(SubSeq(octets, from, N)) = IF from <= N THEN N - from + 1 ELSE 0
          /\ \A i \in 1 .. N - from + 1 :
               SubSeq(octets, from, N)[i] = octets[from + i - 1]
      BY <3>1, SubSeqProperties
    <3> QED
      BY <3>2 DEF from
  <2> HIDE DEF N, tail
  <2> QED
    BY <2>2, <2>3
<1> HIDE DEF head, tail
<1>4. PICK u : Runs32(u, octets, start)
  BY Runs32Exists
<1>5. /\ u \in [0 .. N -> Words32] /\ u[0] = start
      /\ \A i \in 1 .. N : u[i] = Byte32(u[i - 1], octets[i])
  BY <1>4 DEF Runs32
<1>6. F!Update32(start, octets) = u[N]
  BY <1>4, Update32Is
<1> HIDE DEF N
<1>7. F!Update32(start, head) = u[n] /\ u[n] \in Words32
  <2> DEFINE v == [i \in 0 .. n |-> u[i]]
  <2>1. \A i \in 0 .. n : i \in 0 .. N /\ (i # 0 => i \in 1 .. N /\ i - 1 \in 0 .. n)
    BY <1>1
  <2>2. v \in [0 .. n -> Words32] /\ v[0] = start
    BY <1>5, <2>1
  <2>3. \A i \in 1 .. n : v[i] = Byte32(v[i - 1], head[i])
    <3>1. \A i \in 1 .. n : i \in 0 .. n /\ i # 0
      OBVIOUS
    <3>2. \A i \in 1 .. n : v[i] = u[i] /\ v[i - 1] = u[i - 1]
      BY <2>1, <3>1
    <3> HIDE DEF v
    <3> QED
      BY <1>2, <1>5, <2>1, <3>1, <3>2
  <2>4. Runs32(v, head, start)
    <3> HIDE DEF v
    <3> QED
      BY <1>2, <2>2, <2>3 DEF Runs32
  <2>5. v[n] = u[n] /\ u[n] \in Words32
    BY <1>5, <2>1
  <2> HIDE DEF v
  <2> QED
    BY <1>2, <2>4, <2>5, Update32Is
<1>8. F!Update32(u[n], tail) = u[N]
  <2> DEFINE m == N - n
             v == [i \in 0 .. m |-> u[n + i]]
  <2>1. /\ m \in Nat /\ n + m = N /\ n + 0 = n
        /\ \A i \in 0 .. m : n + i \in 0 .. N
        /\ \A i \in 1 .. m : i \in 0 .. m /\ i - 1 \in 0 .. m /\ n + i \in 1 .. N /\ n + (i - 1) = (n + i) - 1
    BY <1>1
  <2>2. v \in [0 .. m -> Words32] /\ v[0] = u[n] /\ v[m] = u[N]
    <3>1. 0 \in 0 .. m /\ m \in 0 .. m
      BY <2>1
    <3>2. \A i \in 0 .. m : u[n + i] \in Words32
      BY <1>5, <2>1
    <3> HIDE DEF m
    <3> QED
      BY <2>1, <3>1, <3>2
  <2>3. \A i \in 1 .. m : v[i] = Byte32(v[i - 1], tail[i])
    <3>1. \A i \in 1 .. m : v[i] = u[n + i] /\ v[i - 1] = u[(n + i) - 1]
      <4> HIDE DEF m
      <4> QED
        BY <2>1
    <3> HIDE DEF v
    <3> QED
      BY <1>3, <1>5, <2>1, <3>1
  <2>4. Runs32(v, tail, u[n])
    <3> HIDE DEF v
    <3> QED
      BY <1>3, <2>2, <2>3 DEF Runs32
  <2> HIDE DEF v, m
  <2> QED
    BY <1>3, <1>7, <2>2, <2>4, Update32Is DEF m
<1> QED
  BY <1>2, <1>3, <1>6, <1>7, <1>8 DEF head, tail, N

\* The digits of a word put together are the word.
LEMMA DigitsTogether ==
  ASSUME NEW word \in Words32, NEW number, F!pr_crc32c_update({}, number) = word
  PROVE  word = UNION {F!Left(F!pr_usb_serial_number(number)[d], 32 - 4 * d) : d \in 1 .. 8}
<1> DEFINE place(d) == F!Left(F!pr_usb_serial_number(number)[d], 32 - 4 * d)
           all8 == UNION {place(d) : d \in 1 .. 8}
<1>1. \A x : x \in word => x \in 0 .. 31
  <2>1. 32 - 1 = 31
    OBVIOUS
  <2> QED
    BY <2>1 DEF Words32, Words
<1>2. ASSUME NEW d \in 1 .. 8, NEW x
      PROVE  x \in place(d) <=> x \in word /\ x \in 32 - 4 * d .. 35 - 4 * d
  <2> DEFINE n == 32 - 4 * d
             digit == F!pr_usb_serial_number(number)[d]
  <2>1. n \in Nat /\ 35 - 4 * d = n + 3
    OBVIOUS
  <2>2. digit = F!Right(word, n) \cap (0 .. 3)
    BY DEF F!pr_usb_serial_number
  <2>3. x \in place(d) <=> \E b \in digit : x = b + n
    BY DEF F!Left
  <2> HIDE DEF digit, n, place
  <2>4. \A b : b \in F!Right(word, n) <=> \E c \in word : c >= n /\ b = c - n
    BY DEF F!Right
  <2>5. \A b \in 0 .. 3 : b \in digit <=> b + n \in word
    <3> SUFFICES ASSUME NEW b \in 0 .. 3 PROVE b \in digit <=> b + n \in word
      OBVIOUS
    <3>1. \A c \in word : c >= n /\ b = c - n <=> c = b + n
      BY <1>1, <2>1
    <3> QED
      BY <2>2, <2>4, <3>1
  <2>6. \A b \in digit : b \in 0 .. 3
    BY <2>2
  <2>7. x \in place(d) => x \in word /\ x \in n .. n + 3
    BY <2>1, <2>3, <2>5, <2>6
  <2>8. ASSUME x \in word, x \in n .. n + 3 PROVE x \in place(d)
    <3>1. x - n \in 0 .. 3 /\ (x - n) + n = x
      BY <2>1, <2>8
    <3>2. x - n \in digit
      BY <2>5, <2>8, <3>1
    <3> QED
      BY <2>3, <3>1, <3>2
  <2> QED
    BY <2>1, <2>7, <2>8 DEF n
<1>3. ASSUME NEW x \in word PROVE x \in all8
  <2>1. x \in 0 .. 31
    BY <1>1
  <2>2. 8 - (x \div 4) \in 1 .. 8
        /\ x \in 32 - 4 * (8 - (x \div 4)) .. 35 - 4 * (8 - (x \div 4))
    BY <2>1
  <2> HIDE DEF place
  <2> QED
    BY <1>2, <2>2
<1>4. ASSUME NEW x \in all8 PROVE x \in word
  <2> HIDE DEF place
  <2> QED
    BY <1>2, <1>4
<1>5. word = all8
  <2> HIDE DEF all8
  <2> QED
    BY <1>3, <1>4
<1> QED
  BY <1>5

\* What the complement at the end of the CRC-32 takes away, that at the start gives back.
LEMMA Complements ==
  ASSUME NEW word \in Words32
  PROVE  /\ F!Complement(word, 32) \in Words32
         /\ F!Complement(F!Complement(word, 32), 32) = word
<1>1. word \in SUBSET (0 .. 32 - 1)
  BY DEF Words32, Words
<1> QED
  BY <1>1 DEF F!Complement, Words32, Words

\* The checksums of bytes.
LEMMA BytesChecksums ==
  ASSUME NEW s \in Seq(Bytes), NEW n \in 0 .. Len(s)
  PROVE  LET bits == BitsIn(s)
             crc32 == F!pr_crc32c_update({}, bits)
         IN  /\ F!CrcOf(s) = F!Checksum(F!modbus_crc16_init, bits, F!Polynomial16, 16)
             /\ crc32 = F!Complement(F!Checksum(0 .. 31, bits, F!Polynomial32, 32), 32)
             /\ crc32 = F!pr_crc32c_update(F!pr_crc32c_update({}, SubSeq(bits, 1, n)),
                                           SubSeq(bits, n + 1, Len(bits)))
             /\ crc32 = UNION {F!Left(F!pr_usb_serial_number(bits)[d], 32 - 4 * d) : d \in 1 .. 8}
<1> DEFINE bits == BitsIn(s)
           head == SubSeq(bits, 1, n)
           tail == SubSeq(bits, n + 1, Len(bits))
           ones == 0 .. 31
           after == F!Update32(ones, bits)
           half == F!Update32(ones, head)
           crc32 == F!pr_crc32c_update({}, bits)
<1>1. bits \in Seq(Octets) /\ Len(bits) = Len(s)
      /\ F!CrcOf(s) = F!modbus_crc16_update(F!modbus_crc16_init, bits)
  BY BitsInType
<1>2. F!CrcOf(s) = F!Checksum(F!modbus_crc16_init, bits, F!Polynomial16, 16)
  BY <1>1, Checksum16
<1>3. ones \in Words32 /\ F!Complement({}, 32) = ones
  <2>1. 32 - 1 = 31
    OBVIOUS
  <2> QED
    BY <2>1 DEF F!Complement, Words32, Words
<1>4. crc32 = F!Complement(after, 32)
  BY <1>3 DEF F!pr_crc32c_update
<1> HIDE DEF ones
<1>5. after \in Words32 /\ after = F!Checksum(ones, bits, F!Polynomial32, 32)
  <2> HIDE DEF bits
  <2> QED
    BY <1>1, <1>3, Checksum32
<1>6. /\ head \in Seq(Octets) /\ tail \in Seq(Octets) /\ F!Update32(half, tail) = after
  <2> HIDE DEF bits
  <2> QED
    BY <1>1, <1>3, Pieces32
<1>7. half \in Words32
  <2> HIDE DEF head
  <2> QED
    BY <1>3, <1>6, Checksum32
<1>8. crc32 = F!pr_crc32c_update(F!pr_crc32c_update({}, head), tail)
  <2>1. F!pr_crc32c_update({}, head) = F!Complement(half, 32)
    BY <1>3 DEF F!pr_crc32c_update
  <2>2. F!Complement(F!Complement(half, 32), 32) = half
    BY <1>7, Complements
  <2> HIDE DEF half, head, tail, after
  <2>3. F!pr_crc32c_update(F!pr_crc32c_update({}, head), tail) = F!Complement(after, 32)
    BY <1>6, <2>1, <2>2 DEF F!pr_crc32c_update
  <2> HIDE DEF crc32
  <2> QED
    BY <1>4, <2>3
<1>9. crc32 \in Words32
  <2> HIDE DEF after, crc32
  <2> QED
    BY <1>4, <1>5, Complements
<1>10. crc32 = UNION {F!Left(F!pr_usb_serial_number(bits)[d], 32 - 4 * d) : d \in 1 .. 8}
  <2> HIDE DEF bits
  <2> QED
    BY <1>9, DigitsTogether
<1> HIDE DEF crc32, bits, after
<1>11. crc32 = F!Complement(F!Checksum(0 .. 31, bits, F!Polynomial32, 32), 32)
  BY <1>4, <1>5 DEF ones
<1> QED
  BY <1>2, <1>8, <1>10, <1>11 DEF crc32, bits

----------------------------------------------------------------------------
(* The theorems about frames.                                              *)

\* For any requests that fit in a frame: however a request or a response is cut, the
\* lengths that the server and other servers compute from its first bytes delimit it; its
\* checksum is right, and is wrong when any one of its bits is (modbus.c:19-98,
\* modbus_crc16.c:30-70).
THEOREM BoardFramesSound == DevicesSpec => []FramesSound
<1>1. F!FramesAssumption
  BY DevicesAssumption
<1>2. DevicesInit => FramesInv
  BY <1>1, FramesStart
<1>3. FramesInv /\ [DevicesNext]_all => FramesInv'
  BY <1>1, FramesPart, FramesSteps
<1>4. FramesInv => FramesSound
  BY <1>1, FramesFound DEF FramesSound
<1> QED
  BY <1>2, <1>3, <1>4, PTL DEF DevicesSpec

\* For any requests that fit in a frame, and any number of coils and registers: what a
\* client finds in a response is what the application had, what it has afterwards is what
\* was written and what it had elsewhere, and an exception is the answer exactly to what
\* is not there or does not fit (modbus.c:100-315).
THEOREM BoardExchanges == DevicesSpec => []ExchangeTrue
<1>1. F!FramesAssumption
  BY DevicesAssumption
<1>2. DevicesInit => FramesInv
  BY <1>1, FramesStart
<1>3. FramesInv /\ [DevicesNext]_all => FramesInv'
  BY <1>1, FramesPart, FramesSteps
<1>4. FramesInv => ExchangeTrue
  BY <1>1, ExchangesTrue DEF ExchangeTrue
<1> QED
  BY <1>2, <1>3, <1>4, PTL DEF DevicesSpec

\* The checksums of Modbus frames, CRC-16, and of the chip's identifier, CRC-32, which
\* the code computes bit by bit and by a table of sixteen entries, are the remainders of
\* the polynomials they are named for; the CRC-32 may be continued over data in pieces,
\* and the serial number has the digits of it (modbus_crc16.c:30-70, crc32.c:4-26,
\* tiny_usb.c:10-41).
THEOREM BoardChecksums == DevicesSpec => []ChecksumIsRemainder
<1>1. F!FramesAssumption
  BY DevicesAssumption
<1>2. DevicesInit => FramesInv
  BY <1>1, FramesStart
<1>3. FramesInv /\ [DevicesNext]_all => FramesInv'
  BY <1>1, FramesPart, FramesSteps
<1>4. FramesInv => ChecksumIsRemainder
  <2> SUFFICES ASSUME FramesInv, frame # << >> PROVE F!ChecksumIsRemainder
    BY DEF ChecksumIsRemainder, F!ChecksumIsRemainder
  <2>1. frame \in Seq(Bytes)
    BY DEF FramesInv, Sent, Response
  <2>2. Len(frame) \div 2 \in 0 .. Len(frame)
    <3>1. Len(frame) \in Nat
      BY <2>1, LenProperties
    <3> QED
      BY <3>1
  <2>3. BitsIn(frame) = [i \in DOMAIN frame |-> F!Bits(frame[i])]
    BY DEF BitsIn
  <2> DEFINE bits == BitsIn(frame)
             n == Len(frame) \div 2
  <2>4. /\ F!CrcOf(frame) = F!Checksum(F!modbus_crc16_init, bits, F!Polynomial16, 16)
        /\ F!pr_crc32c_update({}, bits)
             = F!Complement(F!Checksum(0 .. 31, bits, F!Polynomial32, 32), 32)
        /\ F!pr_crc32c_update({}, bits)
             = F!pr_crc32c_update(F!pr_crc32c_update({}, SubSeq(bits, 1, n)),
                                  SubSeq(bits, n + 1, Len(bits)))
        /\ F!pr_crc32c_update({}, bits)
             = UNION {F!Left(F!pr_usb_serial_number(bits)[d], 32 - 4 * d) : d \in 1 .. 8}
    BY <2>1, <2>2, BytesChecksums
  <2> HIDE DEF bits
  <2>5. bits = [i \in DOMAIN frame |-> F!Bits(frame[i])]
    BY <2>3 DEF bits
  <2> QED
    BY <2>4, <2>5 DEF F!ChecksumIsRemainder
<1> QED
  BY <1>2, <1>3, <1>4, PTL DEF DevicesSpec
=============================================================================
