----------------------------- MODULE ModbusDevId -----------------------------
(***************************************************************************)
(* The device identification of the Modbus server: the objects that fit in *)
(* one response, from the one asked for on, and the object to ask for next *)
(* when there are more (src/modbus/modbus.c).  The client asks until there *)
(* are no more.                                                            *)
(*                                                                         *)
(* Object ids are bytes, of Wrap values, and so are the counters of the    *)
(* loop.                                                                   *)
(***************************************************************************)
EXTENDS Integers, Sequences, FiniteSetsExt, SequencesExt

CONSTANTS
  Wrap,        \* 256
  LastOf,      \* the last object of each code: 1 :> 0x02 @@ 2 :> 0x7f @@ 3 :> 0xff
  Codes,       \* the codes that the client may ask for, also others
  BufferSize,  \* sizeof(bus->buffer): 256
  MaxObject,   \* characters of an object at most: 0x40
  Identities   \* what devid may return for the ids: functions from ids to lengths,
               \* NULL for an id that is not in the domain

DevIdAssumption ==
  /\ Wrap \in Nat \ {0} /\ \A c \in DOMAIN LastOf : LastOf[c] \in 0 .. Wrap - 1
  /\ MaxObject \in Nat \ {0} /\ BufferSize \in Nat /\ BufferSize >= 12 + MaxObject
  /\ \A o \in Identities : DOMAIN o \subseteq 0 .. Wrap - 1 /\ \A i \in DOMAIN o : o[i] \in Nat

VARIABLES
  lengths,     \* what devid returns
  code, first, \* what the client asks for first
  id,          \* i
  ptr,         \* bytes of the response so far
  next,        \* the next object to ask for: buffer[6]
  objects,     \* ids in the response
  got,         \* ids that the client has received in earlier responses
  at           \* "asked", "loop", "respond" or "end"

vars == <<lengths, code, first, id, ptr, next, objects, got, at>>

Header == 8
Known == code \in DOMAIN LastOf
Askable == IF Known THEN 0 .. LastOf[code] ELSE {0}

InitOf(identities, codes) ==
  /\ lengths \in identities
  /\ code \in codes /\ first \in Askable
  /\ id = first /\ ptr = 0 /\ next = 0
  /\ objects = << >> /\ got = << >>
  /\ at = "asked"

Init == InitOf(Identities, Codes)

Ask ==
  /\ at = "asked" /\ Known
  /\ ptr' = Header /\ next' = 0 /\ objects' = << >>
  /\ at' = "loop"
  /\ UNCHANGED <<lengths, code, first, id, got>>

\* Another code is an illegal value, as is a type of request that is not 0x0e.
Refused ==
  /\ at = "asked" /\ ~Known
  /\ at' = "end"
  /\ UNCHANGED <<lengths, code, first, id, ptr, next, objects, got>>

\* Of 4 bytes that are left free, two are the head of the object and two the checksum.
\* The length is unsigned.
Room == IF ptr <= BufferSize - 4 THEN BufferSize - 4 - ptr ELSE 2 ^ 16
Size(i) == Min({lengths[i], MaxObject})
InLoop == at = "loop" /\ id <= LastOf[code]

NoObject ==
  /\ InLoop /\ id \notin DOMAIN lengths
  /\ next' = (id + 1) % Wrap
  /\ id' = (id + 1) % Wrap
  /\ UNCHANGED <<lengths, code, first, ptr, objects, got, at>>

\* Mutant: an object that does not fit is left out.
AddObject_any ==
  /\ InLoop /\ id \in DOMAIN lengths
  /\ next' = (id + 1) % Wrap
  /\ id' = (id + 1) % Wrap
  /\ IF Room < Size(id) THEN UNCHANGED <<ptr, objects>>
     ELSE ptr' = ptr + Size(id) + 2 /\ objects' = Append(objects, id)
  /\ UNCHANGED <<lengths, code, first, got, at>>

AddObject ==
  /\ InLoop /\ id \in DOMAIN lengths
  /\ IF Room < Size(id)
     THEN next' = id /\ at' = "respond" /\ UNCHANGED <<id, ptr, objects>>
     ELSE /\ next' = (id + 1) % Wrap
          /\ id' = (id + 1) % Wrap
          /\ ptr' = ptr + Size(id) + 2
          /\ objects' = Append(objects, id)
          /\ UNCHANGED at
  /\ UNCHANGED <<lengths, code, first, got>>

LoopEnds ==
  /\ at = "loop" /\ id > LastOf[code]
  /\ at' = "respond"
  /\ UNCHANGED <<lengths, code, first, id, ptr, next, objects, got>>

\* The response says whether there are more, and the client asks for the next.
Respond ==
  /\ at = "respond"
  /\ got' = got \o objects
  /\ objects' = << >>
  /\ IF next >= LastOf[code] THEN at' = "end" /\ UNCHANGED id
     ELSE at' = "asked" /\ id' = next
  /\ UNCHANGED <<lengths, code, first, ptr, next>>

Next == Ask \/ Refused \/ NoObject \/ AddObject \/ LoopEnds \/ Respond

Spec == Init /\ [][Next]_vars

----------------------------------------------------------------------------
(* Properties.                                                             *)

\* The client receives each object from the first on that the application has, once
\* and in order, over as many responses as that takes; each response but the last
\* brings one, and none outgrows the buffer, with its checksum.
ObjectsOnce ==
  LET last == IF Known THEN LastOf[code] ELSE -1
      all == DOMAIN lengths \cap (first .. last)
      given == got \o objects
  IN  /\ \A i, j \in DOMAIN given : i < j => given[i] < given[j]
      /\ ToSet(given) \subseteq all
      /\ \A o \in all \ ToSet(given) : at # "end" /\ \A i \in DOMAIN given : given[i] < o
      /\ at = "respond" /\ next < last => objects # << >>
      /\ ptr + 2 <= BufferSize
=============================================================================
