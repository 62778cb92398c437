------------------------------- MODULE BiReader ------------------------------
(***************************************************************************)
(* Looking up the information that a binary carries about itself           *)
(* (src/binary_info_reader, src/build_id): a descriptor between two        *)
(* markers, at the start of the flash, gives the bounds of a table of      *)
(* entries; an iterator is an address of the table, and 0 both before the  *)
(* first call and after the last.                                          *)
(*                                                                         *)
(* Flash and table are sequences of words; addresses are counted in words. *)
(***************************************************************************)
EXTENDS Integers, Sequences, SequencesExt

CONSTANTS
  Window,    \* words in which a descriptor may start: 512 bytes
  Flashes,   \* flashes to try, from XIP_BASE on: sequences of "start", "end", "other"
  Start,     \* address of the first entry, not 0
  Entries,   \* the entries of tables: records of a type, a tag, an id and a value
  MaxTable   \* bound: entries of a table

AnyId == 0

BiAssumption ==
  /\ Start \in Nat \ {0} /\ MaxTable \in Nat
  /\ Window \in Nat /\ \A f \in Flashes : Window + 4 <= Len(f)
  /\ \A e \in Entries : e.value \notin {"NULL", "-1"} /\ e.id # AnyId

VARIABLES
  flash, table,
  want,       \* the type, tag and id that are asked for; AnyId: any
  use,        \* what the caller is after, with an iterator of its own or none:
              \*   "one"   the first entry wanted, with none
              \*   "all"   it keeps the iterator and asks again until nothing is found
              \*   "walk"  every entry: the loop of the example in binary_info_reader.h
  desc,       \* words that pr_bi_desc_find has passed; then where the descriptor is
  iterator,   \* *state
  search,     \* "locate", "idle", "find", "test", "walk" or "end"
  entry,      \* what pr_bi_find has returned: an entry or NoEntry
  found       \* what the caller has been given so far, what says that nothing is included

vars == <<flash, table, want, use, desc, iterator, search, entry, found>>

NoEntry == [value |-> "NULL"]

Wants == {[type |-> e.type, tag |-> e.tag, id |-> i] : e \in Entries,
                                                       i \in {e.id : e \in Entries} \cup {AnyId}}

Tables == BoundedSeq(Entries, MaxTable)
Uses == {"one", "all", "walk"}

InitOf(flashes, tables, wants, uses) ==
  /\ flash \in flashes
  /\ table \in tables
  /\ want \in wants
  /\ use \in uses
  /\ desc = 0
  /\ iterator = 0
  /\ search = "locate"
  /\ entry = NoEntry
  /\ found = << >>

Init == InitOf(Flashes, Tables, Wants, Uses)

----------------------------------------------------------------------------
(* The descriptor.                                                         *)

\* The two markers of a descriptor are four words apart.
Marked(p) == flash[p + 1] = "start" /\ flash[p + 5] = "end"

Seen(place) ==
  /\ search = "locate"
  /\ search' = place
  /\ UNCHANGED <<flash, table, want, use, entry>>

\* One turn of the loop of pr_bi_desc_find.
pr_bi_desc_find ==
  \/ /\ desc < Window /\ ~Marked(desc)
     /\ Seen("locate")
     /\ desc' = desc + 1
     /\ UNCHANGED <<iterator, found>>
  \/ /\ desc < Window /\ Marked(desc)
     /\ IF use = "walk" THEN Seen("walk") /\ iterator' = Start
                        ELSE Seen("idle") /\ UNCHANGED iterator
     /\ UNCHANGED <<desc, found>>

\* A caller that gets no descriptor returns NULL itself.
NoDescriptor ==
  /\ desc = Window
  /\ Seen("end")
  /\ found' = <<"NULL">>
  /\ UNCHANGED <<desc, iterator>>

----------------------------------------------------------------------------
(* The iterator.                                                           *)

End == Start + Len(table)

\* Mutant: the last entry is taken for the end.
pr_bi_next_short(state) == IF state # 0 /\ state + 1 < End THEN state + 1 ELSE 0

\* After the last entry comes the end, once, and then 0.
pr_bi_next(state) == IF state # 0 /\ state < End THEN state + 1 ELSE 0

pr_bi_get(state) ==
  IF state # 0 /\ state < End THEN table[state - Start + 1] ELSE NoEntry

Matches(e) == e # NoEntry /\ e.type = want.type /\ e.tag = want.tag

----------------------------------------------------------------------------
(* A call, and the calls of it.                                            *)

\* pr_bi_find is called: an iterator of 0 starts over.
Call ==
  /\ search = "idle"
  /\ iterator' = IF iterator = 0 THEN Start ELSE iterator
  /\ search' = "find"
  /\ UNCHANGED <<flash, table, want, use, desc, entry, found>>

\* One turn of the loop of pr_bi_find.
pr_bi_find ==
  /\ search = "find" /\ iterator # 0
  /\ iterator' = pr_bi_next(iterator)
  /\ IF Matches(pr_bi_get(iterator))
     THEN entry' = pr_bi_get(iterator) /\ search' = "test"
     ELSE UNCHANGED <<entry, search>>
  /\ UNCHANGED <<flash, table, want, use, desc, found>>

NotFound ==
  /\ search = "find" /\ iterator = 0
  /\ entry' = NoEntry
  /\ search' = "test"
  /\ UNCHANGED <<flash, table, want, use, desc, iterator, found>>

\* What tells that there is no such entry: pr_bi_find_int has no NULL.
Nothing == IF use # "walk" /\ want.type = "int" /\ want.id # AnyId THEN "-1" ELSE "NULL"

\* A caller that keeps the iterator asks again until nothing is found.
Given(value) ==
  /\ found' = Append(found, value)
  /\ search' = IF use = "all" /\ value # Nothing THEN "idle" ELSE "end"

\* pr_bi_find_raw and pr_bi_find_sized_data take what is found.  pr_bi_find_int and
\* pr_bi_find_string go on to the id that is asked for, as long as the iterator is
\* not 0.
pr_bi_find_typed ==
  /\ search = "test"
  /\ \/ entry = NoEntry /\ Given(Nothing)
     \/ entry # NoEntry /\ want.id \in {AnyId, entry.id} /\ Given(entry.value)
     \/ /\ entry # NoEntry /\ want.id \notin {AnyId, entry.id}
        /\ IF iterator # 0 THEN search' = "find" /\ UNCHANGED found ELSE Given(Nothing)
  /\ UNCHANGED <<flash, table, want, use, desc, iterator, entry>>

\* A caller that goes through the entries until the iterator is 0.
Walk ==
  /\ search = "walk"
  /\ IF iterator = 0 THEN search' = "end" /\ UNCHANGED <<iterator, found>>
     ELSE /\ found' = Append(found, pr_bi_get(iterator).value)
          /\ iterator' = pr_bi_next(iterator)
          /\ UNCHANGED search
  /\ UNCHANGED <<flash, table, want, use, desc, entry>>

Next ==
  pr_bi_desc_find \/ NoDescriptor \/ Call \/ pr_bi_find \/ NotFound \/ pr_bi_find_typed \/ Walk

Spec == Init /\ [][Next]_vars

----------------------------------------------------------------------------
(* Properties.                                                             *)

Asked(e) == use = "walk" \/ (Matches(e) /\ want.id \in {AnyId, e.id})

\* The values of the entries that are asked for among the first n.
ValuesOf[n \in 0 .. Len(table)] ==
  IF n = 0 THEN << >>
  ELSE IF Asked(table[n]) THEN Append(ValuesOf[n - 1], table[n].value)
  ELSE ValuesOf[n - 1]

Descriptors == {p \in 0 .. Window - 1 : Marked(p)}

\* The descriptor is the first that starts in the window, and without one nothing is
\* found.  A caller that asks until nothing is found is given the entries that match,
\* each once and in their order, whether the last entry of the table is one or not;
\* a caller with no iterator of its own is given the first; one that goes through the
\* entries is given them all, and then a NULL.  No search starts over.
EntriesFound ==
  LET values == ValuesOf[Len(table)] \o <<Nothing>>
  IN  /\ search # "locate" /\ Descriptors # {} =>
           desc \in Descriptors /\ \A p \in Descriptors : desc <= p
      /\ search # "end" => IsPrefix(found, values)
      /\ search = "end" =>
           found = IF Descriptors = {} THEN <<"NULL">>
                   ELSE IF use = "one" THEN <<Head(values)>> ELSE values

\* "Integer value from entry, or 0 if not found" (binary_info_reader.h:172).
IntegerOrZero ==
  search = "end" /\ Descriptors # {} /\ use = "one" /\ want.type = "int" /\ want.id # AnyId
    => found = (IF ValuesOf[Len(table)] = << >> THEN <<"0">> ELSE <<ValuesOf[Len(table)][1]>>)

\* "Next state value, or 0 when iteration is complete" (binary_info_reader.h:90): the
\* loop of its example is given entries only.
WalkGivesEntries == search = "walk" /\ iterator # 0 => pr_bi_get(iterator) # NoEntry
=============================================================================
