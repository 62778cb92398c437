------------------------------ MODULE MCDevices ------------------------------
(* An instance of Devices for TLC. *)
EXTENDS Devices, MCEeprom, TLC, FiniteSetsExt

MCApps == {"eeprom", "strips", "inputs", "expander", "spi", "info", "devid", "frames"}

MCMasks == {{"level"}, {"edge"}, {"level", "edge"}}

Device(csn, pp, lsb) == [csn |-> csn, pp |-> pp, lsb_first |-> lsb]
MCDevs == {Device(1, TRUE, FALSE), Device(2, FALSE, TRUE), Device(3, TRUE, TRUE)}
MCSaid == <<{0}, {1, 2}, {7}, {0, 3, 7}>>
MCContents == {<<{0}, {0, 1}, {6, 7}>>, <<{2}>>}

\* Two descriptors, one that starts in the last word of the window, and one after it.
MCFlashes == {<<"start", "start", "start", "other", "other", "end", "end">>,
              <<"other", "other", "start", "other", "end", "other", "end">>,
              <<"other", "start", "other", "start", "other", "other", "other", "end">>}
Entry(type, tag, n, value) == [type |-> type, tag |-> tag, id |-> n, value |-> value]
MCEntries == {Entry("string", "rp", 1, "a"), Entry("string", "rp", 2, "b"),
              Entry("string", "rp", 1, "c"), Entry("int", "rp", 1, "d"),
              Entry("string", "pr", 1, "e")}

MCLastOf == 1 :> 1 @@ 2 :> 6 @@ 3 :> 7
\* Objects of which no run leaves one or two bytes of the response after them.
RunOf(o, i, j) == MapThenSumSet(LAMBDA n : o[n] + 2, DOMAIN o \cap (i .. j))
MCIdentities ==
  {o \in UNION {[ids -> {1, 3}] : ids \in SUBSET (0 .. 4)} :
     \A i, j \in 0 .. 4 : 8 + RunOf(o, i, j) \notin {BufferSize - 3, BufferSize - 2}}

\* Requests for what there is, past its end, of nothing and of more than a response has
\* room for; coils across the ends of bytes, registers with the ends of words.
Asked(f, address, count, values, on) ==
  [func |-> f, address |-> address, count |-> count, values |-> values, on |-> on]
MCRequests ==
  {Asked(f, a, n, << >>, {}) : f \in {1, 2}, a \in {1, CoilCount}, n \in {0, CoilCount - 1, 2001}}
  \cup {Asked(f, a, n, << >>, {}) : f \in {3, 4}, a \in {0, RegCount}, n \in {RegCount, 126}}
  \cup {Asked(5, a, 1, <<v>>, {}) : a \in {0, CoilCount}, v \in {0, 65280}}
  \cup {Asked(6, a, 1, <<v>>, {}) : a \in {0, RegCount}, v \in {258, 65534}}
  \cup {Asked(15, a, n, << >>, on) : a \in {0, 1}, n \in {8, CoilCount},
                                    on \in {{0, 2, 7, 8}, 0 .. 9}}
  \cup {Asked(16, a, 2, <<v, v + 1>>, {}) : a \in {0, 1}, v \in {258, 65534}}
=============================================================================
