----------------------------- MODULE MCLibrary -----------------------------
(***************************************************************************)
(* Inputs at the boundaries of the conversions; blocks of two cells,       *)
(* numbers of one bit, so that an unsigned long has two values; two        *)
(* columns; two channels and an outlet.                                    *)
(***************************************************************************)
EXTENDS Library

CONSTANTS a, b, junk

MCElements(k) ==
    CASE k = "text"     -> {0, 9, 15, Space, NoDigit}
      [] k = "bytes"    -> {0, 1, 16, 43, 127, 128, 255}
      [] k = "oid"      -> {0, 1, 127, 128, 129, 16383, 16384, 2097151, 2097152,
                            268435455, 268435456, 2147483647}
      [] k = "integers" -> {0, 1, 127, 128, 255, 256, 32767, 32768, 65535, 65536,
                            8388608, 16777216, 2147483647, -1, -2, -129, -2147483647}
      [] k = "word"     -> {0, 1, 127, 128, 255}
      [] k = "lengths"  -> {0, 1, 126, 127, 128, 129, 255, 256, 257}
      [] k = "cipher"   -> {<<1>>, <<255, 0, 127, 128, 85, 3, 18>>,
                            <<1, 35, 69, 103, 137, 171, 205, 239>>}
      [] k = "password" -> {<<97>>, <<46, 65, 122, 48, 57, 90, 33>>}

MCMaxLength(k) ==
    CASE k = "text" -> 6 [] k = "bytes" -> 3 [] k = "oid" -> 3
      [] k = "integers" -> 2 [] k = "word" -> 4
      [] k = "lengths" -> 2 [] k = "cipher" -> 3 [] k = "password" -> 2

\* An arbitrary key, a weak and a semi-weak one.
MCCipherKeys == {<<19, 52, 87, 121, 155, 188, 223, 241>>,
                 <<254, 254, 254, 254, 254, 254, 254, 254>>,
                 <<31, 224, 31, 224, 14, 241, 14, 241>>}
MCSalts == {<<97, 66>>, <<46, 122>>}

\* Identifiers with one of which the others begin; the empty one is not valid.
MCAskedOids == {<<>>, <<1>>, <<1, 0>>, <<1, 1>>}
MCAnsweredOids == {<<1>>, <<1, 0>>, <<1, 1>>, <<1, 0, 1>>}
MCObjectOids == {<<>>, <<1>>}
MCContents == {-1, 0, 1, 2}

\* Errors up to level 1 and debug output up to level 2; one that logs no errors.
MCLogFilters == {[c \in 1..LOG_TYPES |-> IF c = 1 THEN 1 ELSE 2],
                 [c \in 1..LOG_TYPES |-> IF c = 1 THEN 255 ELSE 0]}

\* A record whose fields differ between the indices 0 and 1, so that a key written
\* in the place of another shows.
Record(t, u, delay, flags) ==
    [key \in Keys |->
        IF key \in FlagKeys THEN IF key[2] = 0 THEN flags ELSE 1 - flags
        ELSE IF key \in NumberKeys THEN delay
        ELSE IF key[2] = 0 THEN t ELSE u]

MCUiContents == {Record(a, b, 0, 1), Record(b, a, 16, 0), Record(b, NoText, 99, 1)}

\* No file yet, and a file that was edited.
MCFileContents ==
    {[key \in Keys |-> Missing],
     [key \in Keys |-> IF key \notin NumberKeys THEN a
                       ELSE IF key[2] = 0 THEN -3 ELSE junk]}
=============================================================================
