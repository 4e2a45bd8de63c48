------------------------------ MODULE HexText ------------------------------
(***************************************************************************)
(* The conversions between command texts and byte arrays (common.cpp).  A  *)
(* character is the value of the hex digit it is, Space, or NoDigit.       *)
(***************************************************************************)
EXTENDS Integers, Sequences, SequencesExt

Space == 16
NoDigit == 17
Chars == 0..NoDigit

\* ConvertHexChar
ConvertHexChar(c) == IF c \in 0..15 THEN c ELSE -1

\* What cm_StringToHex has read: the bytes, and the first character of a pair.
NoChar == -1
ReadNothing == [bytes |-> <<>>, high |-> NoChar]

\* Faulty: a blank is taken for the first character of a pair.
ReadBlank(done, c) ==
    IF done.high = NoChar
      THEN [done EXCEPT !.high = c]
      ELSE [bytes |-> Append(done.bytes, (ConvertHexChar(done.high) * 16
                                          + ConvertHexChar(c)) % 256),
            high |-> NoChar]

\* One turn of cm_StringToHex: blanks are skipped before a pair, not inside it.
\* Its comparison with 16 never holds; a character that is no digit counts -1.
ReadChar(done, c) ==
    IF done.high = NoChar
      THEN IF c = Space THEN done ELSE [done EXCEPT !.high = c]
      ELSE [bytes |-> Append(done.bytes, (ConvertHexChar(done.high) * 16
                                          + ConvertHexChar(c)) % 256),
            high |-> NoChar]

\* cm_StringToHex; half a pair at the end is dropped.
StringToHex(text) ==
    LET read[n \in 0..Len(text)] ==
            IF n = 0 THEN ReadNothing ELSE ReadChar(read[n - 1], text[n])
    IN  read[Len(text)].bytes

\* cm_ByteArrayToHexStr: every byte is followed by a blank.
ByteArrayToHexStr(bytes) ==
    FlattenSeq([n \in 1..Len(bytes) |-> <<bytes[n] \div 16, bytes[n] % 16, Space>>])
=============================================================================
