---------------------------- MODULE Conversions ----------------------------
(***************************************************************************)
(* The conversions of the program, checked on inputs that grow element by  *)
(* element: command texts, byte arrays, object identifiers, integers, the  *)
(* lengths of strings, messages to encrypt and passwords.                  *)
(***************************************************************************)
EXTENDS HexText, SnmpData, Des, DesStandard

CONSTANTS
    Elements(_),   \* the elements of an input of a kind
    MaxLength(_),  \* bound: their number
    CipherKeys,    \* keys of DES
    Salts          \* the salts of passwords

Kinds == {"text", "bytes", "oid", "integers", "word", "lengths", "cipher", "password"}

\* Identifiers are numbers that an int holds and keys have eight bytes; a packet with
\* two identifiers or a few strings is smaller than an int can say.
MaxInt == 2^30 - 1 + 2^30
ASSUME InputsAssumption ==
    /\ \A k \in Kinds : MaxLength(k) \in Nat
    /\ Elements("text") \subseteq Chars /\ Elements("bytes") \subseteq Byte
    /\ Elements("oid") \subseteq 0..MaxInt /\ MaxLength("oid") <= 2^16
    /\ Elements("integers") \subseteq (-MaxInt - 1)..MaxInt /\ MaxLength("integers") <= 2^16
    /\ Elements("word") \subseteq Byte /\ MaxLength("word") <= 4
    /\ Elements("lengths") \subseteq 0..2^16 /\ MaxLength("lengths") <= 2^10
    /\ Elements("cipher") \subseteq Seq(Byte)
    /\ CipherKeys \subseteq [1..8 -> Byte]

VARIABLE kind, input
conversionVars == <<kind, input>>

ConversionInit == kind \in Kinds /\ input = <<>>

\* Somebody types one more character, or one more value is to be sent.
Extend(e) ==
    /\ Len(input) < MaxLength(kind)
    /\ input' = Append(input, e) /\ UNCHANGED kind

ConversionNext == \E e \in Elements(kind) : Extend(e)

ConversionSpec == ConversionInit /\ [][ConversionNext]_conversionVars

-----------------------------------------------------------------------------
\* The reference: a text is a sequence of words between blanks, a well-formed one
\* has an even number of digits and nothing else in each of them.
WellFormed(text) ==
    /\ \A n \in 1..Len(text) : text[n] # NoDigit
    /\ \A n \in 1..Len(text) :
          text[n] = Space \/ n = Len(text) =>
              Cardinality({m \in 1..n : text[m] # Space}) % 2 = 0

Digits(text) ==
    LET digits[n \in 0..Len(text)] ==
            IF n = 0 THEN <<>>
            ELSE IF text[n] = Space THEN digits[n - 1] ELSE Append(digits[n - 1], text[n])
    IN  digits[Len(text)]

\* cm_StringToHex reads a well-formed text as the bytes its digits spell, however
\* the words are cut, and never gives more bytes than half of the characters,
\* which is the size it reserved for them.  What a byte array looks like in a text is
\* read back as that byte array.
HexReadsPairs ==
    /\ kind = "bytes" => StringToHex(ByteArrayToHexStr(input)) = input
    /\ kind = "text" =>
        LET bytes == StringToHex(input)
            digits == Digits(input)
        IN  /\ 2 * Len(bytes) <= Len(input)
            /\ WellFormed(input) =>
                  /\ 2 * Len(bytes) = Len(digits)
                  /\ \A n \in 1..Len(bytes) :
                        bytes[n] = 16 * digits[2*n - 1] + digits[2*n]

\* The reference: what one packet, sent, is read as.
ReadAs(chunk, d) == ParseData(chunk) = [packets |-> <<d>>, ends |-> "done"]
Survives(d) == ReadAs(MakeSnmpChunk(d), d)

\* The answer to a request is matched by its object identifiers: each number of
\* an identifier survives being sent and read, in a request for one, two or no
\* values, with its id and community in their places.
OidRoundTrip ==
    kind = "oid" /\ input # <<>> =>
        /\ Survives(OidData(input))
        /\ \A oids \in {<<>>, <<input>>, <<input, Reverse(input)>>} :
              Survives(RequestPacket(GET_REQUEST_TYPE, <<112, 117, 98>>, Head(input), oids))

\* Integers of 32 bits, one after the other in a sequence, and counters, gauges and
\* time ticks survive; the latter are never negative numbers for another
\* implementation, and a gauge of five bytes, the first of them zero, is read as
\* well, as the note on what Cisco returns demands.  The value of an integer is the
\* number it was made of.
NumbersRoundTrip ==
    /\ kind = "integers" =>
        /\ Survives(AddChildren(Sequence, [n \in 1..Len(input) |-> Integer(input[n])]))
        /\ \A n \in 1..Len(input) : ToVariant(Integer(input[n])) = <<input[n]>>
    /\ kind = "word" /\ input # <<>> =>
        /\ \A type \in {COUNTER_TYPE, GAUGE_TYPE, TIME_TICKS_TYPE} :
              /\ Survives(Data(type, input))
              /\ MakeSnmpChunk(Data(type, input))[3] < 128
        /\ ReadAs(PackContent(GAUGE_TYPE, FillTo(5, input)), Data(GAUGE_TYPE, input))

\* The reference: the value that BER gives the content of an integer.
BerValue(content) ==
    LET value[n \in 0..Len(content)] ==
            IF n = 0 THEN IF content[1] >= 128 THEN -1 ELSE 0
            ELSE value[n - 1] * 256 + content[n]
    IN  value[Len(content)]

\* The reference: the shortest content that BER allows for a number.
BerContent(n) ==
    LET size == Min({m \in 1..4 : m = 4 \/ n < 2^(8 * m - 1)})
    IN  SubSeq(Stream(n), 5 - size, 4)

\* The integers whose bytes are never taken for those of a negative number.
Small == 0..32767

\* A reader that takes the bytes of an integer for their value in BER reads the ones of
\* a request, the request id up to 0x7FFF among them, as they were meant, and what such
\* a writer answers is read as it was meant, if it is not negative.  Nothing is said of
\* how many bytes there are: 0..255 go out in four.
IntegersReadAsBer ==
    kind = "integers" =>
        \A n \in 1..Len(input) :
            /\ input[n] \in Small =>
                  BerValue(CompressLeadingZeros(Stream(input[n]))) = input[n]
            /\ input[n] >= 0 =>
                  IntValue(Data(INTEGER_TYPE, BerContent(input[n]))) = input[n]

\* A content of any length is found again in its packet, also when another one
\* follows and when both are inside a sequence.  An object written to a stream with
\* another one is read back from it, with the address that no packet carries.
ContentRoundTrip ==
    kind = "lengths" =>
        LET string(n) == String([m \in 1..input[n] |-> (m + n) % 256])
            both == AddChildren(Sequence, [n \in 1..Len(input) |-> string(n)])
            addressed == SetDataAddress(both, input)
            read == OfStream(ToStream(addressed) \o ToStream(both))
        IN  /\ Survives(both)
            /\ ReadAs(MakeSnmpChunk(addressed), both)
            /\ DataEq(read.obj, addressed) /\ DataEq(OfStream(read.rest).obj, both)
            /\ input # <<>> => ~DataEq(addressed, both)

\* The message or password to encrypt, in pieces, and its first block.
Message == FlattenSeq(input)
FirstBlock == [n \in 1..8 |-> IF n <= Len(Message) THEN Message[n] ELSE 0]

\* libdes encrypts a block as FIPS 46 says and decrypts what it encrypted; the
\* parity bits of a key say nothing; three equal keys are one key; and the keys of
\* the table of weak ones undo each other, 1F..1F and E0..E0 apart, which are none.
\* des_fcrypt is the crypt of Unix, where characters after the eighth say nothing.
DesIsStandard ==
    /\ kind = "cipher" =>
        /\ \A key \in CipherKeys :
              LET ks == KeySchedule(key)
                  cipher == EcbEncrypt(FirstBlock, ks, TRUE)
              IN  /\ cipher = StdEncrypt(FirstBlock, key)
                  /\ EcbEncrypt(cipher, ks, FALSE) = FirstBlock
                  /\ SetKey(SetOddParity(key), TRUE, 8).ret # -1
                  /\ KeySchedule(SetOddParity(key)) = ks
                  /\ Encrypt3(Load(FirstBlock), ks, ks, ks) = Load(cipher)
        /\ Len(input) = 1 =>
              \A weak \in WeakKeys \ {[n \in 1..8 |-> 31], [n \in 1..8 |-> 224]} :
                  \E other \in WeakKeys :
                      StdEncrypt(EcbEncrypt(FirstBlock, KeySchedule(weak), TRUE), other)
                          = FirstBlock
    /\ kind = "password" =>
        \A salt \in Salts : Fcrypt(Message, salt) = StdCrypt(Message, salt[1], salt[2])

\* A message of any length survives the chaining modes; encrypting or decrypting it
\* in pieces of whole blocks, each with the vector that the one before left, is
\* encrypting or decrypting it at once.
ChainingRoundTrip ==
    kind = "cipher" =>
        \A key \in CipherKeys :
            LET ks == KeySchedule(key)
                ks2 == KeySchedule(Reverse(key))
                n == Len(Message)
                iv == key
                whole == NcbcEncrypt(Message, n, ks, iv, TRUE)
                ede == Ede3CbcEncrypt(Message, n, ks, ks2, ks, iv, TRUE)
            IN  /\ Len(whole.out) = 8 * ((n + 7) \div 8)
                /\ CbcEncrypt(whole.out, n, ks, iv, FALSE) = [out |-> Message, ivec |-> iv]
                /\ Ede3CbcEncrypt(ede.out, n, ks, ks2, ks, iv, FALSE).out = Message
                /\ n > 8 =>
                    LET head == NcbcEncrypt(Message, 8, ks, iv, TRUE)
                        rest == SubSeq(Message, 9, n)
                        tail == NcbcEncrypt(rest, n - 8, ks, head.ivec, TRUE)
                        back == NcbcEncrypt(head.out, 8, ks, iv, FALSE)
                    IN  /\ whole = [out |-> head.out \o tail.out, ivec |-> tail.ivec]
                        /\ NcbcEncrypt(tail.out, n - 8, ks, back.ivec, FALSE).out = rest
=============================================================================
