-------------------------- MODULE ConversionProofs --------------------------
(***************************************************************************)
(* The conversions, for inputs of any length.                              *)
(***************************************************************************)
EXTENDS Conversions, ValuesProofs, FiniteSetTheorems

\* Sequences one after the other: each is found where the ones before it end.
LEMMA FlattenIs ==
    ASSUME NEW X, NEW ss \in Seq(Seq(X))
    PROVE  \E flat \in [0..Len(ss) -> Seq(X)] :
              /\ flat[0] = <<>> /\ FlattenSeq(ss) = flat[Len(ss)]
              /\ \A n \in 1..Len(ss) : flat[n] = flat[n - 1] \o ss[n]
<1> DEFINE K == Len(ss)
           good(f, k) == f = [i \in 1..k |-> IF i = 1 THEN ss[i] ELSE f[i - 1] \o ss[i]]
           T == {k \in 0..K : \E f : good(f, k)}
<1>1. K \in Nat /\ \A n \in 1..K : ss[n] \in Seq(X)
  OBVIOUS
<1>2. 0 \in T
  <2>1. \E f : good(f, 0)
    <3>1. good(<<>>, 0)
      OBVIOUS
    <3> HIDE DEF good
    <3>2. QED
      BY <3>1
  <2> HIDE DEF good
  <2>2. QED
    BY <1>1, <2>1
<1>3. ASSUME NEW k \in 1..K, k - 1 \in T PROVE k \in T
  <2>1. PICK f : good(f, k - 1)
    BY <1>3
  <2> DEFINE new == IF k = 1 THEN ss[k] ELSE f[k - 1] \o ss[k]
             g == [i \in 1..k |-> IF i = k THEN new ELSE f[i]]
  <2>2. \A i \in 1..(k - 1) : f[i] = IF i = 1 THEN ss[i] ELSE f[i - 1] \o ss[i]
    BY <2>1
  <2>3. ASSUME NEW i \in 1..k PROVE g[i] = IF i = 1 THEN ss[i] ELSE g[i - 1] \o ss[i]
    <3>1. CASE i = k /\ i = 1
      BY <3>1
    <3>2. CASE i = k /\ i # 1
      <4>1. k - 1 \in 1..k /\ k - 1 # k
        BY <3>2
      <4>2. g[k - 1] = f[k - 1]
        BY <4>1
      <4>3. QED
        BY <3>2, <4>2
    <3>3. CASE i # k
      <4>1. i \in 1..(k - 1)
        BY <3>3
      <4>2. g[i] = f[i]
        BY <3>3
      <4>3. i # 1 => g[i - 1] = f[i - 1]
        <5>1. SUFFICES ASSUME i # 1 PROVE g[i - 1] = f[i - 1]
          OBVIOUS
        <5>2. i - 1 \in 1..k /\ i - 1 # k
          BY <4>1, <5>1
        <5>3. QED
          BY <5>2
      <4> HIDE DEF g
      <4>4. QED
        BY <2>2, <4>1, <4>2, <4>3
    <3>4. QED
      BY <3>1, <3>2, <3>3
  <2>4. good(g, k)
    <3>1. g = [i \in 1..k |-> g[i]]
      OBVIOUS
    <3> HIDE DEF g
    <3>2. QED
      BY <2>3, <3>1
  <2> HIDE DEF good, g
  <2>5. QED
    BY <1>1, <2>4
<1>4. PICK f : good(f, K)
  <2> HIDE DEF T
  <2>1. \A k \in 0..K : k \in T
    <3> HIDE DEF K
    <3>1. QED
      BY <1>1, <1>2, <1>3, Reached
  <2> HIDE DEF good
  <2>2. QED
    BY <1>1, <2>1 DEF T
<1> DEFINE flatten[i \in 1..K] == IF i = 1 THEN ss[i] ELSE flatten[i - 1] \o ss[i]
<1>5. flatten = [i \in 1..K |-> IF i = 1 THEN ss[i] ELSE flatten[i - 1] \o ss[i]]
  BY <1>4 DEF flatten
<1> DEFINE flat == [n \in 0..K |-> IF n = 0 THEN <<>> ELSE flatten[n]]
<1>6. FlattenSeq(ss) = flat[K]
  <2>1. CASE K = 0
    BY <1>1, <2>1 DEF FlattenSeq
  <2>2. CASE K # 0
    <3>1. FlattenSeq(ss) = flatten[K]
      BY <2>2 DEF FlattenSeq, flatten
    <3> HIDE DEF flatten
    <3>2. QED
      BY <1>1, <2>2, <3>1
  <2>3. QED
    BY <2>1, <2>2
<1> HIDE DEF flatten
<1>7. ASSUME NEW n \in 1..K PROVE flat[n] = flat[n - 1] \o ss[n]
  <2>1. n \in 0..K /\ n # 0 /\ flat[n] = flatten[n]
    BY <1>7
  <2>2. CASE n = 1
    <3>1. flat[n - 1] = <<>> /\ flatten[n] = ss[n]
      BY <1>5, <2>2
    <3>2. <<>> \o ss[n] = ss[n]
      BY <1>1
    <3> HIDE DEF flat
    <3>3. QED
      BY <2>1, <3>1, <3>2
  <2>3. CASE n # 1
    <3>1. n - 1 \in 0..K /\ n - 1 # 0 /\ n - 1 \in 1..K
      BY <2>3
    <3>2. flat[n - 1] = flatten[n - 1] /\ flatten[n] = flatten[n - 1] \o ss[n]
      BY <1>5, <2>3, <3>1
    <3>3. QED
      BY <2>1, <3>2
  <2>4. QED
    BY <2>2, <2>3
<1>8. flat[0] = <<>> /\ DOMAIN flat = 0..K /\ flat = [n \in 0..K |-> flat[n]]
  BY <1>1
<1> HIDE DEF flat
<1>9. \A n \in 0..K : flat[n] \in Seq(X)
  <2> DEFINE U == {n \in 0..K : flat[n] \in Seq(X)}
  <2>1. 0 \in U
    <3>1. <<>> \in Seq(X) /\ 0 \in 0..K
      BY <1>1
    <3>2. QED
      BY <1>8, <3>1
  <2>2. ASSUME NEW n \in 1..K, n - 1 \in U PROVE n \in U
    <3>1. flat[n - 1] \in Seq(X) /\ ss[n] \in Seq(X) /\ n \in 0..K
      BY <1>1, <2>2
    <3>2. flat[n] = flat[n - 1] \o ss[n]
      BY <1>7
    <3>3. flat[n - 1] \o ss[n] \in Seq(X)
      BY <3>1
    <3>4. QED
      BY <3>1, <3>2, <3>3
  <2> HIDE DEF U
  <2>3. \A n \in 0..K : n \in U
    BY <1>1, <2>1, <2>2, Reached
  <2>4. QED
    BY <2>3 DEF U
<1>10. flat \in [0..K -> Seq(X)]
  BY <1>8, <1>9
<1>11. QED
  BY <1>6, <1>7, <1>8, <1>10

\* A loop whose step is a function of the pass and of what it finds.
LEMMA LoopIs ==
    ASSUME NEW K \in Nat, NEW U, NEW base \in U, NEW step \in [(1..K) \X U -> U]
    PROVE  \E f \in [0..K -> U] : Runs(f, K, base, step)
<1> DEFINE S == [n \in 0..K |-> U]
<1>1. base \in S[0] /\ \A n \in 1..K : \A x \in S[n - 1] : step[<<n, x>>] \in S[n]
  <2>1. ASSUME NEW n \in 1..K PROVE S[n] = U /\ S[n - 1] = U
    <3>1. n \in 0..K /\ n - 1 \in 0..K
      OBVIOUS
    <3>2. QED
      BY <3>1
  <2>2. S[0] = U
    OBVIOUS
  <2> HIDE DEF S
  <2>3. QED
    BY <2>1, <2>2
<1>2. \A n \in 0..K : S[n] = U
  OBVIOUS
<1> HIDE DEF S
<1>3. PICK f : Runs(f, K, base, step) /\ \A n \in 0..K : f[n] \in S[n]
  BY <1>1, LoopRuns
<1>4. f \in [0..K -> U]
  BY <1>2, <1>3 DEF Runs
<1>5. QED
  BY <1>3, <1>4

-----------------------------------------------------------------------------
\* cm_StringToHex takes the characters one by one.
HexStates == [bytes : Seq(Byte), high : Chars \cup {NoChar}]

LEMMA ReadCharIs ==
    ASSUME NEW done \in HexStates, NEW c \in Chars
    PROVE  ReadChar(done, c) \in HexStates
<1>1. /\ DOMAIN done = {"bytes", "high"} /\ done.bytes \in Seq(Byte)
      /\ done = [bytes |-> done.bytes, high |-> done.high]
      /\ done.high \in Chars \cup {NoChar}
  BY DEF HexStates
<1>2. CASE done.high = NoChar
  BY <1>1, <1>2 DEF ReadChar, HexStates
<1>3. CASE done.high # NoChar
  <2>1. ConvertHexChar(done.high) \in Int /\ ConvertHexChar(c) \in Int
    BY DEF ConvertHexChar
  <2>2. (ConvertHexChar(done.high) * 16 + ConvertHexChar(c)) % 256 \in Byte
    BY <2>1 DEF Byte
  <2>3. QED
    BY <1>1, <1>3, <2>2 DEF ReadChar, HexStates
<1>4. QED
  BY <1>2, <1>3

LEMMA StringToHexIs ==
    ASSUME NEW text \in Seq(Chars)
    PROVE  \E read \in [0..Len(text) -> HexStates] :
              /\ read[0] = ReadNothing /\ StringToHex(text) = read[Len(text)].bytes
              /\ \A n \in 1..Len(text) : read[n] = ReadChar(read[n - 1], text[n])
<1> DEFINE K == Len(text)
           step == [e \in (1..K) \X HexStates |-> ReadChar(e[2], text[e[1]])]
           read[n \in 0..K] == IF n = 0 THEN ReadNothing ELSE ReadChar(read[n - 1], text[n])
<1>1. K \in Nat /\ ReadNothing \in HexStates /\ \A n \in 1..K : text[n] \in Chars
  BY DEF ReadNothing, HexStates
<1>2. step \in [(1..K) \X HexStates -> HexStates]
  BY <1>1, ReadCharIs
<1>3. ASSUME NEW n \in 1..K, NEW x \in HexStates PROVE step[<<n, x>>] = ReadChar(x, text[n])
  OBVIOUS
<1> HIDE DEF step, K
<1>4. PICK f \in [0..K -> HexStates] : Runs(f, K, ReadNothing, step)
  BY <1>1, <1>2, LoopIs
<1>5. f = [n \in 0..K |-> IF n = 0 THEN ReadNothing ELSE ReadChar(f[n - 1], text[n])]
  <2>1. ASSUME NEW n \in 0..K, n # 0 PROVE step[<<n, f[n - 1]>>] = ReadChar(f[n - 1], text[n])
    <3>1. n \in 1..K /\ n - 1 \in 0..K
      BY <1>1, <2>1
    <3>2. QED
      BY <1>3, <3>1
  <2>2. QED
    BY <1>4, <2>1 DEF Runs
<1>6. read = [n \in 0..K |-> IF n = 0 THEN ReadNothing ELSE ReadChar(read[n - 1], text[n])]
  BY <1>5 DEF read
<1>7. StringToHex(text) = read[K].bytes
  BY DEF StringToHex, read, K
<1> HIDE DEF read
<1>8. read[0] = ReadNothing /\ \A n \in 1..K : read[n] = ReadChar(read[n - 1], text[n])
  BY <1>1, <1>6
<1>9. \A n \in 0..K : read[n] \in HexStates
  <2> DEFINE T == {n \in 0..K : read[n] \in HexStates}
  <2>1. 0 \in T
    BY <1>1, <1>8
  <2>2. ASSUME NEW n \in 1..K, n - 1 \in T PROVE n \in T
    <3>1. n \in 0..K /\ read[n - 1] \in HexStates /\ text[n] \in Chars
      BY <1>1, <2>2
    <3>2. QED
      BY <1>8, <3>1, ReadCharIs
  <2> HIDE DEF T
  <2>3. \A n \in 0..K : n \in T
    BY <1>1, <2>1, <2>2, Reached
  <2>4. QED
    BY <2>3 DEF T
<1>10. read \in [0..K -> HexStates]
  BY <1>6, <1>9
<1>11. QED
  BY <1>7, <1>8, <1>10 DEF K

\* The digits of a text, one character after the other.
KeepDigit(digits, c) == IF c = Space THEN digits ELSE Append(digits, c)

LEMMA DigitsIs ==
    ASSUME NEW text \in Seq(Chars)
    PROVE  \E digits \in [0..Len(text) -> Seq(Chars)] :
              /\ digits[0] = <<>> /\ Digits(text) = digits[Len(text)]
              /\ \A n \in 1..Len(text) : digits[n] = KeepDigit(digits[n - 1], text[n])
<1> DEFINE K == Len(text)
           step == [e \in (1..K) \X Seq(Chars) |-> KeepDigit(e[2], text[e[1]])]
           digits[n \in 0..K] ==
               IF n = 0 THEN <<>>
               ELSE IF text[n] = Space THEN digits[n - 1] ELSE Append(digits[n - 1], text[n])
<1>1. /\ K \in Nat /\ <<>> \in Seq(Chars)
      /\ \A n \in 1..K : text[n] \in Chars
      /\ \A s \in Seq(Chars), c \in Chars : KeepDigit(s, c) \in Seq(Chars)
  BY DEF KeepDigit
<1>2. step \in [(1..K) \X Seq(Chars) -> Seq(Chars)]
  BY <1>1
<1>3. ASSUME NEW n \in 1..K, NEW x \in Seq(Chars) PROVE step[<<n, x>>] = KeepDigit(x, text[n])
  OBVIOUS
<1> HIDE DEF step, K
<1>4. PICK f \in [0..K -> Seq(Chars)] : Runs(f, K, <<>>, step)
  BY <1>1, <1>2, LoopIs
<1>5. f = [n \in 0..K |-> IF n = 0 THEN <<>>
                          ELSE IF text[n] = Space THEN f[n - 1] ELSE Append(f[n - 1], text[n])]
  <2>1. ASSUME NEW n \in 0..K, n # 0
        PROVE  step[<<n, f[n - 1]>>]
                  = IF text[n] = Space THEN f[n - 1] ELSE Append(f[n - 1], text[n])
    <3>1. n \in 1..K /\ n - 1 \in 0..K
      BY <1>1, <2>1
    <3>2. step[<<n, f[n - 1]>>] = KeepDigit(f[n - 1], text[n])
      BY <1>3, <3>1
    <3>3. QED
      BY <3>2 DEF KeepDigit
  <2>2. QED
    BY <1>4, <2>1 DEF Runs
<1>6. digits = [n \in 0..K |->
                  IF n = 0 THEN <<>>
                  ELSE IF text[n] = Space THEN digits[n - 1] ELSE Append(digits[n - 1], text[n])]
  BY <1>5 DEF digits
<1>7. Digits(text) = digits[K]
  BY DEF Digits, digits, K
<1> HIDE DEF digits
<1>8. digits[0] = <<>> /\ \A n \in 1..K : digits[n] = KeepDigit(digits[n - 1], text[n])
  <2>1. 0 \in 0..K /\ \A n \in 1..K : n \in 0..K /\ n # 0
    BY <1>1
  <2>2. QED
    BY <1>6, <2>1 DEF KeepDigit
<1>9. \A n \in 0..K : digits[n] \in Seq(Chars)
  <2> DEFINE T == {n \in 0..K : digits[n] \in Seq(Chars)}
  <2>1. 0 \in T
    <3>1. 0 \in 0..K /\ digits[0] \in Seq(Chars)
      BY <1>1, <1>8
    <3>2. QED
      BY <3>1
  <2>2. ASSUME NEW n \in 1..K, n - 1 \in T PROVE n \in T
    <3>1. n \in 0..K /\ digits[n - 1] \in Seq(Chars) /\ text[n] \in Chars
      BY <1>1, <2>2
    <3>2. QED
      BY <1>1, <1>8, <3>1
  <2> HIDE DEF T
  <2>3. \A n \in 0..K : n \in T
    BY <1>1, <2>1, <2>2, Reached
  <2>4. QED
    BY <2>3 DEF T
<1>10. digits \in [0..K -> Seq(Chars)]
  BY <1>6, <1>9
<1>11. QED
  BY <1>7, <1>8, <1>10 DEF K

\* However a text looks, half of its characters are enough for its bytes.
LEMMA HexFits ==
    ASSUME NEW text \in Seq(Chars)
    PROVE  2 * Len(StringToHex(text)) <= Len(text)
<1> DEFINE K == Len(text)
<1>1. PICK read \in [0..K -> HexStates] :
          /\ read[0] = ReadNothing /\ StringToHex(text) = read[K].bytes
          /\ \A n \in 1..K : read[n] = ReadChar(read[n - 1], text[n])
  BY StringToHexIs
<1> DEFINE fits(n) == 2 * Len(read[n].bytes) + (IF read[n].high = NoChar THEN 0 ELSE 1) <= n
           T == {n \in 0..K : fits(n)}
<1>2. K \in Nat /\ 0 \in T
  <2>1. Len(read[0].bytes) = 0 /\ read[0].high = NoChar /\ K \in Nat
    BY <1>1 DEF ReadNothing
  <2>2. QED
    BY <2>1
<1>3. ASSUME NEW n \in 1..K, n - 1 \in T PROVE n \in T
  <2>1. /\ n \in 0..K /\ n - 1 \in 0..K /\ fits(n - 1)
        /\ read[n - 1] \in HexStates /\ read[n] = ReadChar(read[n - 1], text[n])
    BY <1>1, <1>3
  <2>2. read[n - 1].bytes \in Seq(Byte) /\ Len(read[n - 1].bytes) \in Nat
    BY <2>1 DEF HexStates
  <2>3. CASE read[n - 1].high = NoChar
    <3>1. read[n].bytes = read[n - 1].bytes
      BY <2>1, <2>3 DEF ReadChar, HexStates
    <3>2. 2 * Len(read[n - 1].bytes) <= n - 1
      BY <2>1, <2>3
    <3>3. PICK m \in {0, 1} : m = IF read[n].high = NoChar THEN 0 ELSE 1
      OBVIOUS
    <3>4. fits(n)
      <4>1. 2 * Len(read[n].bytes) + m <= n
        BY <2>2, <3>1, <3>2
      <4>2. QED
        BY <3>3, <4>1
    <3> HIDE DEF fits
    <3>5. QED
      BY <2>1, <3>4
  <2>4. CASE read[n - 1].high # NoChar
    <3>1. read[n].high = NoChar /\ Len(read[n].bytes) = Len(read[n - 1].bytes) + 1
      BY <2>1, <2>2, <2>4 DEF ReadChar
    <3>2. 2 * Len(read[n - 1].bytes) + 1 <= n - 1
      BY <2>1, <2>4
    <3>3. fits(n)
      BY <2>2, <3>1, <3>2
    <3> HIDE DEF fits
    <3>4. QED
      BY <2>1, <3>3
  <2>5. QED
    BY <2>3, <2>4
<1>4. \A n \in 0..K : n \in T
  <2> HIDE DEF T, K
  <2>1. QED
    BY <1>2, <1>3, Reached
<1>5. fits(K)
  BY <1>2, <1>4
<1>6. Len(read[K].bytes) \in Nat
  BY <1>1, <1>2 DEF HexStates
<1>7. 2 * Len(read[K].bytes) <= K
  <2>1. PICK m \in {0, 1} : m = IF read[K].high = NoChar THEN 0 ELSE 1
    OBVIOUS
  <2>2. 2 * Len(read[K].bytes) + m <= K
    BY <1>5, <2>1
  <2>3. QED
    BY <1>2, <1>6, <2>2
<1>8. QED
  BY <1>1, <1>7

\* What is read of a text is the pairs of the digits so far, and the odd one is held.
PairsRead(done, digits) ==
    /\ Len(digits) = 2 * Len(done.bytes) + (IF done.high = NoChar THEN 0 ELSE 1)
    /\ done.high # NoChar => done.high = digits[Len(digits)]
    /\ \A n \in 1..Len(done.bytes) :
          done.bytes[n] = 16 * digits[2 * n - 1] + digits[2 * n]

LEMMA PairGrows ==
    ASSUME NEW done \in HexStates, NEW digits \in Seq(0..15), PairsRead(done, digits),
           NEW c \in 0..15
    PROVE  PairsRead(ReadChar(done, c), Append(digits, c))
<1> DEFINE new == ReadChar(done, c)
           more == Append(digits, c)
           N == Len(digits)
           B == Len(done.bytes)
<1>1. /\ done.bytes \in Seq(Byte) /\ B \in Nat /\ N \in Nat
      /\ done = [bytes |-> done.bytes, high |-> done.high]
      /\ Len(more) = N + 1 /\ more[N + 1] = c /\ \A i \in 1..N : more[i] = digits[i]
      /\ c # NoChar /\ c # Space
  BY DEF HexStates, NoChar, Space
<1>2. \A n \in 1..B : 2 * n - 1 \in Int /\ 2 * n \in Int
  OBVIOUS
<1> HIDE DEF more
<1>3. CASE done.high = NoChar
  <2>1. new.bytes = done.bytes /\ new.high = c
    BY <1>1, <1>3 DEF ReadChar
  <2>2. N = 2 * B
    BY <1>1, <1>3 DEF PairsRead
  <2>3. \A n \in 1..B : 2 * n - 1 \in 1..N /\ 2 * n \in 1..N
    BY <1>1, <2>2
  <2>4. \A n \in 1..B : done.bytes[n] = 16 * more[2 * n - 1] + more[2 * n]
    BY <1>1, <2>3 DEF PairsRead
  <2> HIDE DEF new
  <2>5. PairsRead(new, more)
    BY <1>1, <2>1, <2>2, <2>4 DEF PairsRead, N
  <2>6. QED
    BY <2>5 DEF new, more
<1>4. CASE done.high # NoChar
  <2> DEFINE byte == (ConvertHexChar(done.high) * 16 + ConvertHexChar(c)) % 256
  <2>1. new.bytes = Append(done.bytes, byte) /\ new.high = NoChar
    BY <1>4 DEF ReadChar
  <2>2. N = 2 * B + 1 /\ done.high = digits[N] /\ digits[N] \in 0..15
    BY <1>1, <1>4 DEF PairsRead
  <2>3. byte = 16 * digits[N] + c
    <3>1. ConvertHexChar(done.high) = digits[N] /\ ConvertHexChar(c) = c
      BY <2>2 DEF ConvertHexChar
    <3>2. PICK d \in 0..15 : d = digits[N]
      BY <2>2
    <3>3. (d * 16 + c) % 256 = 16 * d + c
      OBVIOUS
    <3>4. QED
      BY <3>1, <3>2, <3>3
  <2> HIDE DEF byte, N
  <2>4. /\ Len(new.bytes) = B + 1 /\ new.bytes[B + 1] = byte
        /\ \A n \in 1..B : new.bytes[n] = done.bytes[n]
    BY <1>1, <2>1
  <2> HIDE DEF B
  <2>5. ASSUME NEW n \in 1..(B + 1)
        PROVE  new.bytes[n] = 16 * more[2 * n - 1] + more[2 * n]
    <3>1. CASE n = B + 1
      <4>1. 2 * n - 1 = N /\ 2 * n = N + 1 /\ N \in 1..N
        BY <1>1, <2>2, <3>1
      <4>2. more[2 * n - 1] = digits[N] /\ more[2 * n] = c
        BY <1>1, <4>1
      <4>3. QED
        BY <2>3, <2>4, <3>1, <4>2
    <3>2. CASE n # B + 1
      <4>1. n \in 1..B /\ 2 * n - 1 \in 1..N /\ 2 * n \in 1..N
        BY <1>1, <2>2, <3>2
      <4>2. done.bytes[n] = 16 * digits[2 * n - 1] + digits[2 * n]
        BY <4>1 DEF PairsRead, B
      <4>3. QED
        BY <1>1, <2>4, <4>1, <4>2
    <3>3. QED
      BY <3>1, <3>2
  <2>6. Len(more) = 2 * Len(new.bytes) + 0
    BY <1>1, <2>2, <2>4
  <2> HIDE DEF new
  <2>7. PairsRead(new, more)
    BY <2>1, <2>4, <2>5, <2>6 DEF PairsRead
  <2>8. QED
    BY <2>7 DEF new, more
<1>5. QED
  BY <1>3, <1>4

\* A well-formed text is read as the bytes that its digits spell.
LEMMA HexIsPairs ==
    ASSUME NEW text \in Seq(Chars), WellFormed(text)
    PROVE  LET bytes == StringToHex(text)
               digits == Digits(text)
           IN  /\ 2 * Len(bytes) = Len(digits)
               /\ \A n \in 1..Len(bytes) :
                     bytes[n] = 16 * digits[2*n - 1] + digits[2*n]
<1> DEFINE K == Len(text)
<1>1. PICK read \in [0..K -> HexStates] :
          /\ read[0] = ReadNothing /\ StringToHex(text) = read[K].bytes
          /\ \A n \in 1..K : read[n] = ReadChar(read[n - 1], text[n])
  BY StringToHexIs
<1>2. PICK digits \in [0..K -> Seq(Chars)] :
          /\ digits[0] = <<>> /\ Digits(text) = digits[K]
          /\ \A n \in 1..K : digits[n] = KeepDigit(digits[n - 1], text[n])
  BY DigitsIs
<1> DEFINE count(n) == Cardinality({m \in 1..n : text[m] # Space})
           good(n) == /\ digits[n] \in Seq(0..15) /\ PairsRead(read[n], digits[n])
                      /\ count(n) = Len(digits[n])
           T == {n \in 0..K : good(n)}
<1>3. /\ K \in Nat
      /\ \A n \in 1..K : /\ text[n] = Space \/ text[n] \in 0..15
                         /\ text[n] = Space \/ n = K => count(n) % 2 = 0
  BY DEF WellFormed, Chars, Space, NoDigit
<1>4. \A n \in 0..K : IsFiniteSet({m \in 1..n : text[m] # Space})
  <2> TAKE n \in 0..K
  <2>1. IsFiniteSet(1..n) /\ {m \in 1..n : text[m] # Space} \in SUBSET (1..n)
    BY <1>3, FS_Interval
  <2>2. QED
    BY <2>1, FS_Subset
<1>5. 0 \in T
  <2>1. {m \in 1..0 : text[m] # Space} = {}
    OBVIOUS
  <2>2. count(0) = 0
    BY <2>1, FS_EmptySet
  <2>3. PairsRead(read[0], digits[0])
    BY <1>1, <1>2 DEF PairsRead, ReadNothing
  <2>4. digits[0] \in Seq(0..15) /\ Len(digits[0]) = 0 /\ 0 \in 0..K
    BY <1>2, <1>3
  <2> HIDE DEF count
  <2>5. QED
    BY <2>2, <2>3, <2>4
<1>6. ASSUME NEW n \in 1..K, n - 1 \in T PROVE n \in T
  <2>1. n \in 0..K /\ n - 1 \in 0..K /\ good(n - 1)
    BY <1>6
  <2>2. /\ read[n - 1] \in HexStates /\ read[n] = ReadChar(read[n - 1], text[n])
        /\ digits[n] = KeepDigit(digits[n - 1], text[n])
    BY <1>1, <1>2, <2>1
  <2> DEFINE before == {m \in 1..(n - 1) : text[m] # Space}
             upto == {m \in 1..n : text[m] # Space}
  <2>3. CASE text[n] = Space
    <3>1. upto = before
      BY <2>3
    <3>2. count(n) = count(n - 1) /\ digits[n] = digits[n - 1]
      BY <2>2, <2>3, <3>1 DEF KeepDigit
    <3>3. count(n) % 2 = 0
      BY <1>3, <2>3
    <3>4. read[n - 1].high = NoChar
      <4>1. PICK c \in Nat : c = Len(read[n - 1].bytes)
        BY <2>2 DEF HexStates
      <4>2. Len(digits[n - 1]) % 2 = 0
        BY <2>1, <3>2, <3>3
      <4>3. Len(digits[n - 1]) = 2 * c + (IF read[n - 1].high = NoChar THEN 0 ELSE 1)
        BY <2>1, <4>1 DEF PairsRead
      <4>4. (2 * c + 1) % 2 = 1
        OBVIOUS
      <4>5. QED
        BY <4>2, <4>3, <4>4
    <3>5. read[n] = read[n - 1]
      BY <2>2, <2>3, <3>4 DEF ReadChar
    <3> HIDE DEF count
    <3>6. QED
      BY <2>1, <3>2, <3>5
  <2>4. CASE text[n] # Space
    <3>1. text[n] \in 0..15 /\ digits[n] = Append(digits[n - 1], text[n])
      BY <1>3, <2>2, <2>4 DEF KeepDigit
    <3>2. PairsRead(read[n], digits[n])
      BY <2>1, <2>2, <3>1, PairGrows
    <3>3. upto = before \cup {n} /\ n \notin before
      BY <2>4
    <3>4. IsFiniteSet(before)
      BY <1>4, <2>1
    <3> HIDE DEF before, upto
    <3>5. Cardinality(upto) = Cardinality(before) + 1
      BY <3>3, <3>4, FS_AddElement
    <3>6. Len(digits[n]) = Len(digits[n - 1]) + 1 /\ digits[n] \in Seq(0..15)
      BY <2>1, <3>1
    <3>7. count(n) = Len(digits[n])
      BY <2>1, <3>5, <3>6 DEF before, upto
    <3> HIDE DEF count
    <3>8. QED
      BY <2>1, <3>2, <3>6, <3>7
  <2>5. QED
    BY <2>3, <2>4
<1>7. good(K)
  <2>1. \A n \in 0..K : n \in T
    <3> HIDE DEF T, K
    <3>1. QED
      BY <1>3, <1>5, <1>6, Reached
  <2> HIDE DEF good
  <2>2. QED
    BY <1>3, <2>1
<1>8. read[K].high = NoChar
  <2>1. CASE K = 0
    BY <1>1, <2>1 DEF ReadNothing
  <2>2. CASE K # 0
    <3>1. count(K) % 2 = 0
      BY <1>3, <2>2
    <3>2. PICK c \in Nat : c = Len(read[K].bytes)
      BY <1>1, <1>3 DEF HexStates
    <3>3. Len(digits[K]) % 2 = 0
      BY <1>7, <3>1
    <3>4. Len(digits[K]) = 2 * c + (IF read[K].high = NoChar THEN 0 ELSE 1)
      BY <1>7, <3>2 DEF PairsRead
    <3>5. (2 * c + 1) % 2 = 1
      OBVIOUS
    <3>6. QED
      BY <3>3, <3>4, <3>5
  <2>3. QED
    BY <2>1, <2>2
<1>9. Len(read[K].bytes) \in Nat
  BY <1>1, <1>3 DEF HexStates
<1>10. PairsRead(read[K], digits[K])
  BY <1>7
<1>11. QED
  BY <1>1, <1>2, <1>8, <1>9, <1>10 DEF PairsRead

\* The text of a byte array, character by character.
LEMMA HexTextIs ==
    ASSUME NEW bytes \in Seq(Byte)
    PROVE  LET text == ByteArrayToHexStr(bytes)
           IN  /\ text \in Seq(Chars) /\ Len(text) = 3 * Len(bytes)
               /\ \A m \in 1..Len(bytes) : /\ text[3 * m - 2] = bytes[m] \div 16
                                           /\ text[3 * m - 1] = bytes[m] % 16
                                           /\ text[3 * m] = Space
<1> DEFINE K == Len(bytes)
           ss == [n \in 1..K |-> <<bytes[n] \div 16, bytes[n] % 16, Space>>]
<1>1. K \in Nat /\ \A n \in 1..K : bytes[n] \in 0..255
  <2>1. K \in Nat /\ \A n \in 1..K : bytes[n] \in Byte
    OBVIOUS
  <2>2. QED
    BY <2>1 DEF Byte
<1>2. ASSUME NEW n \in 1..K
      PROVE  bytes[n] \div 16 \in Chars /\ bytes[n] % 16 \in Chars /\ Space \in Chars
  <2>1. PICK b \in 0..255 : b = bytes[n]
    BY <1>1
  <2>2. b \div 16 \in 0..15 /\ b % 16 \in 0..15
    OBVIOUS
  <2>3. QED
    BY <2>1, <2>2 DEF Chars, Space, NoDigit
<1>3. ss \in Seq(Seq(Chars)) /\ Len(ss) = K /\ \A n \in 1..K : ss[n] = <<bytes[n] \div 16, bytes[n] % 16, Space>>
  BY <1>1, <1>2
<1>4. ByteArrayToHexStr(bytes) = FlattenSeq(ss)
  BY DEF ByteArrayToHexStr
<1> HIDE DEF ss, K
<1>5. PICK flat \in [0..K -> Seq(Chars)] :
          /\ flat[0] = <<>> /\ FlattenSeq(ss) = flat[K]
          /\ \A n \in 1..K : flat[n] = flat[n - 1] \o ss[n]
  BY <1>3, FlattenIs
<1> DEFINE good(n) == /\ Len(flat[n]) = 3 * n
                      /\ \A m \in 1..n : /\ flat[n][3 * m - 2] = bytes[m] \div 16
                                         /\ flat[n][3 * m - 1] = bytes[m] % 16
                                         /\ flat[n][3 * m] = Space
           T == {n \in 0..K : good(n)}
<1>6. 0 \in T
  BY <1>1, <1>5
<1>7. ASSUME NEW n \in 1..K, n - 1 \in T PROVE n \in T
  <2> DEFINE old == flat[n - 1]
  <2>1. n \in 0..K /\ n - 1 \in 0..K /\ old \in Seq(Chars) /\ good(n - 1)
    BY <1>1, <1>5, <1>7
  <2>2. flat[n] = old \o <<bytes[n] \div 16, bytes[n] % 16, Space>>
    BY <1>3, <1>5
  <2> HIDE DEF old
  <2>3. Len(old) = 3 * (n - 1)
    BY <2>1 DEF old
  <2>4. /\ Len(flat[n]) = 3 * n
        /\ \A i \in 1..(3 * (n - 1)) : flat[n][i] = old[i]
        /\ flat[n][3 * n - 2] = bytes[n] \div 16 /\ flat[n][3 * n - 1] = bytes[n] % 16
        /\ flat[n][3 * n] = Space
    <3> DEFINE hi == bytes[n] \div 16
               lo == bytes[n] % 16
    <3>1. n \in Nat /\ n > 0
      BY <1>1
    <3>2. hi \in Chars /\ lo \in Chars /\ Space \in Chars
      BY <1>2
    <3> HIDE DEF hi, lo
    <3>3. flat[n] = old \o <<hi, lo, Space>>
      BY <2>2 DEF hi, lo
    <3>4. <<hi, lo, Space>> \in Seq(Chars) /\ Len(<<hi, lo, Space>>) = 3
      BY <3>2
    <3>5. /\ Len(flat[n]) = 3 * n
          /\ \A i \in 1..(3 * (n - 1)) : flat[n][i] = old[i]
          /\ flat[n][3 * n - 2] = hi /\ flat[n][3 * n - 1] = lo
          /\ flat[n][3 * n] = Space
      <4>1. PICK u \in Seq(Chars) : u = <<hi, lo, Space>> /\ u[1] = hi /\ u[2] = lo
                                     /\ u[3] = Space /\ Len(u) = 3
        BY <3>2, <3>4
      <4>2. Len(flat[n]) = 3 * n /\ \A i \in 1..(3 * (n - 1)) : flat[n][i] = old[i]
        BY <2>1, <2>3, <3>1, <3>3, <4>1
      <4>3. \A i \in 1..3 : (old \o u)[3 * (n - 1) + i] = u[i]
        BY <2>1, <2>3, <3>1, <4>1
      <4>4. /\ 3 * n - 2 = 3 * (n - 1) + 1 /\ 3 * n - 1 = 3 * (n - 1) + 2
            /\ 3 * n = 3 * (n - 1) + 3
        BY <3>1
      <4>5. QED
        BY <3>3, <4>1, <4>2, <4>3, <4>4
    <3>6. QED
      BY <3>5 DEF hi, lo
  <2>5. ASSUME NEW m \in 1..n
        PROVE  /\ flat[n][3 * m - 2] = bytes[m] \div 16
               /\ flat[n][3 * m - 1] = bytes[m] % 16
               /\ flat[n][3 * m] = Space
    <3>1. CASE m = n
      BY <2>4, <3>1
    <3>2. CASE m # n
      <4>1. /\ m \in 1..(n - 1) /\ 3 * m - 2 \in 1..(3 * (n - 1))
            /\ 3 * m - 1 \in 1..(3 * (n - 1)) /\ 3 * m \in 1..(3 * (n - 1))
        BY <1>1, <3>2
      <4>2. /\ old[3 * m - 2] = bytes[m] \div 16 /\ old[3 * m - 1] = bytes[m] % 16
            /\ old[3 * m] = Space
        BY <2>1, <4>1 DEF old
      <4>3. QED
        BY <2>4, <4>1, <4>2
    <3>3. QED
      BY <3>1, <3>2
  <2>6. good(n)
    BY <2>4, <2>5
  <2> HIDE DEF good
  <2>7. QED
    BY <2>1, <2>6
<1>8. good(K)
  <2>1. \A n \in 0..K : n \in T
    <3> HIDE DEF T
    <3>1. QED
      BY <1>1, <1>6, <1>7, Reached
  <2> HIDE DEF good
  <2>2. QED
    BY <1>1, <2>1
<1>9. QED
  BY <1>1, <1>4, <1>5, <1>8 DEF K

\* A character before a pair, and inside one.
LEMMA BetweenPairs ==
    ASSUME NEW bytes \in Seq(Byte), NEW c \in Chars
    PROVE  ReadChar([bytes |-> bytes, high |-> NoChar], c)
               = [bytes |-> bytes, high |-> IF c = Space THEN NoChar ELSE c]
<1>1. ASSUME NEW done, done = [bytes |-> bytes, high |-> NoChar]
      PROVE  ReadChar(done, c) = [bytes |-> bytes, high |-> IF c = Space THEN NoChar ELSE c]
  <2>1. done.high = NoChar /\ [done EXCEPT !.high = c] = [bytes |-> bytes, high |-> c]
    BY <1>1
  <2>2. QED
    BY <1>1, <2>1 DEF ReadChar
<1>2. QED
  BY <1>1

LEMMA InsidePair ==
    ASSUME NEW bytes \in Seq(Byte), NEW c, NEW h \in Chars, NEW byte,
           byte = (ConvertHexChar(h) * 16 + ConvertHexChar(c)) % 256
    PROVE  ReadChar([bytes |-> bytes, high |-> h], c)
               = [bytes |-> Append(bytes, byte), high |-> NoChar]
<1>1. ASSUME NEW done, done = [bytes |-> bytes, high |-> h]
      PROVE  ReadChar(done, c) = [bytes |-> Append(bytes, byte), high |-> NoChar]
  <2>1. done.high = h /\ done.bytes = bytes /\ h # NoChar
    BY <1>1 DEF Chars, NoDigit, NoChar
  <2>2. QED
    BY <2>1 DEF ReadChar
<1>2. QED
  BY <1>1

\* What a byte array looks like in a text is read back as that byte array.
LEMMA HexIsReadBack ==
    ASSUME NEW bytes \in Seq(Byte)
    PROVE  StringToHex(ByteArrayToHexStr(bytes)) = bytes
<1> DEFINE K == Len(bytes)
           text == ByteArrayToHexStr(bytes)
<1>1. K \in Nat /\ \A n \in 1..K : bytes[n] \in 0..255
  <2>1. K \in Nat /\ \A n \in 1..K : bytes[n] \in Byte
    OBVIOUS
  <2>2. QED
    BY <2>1 DEF Byte
<1>2. /\ text \in Seq(Chars) /\ Len(text) = 3 * K
      /\ \A m \in 1..K : /\ text[3 * m - 2] = bytes[m] \div 16
                         /\ text[3 * m - 1] = bytes[m] % 16
                         /\ text[3 * m] = Space
  BY HexTextIs
<1> HIDE DEF text
<1>3. PICK read \in [0..Len(text) -> HexStates] :
          /\ read[0] = ReadNothing /\ StringToHex(text) = read[Len(text)].bytes
          /\ \A n \in 1..Len(text) : read[n] = ReadChar(read[n - 1], text[n])
  BY <1>2, StringToHexIs
<1> DEFINE T == {n \in 0..K : read[3 * n] = [bytes |-> SubSeq(bytes, 1, n), high |-> NoChar]}
<1> HIDE DEF K
<1>4. 0 \in T
  BY <1>1, <1>3 DEF ReadNothing
<1>5. ASSUME NEW n \in 1..K, n - 1 \in T PROVE n \in T
  <2>1. n \in 0..K /\ 3 * (n - 1) = 3 * n - 3
        /\ read[3 * n - 3] = [bytes |-> SubSeq(bytes, 1, n - 1), high |-> NoChar]
    BY <1>1, <1>5
  <2>2. 3 * n - 2 \in 1..Len(text) /\ 3 * n - 1 \in 1..Len(text) /\ 3 * n \in 1..Len(text)
    BY <1>1, <1>2
  <2> DEFINE hi == bytes[n] \div 16
             lo == bytes[n] % 16
             done == SubSeq(bytes, 1, n - 1)
  <2>3. hi \in 0..15 /\ lo \in 0..15 /\ (hi * 16 + lo) % 256 = bytes[n]
    <3>1. PICK b \in 0..255 : b = bytes[n]
      BY <1>1
    <3>2. /\ b \div 16 \in 0..15 /\ b % 16 \in 0..15
          /\ ((b \div 16) * 16 + (b % 16)) % 256 = b
      OBVIOUS
    <3>3. QED
      BY <3>1, <3>2
  <2>4. text[3 * n - 2] = hi /\ text[3 * n - 1] = lo /\ text[3 * n] = Space
    BY <1>2
  <2>5. Append(done, bytes[n]) = SubSeq(bytes, 1, n)
    BY <1>1 DEF K
  <2>10. done \in Seq(Byte) /\ hi \in Chars /\ lo \in Chars /\ Space \in Chars
    <3>1. done \in Seq(Byte)
      BY <1>1 DEF K
    <3>2. QED
      BY <2>3, <3>1 DEF Chars, NoDigit, Space
  <2> HIDE DEF hi, lo, done
  <2>11. /\ hi # Space /\ ConvertHexChar(hi) = hi /\ ConvertHexChar(lo) = lo
    BY <2>3 DEF ConvertHexChar, Space
  <2>6. read[3 * n - 2] = [bytes |-> done, high |-> hi]
    <3>1. read[3 * n - 2] = ReadChar(read[3 * n - 3], hi)
      BY <1>3, <2>2, <2>4
    <3>2. QED
      BY <2>1, <2>10, <2>11, <3>1, BetweenPairs DEF done
  <2>7. read[3 * n - 1] = [bytes |-> Append(done, bytes[n]), high |-> NoChar]
    <3>1. read[3 * n - 1] = ReadChar(read[3 * n - 2], lo)
      BY <1>3, <2>2, <2>4
    <3>2. bytes[n] = (ConvertHexChar(hi) * 16 + ConvertHexChar(lo)) % 256
      BY <2>3, <2>11
    <3>3. QED
      BY <2>6, <2>10, <3>1, <3>2, InsidePair
  <2>8. read[3 * n] = read[3 * n - 1]
    <3>1. read[3 * n] = ReadChar(read[3 * n - 1], Space)
      BY <1>3, <2>2, <2>4
    <3>2. bytes[n] \in Byte
      BY <1>1 DEF Byte
    <3>3. Append(done, bytes[n]) \in Seq(Byte)
      BY <2>10, <3>2
    <3>4. ReadChar([bytes |-> Append(done, bytes[n]), high |-> NoChar], Space)
            = [bytes |-> Append(done, bytes[n]), high |-> NoChar]
      BY <2>10, <3>3, BetweenPairs
    <3>5. QED
      BY <2>7, <3>1, <3>4
  <2>9. QED
    BY <2>1, <2>5, <2>7, <2>8
<1>6. K \in T
  <2> HIDE DEF T
  <2>1. \A n \in 0..K : n \in T
    BY <1>1, <1>4, <1>5, Reached
  <2>2. QED
    BY <1>1, <2>1
<1>7. SubSeq(bytes, 1, K) = bytes
  BY DEF K
<1>8. StringToHex(text) = bytes
  <2>1. Len(text) = 3 * K /\ read[3 * K] = [bytes |-> SubSeq(bytes, 1, K), high |-> NoChar]
    BY <1>2, <1>6
  <2>2. QED
    BY <1>3, <1>7, <2>1
<1>9. QED
  BY <1>8 DEF text

-----------------------------------------------------------------------------
\* A sequence of elements of a set is one of elements of a larger set.
LEMMA SeqSubset ==
    ASSUME NEW S, NEW U, S \subseteq U, NEW s \in Seq(S)
    PROVE  s \in Seq(U)
<1>1. \A n \in 1..Len(s) : s[n] \in U
  OBVIOUS
<1>2. QED
  BY <1>1

LEMMA ElementsOf ==
    ASSUME NEW X, NEW S, NEW s \in Seq(X), \A n \in 1..Len(s) : s[n] \in S
    PROVE  s \in Seq(S)
OBVIOUS

\* Every input is of its kind, and no longer than the bound.
ConversionTypeOK ==
    /\ kind \in Kinds
    /\ input \in Seq(Elements(kind)) /\ Len(input) <= MaxLength(kind)

\* The inputs of the conversions are sequences of the elements of their kinds.
LEMMA ConversionTypes == ConversionSpec => []ConversionTypeOK
<1>0. \A k \in Kinds : MaxLength(k) \in Nat
  BY InputsAssumption
<1>1. ConversionInit => ConversionTypeOK
  <2>1. \A k \in Kinds : <<>> \in Seq(Elements(k)) /\ Len(<<>>) <= MaxLength(k)
    BY <1>0
  <2>2. QED
    BY <2>1 DEF ConversionInit, ConversionTypeOK
<1>2. ConversionTypeOK /\ [ConversionNext]_conversionVars => ConversionTypeOK'
  <2>1. SUFFICES ASSUME ConversionTypeOK, [ConversionNext]_conversionVars
                 PROVE  ConversionTypeOK'
    OBVIOUS
  <2>2. ASSUME NEW e \in Elements(kind), Extend(e) PROVE ConversionTypeOK'
    <3>1. Len(input) \in Nat /\ MaxLength(kind) \in Nat
      BY <1>0, <2>1 DEF ConversionTypeOK
    <3>2. Append(input, e) \in Seq(Elements(kind)) /\ Len(Append(input, e)) = Len(input) + 1
      BY <2>1, <2>2 DEF ConversionTypeOK
    <3>3. Len(input) < MaxLength(kind) => Len(input) + 1 <= MaxLength(kind)
      BY <3>1
    <3>4. QED
      BY <2>1, <2>2, <3>2, <3>3 DEF ConversionTypeOK, Extend
  <2>3. CASE UNCHANGED conversionVars
    BY <2>1, <2>3 DEF ConversionTypeOK, conversionVars
  <2>4. QED
    BY <2>1, <2>2, <2>3 DEF ConversionNext
<1>3. QED
  BY <1>1, <1>2, PTL DEF ConversionSpec

\* Command texts of any length: cm_StringToHex reads the pairs of a well-formed one,
\* gives no more bytes than it reserved room for, and undoes cm_ByteArrayToHexStr.
THEOREM HexIsRead == ConversionSpec => []HexReadsPairs
<1>1. ConversionTypeOK => HexReadsPairs
  <2>1. SUFFICES ASSUME ConversionTypeOK PROVE HexReadsPairs
    OBVIOUS
  <2>2. ASSUME kind = "bytes" PROVE StringToHex(ByteArrayToHexStr(input)) = input
    <3>1. input \in Seq(Byte)
      <4>1. Elements("bytes") \subseteq Byte /\ input \in Seq(Elements("bytes"))
        BY <2>1, <2>2, InputsAssumption, Zenon DEF ConversionTypeOK
      <4>2. QED
        BY <4>1, SeqSubset
    <3>2. QED
      BY <3>1, HexIsReadBack
  <2>3. ASSUME kind = "text"
        PROVE  LET bytes == StringToHex(input)
                   digits == Digits(input)
               IN  /\ 2 * Len(bytes) <= Len(input)
                   /\ WellFormed(input) =>
                         /\ 2 * Len(bytes) = Len(digits)
                         /\ \A n \in 1..Len(bytes) :
                               bytes[n] = 16 * digits[2*n - 1] + digits[2*n]
    <3>1. input \in Seq(Chars)
      <4>1. Elements("text") \subseteq Chars /\ input \in Seq(Elements("text"))
        BY <2>1, <2>3, InputsAssumption, Zenon DEF ConversionTypeOK
      <4>2. QED
        BY <4>1, SeqSubset
    <3>2. QED
      BY <3>1, HexFits, HexIsPairs
  <2>4. QED
    BY <2>2, <2>3 DEF HexReadsPairs
<1>2. QED
  BY <1>1, ConversionTypes, PTL

-----------------------------------------------------------------------------
(* The functions on the levels of packets are what their definitions say. *)

LEMMA PacketsIs ==
    Packets = [n \in 0..Nesting |-> IF n = 0 THEN {} ELSE PacketsOver(Packets[n - 1])]
<1> DEFINE level(n, below) == PacketsOver(below)
           good(f, k) == f = [n \in 0..k |-> IF n = 0 THEN {} ELSE level(n, f[n - 1])]
           T == {k \in 0..Nesting : \E f : good(f, k)}
<1> HIDE DEF level
<1>1. 0 \in T
  <2>1. good([n \in 0..0 |-> {}], 0)
    OBVIOUS
  <2> HIDE DEF good
  <2>2. QED
    BY <2>1, NestingAssumption
<1>2. ASSUME NEW k \in 1..Nesting, k - 1 \in T PROVE k \in T
  <2>1. PICK f : good(f, k - 1)
    BY <1>2
  <2> DEFINE new == level(k, f[k - 1])
             g == [n \in 0..k |-> IF n = k THEN new ELSE f[n]]
  <2>2. \A n \in 0..(k - 1) : f[n] = IF n = 0 THEN {} ELSE level(n, f[n - 1])
    BY <2>1
  <2>3. ASSUME NEW n \in 0..k
        PROVE  g[n] = IF n = 0 THEN {} ELSE level(n, g[n - 1])
    <3>1. CASE n = k
      <4>1. k - 1 \in 0..k /\ k - 1 # k /\ k # 0
        OBVIOUS
      <4>2. g[k - 1] = f[k - 1] /\ g[n] = new
        BY <3>1, <4>1
      <4> HIDE DEF g
      <4>3. QED
        BY <3>1, <4>1, <4>2
    <3>2. CASE n # k
      <4>1. n \in 0..(k - 1)
        BY <3>2
      <4>2. g[n] = f[n]
        BY <3>2
      <4>3. n # 0 => g[n - 1] = f[n - 1]
        <5>1. SUFFICES ASSUME n # 0 PROVE g[n - 1] = f[n - 1]
          OBVIOUS
        <5>2. n - 1 \in 0..k /\ n - 1 # k
          BY <4>1, <5>1
        <5>3. QED
          BY <5>2
      <4> HIDE DEF g
      <4>4. QED
        BY <2>2, <4>1, <4>2, <4>3
    <3>3. QED
      BY <3>1, <3>2
  <2>4. good(g, k)
    <3>1. g = [n \in 0..k |-> g[n]]
      OBVIOUS
    <3> HIDE DEF g
    <3>2. QED
      BY <2>3, <3>1
  <2> HIDE DEF good, g
  <2>5. k \in 0..Nesting
    BY NestingAssumption
  <2>6. QED
    BY <2>4, <2>5
<1>3. \E f : good(f, Nesting)
  <2> HIDE DEF good
  <2>1. Nesting \in Nat /\ Nesting \in T
    <3> HIDE DEF T
    <3>1. \A k \in 0..Nesting : k \in T
      BY NestingAssumption, <1>1, <1>2, Reached
    <3>2. QED
      BY NestingAssumption, <3>1
  <2>2. QED
    BY <2>1
<1>4. QED
  BY <1>3 DEF level, Packets

LEMMA ChunksIs ==
    Chunks = [n \in 0..Nesting |-> IF n = 0 THEN <<>> ELSE [d \in Packets[n] |-> Chunk(d, Chunks[n - 1])]]
<1> DEFINE level(n, below) == [d \in Packets[n] |-> Chunk(d, below)]
           good(f, k) == f = [n \in 0..k |-> IF n = 0 THEN <<>> ELSE level(n, f[n - 1])]
           T == {k \in 0..Nesting : \E f : good(f, k)}
<1> HIDE DEF level
<1>1. 0 \in T
  <2>1. good([n \in 0..0 |-> <<>>], 0)
    OBVIOUS
  <2> HIDE DEF good
  <2>2. QED
    BY <2>1, NestingAssumption
<1>2. ASSUME NEW k \in 1..Nesting, k - 1 \in T PROVE k \in T
  <2>1. PICK f : good(f, k - 1)
    BY <1>2
  <2> DEFINE new == level(k, f[k - 1])
             g == [n \in 0..k |-> IF n = k THEN new ELSE f[n]]
  <2>2. \A n \in 0..(k - 1) : f[n] = IF n = 0 THEN <<>> ELSE level(n, f[n - 1])
    BY <2>1
  <2>3. ASSUME NEW n \in 0..k
        PROVE  g[n] = IF n = 0 THEN <<>> ELSE level(n, g[n - 1])
    <3>1. CASE n = k
      <4>1. k - 1 \in 0..k /\ k - 1 # k /\ k # 0
        OBVIOUS
      <4>2. g[k - 1] = f[k - 1] /\ g[n] = new
        BY <3>1, <4>1
      <4> HIDE DEF g
      <4>3. QED
        BY <3>1, <4>1, <4>2
    <3>2. CASE n # k
      <4>1. n \in 0..(k - 1)
        BY <3>2
      <4>2. g[n] = f[n]
        BY <3>2
      <4>3. n # 0 => g[n - 1] = f[n - 1]
        <5>1. SUFFICES ASSUME n # 0 PROVE g[n - 1] = f[n - 1]
          OBVIOUS
        <5>2. n - 1 \in 0..k /\ n - 1 # k
          BY <4>1, <5>1
        <5>3. QED
          BY <5>2
      <4> HIDE DEF g
      <4>4. QED
        BY <2>2, <4>1, <4>2, <4>3
    <3>3. QED
      BY <3>1, <3>2
  <2>4. good(g, k)
    <3>1. g = [n \in 0..k |-> g[n]]
      OBVIOUS
    <3> HIDE DEF g
    <3>2. QED
      BY <2>3, <3>1
  <2> HIDE DEF good, g
  <2>5. k \in 0..Nesting
    BY NestingAssumption
  <2>6. QED
    BY <2>4, <2>5
<1>3. \E f : good(f, Nesting)
  <2> HIDE DEF good
  <2>1. Nesting \in Nat /\ Nesting \in T
    <3> HIDE DEF T
    <3>1. \A k \in 0..Nesting : k \in T
      BY NestingAssumption, <1>1, <1>2, Reached
    <3>2. QED
      BY NestingAssumption, <3>1
  <2>2. QED
    BY <2>1
<1>4. QED
  BY <1>3 DEF level, Chunks

LEMMA StreamsIs ==
    Streams = [n \in 0..Nesting |-> IF n = 0 THEN <<>> ELSE [d \in Packets[n] |-> Streamed(d, Streams[n - 1])]]
<1> DEFINE level(n, below) == [d \in Packets[n] |-> Streamed(d, below)]
           good(f, k) == f = [n \in 0..k |-> IF n = 0 THEN <<>> ELSE level(n, f[n - 1])]
           T == {k \in 0..Nesting : \E f : good(f, k)}
<1> HIDE DEF level
<1>1. 0 \in T
  <2>1. good([n \in 0..0 |-> <<>>], 0)
    OBVIOUS
  <2> HIDE DEF good
  <2>2. QED
    BY <2>1, NestingAssumption
<1>2. ASSUME NEW k \in 1..Nesting, k - 1 \in T PROVE k \in T
  <2>1. PICK f : good(f, k - 1)
    BY <1>2
  <2> DEFINE new == level(k, f[k - 1])
             g == [n \in 0..k |-> IF n = k THEN new ELSE f[n]]
  <2>2. \A n \in 0..(k - 1) : f[n] = IF n = 0 THEN <<>> ELSE level(n, f[n - 1])
    BY <2>1
  <2>3. ASSUME NEW n \in 0..k
        PROVE  g[n] = IF n = 0 THEN <<>> ELSE level(n, g[n - 1])
    <3>1. CASE n = k
      <4>1. k - 1 \in 0..k /\ k - 1 # k /\ k # 0
        OBVIOUS
      <4>2. g[k - 1] = f[k - 1] /\ g[n] = new
        BY <3>1, <4>1
      <4> HIDE DEF g
      <4>3. QED
        BY <3>1, <4>1, <4>2
    <3>2. CASE n # k
      <4>1. n \in 0..(k - 1)
        BY <3>2
      <4>2. g[n] = f[n]
        BY <3>2
      <4>3. n # 0 => g[n - 1] = f[n - 1]
        <5>1. SUFFICES ASSUME n # 0 PROVE g[n - 1] = f[n - 1]
          OBVIOUS
        <5>2. n - 1 \in 0..k /\ n - 1 # k
          BY <4>1, <5>1
        <5>3. QED
          BY <5>2
      <4> HIDE DEF g
      <4>4. QED
        BY <2>2, <4>1, <4>2, <4>3
    <3>3. QED
      BY <3>1, <3>2
  <2>4. good(g, k)
    <3>1. g = [n \in 0..k |-> g[n]]
      OBVIOUS
    <3> HIDE DEF g
    <3>2. QED
      BY <2>3, <3>1
  <2> HIDE DEF good, g
  <2>5. k \in 0..Nesting
    BY NestingAssumption
  <2>6. QED
    BY <2>4, <2>5
<1>3. \E f : good(f, Nesting)
  <2> HIDE DEF good
  <2>1. Nesting \in Nat /\ Nesting \in T
    <3> HIDE DEF T
    <3>1. \A k \in 0..Nesting : k \in T
      BY NestingAssumption, <1>1, <1>2, Reached
    <3>2. QED
      BY NestingAssumption, <3>1
  <2>2. QED
    BY <2>1
<1>4. QED
  BY <1>3 DEF level, Streams

LEMMA OfStreamsIs ==
    OfStreams = [n \in 0..Nesting |-> IF n = 0 THEN <<>> ELSE [stream \in Seq(Seq(Int)) |-> Restored(stream, OfStreams[n - 1])]]
<1> DEFINE level(n, below) == [stream \in Seq(Seq(Int)) |-> Restored(stream, below)]
           good(f, k) == f = [n \in 0..k |-> IF n = 0 THEN <<>> ELSE level(n, f[n - 1])]
           T == {k \in 0..Nesting : \E f : good(f, k)}
<1> HIDE DEF level
<1>1. 0 \in T
  <2>1. good([n \in 0..0 |-> <<>>], 0)
    OBVIOUS
  <2> HIDE DEF good
  <2>2. QED
    BY <2>1, NestingAssumption
<1>2. ASSUME NEW k \in 1..Nesting, k - 1 \in T PROVE k \in T
  <2>1. PICK f : good(f, k - 1)
    BY <1>2
  <2> DEFINE new == level(k, f[k - 1])
             g == [n \in 0..k |-> IF n = k THEN new ELSE f[n]]
  <2>2. \A n \in 0..(k - 1) : f[n] = IF n = 0 THEN <<>> ELSE level(n, f[n - 1])
    BY <2>1
  <2>3. ASSUME NEW n \in 0..k
        PROVE  g[n] = IF n = 0 THEN <<>> ELSE level(n, g[n - 1])
    <3>1. CASE n = k
      <4>1. k - 1 \in 0..k /\ k - 1 # k /\ k # 0
        OBVIOUS
      <4>2. g[k - 1] = f[k - 1] /\ g[n] = new
        BY <3>1, <4>1
      <4> HIDE DEF g
      <4>3. QED
        BY <3>1, <4>1, <4>2
    <3>2. CASE n # k
      <4>1. n \in 0..(k - 1)
        BY <3>2
      <4>2. g[n] = f[n]
        BY <3>2
      <4>3. n # 0 => g[n - 1] = f[n - 1]
        <5>1. SUFFICES ASSUME n # 0 PROVE g[n - 1] = f[n - 1]
          OBVIOUS
        <5>2. n - 1 \in 0..k /\ n - 1 # k
          BY <4>1, <5>1
        <5>3. QED
          BY <5>2
      <4> HIDE DEF g
      <4>4. QED
        BY <2>2, <4>1, <4>2, <4>3
    <3>3. QED
      BY <3>1, <3>2
  <2>4. good(g, k)
    <3>1. g = [n \in 0..k |-> g[n]]
      OBVIOUS
    <3> HIDE DEF g
    <3>2. QED
      BY <2>3, <3>1
  <2> HIDE DEF good, g
  <2>5. k \in 0..Nesting
    BY NestingAssumption
  <2>6. QED
    BY <2>4, <2>5
<1>3. \E f : good(f, Nesting)
  <2> HIDE DEF good
  <2>1. Nesting \in Nat /\ Nesting \in T
    <3> HIDE DEF T
    <3>1. \A k \in 0..Nesting : k \in T
      BY NestingAssumption, <1>1, <1>2, Reached
    <3>2. QED
      BY NestingAssumption, <3>1
  <2>2. QED
    BY <2>1
<1>4. QED
  BY <1>3 DEF level, OfStreams

\* The readings of longer and longer data agree, and their limit is Reading.
LEMMA ReadingIs ==
    Reading = [n \in Nat |->
        IF n = 0 THEN [data \in Seq(Byte) |-> Ended("done")]
        ELSE [data \in Seq(Byte) |-> ReadPackets(data, Reading[n - 1])]]
<1> DEFINE base == [data \in Seq(Byte) |-> Ended("done")]
           level(below) == [data \in Seq(Byte) |-> ReadPackets(data, below)]
           good(f, k) == f = [n \in 0..k |-> IF n = 0 THEN base ELSE level(f[n - 1])]
<1> HIDE DEF base, level
<1>1. ASSUME NEW K \in Nat PROVE \E f : good(f, K)
  <2> DEFINE T == {k \in 0..K : \E f : good(f, k)}
  <2>1. 0 \in T
    <3>1. good([n \in 0..0 |-> base], 0)
      OBVIOUS
    <3> HIDE DEF good
    <3>2. QED
      BY <3>1
  <2>2. ASSUME NEW k \in 1..K, k - 1 \in T PROVE k \in T
    <3>1. PICK f : good(f, k - 1)
      BY <2>2
    <3> DEFINE new == level(f[k - 1])
               g == [n \in 0..k |-> IF n = k THEN new ELSE f[n]]
    <3>2. \A n \in 0..(k - 1) : f[n] = IF n = 0 THEN base ELSE level(f[n - 1])
      BY <3>1
    <3>3. ASSUME NEW n \in 0..k
          PROVE  g[n] = IF n = 0 THEN base ELSE level(g[n - 1])
      <4>1. CASE n = k
        <5>1. k - 1 \in 0..k /\ k - 1 # k /\ k # 0
          OBVIOUS
        <5>2. g[k - 1] = f[k - 1] /\ g[n] = new
          BY <4>1, <5>1
        <5> HIDE DEF g
        <5>3. QED
          BY <4>1, <5>1, <5>2
      <4>2. CASE n # k
        <5>1. n \in 0..(k - 1)
          BY <4>2
        <5>2. g[n] = f[n]
          BY <4>2
        <5>3. n # 0 => g[n - 1] = f[n - 1]
          <6>1. SUFFICES ASSUME n # 0 PROVE g[n - 1] = f[n - 1]
            OBVIOUS
          <6>2. n - 1 \in 0..k /\ n - 1 # k
            BY <5>1, <6>1
          <6>3. QED
            BY <6>2
        <5> HIDE DEF g
        <5>4. QED
          BY <3>2, <5>1, <5>2, <5>3
      <4>3. QED
        BY <4>1, <4>2
    <3>4. good(g, k)
      <4>1. g = [n \in 0..k |-> g[n]]
        OBVIOUS
      <4> HIDE DEF g
      <4>2. QED
        BY <3>3, <4>1
    <3> HIDE DEF good, g
    <3>5. QED
      BY <3>4
  <2>3. K \in T
    <3> HIDE DEF T
    <3>1. \A k \in 0..K : k \in T
      BY <2>1, <2>2, Reached
    <3>2. QED
      BY <3>1
  <2> HIDE DEF good
  <2>4. QED
    BY <2>3
<1> DEFINE upto == [k \in Nat |-> CHOOSE f : good(f, k)]
<1>2. ASSUME NEW k \in Nat PROVE good(upto[k], k)
  <2>1. upto[k] = CHOOSE f : good(f, k)
    OBVIOUS
  <2> HIDE DEF good, upto
  <2>2. QED
    BY <1>1, <2>1
<1> HIDE DEF upto
<1>3. ASSUME NEW k \in Nat, NEW n \in 0..k
      PROVE  upto[k][n] = IF n = 0 THEN base ELSE level(upto[k][n - 1])
  BY <1>2
<1>4. ASSUME NEW k \in Nat PROVE \A n \in 0..k : upto[k + 1][n] = upto[k][n]
  <2> DEFINE T == {n \in 0..k : upto[k + 1][n] = upto[k][n]}
  <2>1. 0 \in T
    <3>1. upto[k][0] = base /\ upto[k + 1][0] = base /\ 0 \in 0..k
      BY <1>3
    <3>2. QED
      BY <3>1
  <2>2. ASSUME NEW n \in 1..k, n - 1 \in T PROVE n \in T
    <3>1. n \in 0..k /\ n \in 0..(k + 1) /\ n # 0 /\ k + 1 \in Nat
      OBVIOUS
    <3>2. upto[k][n] = level(upto[k][n - 1])
      BY <1>3, <3>1
    <3>3. upto[k + 1][n] = level(upto[k + 1][n - 1])
      BY <1>3, <3>1
    <3>4. upto[k + 1][n - 1] = upto[k][n - 1]
      BY <2>2
    <3>5. QED
      BY <3>1, <3>2, <3>3, <3>4
  <2>3. \A n \in 0..k : n \in T
    <3> HIDE DEF T
    <3>1. QED
      BY <2>1, <2>2, Reached
  <2>4. QED
    BY <2>3
<1> DEFINE limit == [n \in Nat |-> upto[n][n]]
<1>5. ASSUME NEW n \in Nat PROVE limit[n] = IF n = 0 THEN base ELSE level(limit[n - 1])
  <2>1. CASE n = 0
    BY <1>3, <2>1
  <2>2. CASE n # 0
    <3>1. n - 1 \in Nat /\ n - 1 \in 0..(n - 1) /\ n \in 0..n /\ (n - 1) + 1 = n
      BY <2>2
    <3>2. upto[n][n] = level(upto[n][n - 1])
      BY <1>3, <2>2, <3>1
    <3>3. upto[n][n - 1] = upto[n - 1][n - 1]
      <4>1. upto[(n - 1) + 1][n - 1] = upto[n - 1][n - 1]
        BY <1>4, <3>1
      <4>2. QED
        BY <3>1, <4>1
    <3>4. QED
      BY <2>2, <3>1, <3>2, <3>3
  <2>3. QED
    BY <2>1, <2>2
<1>6. \E f : f = [n \in Nat |-> IF n = 0 THEN base ELSE level(f[n - 1])]
  <2>1. limit = [n \in Nat |-> limit[n]]
    OBVIOUS
  <2> HIDE DEF limit
  <2>2. limit = [n \in Nat |-> IF n = 0 THEN base ELSE level(limit[n - 1])]
    BY <1>5, <2>1
  <2>3. QED
    BY <2>2
<1>7. QED
  BY <1>6 DEF base, level, Reading

\* Parts of byte arrays are byte arrays.
LEMMA PartIsBytes ==
    ASSUME NEW data \in Seq(Byte), NEW i \in Nat, i >= 1, NEW j \in Int, j <= Len(data)
    PROVE  /\ SubSeq(data, i, j) \in Seq(Byte)
           /\ Len(SubSeq(data, i, j)) = IF i <= j THEN j - i + 1 ELSE 0
           /\ \A n \in 1..(j - i + 1) : SubSeq(data, i, j)[n] = data[i + n - 1]
OBVIOUS

\* Only zeros are dropped, and never all of the data.
LEMMA CompressDropsZeros ==
    ASSUME NEW data \in Seq(Byte), Len(data) >= 1
    PROVE  \E z \in 0..(Len(data) - 1) :
              /\ CompressLeadingZeros(data) = SubSeq(data, z + 1, Len(data))
              /\ \A n \in 1..z : data[n] = 0
              /\ z = 0 \/ z + 1 < Len(data)
<1> DEFINE nonzero == {n \in 1..Len(data) : data[n] # 0}
           i == IF nonzero = {} THEN 1 ELSE Min(nonzero)
<1>1. Len(data) \in Nat /\ SubSeq(data, 1, Len(data)) = data
  OBVIOUS
<1>2. i \in 1..Len(data) /\ \A n \in 1..(i - 1) : data[n] = 0
  <2>1. CASE nonzero = {}
    BY <2>1
  <2>2. CASE nonzero # {}
    <3>0. nonzero \subseteq Nat
      OBVIOUS
    <3>1. PICK x \in nonzero : \A y \in nonzero : x <= y
      <4> HIDE DEF nonzero
      <4>1. QED
        BY <2>2, <3>0, LeastNumber
    <3>2. Min(nonzero) \in nonzero /\ \A y \in nonzero : Min(nonzero) <= y
      <4> HIDE DEF nonzero
      <4>1. QED
        BY <3>1 DEF Min
    <3>3. i \in nonzero /\ \A y \in nonzero : i <= y
      BY <2>2, <3>2
    <3> HIDE DEF i
    <3>4. i \in 1..Len(data)
      BY <3>3
    <3>5. ASSUME NEW n \in 1..(i - 1), data[n] # 0 PROVE FALSE
      <4>1. n \in nonzero
        BY <3>4, <3>5
      <4>2. i <= n
        BY <3>3, <4>1
      <4>3. QED
        BY <3>4, <3>5, <4>2
    <3>6. QED
      BY <3>4, <3>5
  <2>3. QED
    BY <2>1, <2>2
<1>3. CompressLeadingZeros(data) = IF i < Len(data) THEN SubSeq(data, i, Len(data)) ELSE data
  BY DEF CompressLeadingZeros
<1> HIDE DEF i
<1>4. CASE i < Len(data)
  <2>1. PICK z \in 0..(Len(data) - 1) : z = i - 1 /\ z + 1 = i /\ z + 1 < Len(data)
    BY <1>1, <1>2, <1>4
  <2>2. QED
    BY <1>2, <1>3, <1>4, <2>1
<1>5. CASE ~(i < Len(data))
  <2>1. 0 \in 0..(Len(data) - 1) /\ CompressLeadingZeros(data) = SubSeq(data, 0 + 1, Len(data))
    BY <1>1, <1>3, <1>5
  <2>2. \A n \in 1..0 : data[n] = 0
    OBVIOUS
  <2>3. QED
    BY <2>1, <2>2
<1>6. QED
  BY <1>4, <1>5

\* What was dropped is filled in again.
LEMMA ZerosFill ==
    ASSUME NEW data \in Seq(Byte), NEW z \in 0..(Len(data) - 1), \A n \in 1..z : data[n] = 0,
           NEW short, short = SubSeq(data, z + 1, Len(data))
    PROVE  /\ short \in Seq(Byte) /\ Len(short) = Len(data) - z
           /\ \A n \in 1..(Len(data) - z) : short[n] = data[z + n]
           /\ FillTo(Len(data), short) = data
<1> DEFINE K == Len(data)
<1>1. \A n \in 1..z : data[n] = 0
  OBVIOUS
<1>2. K \in Nat /\ z \in Nat /\ z < K
  OBVIOUS
<1>3. /\ short \in Seq(Byte) /\ Len(short) = K - z
      /\ \A n \in 1..(K - z) : short[n] = data[z + n]
  <2>1. /\ SubSeq(data, z + 1, K) \in Seq(Byte)
        /\ Len(SubSeq(data, z + 1, K)) = K - z
        /\ \A n \in 1..(K - z) : SubSeq(data, z + 1, K)[n] = data[z + n]
    BY <1>2, PartIsBytes
  <2>2. QED
    BY <2>1
<1> DEFINE zeros == [n \in 1..(K - Len(short)) |-> 0]
<1>4. zeros \in Seq(Byte) /\ Len(zeros) = z /\ \A n \in 1..z : zeros[n] = 0
  <2>1. K - Len(short) = z /\ 0 \in Byte
    BY <1>2, <1>3 DEF Byte
  <2>2. QED
    BY <1>2, <2>1
<1> HIDE DEF zeros, K
<1>5. zeros \o short = data
  <2>1. zeros \o short \in Seq(Byte) /\ Len(zeros \o short) = K
    <3>1. zeros \in Seq(Byte) /\ short \in Seq(Byte)
      BY <1>3, <1>4
    <3>2. zeros \o short \in Seq(Byte) /\ Len(zeros \o short) = Len(zeros) + Len(short)
      BY <3>1
    <3>3. QED
      BY <1>2, <1>3, <1>4, <3>2
  <2>2. ASSUME NEW n \in 1..K PROVE (zeros \o short)[n] = data[n]
    <3>0. n \in Nat
      BY <1>2
    <3>1. CASE n <= z
      <4>1. n \in 1..z
        BY <1>2, <3>1
      <4>2. (zeros \o short)[n] = zeros[n]
        BY <1>2, <1>3, <1>4, <4>1
      <4>3. QED
        BY <1>1, <1>4, <4>1, <4>2
    <3>2. CASE n > z
      <4>1. n - z \in 1..(K - z) /\ z + (n - z) = n
        BY <1>2, <3>2
      <4>2. (zeros \o short)[n] = short[n - z]
        BY <1>2, <1>3, <1>4, <3>2
      <4>3. QED
        BY <1>3, <4>1, <4>2
    <3>3. n <= z \/ n > z
      BY <1>2, <3>0
    <3>4. QED
      BY <3>1, <3>2, <3>3
  <2>3. QED
    <3>1. data \in Seq(Byte) /\ Len(data) = K
      BY DEF K
    <3>2. \A n \in 1..K : (zeros \o short)[n] = data[n]
      BY <2>2
    <3>3. QED
      BY <2>1, <3>1, <3>2, SeqEqual
<1>6. FillTo(K, short) = zeros \o short
  BY DEF FillTo, zeros
<1>7. QED
  BY <1>3, <1>5, <1>6 DEF K

LEMMA CompressFills ==
    ASSUME NEW data \in Seq(Byte), Len(data) >= 1
    PROVE  /\ CompressLeadingZeros(data) \in Seq(Byte)
           /\ Len(CompressLeadingZeros(data)) \in 1..Len(data)
           /\ FillTo(Len(data), CompressLeadingZeros(data)) = data
<1>1. PICK z \in 0..(Len(data) - 1) :
          /\ CompressLeadingZeros(data) = SubSeq(data, z + 1, Len(data))
          /\ \A n \in 1..z : data[n] = 0
  BY CompressDropsZeros
<1>2. PICK short : short = CompressLeadingZeros(data)
  OBVIOUS
<1>3. /\ short \in Seq(Byte) /\ Len(short) = Len(data) - z
      /\ FillTo(Len(data), short) = data
  BY <1>1, <1>2, ZerosFill
<1>4. Len(data) - z \in 1..Len(data)
  OBVIOUS
<1>5. QED
  BY <1>2, <1>3, <1>4

LEMMA MaxIntInt == MaxInt \in Int
BY SMT DEF MaxInt

LEMMA MaxIntIs == MaxInt = 2147483647
BY SMT DEF MaxInt

LEMMA IntBounds ==
    ASSUME NEW v \in Int, -MaxInt - 1 <= v, v <= MaxInt
    PROVE  -2147483648 <= v /\ v <= 2147483647
BY MaxIntIs, SMT

\* The four bytes of an int, which are read as that int.
LEMMA StreamIs ==
    ASSUME NEW v \in Int, -MaxInt - 1 <= v, v <= MaxInt
    PROVE  /\ Stream(v) \in Seq(Byte) /\ Len(Stream(v)) = 4
           /\ FromStream(Stream(v)) = v
<1> DEFINE a == (v \div 256^3) % 256
           b == (v \div 256^2) % 256
           c == (v \div 256) % 256
           d == v % 256
<1>1. v \in Int /\ -2147483648 <= v /\ v <= 2147483647
  BY IntBounds
<1>10. 256^3 = 16777216 /\ 256^2 = 65536
  BY SMT
<1>2. /\ a \in 0..255 /\ b \in 0..255 /\ c \in 0..255 /\ d \in 0..255
      /\ (IF a >= 128 THEN a - 256 ELSE a) * 256^3 + b * 256^2 + c * 256 + d = v
  <2>1. /\ (v \div 16777216) % 256 \in 0..255 /\ (v \div 65536) % 256 \in 0..255
        /\ (v \div 256) % 256 \in 0..255 /\ v % 256 \in 0..255
    BY <1>1, SMT
  <2>2. (IF (v \div 16777216) % 256 >= 128
         THEN ((v \div 16777216) % 256) - 256 ELSE (v \div 16777216) % 256) = v \div 16777216
    BY <1>1, SMT
  <2>3. (v \div 16777216) * 16777216 + ((v \div 65536) % 256) * 65536
          + ((v \div 256) % 256) * 256 + (v % 256) = v
    BY <1>1, SMT
  <2>4. QED
    BY <1>10, <2>1, <2>2, <2>3, SMT
<1>3. Stream(v) = <<a, b, c, d>>
  BY DEF Stream
<1> HIDE DEF a, b, c, d
<1>4. QED
  BY <1>2, <1>3, SMT DEF FromStream, Byte

LEMMA BytesAre == \A n : n \in Byte <=> n \in Nat /\ n < 256
BY DEF Byte

LEMMA PairOf ==
    ASSUME NEW X, NEW x \in X, NEW y \in X
    PROVE  <<x>> \o <<y>> = <<x, y>>
<1> DEFINE s == <<x>> \o <<y>>
           t == <<x, y>>
<1>1. /\ s \in Seq(X) /\ t \in Seq(X) /\ Len(s) = 2 /\ Len(t) = 2
      /\ s[1] = t[1] /\ s[2] = t[2]
  OBVIOUS
<1> HIDE DEF s, t
<1>2. s = t
  <2>1. \A i \in 1..Len(s) : i = 1 \/ i = 2
    BY <1>1
  <2>2. QED
    BY <1>1, <2>1, SeqEqual
<1>3. QED
  BY <1>2 DEF s, t

\* A part is found where it begins.
LEMMA PartIs ==
    ASSUME NEW X, NEW data \in Seq(X), NEW part \in Seq(X), NEW i \in Nat,
           i + Len(part) <= Len(data), \A n \in 1..Len(part) : data[i + n] = part[n]
    PROVE  SubSeq(data, i + 1, i + Len(part)) = part
<1> DEFINE j == Len(part)
           found == SubSeq(data, i + 1, i + j)
<1>1. /\ found \in Seq(X) /\ Len(found) = j
      /\ \A n \in 1..j : found[n] = data[i + n]
  OBVIOUS
<1> HIDE DEF found
<1>2. found = part
  BY <1>1, SeqEqual
<1>3. QED
  BY <1>2 DEF found

\* Two and three sequences one after the other.
LEMMA TwoParts ==
    ASSUME NEW X, NEW a \in Seq(X), NEW b \in Seq(X), NEW data, data = a \o b
    PROVE  /\ data \in Seq(X) /\ Len(data) = Len(a) + Len(b)
           /\ \A n \in 1..Len(a) : data[n] = a[n]
           /\ \A n \in 1..Len(b) : data[Len(a) + n] = b[n]
OBVIOUS

LEMMA MiddlePart ==
    ASSUME NEW X, NEW a \in Seq(X), NEW b \in Seq(X), NEW c \in Seq(X),
           NEW data, data = a \o b \o c
    PROVE  /\ data \in Seq(X) /\ Len(data) = Len(a) + Len(b) + Len(c)
           /\ \A n \in 1..Len(a) : data[n] = a[n]
           /\ SubSeq(data, Len(a) + 1, Len(a) + Len(b)) = b
           /\ SubSeq(data, Len(a) + Len(b) + 1, Len(data)) = c
<1>1. PICK ab : ab = a \o b
  OBVIOUS
<1>2. /\ ab \in Seq(X) /\ Len(ab) = Len(a) + Len(b)
      /\ \A n \in 1..Len(a) : ab[n] = a[n]
      /\ \A n \in 1..Len(b) : ab[Len(a) + n] = b[n]
  BY <1>1, TwoParts
<1>3. ab \in Seq(X) /\ data = ab \o c
  BY <1>1, <1>2
<1>4. /\ data \in Seq(X) /\ Len(data) = Len(ab) + Len(c)
      /\ \A n \in 1..Len(ab) : data[n] = ab[n]
      /\ \A n \in 1..Len(c) : data[Len(ab) + n] = c[n]
  BY <1>3, TwoParts
<1>5. PICK i \in Nat, j \in Nat, k \in Nat : i = Len(a) /\ j = Len(b) /\ k = Len(c)
  OBVIOUS
<1>6. data \in Seq(X) /\ Len(data) = i + j + k
  BY <1>2, <1>4, <1>5
<1>7. ASSUME NEW n \in 1..i PROVE data[n] = a[n]
  <2>1. n \in 1..Len(ab) /\ n \in 1..Len(a)
    BY <1>2, <1>5
  <2>2. QED
    BY <1>2, <1>4, <2>1
<1>8. ASSUME NEW n \in 1..j PROVE data[i + n] = b[n]
  <2>1. i + n \in 1..Len(ab) /\ n \in 1..Len(b)
    BY <1>2, <1>5
  <2>2. data[i + n] = ab[i + n] /\ ab[i + n] = b[n]
    BY <1>2, <1>4, <1>5, <2>1
  <2>3. QED
    BY <2>2
<1>9. SubSeq(data, i + 1, i + j) = b
  <2>1. i + Len(b) <= Len(data) /\ \A n \in 1..Len(b) : data[i + n] = b[n]
    BY <1>5, <1>6, <1>8
  <2>2. SubSeq(data, i + 1, i + Len(b)) = b
    BY <1>6, <2>1, PartIs
  <2>3. QED
    BY <1>5, <2>2
<1>10. SubSeq(data, i + j + 1, i + j + k) = c
  <2>1. /\ i + j \in Nat /\ (i + j) + Len(c) <= Len(data)
        /\ \A n \in 1..Len(c) : data[(i + j) + n] = c[n]
    BY <1>2, <1>4, <1>5, <1>6
  <2>2. SubSeq(data, (i + j) + 1, (i + j) + Len(c)) = c
    BY <1>6, <2>1, PartIs
  <2>3. QED
    BY <1>5, <2>2
<1>11. QED
  BY <1>5, <1>6, <1>7, <1>9, <1>10

\* The length of a content is read back, whatever follows.
LEMMA LengthIsRead ==
    ASSUME NEW type \in Byte, NEW length \in Nat, length <= MaxInt, NEW rest \in Seq(Byte)
    PROVE  LET size == PackLength(length)
               data == <<type>> \o size \o rest
           IN  /\ size \in Seq(Byte) /\ Len(size) \in 1..5
               /\ SizeLength(data) = Len(size) /\ DataLength(data) = length
<1> DEFINE size == PackLength(length)
           data == <<type>> \o size \o rest
<1>1. <<type>> \in Seq(Byte) /\ Len(<<type>>) = 1
  OBVIOUS
<1>2. CASE length < 128
  <2>1. size = <<length>> /\ length \in Byte
    BY <1>2, BytesAre DEF PackLength
  <2> HIDE DEF size
  <2>4. size \in Seq(Byte) /\ Len(size) = 1
    BY <2>1
  <2>2. data[2] = length
    BY <1>1, <2>1
  <2>3. QED
    <3> HIDE DEF data
    <3>1. SizeLength(data) = 1 /\ DataLength(data) = length
      BY <1>2, <2>2 DEF SizeLength, DataLength
    <3>2. QED
      BY <2>4, <3>1 DEF data, size
<1>3. CASE length >= 128
  <2> DEFINE short == CompressLeadingZeros(Stream(length))
             K == Len(short)
             front == <<type, 128 + K>>
  <2>1. Stream(length) \in Seq(Byte) /\ Len(Stream(length)) = 4 /\ FromStream(Stream(length)) = length
    <3>1. length \in Int /\ -MaxInt - 1 <= length
      BY MaxIntInt
    <3>2. QED
      BY <3>1, StreamIs
  <2>2. short \in Seq(Byte) /\ K \in 1..4 /\ FillTo(4, short) = Stream(length)
    <3>1. Len(Stream(length)) >= 1
      BY <2>1
    <3>2. QED
      BY <2>1, <3>1, CompressFills
  <2> HIDE DEF short
  <2>3. size = <<128 + K>> \o short
    BY <1>3 DEF PackLength, LengthBytes, short
  <2>4. 128 + K \in Byte /\ <<128 + K>> \in Seq(Byte) /\ K \in Nat
    <3>1. 128 + K \in Byte /\ K \in Nat
      <4>1. K \in 1..4
        BY <2>2
      <4> HIDE DEF K
      <4>2. QED
        BY <4>1, BytesAre
    <3>2. QED
      BY <3>1
  <2> HIDE DEF K
  <2>5. size \in Seq(Byte) /\ Len(size) = K + 1
    BY <2>2, <2>3, <2>4 DEF K
  <2>6. data = front \o short \o rest
    <3>1. <<type>> \o (<<128 + K>> \o short) = front \o short
      <4>1. <<type>> \o <<128 + K>> = front
        BY <2>4, PairOf
      <4>2. QED
        BY <1>1, <2>2, <2>4, <4>1, ConcatAssociative
    <3>2. QED
      BY <2>3, <3>1
  <2>7. front \in Seq(Byte) /\ Len(front) = 2 /\ front[2] = 128 + K
    BY <2>4
  <2>8. /\ data[2] = front[2] /\ SubSeq(data, 3, 2 + K) = short
    <3> HIDE DEF front, data
    <3>1. /\ \A n \in 1..Len(front) : data[n] = front[n]
          /\ SubSeq(data, Len(front) + 1, Len(front) + Len(short)) = short
      <4>1. front \in Seq(Byte) /\ short \in Seq(Byte)
        BY <2>2, <2>7
      <4>2. QED
        BY <2>6, <4>1, MiddlePart
    <3>2. QED
      BY <2>7, <3>1 DEF K
  <2> HIDE DEF data, front, size
  <2>9. SizeLength(data) = Len(size)
    BY <2>4, <2>5, <2>7, <2>8 DEF SizeLength
  <2>10. DataLength(data) = length
    <3>1. data[2] > 128 /\ SizeLength(data) + 1 = 2 + K
      BY <2>2, <2>4, <2>5, <2>7, <2>8, <2>9
    <3>2. Fill(short) = Stream(length)
      BY <2>2 DEF Fill, FillTo
    <3>3. QED
      BY <2>1, <2>8, <3>1, <3>2 DEF DataLength
  <2>11. Len(size) \in 1..5
    BY <2>2, <2>5
  <2>12. QED
    BY <2>5, <2>9, <2>10, <2>11 DEF data, size
<1>4. QED
  BY <1>2, <1>3

-----------------------------------------------------------------------------
\* Whatever the bound on the turns, if it is not below the length: data is read as
\* these packets, up to its end.
Reads(data, packets) ==
    /\ data \in Seq(Byte)
    /\ \A n \in Nat :
          Len(data) <= n => Reading[n][data] = [packets |-> packets, ends |-> "done"]

LEMMA NothingIsRead == Reads(<<>>, <<>>)
<1>1. <<>> \in Seq(Byte) /\ Len(<<>>) = 0
  OBVIOUS
<1>2. ASSUME NEW n \in Nat PROVE Reading[n][<<>>] = [packets |-> <<>>, ends |-> "done"]
  <2>1. Reading[n] = IF n = 0 THEN [data \in Seq(Byte) |-> Ended("done")]
                     ELSE [data \in Seq(Byte) |-> ReadPackets(data, Reading[n - 1])]
    BY ReadingIs
  <2>2. ReadPackets(<<>>, Reading[n - 1]) = Ended("done")
    BY DEF ReadPackets
  <2>3. Reading[n][<<>>] = Ended("done")
    BY <1>1, <2>1, <2>2
  <2>4. QED
    BY <2>3 DEF Ended
<1>3. QED
  BY <1>1, <1>2 DEF Reads

LEMMA OnlyParentsHaveChildren ==
    ASSUME NEW type, type \notin ParentTypes, NEW content, NEW p, NEW q
    PROVE  Constructed(type, content, p) = Constructed(type, content, q)
BY DEF Constructed

\* Where a packet's parts are, whatever follows it.
LaidOut(data, type, content, rest) ==
    /\ data \in Seq(Byte)
    /\ Len(data) >= 2 + Len(content) + Len(rest) /\ data[1] = type
    /\ SizeLength(data) \in Nat /\ SizeLength(data) < Len(data)
    /\ PacketSize(data) \in Nat /\ PacketSize(data) <= Len(data)
    /\ SubSeq(data, SizeLength(data) + 2, PacketSize(data)) = content
    /\ SubSeq(data, PacketSize(data) + 1, Len(data)) = rest

LEMMA PacketParts ==
    ASSUME NEW type \in Byte, NEW content \in Seq(Byte), Len(content) <= MaxInt,
           NEW rest \in Seq(Byte), NEW data, data = PackContent(type, content) \o rest
    PROVE  /\ PackContent(type, content) \in Seq(Byte)
           /\ Len(PackContent(type, content)) \in 2..(Len(content) + 6)
           /\ LaidOut(data, type, content, rest)
<1> DEFINE size == PackLength(Len(content))
           front == <<type>> \o size
           K == Len(content)
           S == Len(size)
<1>1. K \in Nat /\ content \o rest \in Seq(Byte) /\ <<type>> \in Seq(Byte)
  OBVIOUS
<1>2. PICK whole : whole = <<type>> \o size \o (content \o rest)
  OBVIOUS
<1>3. /\ size \in Seq(Byte) /\ S \in 1..5
      /\ SizeLength(whole) = S /\ DataLength(whole) = K
  BY <1>1, <1>2, LengthIsRead
<1> HIDE DEF size
<1>4. front \in Seq(Byte) /\ Len(front) = S + 1 /\ front[1] = type
  <2>1. <<type>> \in Seq(Byte) /\ size \in Seq(Byte)
    BY <1>1, <1>3
  <2>2. QED
    BY <2>1
<1>5. PackContent(type, content) = front \o content
  BY DEF PackContent, size
<1>6. front \o content \in Seq(Byte) /\ Len(front \o content) = S + 1 + K
  <2>1. front \in Seq(Byte)
    BY <1>4
  <2> HIDE DEF front, S
  <2>2. front \o content \in Seq(Byte) /\ Len(front \o content) = Len(front) + Len(content)
    BY <2>1
  <2>3. QED
    BY <1>4, <2>2
<1> HIDE DEF front
<1>7. data = front \o content \o rest
  BY <1>5
<1>8. data = whole
  <2>1. front \o content \o rest = front \o (content \o rest)
    BY <1>4, ConcatAssociative
  <2>2. QED
    BY <1>2, <1>7, <2>1 DEF front
<1>9. /\ data \in Seq(Byte) /\ Len(data) = Len(front) + K + Len(rest)
      /\ \A n \in 1..Len(front) : data[n] = front[n]
      /\ SubSeq(data, Len(front) + 1, Len(front) + K) = content
      /\ SubSeq(data, Len(front) + K + 1, Len(data)) = rest
  <2>1. front \in Seq(Byte)
    BY <1>4
  <2>2. QED
    BY <1>7, <2>1, MiddlePart
<1>10. SizeLength(data) = S /\ PacketSize(data) = S + 1 + K
  <2>1. PacketSize(data) = 1 + S + K
    BY <1>3, <1>8 DEF PacketSize
  <2>2. QED
    BY <1>1, <1>3, <1>8, <2>1
<1> HIDE DEF S, K
<1>11. Len(rest) \in Nat
  OBVIOUS
<1>12. data[1] = type
  <2>1. 1 \in 1..(S + 1)
    BY <1>3
  <2>2. data[1] = front[1]
    BY <1>4, <1>9, <2>1
  <2>3. QED
    BY <1>4, <2>2
<1>13. S \in Nat /\ S >= 1 /\ S <= 5
  BY <1>3
<1>14. /\ SubSeq(data, S + 2, S + 1 + K) = content
       /\ SubSeq(data, S + 1 + K + 1, Len(data)) = rest
       /\ Len(data) = S + 1 + K + Len(rest)
  BY <1>1, <1>4, <1>9, <1>13
<1>15. /\ Len(data) >= 2 + K + Len(rest) /\ S < Len(data) /\ S + 1 + K <= Len(data)
       /\ S + 1 + K \in 2..(K + 6)
  BY <1>1, <1>11, <1>13, <1>14
<1>16. S + 1 + K \in Nat
  BY <1>1, <1>13
<1>17. /\ PackContent(type, content) \in Seq(Byte)
       /\ Len(PackContent(type, content)) \in 2..(K + 6)
  BY <1>5, <1>6, <1>15
<1>18. QED
  BY <1>9, <1>10, <1>12, <1>13, <1>14, <1>15, <1>16, <1>17 DEF K, LaidOut

\* A packet is read, its children if it may have some, and then what follows it.
LEMMA PacketIsRead ==
    ASSUME NEW type \in Byte, NEW content \in Seq(Byte), Len(content) <= MaxInt,
           NEW childs, type \in ParentTypes => Reads(content, childs),
           IsValid(Constructed(type, content, childs)),
           NEW rest, NEW packets, Reads(rest, packets)
    PROVE  Reads(PackContent(type, content) \o rest,
                 <<Constructed(type, content, childs)>> \o packets)
<1> DEFINE d == Constructed(type, content, childs)
<1>1. PICK data : data = PackContent(type, content) \o rest
  OBVIOUS
<1>2. rest \in Seq(Byte)
  BY DEF Reads
<1>3. /\ data \in Seq(Byte)
      /\ Len(data) >= 2 + Len(content) + Len(rest) /\ data[1] = type
      /\ SizeLength(data) \in Nat /\ SizeLength(data) < Len(data)
      /\ PacketSize(data) \in Nat /\ PacketSize(data) <= Len(data)
      /\ SubSeq(data, SizeLength(data) + 2, PacketSize(data)) = content
      /\ SubSeq(data, PacketSize(data) + 1, Len(data)) = rest
  <2>1. LaidOut(data, type, content, rest)
    BY <1>1, <1>2, PacketParts
  <2>2. QED
    BY <2>1 DEF LaidOut
<1>4. Len(content) \in Nat /\ Len(rest) \in Nat /\ Len(data) \in Nat /\ Len(data) >= 2
  <2>1. Len(content) \in Nat /\ Len(rest) \in Nat /\ Len(data) \in Nat
    BY <1>2, <1>3
  <2>2. QED
    BY <1>3, <2>1
<1>5. ASSUME NEW n \in Nat, Len(data) <= n
      PROVE  Reading[n][data] = [packets |-> <<d>> \o packets, ends |-> "done"]
  <2>1. n - 1 \in Nat /\ n # 0 /\ Len(content) <= n - 1 /\ Len(rest) <= n - 1
    BY <1>3, <1>4, <1>5
  <2>2. Reading[n] = [x \in Seq(Byte) |-> ReadPackets(x, Reading[n - 1])]
    BY <2>1, ReadingIs
  <2> DEFINE read == Reading[n - 1]
             pack == Constructed(type, content, read[content].packets)
  <2>3. Reading[n][data] = ReadPackets(data, read)
    BY <1>3, <2>2
  <2>4. pack = d
    <3>1. CASE type \in ParentTypes
      <4>1. read[content] = [packets |-> childs, ends |-> "done"]
        BY <2>1, <3>1 DEF Reads
      <4>2. read[content].packets = childs
        BY <4>1
      <4>3. QED
        BY <4>2
    <3>2. CASE type \notin ParentTypes
      BY <3>2, OnlyParentsHaveChildren
    <3>3. QED
      BY <3>1, <3>2
  <2>5. read[rest] = [packets |-> packets, ends |-> "done"]
    BY <2>1 DEF Reads
  <2>6. IsValid(pack)
    BY <2>4
  <2> HIDE DEF read
  <2>7. ReadPackets(data, read)
          = IF IsValid(pack) THEN [packets |-> <<pack>> \o read[rest].packets, ends |-> read[rest].ends]
            ELSE Ended("break")
    <3>1. /\ data # <<>> /\ ~(Len(data) < 2)
          /\ ~(data[2] > 128 /\ Len(data) <= SizeLength(data))
          /\ ~(Len(data) < PacketSize(data))
      BY <1>3, <1>4
    <3>2. QED
      BY <1>3, <3>1 DEF ReadPackets
  <2>8. read[rest].packets = packets /\ read[rest].ends = "done"
    BY <2>5
  <2>9. QED
    BY <2>3, <2>4, <2>6, <2>7, <2>8
<1>6. Reads(data, <<d>> \o packets)
  BY <1>3, <1>5 DEF Reads
<1>7. QED
  BY <1>1, <1>6

-----------------------------------------------------------------------------
LEMMA LevelIs ==
    ASSUME NEW n \in 0..Nesting, n # 0
    PROVE  /\ n - 1 \in 0..Nesting /\ Packets[n] = PacketsOver(Packets[n - 1])
           /\ Chunks[n] = [d \in Packets[n] |-> Chunk(d, Chunks[n - 1])]
<1>1. n - 1 \in 0..Nesting
  BY NestingAssumption
<1>2. Packets[n] = PacketsOver(Packets[n - 1])
  BY PacketsIs
<1>3. Chunks[n] = [d \in Packets[n] |-> Chunk(d, Chunks[n - 1])]
  BY ChunksIs
<1>4. QED
  BY <1>1, <1>2, <1>3

LEMMA PacketFields ==
    ASSUME NEW type, NEW data, NEW childs, NEW address, NEW d,
           d = Packet(type, data, childs, address)
    PROVE  d.m_type = type /\ d.m_data = data /\ d.m_childs = childs /\ d.m_address = address
BY DEF Packet

LEMMA PacketChanges ==
    ASSUME NEW type, NEW data, NEW childs, NEW address, NEW x
    PROVE  /\ [Packet(type, data, childs, address) EXCEPT !.m_type = x]
                = Packet(x, data, childs, address)
           /\ [Packet(type, data, childs, address) EXCEPT !.m_data = x]
                = Packet(type, x, childs, address)
           /\ [Packet(type, data, childs, address) EXCEPT !.m_childs = x]
                = Packet(type, data, x, address)
           /\ [Packet(type, data, childs, address) EXCEPT !.m_address = x]
                = Packet(type, data, childs, x)
BY DEF Packet

LEMMA PacketIsOf ==
    ASSUME NEW S, NEW type \in Byte, NEW data \in Seq(Nat), NEW childs \in Seq(S),
           NEW address \in Seq(Nat)
    PROVE  Packet(type, data, childs, address) \in PacketsOver(S)
BY DEF PacketsOver, Packet

LEMMA ConstructedIs ==
    ASSUME NEW type, NEW content, NEW childs
    PROVE  /\ type \in {INTEGER_TYPE, GAUGE_TYPE} =>
                Constructed(type, content, childs) = Packet(type, Word(content), <<>>, <<>>)
           /\ type \in {COUNTER_TYPE, TIME_TICKS_TYPE} =>
                Constructed(type, content, childs) = Packet(type, Long(content), <<>>, <<>>)
           /\ type = OBJECT_TYPE =>
                Constructed(type, content, childs) = Packet(type, GetOid(content), <<>>, <<>>)
           /\ type = NULL_DATA_TYPE =>
                Constructed(type, content, childs) = Packet(type, <<>>, <<>>, <<>>)
           /\ type \in {STRING_TYPE, IP_ADDR_TYPE} =>
                Constructed(type, content, childs) = Packet(type, content, <<>>, <<>>)
           /\ type \in ParentTypes =>
                Constructed(type, content, childs) = Packet(type, <<>>, childs, <<>>)
<1> DEFINE data == CASE type \in {INTEGER_TYPE, GAUGE_TYPE} -> Word(content)
                     [] type \in {COUNTER_TYPE, TIME_TICKS_TYPE} -> Long(content)
                     [] type = OBJECT_TYPE -> GetOid(content)
                     [] type \in {NULL_DATA_TYPE} \cup ParentTypes -> <<>>
                     [] OTHER -> content
           below == IF type \in ParentTypes THEN childs ELSE <<>>
<1>8. Constructed(type, content, childs) = Packet(type, data, below, <<>>)
  BY DEF Constructed
<1> USE DEF INTEGER_TYPE, GAUGE_TYPE, COUNTER_TYPE, TIME_TICKS_TYPE, OBJECT_TYPE, NULL_DATA_TYPE,
            STRING_TYPE, IP_ADDR_TYPE, ParentTypes, SEQUENCE_TYPE, GET_REQUEST_TYPE,
            SET_REQUEST_TYPE
<1>1. type \in {INTEGER_TYPE, GAUGE_TYPE} =>
          Constructed(type, content, childs) = Packet(type, Word(content), <<>>, <<>>)
  BY <1>8
<1>2. type \in {COUNTER_TYPE, TIME_TICKS_TYPE} =>
          Constructed(type, content, childs) = Packet(type, Long(content), <<>>, <<>>)
  BY <1>8
<1>3. type = OBJECT_TYPE =>
          Constructed(type, content, childs) = Packet(type, GetOid(content), <<>>, <<>>)
  BY <1>8
<1>4. type = NULL_DATA_TYPE =>
          Constructed(type, content, childs) = Packet(type, <<>>, <<>>, <<>>)
  BY <1>8
<1>5. type \in {STRING_TYPE, IP_ADDR_TYPE} =>
          Constructed(type, content, childs) = Packet(type, content, <<>>, <<>>)
  BY <1>8
<1>6. type \in ParentTypes =>
          Constructed(type, content, childs) = Packet(type, <<>>, childs, <<>>)
  BY <1>8
<1>7. QED
  BY <1>1, <1>2, <1>3, <1>4, <1>5, <1>6

\* What follows one more packet follows all of them.
LEMMA ReadOnward ==
    ASSUME NEW X, NEW front \in Seq(Byte), NEW before \in Seq(X), NEW chunk \in Seq(Byte),
           NEW child \in X, NEW rest \in Seq(Byte), NEW packets \in Seq(X),
           Reads(front \o (chunk \o rest), before \o (<<child>> \o packets))
    PROVE  Reads((front \o chunk) \o rest, Append(before, child) \o packets)
<1>1. front \o (chunk \o rest) = (front \o chunk) \o rest
  BY ConcatAssociative
<1>2. before \o (<<child>> \o packets) = Append(before, child) \o packets
  <2>1. <<child>> \in Seq(X) /\ before \o <<child>> = Append(before, child)
    OBVIOUS
  <2>2. before \o (<<child>> \o packets) = (before \o <<child>>) \o packets
    BY <2>1, ConcatAssociative
  <2>3. QED
    BY <2>1, <2>2
<1>3. QED
  BY <1>1, <1>2

\* A packet of at most k levels is sent as these bytes, and they are read as it,
\* whatever follows them.
Travels(d, k, bytes) ==
    /\ bytes \in Seq(Byte)
    /\ \A n \in 0..Nesting : k <= n => d \in Packets[n] /\ Chunks[n][d] = bytes
    /\ \A rest, packets :
          Reads(rest, packets) => Reads(bytes \o rest, <<d>> \o packets)

LEMMA TravellersSurvive ==
    ASSUME NEW d, NEW k \in Nat, k <= Nesting, NEW bytes, Travels(d, k, bytes)
    PROVE  MakeSnmpChunk(d) = bytes /\ Survives(d)
<1>1. MakeSnmpChunk(d) = bytes
  <2>1. Nesting \in 0..Nesting
    BY NestingAssumption
  <2>2. QED
    BY <2>1 DEF Travels, MakeSnmpChunk
<1>2. bytes \in Seq(Byte) /\ bytes \o <<>> = bytes /\ Len(bytes) \in Nat
  BY DEF Travels
<1>3. Reads(bytes, <<d>> \o <<>>)
  <2>1. Reads(bytes \o <<>>, <<d>> \o <<>>)
    BY NothingIsRead DEF Travels
  <2>2. QED
    BY <1>2, <2>1
<1>4. <<d>> \o <<>> = <<d>>
  <2>1. <<d>> \in Seq({d})
    OBVIOUS
  <2>2. QED
    BY <2>1, ConcatEmptySeq
<1>5. ParseData(bytes) = [packets |-> <<d>>, ends |-> "done"]
  <2>1. Reading[Len(bytes)][bytes] = [packets |-> <<d>>, ends |-> "done"]
    BY <1>2, <1>3, <1>4 DEF Reads
  <2>2. QED
    BY <2>1 DEF ParseData
<1>6. QED
  BY <1>1, <1>5 DEF Survives, ReadAs

\* A packet without children.
LEMMA LeafTravels ==
    ASSUME NEW type \in Byte, type \notin ParentTypes,
           NEW data \in Seq(Nat), NEW content \in Seq(Byte), Len(content) <= MaxInt,
           NEW d, d = Packet(type, data, <<>>, <<>>), IsValid(d),
           Constructed(type, content, <<>>) = d,
           \A chunks : Chunk(d, chunks) = PackContent(type, content)
    PROVE  Travels(d, 1, PackContent(type, content))
<1> DEFINE bytes == PackContent(type, content)
<1>1. bytes \in Seq(Byte)
  <2>1. <<>> \in Seq(Byte) /\ bytes \o <<>> = bytes \o <<>>
    OBVIOUS
  <2>2. QED
    BY <2>1, PacketParts
<1> HIDE DEF bytes
<1>2. ASSUME NEW n \in 0..Nesting, 1 <= n
      PROVE  d \in Packets[n] /\ Chunks[n][d] = bytes
  <2>5. n # 0
    BY <1>2, NestingAssumption
  <2>1. n # 0 /\ Packets[n] = PacketsOver(Packets[n - 1])
    BY <2>5, LevelIs
  <2>2. d \in PacketsOver(Packets[n - 1])
    <3>1. <<>> \in Seq(Packets[n - 1]) /\ <<>> \in Seq(Nat)
      OBVIOUS
    <3>2. QED
      BY <3>1, PacketIsOf
  <2>3. Chunks[n] = [e \in Packets[n] |-> Chunk(e, Chunks[n - 1])]
    BY <1>2, <2>1, LevelIs
  <2>4. QED
    BY <2>1, <2>2, <2>3 DEF bytes
<1>3. ASSUME NEW rest, NEW packets, Reads(rest, packets)
      PROVE  Reads(bytes \o rest, <<d>> \o packets)
  <2>1. IsValid(Constructed(type, content, <<>>))
    OBVIOUS
  <2>2. Reads(PackContent(type, content) \o rest, <<Constructed(type, content, <<>>)>> \o packets)
    BY <1>3, <2>1, PacketIsRead
  <2>3. QED
    BY <2>2 DEF bytes
<1>4. Travels(d, 1, bytes)
  BY <1>1, <1>2, <1>3 DEF Travels
<1>5. QED
  BY <1>4 DEF bytes

\* Packets one after the other are read one after the other.
LEMMA TravelTogether ==
    ASSUME NEW k \in Nat, NEW X, NEW childs \in Seq(X), NEW chunks \in Seq(Seq(Byte)),
           Len(chunks) = Len(childs), \A c \in 1..Len(childs) : Travels(childs[c], k, chunks[c])
    PROVE  Reads(FlattenSeq(chunks), childs)
<1> DEFINE K == Len(childs)
<1>1. K \in Nat /\ Len(chunks) = K
  OBVIOUS
<1>2. PICK flat \in [0..K -> Seq(Byte)] :
          /\ flat[0] = <<>> /\ FlattenSeq(chunks) = flat[K]
          /\ \A n \in 1..K : flat[n] = flat[n - 1] \o chunks[n]
  <2>1. \E flat \in [0..Len(chunks) -> Seq(Byte)] :
          /\ flat[0] = <<>> /\ FlattenSeq(chunks) = flat[Len(chunks)]
          /\ \A n \in 1..Len(chunks) : flat[n] = flat[n - 1] \o chunks[n]
    BY FlattenIs
  <2>2. QED
    BY <1>1, <2>1
<1> DEFINE T == {n \in 0..K : \A rest \in Seq(Byte), packets \in Seq(X) :
                    Reads(rest, packets)
                        => Reads(flat[n] \o rest, SubSeq(childs, 1, n) \o packets)}
<1>3. 0 \in T
  <2>1. ASSUME NEW rest \in Seq(Byte), NEW packets \in Seq(X), Reads(rest, packets)
        PROVE  Reads(flat[0] \o rest, SubSeq(childs, 1, 0) \o packets)
    <3>1. flat[0] \o rest = rest /\ SubSeq(childs, 1, 0) \o packets = packets
      BY <1>2
    <3>2. QED
      BY <2>1, <3>1
  <2>2. 0 \in 0..K
    BY <1>1
  <2>3. QED
    BY <2>1, <2>2
<1>4. ASSUME NEW n \in 1..K, n - 1 \in T PROVE n \in T
  <2>1. n \in 0..K /\ n - 1 \in 0..K /\ childs[n] \in X /\ chunks[n] \in Seq(Byte)
    BY <1>1
  <2>2. ASSUME NEW rest \in Seq(Byte), NEW packets \in Seq(X), Reads(rest, packets)
        PROVE  Reads(flat[n] \o rest, SubSeq(childs, 1, n) \o packets)
    <3>1. Reads(chunks[n] \o rest, <<childs[n]>> \o packets)
      BY <2>2 DEF Travels
    <3>2. chunks[n] \o rest \in Seq(Byte) /\ <<childs[n]>> \o packets \in Seq(X)
      BY <2>1
    <3>3. Reads(flat[n - 1] \o (chunks[n] \o rest),
                SubSeq(childs, 1, n - 1) \o (<<childs[n]>> \o packets))
      BY <1>4, <3>1, <3>2
    <3>4. flat[n - 1] \in Seq(Byte) /\ flat[n] = flat[n - 1] \o chunks[n]
      BY <1>2, <2>1
    <3>5. /\ SubSeq(childs, 1, n - 1) \in Seq(X)
          /\ SubSeq(childs, 1, n) = Append(SubSeq(childs, 1, n - 1), childs[n])
      BY <2>1
    <3>6. Reads((flat[n - 1] \o chunks[n]) \o rest,
                Append(SubSeq(childs, 1, n - 1), childs[n]) \o packets)
      BY <2>1, <2>2, <3>3, <3>4, <3>5, ReadOnward
    <3>7. QED
      BY <3>4, <3>5, <3>6
  <2>3. QED
    BY <2>1, <2>2
<1>5. K \in T
  <2> HIDE DEF T, K
  <2>1. \A n \in 0..K : n \in T
    BY <1>1, <1>3, <1>4, Reached
  <2>2. QED
    BY <1>1, <2>1
<1>6. Reads(flat[K] \o <<>>, SubSeq(childs, 1, K) \o <<>>)
  <2>1. <<>> \in Seq(Byte) /\ <<>> \in Seq(X)
    OBVIOUS
  <2>2. QED
    BY <1>5, <2>1, NothingIsRead
<1>7. flat[K] \o <<>> = flat[K] /\ SubSeq(childs, 1, K) \o <<>> = childs
  BY <1>1, <1>2
<1>8. QED
  BY <1>2, <1>6, <1>7

\* A packet with children, each of which travels.
LEMMA ParentTravels ==
    ASSUME NEW type \in ParentTypes, type # SET_REQUEST_TYPE, NEW k \in Nat, NEW X,
           NEW childs \in Seq(X), NEW chunks \in Seq(Seq(Byte)), Len(chunks) = Len(childs),
           \A c \in 1..Len(childs) : Travels(childs[c], k, chunks[c]),
           Len(FlattenSeq(chunks)) <= MaxInt,
           NEW d, d = Packet(type, <<>>, childs, <<>>)
    PROVE  Travels(d, k + 1, PackContent(type, FlattenSeq(chunks)))
<1> DEFINE content == FlattenSeq(chunks)
           bytes == PackContent(type, content)
<1>1. type \in Byte /\ d.m_type = type /\ d.m_childs = childs /\ d.m_data = <<>>
  <2>1. type \in Byte
    BY DEF Byte, ParentTypes, SEQUENCE_TYPE, GET_REQUEST_TYPE, SET_REQUEST_TYPE
  <2>2. QED
    BY <2>1, PacketFields
<1>2. Reads(content, childs)
  BY TravelTogether
<1>3. content \in Seq(Byte)
  BY <1>2 DEF Reads
<1> HIDE DEF content
<1>4. bytes \in Seq(Byte)
  <2>1. <<>> \in Seq(Byte) /\ Len(content) <= MaxInt
    BY DEF content
  <2>2. QED
    BY <1>1, <1>3, <2>1, PacketParts
<1>5. Constructed(type, content, childs) = d /\ IsValid(d)
  <2>1. Constructed(type, content, childs) = d
    BY ConstructedIs
  <2>2. IsValid(d)
    BY <1>1 DEF IsValid
  <2>3. QED
    BY <2>1, <2>2
<1>6. ASSUME NEW n \in 0..Nesting, k + 1 <= n
      PROVE  d \in Packets[n] /\ Chunks[n][d] = bytes
  <2>1. n # 0 /\ n - 1 \in 0..Nesting /\ k <= n - 1
    BY <1>6, NestingAssumption
  <2>2. Packets[n] = PacketsOver(Packets[n - 1])
    BY <2>1, LevelIs
  <2>3. childs \in Seq(Packets[n - 1])
    <3>1. \A c \in 1..Len(childs) : childs[c] \in Packets[n - 1]
      BY <2>1 DEF Travels
    <3>2. QED
      BY <3>1, ElementsOf
  <2>4. d \in Packets[n]
    <3>1. <<>> \in Seq(Nat)
      OBVIOUS
    <3>2. Packet(type, <<>>, childs, <<>>) \in PacketsOver(Packets[n - 1])
      BY <1>1, <2>3, <3>1, PacketIsOf
    <3>3. QED
      BY <2>2, <3>2
  <2>5. Chunks[n][d] = Chunk(d, Chunks[n - 1])
    <3>1. Chunks[n] = [e \in Packets[n] |-> Chunk(e, Chunks[n - 1])]
      BY <2>1, LevelIs
    <3>2. QED
      BY <2>4, <3>1
  <2>6. [c \in 1..Len(childs) |-> Chunks[n - 1][childs[c]]] = chunks
    <3>1. \A c \in 1..Len(childs) : Chunks[n - 1][childs[c]] = chunks[c]
      BY <2>1 DEF Travels
    <3>2. chunks = [c \in 1..Len(childs) |-> chunks[c]]
      OBVIOUS
    <3>3. QED
      BY <3>1, <3>2
  <2>7. Chunk(d, Chunks[n - 1]) = bytes
    <3>1. /\ type # OBJECT_TYPE /\ type \notin {INTEGER_TYPE, IP_ADDR_TYPE}
          /\ type \notin {GAUGE_TYPE, COUNTER_TYPE, TIME_TICKS_TYPE}
      BY DEF ParentTypes, SEQUENCE_TYPE, GET_REQUEST_TYPE, SET_REQUEST_TYPE, INTEGER_TYPE,
             GAUGE_TYPE, COUNTER_TYPE, TIME_TICKS_TYPE, OBJECT_TYPE, IP_ADDR_TYPE
    <3>2. Chunk(d, Chunks[n - 1])
            = PackContent(type, FlattenSeq([c \in 1..Len(childs) |-> Chunks[n - 1][childs[c]]]))
      BY <1>1, <3>1 DEF Chunk
    <3>3. QED
      BY <2>6, <3>2 DEF content
  <2>8. QED
    BY <2>4, <2>5, <2>7
<1>7. ASSUME NEW rest, NEW packets, Reads(rest, packets)
      PROVE  Reads(bytes \o rest, <<d>> \o packets)
  <2>1. Len(content) <= MaxInt /\ IsValid(Constructed(type, content, childs))
    BY <1>5 DEF content
  <2>2. Reads(PackContent(type, content) \o rest, <<Constructed(type, content, childs)>> \o packets)
    BY <1>1, <1>2, <1>3, <1>7, <2>1, PacketIsRead
  <2>3. QED
    BY <1>5, <2>2
<1>8. Travels(d, k + 1, bytes)
  BY <1>4, <1>6, <1>7 DEF Travels
<1>9. QED
  BY <1>8 DEF content

\* Zeros before data leave it as it is.
LEMMA FillToIs ==
    ASSUME NEW data \in Seq(Byte), NEW size \in Nat, Len(data) <= size
    PROVE  /\ FillTo(size, data) \in Seq(Byte) /\ Len(FillTo(size, data)) = size
           /\ \A n \in 1..size : FillTo(size, data)[n] =
                  IF n <= size - Len(data) THEN 0 ELSE data[n - (size - Len(data))]
<1> DEFINE zeros == [n \in 1..(size - Len(data)) |-> 0]
<1>1. size - Len(data) \in Nat /\ Len(data) \in Nat
  OBVIOUS
<1>2. zeros \in Seq(Byte) /\ Len(zeros) = size - Len(data)
      /\ \A n \in 1..(size - Len(data)) : zeros[n] = 0
  BY <1>1, BytesAre
<1> HIDE DEF zeros
<1>3. /\ zeros \o data \in Seq(Byte) /\ Len(zeros \o data) = size
      /\ \A n \in 1..size : (zeros \o data)[n] =
             IF n <= size - Len(data) THEN 0 ELSE data[n - (size - Len(data))]
  BY <1>1, <1>2
<1>4. QED
  BY <1>3 DEF FillTo, zeros

LEMMA FillsNothing ==
    ASSUME NEW data \in Seq(Byte)
    PROVE  FillTo(Len(data), data) = data
<1>1. Len(data) \in Nat /\ Len(data) <= Len(data)
  OBVIOUS
<1>2. /\ FillTo(Len(data), data) \in Seq(Byte) /\ Len(FillTo(Len(data), data)) = Len(data)
      /\ \A n \in 1..Len(data) : FillTo(Len(data), data)[n] =
             IF n <= Len(data) - Len(data) THEN 0 ELSE data[n - (Len(data) - Len(data))]
  BY <1>1, FillToIs
<1>3. \A n \in 1..Len(data) : FillTo(Len(data), data)[n] = data[n]
  <2>1. ASSUME NEW n \in 1..Len(data) PROVE ~(n <= Len(data) - Len(data)) /\ n - (Len(data) - Len(data)) = n
    BY <1>1
  <2>2. QED
    BY <1>2, <2>1
<1>4. QED
  BY <1>2, <1>3, SeqEqual

LEMMA WordFills ==
    ASSUME NEW data \in Seq(Byte), Len(data) <= 4
    PROVE  Word(data) = FillTo(4, data) /\ (Len(data) = 4 => Word(data) = data)
<1>1. PICK n \in Nat : n = Len(data)
  OBVIOUS
<1>2. ASSUME n < 4 PROVE Word(data) = FillTo(4, data)
  BY <1>1, <1>2 DEF Word, Fill, FillTo
<1>3. ASSUME n = 4 PROVE Word(data) = FillTo(4, data) /\ Word(data) = data
  <2>1. n - 3 = 1 /\ ~(n < 4)
    BY <1>3
  <2>2. Word(data) = SubSeq(data, 1, n)
    BY <1>1, <2>1 DEF Word
  <2>3. SubSeq(data, 1, n) = data
    BY <1>1
  <2>4. QED
    BY <1>1, <1>3, <2>2, <2>3, FillsNothing
<1>4. QED
  BY <1>1, <1>2, <1>3

LEMMA ChunkIs ==
    ASSUME NEW d, NEW chunks
    PROVE  /\ d.m_type = OBJECT_TYPE =>
                Chunk(d, chunks) = PackContent(OBJECT_TYPE, PackOid(d.m_data))
           /\ d.m_type = INTEGER_TYPE =>
                Chunk(d, chunks) = PackContent(INTEGER_TYPE, CompressLeadingZeros(d.m_data))
           /\ d.m_type \in {GAUGE_TYPE, COUNTER_TYPE, TIME_TICKS_TYPE} =>
                Chunk(d, chunks) = UnsignedChunk(d.m_type, d.m_data)
           /\ d.m_type \in {STRING_TYPE, NULL_DATA_TYPE} =>
                Chunk(d, chunks) = PackContent(d.m_type, d.m_data)
<1> DEFINE oid == PackContent(d.m_type, PackOid(d.m_data))
           int == PackContent(d.m_type, CompressLeadingZeros(d.m_data))
           unsigned == UnsignedChunk(d.m_type, d.m_data)
           parent == PackContent(d.m_type, FlattenSeq([c \in 1..Len(d.m_childs) |->
                                                         chunks[d.m_childs[c]]]))
           other == PackContent(d.m_type, d.m_data)
<1>1. Chunk(d, chunks) =
          CASE d.m_type = OBJECT_TYPE -> oid
            [] d.m_type \in {INTEGER_TYPE, IP_ADDR_TYPE} -> int
            [] d.m_type \in {GAUGE_TYPE, COUNTER_TYPE, TIME_TICKS_TYPE} -> unsigned
            [] d.m_type \in ParentTypes -> parent
            [] OTHER -> other
  BY DEF Chunk
<1> HIDE DEF oid, int, unsigned, parent, other
<1> DEFINE x == Chunk(d, chunks)
           t == d.m_type
<1>2. x = CASE t = OBJECT_TYPE -> oid
            [] t \in {INTEGER_TYPE, IP_ADDR_TYPE} -> int
            [] t \in {GAUGE_TYPE, COUNTER_TYPE, TIME_TICKS_TYPE} -> unsigned
            [] t \in ParentTypes -> parent
            [] OTHER -> other
  BY <1>1
<1> HIDE DEF x, t
<1>3. /\ t = OBJECT_TYPE => x = oid
      /\ t = INTEGER_TYPE => x = int
      /\ t \in {GAUGE_TYPE, COUNTER_TYPE, TIME_TICKS_TYPE} => x = unsigned
      /\ t \in {STRING_TYPE, NULL_DATA_TYPE} => x = other
  <2> USE DEF INTEGER_TYPE, GAUGE_TYPE, COUNTER_TYPE, TIME_TICKS_TYPE, OBJECT_TYPE,
              NULL_DATA_TYPE, STRING_TYPE, IP_ADDR_TYPE, ParentTypes, SEQUENCE_TYPE,
              GET_REQUEST_TYPE, SET_REQUEST_TYPE
  <2>1. t = OBJECT_TYPE => x = oid
    BY <1>2
  <2>2. t = INTEGER_TYPE => x = int
    BY <1>2
  <2>3. t \in {GAUGE_TYPE, COUNTER_TYPE, TIME_TICKS_TYPE} => x = unsigned
    BY <1>2
  <2>4. t \in {STRING_TYPE, NULL_DATA_TYPE} => x = other
    BY <1>2
  <2>5. QED
    BY <2>1, <2>2, <2>3, <2>4
<1>4. QED
  BY <1>3 DEF x, t, oid, int, unsigned, other

LEMMA TypesAre ==
    /\ ParentTypes \subseteq Byte /\ INTEGER_TYPE \in Byte \ ParentTypes
    /\ STRING_TYPE \in Byte \ ParentTypes /\ NULL_DATA_TYPE \in Byte \ ParentTypes
    /\ OBJECT_TYPE \in Byte \ ParentTypes /\ GAUGE_TYPE \in Byte \ ParentTypes
    /\ COUNTER_TYPE \in Byte \ ParentTypes /\ TIME_TICKS_TYPE \in Byte \ ParentTypes
BY DEF Byte, INTEGER_TYPE, GAUGE_TYPE, COUNTER_TYPE, TIME_TICKS_TYPE, OBJECT_TYPE,
       NULL_DATA_TYPE, STRING_TYPE, ParentTypes, SEQUENCE_TYPE, GET_REQUEST_TYPE, SET_REQUEST_TYPE

\* Bytes are numbers, and a few of them fit in a packet.
LEMMA FewBytes ==
    ASSUME NEW data \in Seq(Byte), NEW k \in Nat, k <= 2^20, Len(data) <= k
    PROVE  data \in Seq(Nat) /\ Len(data) <= MaxInt
<1>1. Byte \subseteq Nat
  BY BytesAre
<1>2. k <= 1048576 /\ MaxInt = 2147483647
  BY MaxIntIs, SMT
<1>3. data \in Seq(Nat)
  BY <1>1, SeqSubset
<1>4. Len(data) \in Nat
  OBVIOUS
<1>5. QED
  BY <1>2, <1>3, <1>4

LEMMA PackedSize ==
    ASSUME NEW type \in Byte, NEW content \in Seq(Byte), Len(content) <= MaxInt
    PROVE  /\ PackContent(type, content) \in Seq(Byte)
           /\ Len(PackContent(type, content)) <= Len(content) + 6
<1>1. <<>> \in Seq(Byte)
  OBVIOUS
<1>2. PICK x : x = PackContent(type, content) \o <<>>
  OBVIOUS
<1>3. /\ PackContent(type, content) \in Seq(Byte)
      /\ Len(PackContent(type, content)) \in 2..(Len(content) + 6)
  BY <1>1, <1>2, PacketParts
<1>4. Len(content) \in Nat
  OBVIOUS
<1>5. QED
  BY <1>3, <1>4

\* The integers.
LEMMA WordTravels ==
    ASSUME NEW data \in Seq(Byte), Len(data) = 4,
           NEW d, d = Packet(INTEGER_TYPE, data, <<>>, <<>>)
    PROVE  /\ Data(INTEGER_TYPE, data) = d
           /\ \E bytes : Travels(d, 1, bytes) /\ Len(bytes) <= 10
<1> DEFINE content == CompressLeadingZeros(data)
<1>1. /\ content \in Seq(Byte) /\ Len(content) <= 4
      /\ FillTo(4, content) = data
  <2>1. PICK n : n = Len(data)
    OBVIOUS
  <2>2. n >= 1 /\ n = 4
    BY <2>1
  <2>3. /\ content \in Seq(Byte) /\ Len(content) \in 1..n /\ FillTo(n, content) = data
    BY <2>1, <2>2, CompressFills
  <2>4. PICK m : m = Len(content)
    OBVIOUS
  <2>5. m <= 4
    BY <2>2, <2>3, <2>4
  <2>6. QED
    BY <2>2, <2>3, <2>4, <2>5
<1>2. Word(data) = data /\ Word(content) = data
  <2>1. PICK n : n = Len(data)
    OBVIOUS
  <2>2. n <= 4
    BY <2>1
  <2>3. QED
    BY <1>1, <2>1, <2>2, WordFills
<1> HIDE DEF content
<1>3. \A c, p : Constructed(INTEGER_TYPE, c, p) = Packet(INTEGER_TYPE, Word(c), <<>>, <<>>)
  <2>1. INTEGER_TYPE \in {INTEGER_TYPE, GAUGE_TYPE}
    OBVIOUS
  <2>2. QED
    BY <2>1, ConstructedIs
<1>4. Data(INTEGER_TYPE, data) = d
  BY <1>2, <1>3 DEF Data
<1>5. Constructed(INTEGER_TYPE, content, <<>>) = d
  BY <1>2, <1>3
<1>6. d.m_type = INTEGER_TYPE /\ d.m_data = data
  BY PacketFields
<1>7. IsValid(d)
  BY <1>6 DEF IsValid
<1>8. \A chunks : Chunk(d, chunks) = PackContent(INTEGER_TYPE, content)
  BY <1>6, ChunkIs DEF content
<1>9. /\ INTEGER_TYPE \in Byte /\ INTEGER_TYPE \notin ParentTypes
      /\ data \in Seq(Nat) /\ Len(content) <= MaxInt
  <2>1. PICK k \in Nat : k = 4
    OBVIOUS
  <2>2. k <= 2^20
    BY <2>1, SMT
  <2>3. PICK n : n = Len(data)
    OBVIOUS
  <2>4. n <= k
    BY <2>1, <2>3
  <2>5. Len(data) <= k /\ Len(content) <= k
    BY <1>1, <2>1, <2>3, <2>4, Zenon
  <2>6. QED
    BY <1>1, <2>2, <2>5, TypesAre, FewBytes
<1>10. Travels(d, 1, PackContent(INTEGER_TYPE, content))
  BY <1>1, <1>5, <1>7, <1>8, <1>9, LeafTravels
<1>11. Len(PackContent(INTEGER_TYPE, content)) <= 10
  <2>1. /\ PackContent(INTEGER_TYPE, content) \in Seq(Byte)
        /\ Len(PackContent(INTEGER_TYPE, content)) <= Len(content) + 6
    BY <1>1, <1>9, PackedSize
  <2>2. PICK m \in Nat, n \in Nat : m = Len(content) /\ n = Len(PackContent(INTEGER_TYPE, content))
    BY <1>1, <2>1
  <2>3. n <= m + 6 /\ m <= 4
    BY <1>1, <2>1, <2>2
  <2>4. n <= 10
    BY <2>3
  <2>5. QED
    BY <2>2, <2>4
<1>12. QED
  BY <1>4, <1>10, <1>11

LEMMA StringTravels ==
    ASSUME NEW data \in Seq(Byte), Len(data) <= MaxInt,
           NEW d, d = Packet(STRING_TYPE, data, <<>>, <<>>)
    PROVE  /\ String(data) = d /\ Travels(d, 1, PackContent(STRING_TYPE, data))
<1>1. \A p : Constructed(STRING_TYPE, data, p) = d
  <2>1. STRING_TYPE \in {STRING_TYPE, IP_ADDR_TYPE}
    OBVIOUS
  <2>2. QED
    BY <2>1, ConstructedIs
<1>2. d.m_type = STRING_TYPE /\ d.m_data = data
  BY PacketFields
<1>3. IsValid(d)
  BY <1>2 DEF IsValid
<1>4. \A chunks : Chunk(d, chunks) = PackContent(STRING_TYPE, data)
  BY <1>2, ChunkIs
<1>5. Byte \subseteq Nat
  BY BytesAre
<1>6. data \in Seq(Nat)
  BY <1>5, SeqSubset
<1>7. Travels(d, 1, PackContent(STRING_TYPE, data))
  BY <1>1, <1>3, <1>4, <1>6, TypesAre, LeafTravels
<1>8. QED
  BY <1>1, <1>7 DEF String, Data

LEMMA NullTravels ==
    ASSUME NEW d, d = Packet(NULL_DATA_TYPE, <<>>, <<>>, <<>>)
    PROVE  NullData = d /\ \E bytes : Travels(d, 1, bytes) /\ Len(bytes) <= 6
<1> DEFINE none == <<>>
<1>1. /\ none \in Seq(Byte) /\ none \in Seq(Nat) /\ Len(none) = 0 /\ Len(none) <= MaxInt
  BY MaxIntIs
<1>2. \A c, p : Constructed(NULL_DATA_TYPE, c, p) = d
  BY ConstructedIs
<1>3. d.m_type = NULL_DATA_TYPE /\ d.m_data = none
  BY PacketFields
<1>4. d = Packet(NULL_DATA_TYPE, none, <<>>, <<>>)
  OBVIOUS
<1> HIDE DEF none
<1>5. IsValid(d)
  <2>1. NULL_DATA_TYPE \in ({NULL_DATA_TYPE} \cup ParentTypes) \ {SET_REQUEST_TYPE}
    BY DEF NULL_DATA_TYPE, SET_REQUEST_TYPE
  <2>2. d.m_type \in ({NULL_DATA_TYPE} \cup ParentTypes) \ {SET_REQUEST_TYPE} /\ d.m_data = <<>>
    BY <1>3, <2>1 DEF none
  <2>3. QED
    BY <2>2 DEF IsValid
<1>6. \A chunks : Chunk(d, chunks) = PackContent(NULL_DATA_TYPE, none)
  BY <1>3, ChunkIs
<1>7. Travels(d, 1, PackContent(NULL_DATA_TYPE, none))
  BY <1>1, <1>2, <1>4, <1>5, <1>6, TypesAre, LeafTravels
<1>8. Len(PackContent(NULL_DATA_TYPE, none)) <= 6
  <2>1. Len(PackContent(NULL_DATA_TYPE, none)) <= Len(none) + 6
    BY <1>1, TypesAre, PackedSize
  <2>2. Len(none) + 6 = 6
    BY <1>1
  <2>3. QED
    BY <2>1, <2>2
<1>9. QED
  BY <1>2, <1>7, <1>8 DEF NullData, Data

\* How seven bits a byte spell a number.
LEMMA BigsAre ==
    ASSUME NEW v \in Nat, v <= MaxInt
    PROVE  \E big \in [0..5 -> Nat] :
               /\ big[0] = v /\ big[5] = 0 /\ \A m \in 0..4 : big[m] = v \div 128^m
               /\ \A m \in 0..4 : /\ big[m] % 128 \in 0..127
                                  /\ big[m] = 128 * big[m + 1] + (big[m] % 128)
               /\ \A m \in 0..4 : 128^m <= v <=> big[m] >= 1
<1>1. v <= 2147483647
  BY MaxIntIs, SMT
<1> DEFINE p == [m \in 0..5 |-> CASE m = 0 -> 1 [] m = 1 -> 128 [] m = 2 -> 16384
                                  [] m = 3 -> 2097152 [] m = 4 -> 268435456 [] OTHER -> 34359738368]
           big == [m \in 0..5 |-> v \div p[m]]
<1>2. /\ 128^0 = 1 /\ 128^1 = 128 /\ 128^2 = 16384 /\ 128^3 = 2097152 /\ 128^4 = 268435456
  BY SMT
<1>3. /\ p[0] = 1 /\ p[1] = 128 /\ p[2] = 16384 /\ p[3] = 2097152 /\ p[4] = 268435456
      /\ p[5] = 34359738368
  BY SMT
<1>4. \A m \in 0..5 : m = 0 \/ m = 1 \/ m = 2 \/ m = 3 \/ m = 4 \/ m = 5
  BY SMT
<1>5. \A m \in 0..4 : m = 0 \/ m = 1 \/ m = 2 \/ m = 3 \/ m = 4
  BY SMT
<1> HIDE DEF p
<1>6. /\ big[0] = v \div 1 /\ big[1] = v \div 128 /\ big[2] = v \div 16384
      /\ big[3] = v \div 2097152 /\ big[4] = v \div 268435456 /\ big[5] = v \div 34359738368
  BY <1>3
<1>7. /\ v \div 1 = v /\ v \div 34359738368 = 0
      /\ v \div 1 \in Nat /\ v \div 128 \in Nat /\ v \div 16384 \in Nat /\ v \div 2097152 \in Nat
      /\ v \div 268435456 \in Nat
  BY <1>1, SMT
<1>8. big \in [0..5 -> Nat]
  <2>1. \A m \in 0..5 : big[m] \in Nat
    <3> HIDE DEF big
    <3>1. QED
      BY <1>4, <1>6, <1>7
  <2>2. QED
    BY <2>1
<1> HIDE DEF big
<1>9. /\ v \div 1 = 128 * (v \div 128) + ((v \div 1) % 128)
      /\ v \div 128 = 128 * (v \div 16384) + ((v \div 128) % 128)
      /\ v \div 16384 = 128 * (v \div 2097152) + ((v \div 16384) % 128)
      /\ v \div 2097152 = 128 * (v \div 268435456) + ((v \div 2097152) % 128)
      /\ v \div 268435456 = 128 * (v \div 34359738368) + ((v \div 268435456) % 128)
  BY <1>1, SMT
<1>10. \A m \in 0..4 : big[m] = 128 * big[m + 1] + (big[m] % 128)
  <2>1. 0 + 1 = 1 /\ 1 + 1 = 2 /\ 2 + 1 = 3 /\ 3 + 1 = 4 /\ 4 + 1 = 5
    OBVIOUS
  <2>2. QED
    BY <1>5, <1>6, <1>9, <2>1
<1>11. \A m \in 0..4 : big[m] % 128 \in 0..127
  <2>1. \A m \in 0..4 : big[m] \in Nat
    BY <1>8
  <2>2. QED
    BY <2>1
<1>12. \A m \in 0..4 : big[m] = v \div 128^m
  <2>1. ASSUME NEW m \in 0..4 PROVE big[m] = v \div 128^m
    <3>1. CASE m = 0
      BY <1>2, <1>6, <3>1
    <3>2. CASE m = 1
      BY <1>2, <1>6, <3>2
    <3>3. CASE m = 2
      BY <1>2, <1>6, <3>3
    <3>4. CASE m = 3
      BY <1>2, <1>6, <3>4
    <3>5. CASE m = 4
      BY <1>2, <1>6, <3>5
    <3>6. QED
      BY <1>5, <3>1, <3>2, <3>3, <3>4, <3>5
  <2>2. QED
    BY <2>1
<1>13. \A m \in 0..4 : 128^m <= v <=> big[m] >= 1
  <2>1. /\ 1 <= v <=> v \div 1 >= 1
        /\ 128 <= v <=> v \div 128 >= 1
        /\ 16384 <= v <=> v \div 16384 >= 1
        /\ 2097152 <= v <=> v \div 2097152 >= 1
        /\ 268435456 <= v <=> v \div 268435456 >= 1
    BY <1>1, SMT
  <2>2. ASSUME NEW m \in 0..4 PROVE 128^m <= v <=> big[m] >= 1
    <3>1. CASE m = 0
      BY <1>2, <1>6, <2>1, <3>1
    <3>2. CASE m = 1
      BY <1>2, <1>6, <2>1, <3>2
    <3>3. CASE m = 2
      BY <1>2, <1>6, <2>1, <3>3
    <3>4. CASE m = 3
      BY <1>2, <1>6, <2>1, <3>4
    <3>5. CASE m = 4
      BY <1>2, <1>6, <2>1, <3>5
    <3>6. QED
      BY <1>5, <3>1, <3>2, <3>3, <3>4, <3>5
  <2>3. QED
    BY <2>2
<1>14. big[0] = v /\ big[5] = 0
  BY <1>6, <1>7
<1>15. QED
  BY <1>8, <1>10, <1>11, <1>12, <1>13, <1>14

\* What packInt writes, getOid reads: one number, whatever was read before.
LEMMA PackIntIs ==
    ASSUME NEW v \in Nat, v <= MaxInt
    PROVE  \E last \in 0..4, big \in [0..5 -> Nat] :
               /\ big[0] = v /\ big[last + 1] = 0 /\ Len(PackInt(v)) = last + 1
               /\ PackInt(v) \in Seq(Byte)
               /\ \A m \in 0..last : /\ big[m] % 128 \in 0..127
                                     /\ big[m] = 128 * big[m + 1] + (big[m] % 128)
               /\ \A n \in 1..(last + 1) :
                     PackInt(v)[n] = (big[last + 1 - n] % 128) + (IF n <= last THEN 128 ELSE 0)
<1>1. PICK big \in [0..5 -> Nat] :
          /\ big[0] = v /\ big[5] = 0 /\ \A m \in 0..4 : big[m] = v \div 128^m
          /\ \A m \in 0..4 : big[m] % 128 \in 0..127 /\ big[m] = 128 * big[m + 1] + (big[m] % 128)
          /\ \A m \in 0..4 : 128^m <= v <=> big[m] >= 1
  BY BigsAre
<1>2. 128^0 = 1 /\ 128^1 = 128
  BY SMT
<1>3. CASE v < 128
  <2>1. ~(128^1 <= v) /\ 1 \in 0..4 /\ big[1] \in Nat
    BY <1>1, <1>2, <1>3
  <2>2. big[1] = 0
    BY <1>1, <2>1
  <2>3. v % 128 = v /\ v % 256 = v /\ v \in Byte
    BY <1>3, BytesAre
  <2>4. /\ PackInt(v) = <<v>> /\ <<v>> \in Seq(Byte) /\ Len(<<v>>) = 1 /\ <<v>>[1] = v
    BY <1>3, <2>3 DEF PackInt
  <2>5. /\ 0 \in 0..4 /\ 0 + 1 = 1 /\ \A m \in 0..0 : m = 0 /\ m \in 0..4
        /\ \A n \in 1..1 : n = 1 /\ 0 + 1 - n = 0 /\ ~(n <= 0)
    OBVIOUS
  <2>6. \A n \in 1..1 : PackInt(v)[n] = (big[0 + 1 - n] % 128) + (IF n <= 0 THEN 128 ELSE 0)
    <3>1. PackInt(v)[1] = (big[0] % 128) + 0
      BY <1>1, <2>3, <2>4
    <3>2. QED
      BY <2>5, <3>1
  <2>7. PICK last \in 0..4 : last = 0
    BY <2>5
  <2>8. big[last + 1] = 0 /\ Len(PackInt(v)) = last + 1
    BY <2>2, <2>4, <2>7
  <2>9. PackInt(v) \in Seq(Byte)
    BY <2>4
  <2>10. \A m \in 0..last : big[m] % 128 \in 0..127 /\ big[m] = 128 * big[m + 1] + (big[m] % 128)
    BY <1>1, <2>5, <2>7
  <2>11. \A n \in 1..(last + 1) :
            PackInt(v)[n] = (big[last + 1 - n] % 128) + (IF n <= last THEN 128 ELSE 0)
    BY <2>6, <2>7
  <2>12. QED
    BY <1>1, <2>8, <2>9, <2>10, <2>11
<1>4. CASE v >= 128
  <2> DEFINE T == {p \in 0..4 : 128^p <= v}
             last == MaxPow(v)
  <2>1. last \in T /\ \A p \in T : last >= p
    <3>1. \A p \in T : p = 0 \/ p = 1 \/ p = 2 \/ p = 3 \/ p = 4
      <4>1. \A p \in 0..4 : p = 0 \/ p = 1 \/ p = 2 \/ p = 3 \/ p = 4
        BY SMT
      <4>2. QED
        BY <4>1
    <3>2. \E x \in T : \A y \in T : x >= y
      <4>1. 1 \in T
        BY <1>2, <1>4
      <4> HIDE DEF T
      <4>2. CASE 4 \in T
        BY <3>1, <4>2
      <4>3. CASE 4 \notin T /\ 3 \in T
        BY <3>1, <4>3
      <4>4. CASE 4 \notin T /\ 3 \notin T /\ 2 \in T
        BY <3>1, <4>4
      <4>5. CASE 4 \notin T /\ 3 \notin T /\ 2 \notin T
        BY <3>1, <4>1, <4>5
      <4>6. QED
        BY <4>2, <4>3, <4>4, <4>5
    <3>3. last = CHOOSE x \in T : \A y \in T : x >= y
      BY DEF MaxPow, Max
    <3> HIDE DEF T, last
    <3>4. QED
      BY <3>2, <3>3
  <2>2. last \in 0..4 /\ \A p \in 0..4 : 128^p <= v => last >= p
    BY <2>1
  <2> HIDE DEF last, T
  <2>3. PackInt(v) = [n \in 1..last + 1 |-> ((v \div 128^(last + 1 - n)) % 128)
                                             + (IF n <= last THEN 128 ELSE 0)]
    BY <1>4 DEF PackInt, last
  <2>4. big[last + 1] = 0
    <3>1. CASE last = 4
      BY <1>1, <3>1
    <3>2. CASE last # 4
      <4>1. last + 1 \in 0..4 /\ ~(last >= last + 1)
        BY <2>2, <3>2
      <4>2. ~(128^(last + 1) <= v)
        BY <2>2, <4>1
      <4>3. PICK m \in 0..4 : m = last + 1
        BY <4>1
      <4>4. ~(128^m <= v)
        BY <4>2, <4>3
      <4>5. ~(big[m] >= 1)
        BY <1>1, <4>4, Zenon
      <4>6. big[m] = 0
        <5>1. m \in 0..5
          OBVIOUS
        <5>2. PICK x \in Nat : x = big[m]
          BY <5>1
        <5>3. QED
          BY <4>5, <5>2
      <4>7. QED
        BY <4>3, <4>6
    <3>3. QED
      BY <3>1, <3>2
  <2>5. \A n \in 1..(last + 1) : last + 1 - n \in 0..4
    BY <2>2
  <2>6. \A n \in 1..(last + 1) :
            PackInt(v)[n] = (big[last + 1 - n] % 128) + (IF n <= last THEN 128 ELSE 0)
    <3>1. \A n \in 1..(last + 1) : big[last + 1 - n] = v \div 128^(last + 1 - n)
      BY <1>1, <2>5
    <3>2. QED
      BY <2>3, <3>1
  <2>7. PackInt(v) \in Seq(Byte) /\ Len(PackInt(v)) = last + 1
    <3>1. \A n \in 1..(last + 1) :
              (big[last + 1 - n] % 128) + (IF n <= last THEN 128 ELSE 0) \in Byte
      <4>1. ASSUME NEW n \in 1..(last + 1)
            PROVE  (big[last + 1 - n] % 128) + (IF n <= last THEN 128 ELSE 0) \in Byte
        <5>1. PICK r \in 0..127 : r = big[last + 1 - n] % 128
          BY <1>1, <2>5
        <5>2. r + 128 \in Byte /\ r + 0 \in Byte
          BY BytesAre
        <5>3. QED
          BY <5>1, <5>2
      <4>2. QED
        BY <4>1
    <3>2. PICK K \in Nat : K = last + 1
      BY <2>2
    <3>3. /\ \A n \in 1..K : PackInt(v)[n] \in Byte
          /\ PackInt(v) = [n \in 1..K |-> PackInt(v)[n]]
      <4>1. \A n \in 1..K : PackInt(v)[n] \in Byte
        BY <2>6, <3>1, <3>2
      <4>2. PackInt(v) = [n \in 1..K |-> PackInt(v)[n]]
        BY <2>3, <3>2
      <4>3. QED
        BY <4>1, <4>2
    <3>4. QED
      BY <3>2, <3>3
  <2>8. \A m \in 0..last : big[m] % 128 \in 0..127 /\ big[m] = 128 * big[m + 1] + (big[m] % 128)
    <3>1. \A m \in 0..last : m \in 0..4
      BY <2>2
    <3>2. QED
      BY <1>1, <3>1, Zenon
  <2>9. QED
    BY <1>1, <2>2, <2>4, <2>6, <2>7, <2>8
<1>5. QED
  BY <1>3, <1>4

\* getOid's loop: what it has read, the bits of the number it is in, and whether it is in one.
Midway(ids, big, open) == [ids |-> ids, big |-> big, open |-> open]
OidStates == [ids : Seq(Nat), big : Nat, open : BOOLEAN]

LEMMA NextByteStays ==
    ASSUME NEW done \in OidStates, NEW byte \in Byte
    PROVE  NextByte(done, byte) \in OidStates
<1>1. /\ byte \in Nat /\ done.ids \in Seq(Nat) /\ done.big \in Nat
      /\ done = Midway(done.ids, done.big, done.open)
  BY BytesAre DEF OidStates, Midway
<1>2. CASE byte >= 128
  <2>1. done.big * 128 + byte - 128 \in Nat
    BY <1>1, <1>2
  <2>2. NextByte(done, byte) = [ids |-> done.ids, big |-> done.big * 128 + byte - 128, open |-> TRUE]
    BY <1>2 DEF NextByte
  <2>3. QED
    BY <1>1, <2>1, <2>2 DEF OidStates
<1>3. CASE ~(byte >= 128)
  <2>1. done.big * 128 + byte \in Nat
    BY <1>1
  <2>2. PICK b \in Nat : b = done.big * 128 + byte
    BY <2>1
  <2>3. NextByte(done, byte) = [ids |-> Append(done.ids, b), big |-> 0, open |-> FALSE]
    BY <1>3, <2>2 DEF NextByte
  <2>4. Append(done.ids, b) \in Seq(Nat)
    BY <1>1
  <2>5. QED
    BY <2>3, <2>4 DEF OidStates
<1>4. QED
  BY <1>2, <1>3

\* The bytes of a number take the loop from the end of the one before to its own.
Continues(g, L, bytes) == \A j \in 1..Len(bytes) : g[L + j] = NextByte(g[L + j - 1], bytes[j])

LEMMA NumberIsRead ==
    ASSUME NEW v \in Nat, v <= MaxInt, NEW bytes, bytes = PackInt(v), NEW g, NEW L \in Nat,
           NEW before, g[L] = Midway(before, 0, FALSE),
           Continues(g, L, bytes)
    PROVE  g[L + Len(bytes)] = Midway(Append(before, v), 0, FALSE)
<1>1. PICK last \in 0..4, big \in [0..5 -> Nat] :
          /\ big[0] = v /\ big[last + 1] = 0 /\ Len(bytes) = last + 1
          /\ \A m \in 0..last : big[m] % 128 \in 0..127 /\ big[m] = 128 * big[m + 1] + (big[m] % 128)
          /\ \A n \in 1..(last + 1) :
                bytes[n] = (big[last + 1 - n] % 128) + (IF n <= last THEN 128 ELSE 0)
  BY PackIntIs
<1> DEFINE T == {j \in 0..last : \E o \in BOOLEAN : g[L + j] = Midway(before, big[last + 1 - j], o)}
<1>2. last \in Nat /\ last + 1 \in 1..(last + 1)
  OBVIOUS
<1>3. 0 \in T
  <2>1. L + 0 = L /\ last + 1 - 0 = last + 1 /\ 0 \in 0..last
    BY <1>2
  <2>2. g[L + 0] = Midway(before, big[last + 1 - 0], FALSE)
    BY <1>1, <2>1
  <2>3. QED
    BY <2>1, <2>2
<1>4. ASSUME NEW j \in 1..last, j - 1 \in T PROVE j \in T
  <2>1. PICK o : g[L + (j - 1)] = Midway(before, big[last + 1 - (j - 1)], o)
    BY <1>4
  <2>2. PICK m \in 0..last : m = last + 1 - j
    BY <1>2
  <2>3. /\ L + (j - 1) = L + j - 1 /\ last + 1 - (j - 1) = m + 1 /\ j \in 1..(last + 1) /\ j <= last
        /\ j \in 0..last /\ m \in 0..5 /\ m + 1 \in 0..5
    BY <1>2, <2>2
  <2>4. PICK r \in 0..127 : r = big[m] % 128
    BY <1>1
  <2>5. PICK x \in Nat, y \in Nat : x = big[m] /\ y = big[m + 1]
    BY <2>3
  <2>6. x = 128 * y + r
    BY <1>1, <2>4, <2>5
  <2>7. bytes[j] = r + 128
    BY <1>1, <2>2, <2>3, <2>4
  <2>8. g[L + j] = NextByte(Midway(before, y, o), r + 128)
    <3>1. j \in 1..Len(bytes)
      BY <1>1, <2>3
    <3>2. g[L + j] = NextByte(g[L + j - 1], bytes[j])
      BY <3>1 DEF Continues
    <3>3. QED
      BY <2>1, <2>3, <2>5, <2>7, <3>2
  <2>9. PICK b : b = r + 128
    OBVIOUS
  <2>10. g[L + j] = Midway(before, x, TRUE)
    <3>1. b >= 128 /\ x = y * 128 + b - 128
      BY <2>6, <2>9
    <3>2. NextByte(Midway(before, y, o), b) = Midway(before, x, TRUE)
      BY <3>1 DEF NextByte, Midway
    <3>3. QED
      BY <2>8, <2>9, <3>2
  <2>11. g[L + j] = Midway(before, big[last + 1 - j], TRUE)
    BY <2>2, <2>5, <2>10
  <2>12. QED
    BY <2>3, <2>11
<1> HIDE DEF T
<1>5. \A j \in 0..last : j \in T
  BY <1>2, <1>3, <1>4, Reached
<1>6. PICK o : g[L + last] = Midway(before, big[1], o)
  <2>1. last \in T /\ last + 1 - last = 1
    BY <1>2, <1>5
  <2>2. QED
    BY <2>1 DEF T
<1>7. PICK r \in 0..127, y \in Nat : r = big[0] % 128 /\ y = big[1] /\ v = 128 * y + r
  <2>1. 0 \in 0..last /\ 0 + 1 = 1 /\ 1 \in 0..5
    BY <1>2
  <2>2. big[0] % 128 \in 0..127 /\ big[1] \in Nat /\ big[0] = 128 * big[0 + 1] + (big[0] % 128)
    BY <1>1, <2>1
  <2>3. QED
    BY <1>1, <2>1, <2>2
<1>8. bytes[last + 1] = r
  <2>1. last + 1 - (last + 1) = 0 /\ ~(last + 1 <= last)
    BY <1>2
  <2>2. bytes[last + 1] = (big[0] % 128) + 0
    BY <1>1, <1>2, <2>1
  <2>3. QED
    BY <1>7, <2>2
<1>9. g[L + (last + 1)] = NextByte(Midway(before, y, o), r)
  <2>1. L + (last + 1) - 1 = L + last /\ last + 1 \in 1..Len(bytes)
    BY <1>1, <1>2
  <2>2. g[L + (last + 1)] = NextByte(g[L + (last + 1) - 1], bytes[last + 1])
    BY <2>1 DEF Continues
  <2>3. g[L + (last + 1)] = NextByte(g[L + last], r)
    BY <1>8, <2>1, <2>2, Zenon
  <2>4. QED
    BY <1>6, <1>7, <2>3
<1>10. ~(r >= 128) /\ v = y * 128 + r
  BY <1>7
<1>11. g[L + (last + 1)] = Midway(Append(before, v), 0, FALSE)
  <2>1. NextByte(Midway(before, y, o), r) = Midway(Append(before, v), 0, FALSE)
    BY <1>10 DEF NextByte, Midway
  <2>2. QED
    BY <1>9, <2>1
<1>12. QED
  BY <1>1, <1>11

\* Where the elements of a sequence of sequences are in the flat one, and how long it gets.
FoundAt(whole, L, part) ==
    \A j \in 1..Len(part) : L + j \in 1..Len(whole) /\ whole[L + j] = part[j]
Flattens(flat, ss) == \A n \in 1..Len(ss) : flat[n] = flat[n - 1] \o ss[n]
Extends(s, t) == Len(s) <= Len(t) /\ \A i \in 1..Len(s) : t[i] = s[i]

LEMMA ExtendsLonger ==
    ASSUME NEW X, NEW s \in Seq(X), NEW t \in Seq(X), NEW e \in Seq(X), Extends(s, t)
    PROVE  Extends(s, t \o e)
<1>1. /\ Len(s) \in Nat /\ Len(t) \in Nat /\ Len(e) \in Nat /\ Len(t \o e) = Len(t) + Len(e)
      /\ \A i \in 1..Len(t) : (t \o e)[i] = t[i]
  OBVIOUS
<1>2. Len(s) <= Len(t) /\ \A i \in 1..Len(s) : t[i] = s[i]
  BY DEF Extends
<1>3. Len(s) <= Len(t \o e) /\ \A i \in 1..Len(s) : i \in 1..Len(t)
  BY <1>1, <1>2
<1>4. QED
  BY <1>1, <1>2, <1>3 DEF Extends

LEMMA FlatParts ==
    ASSUME NEW X, NEW ss \in Seq(Seq(X)), NEW flat \in [0..Len(ss) -> Seq(X)],
           Flattens(flat, ss), NEW n \in 1..Len(ss)
    PROVE  FoundAt(flat[Len(ss)], Len(flat[n - 1]), ss[n])
<1> DEFINE K == Len(ss)
           T == {m \in 0..K : m >= n => Extends(flat[n], flat[m])}
<1>1. /\ K \in Nat /\ n \in 0..K /\ n - 1 \in 0..K /\ K \in 0..K /\ n \in Nat /\ n <= K
      /\ \A m \in 1..K : ss[m] \in Seq(X) /\ m - 1 \in 0..K /\ m \in 0..K
  OBVIOUS
<1>2. \A m \in 1..K : /\ flat[m - 1] \in Seq(X) /\ flat[m] \in Seq(X)
                     /\ flat[m] = flat[m - 1] \o ss[m]
  BY <1>1 DEF Flattens
<1>3. 0 \in T
  <2>1. ~(0 >= n) /\ 0 \in 0..K
    BY <1>1
  <2>2. QED
    BY <2>1
<1>4. ASSUME NEW m \in 1..K, m - 1 \in T PROVE m \in T
  <2>1. CASE m < n
    <3>1. ~(m >= n)
      BY <1>1, <2>1
    <3>2. QED
      BY <1>1, <3>1
  <2>2. CASE m = n
    <3>1. Len(flat[n]) \in Nat
      BY <1>1, <1>2
    <3>2. Extends(flat[n], flat[n])
      BY <3>1 DEF Extends
    <3>3. QED
      BY <1>1, <2>2, <3>2
  <2>3. CASE m > n
    <3>1. m - 1 >= n
      BY <1>1, <2>3
    <3>2. Extends(flat[n], flat[m - 1])
      BY <1>4, <3>1
    <3>3. flat[n] \in Seq(X) /\ flat[m - 1] \in Seq(X) /\ ss[m] \in Seq(X)
      BY <1>1, <1>2
    <3>4. Extends(flat[n], flat[m - 1] \o ss[m])
      BY <3>2, <3>3, ExtendsLonger
    <3>5. QED
      BY <1>1, <1>2, <3>4
  <2>4. QED
    BY <1>1, <2>1, <2>2, <2>3
<1> HIDE DEF T
<1>5. Extends(flat[n], flat[K])
  <2>1. K \in T
    BY <1>1, <1>3, <1>4, Reached
  <2>2. QED
    BY <1>1, <2>1 DEF T
<1>6. PICK f \in Seq(X), s \in Seq(X), whole \in Seq(X) :
          f = flat[n - 1] /\ s = ss[n] /\ whole = flat[K]
  BY <1>1, <1>2
<1>7. Extends(f \o s, whole)
  BY <1>2, <1>5, <1>6
<1>8. \A j \in 1..Len(s) : Len(f) + j \in 1..Len(f \o s) /\ (f \o s)[Len(f) + j] = s[j]
  OBVIOUS
<1>9. /\ Len(f \o s) <= Len(whole) /\ Len(f \o s) \in Nat /\ Len(whole) \in Nat
      /\ \A i \in 1..Len(f \o s) : whole[i] = (f \o s)[i]
  BY <1>7 DEF Extends
<1>10. \A i \in 1..Len(f \o s) : i \in 1..Len(whole)
  BY <1>9
<1>11. \A j \in 1..Len(s) : Len(f) + j \in 1..Len(whole) /\ whole[Len(f) + j] = s[j]
  BY <1>8, <1>9, <1>10
<1>12. FoundAt(whole, Len(f), s)
  BY <1>11 DEF FoundAt
<1>13. QED
  BY <1>6, <1>12

LEMMA FlatSize ==
    ASSUME NEW X, NEW ss \in Seq(Seq(X)), NEW M \in Nat, \A n \in 1..Len(ss) : Len(ss[n]) <= M
    PROVE  FlattenSeq(ss) \in Seq(X) /\ Len(FlattenSeq(ss)) <= Len(ss) * M
<1> DEFINE K == Len(ss)
<1>1. PICK flat \in [0..K -> Seq(X)] :
          /\ flat[0] = <<>> /\ FlattenSeq(ss) = flat[K]
          /\ \A n \in 1..K : flat[n] = flat[n - 1] \o ss[n]
  BY FlattenIs
<1>2. K \in Nat /\ K \in 0..K /\ \A n \in 1..K : n - 1 \in 0..K /\ n \in 0..K /\ ss[n] \in Seq(X)
  OBVIOUS
<1> DEFINE T == {n \in 0..K : Len(flat[n]) <= n * M}
<1>3. 0 \in T
  <2>1. Len(flat[0]) = 0 /\ 0 * M = 0 /\ 0 \in 0..K
    BY <1>1, <1>2
  <2>2. QED
    BY <2>1
<1>4. ASSUME NEW n \in 1..K, n - 1 \in T PROVE n \in T
  <2>1. PICK f \in Seq(X), s \in Seq(X) : f = flat[n - 1] /\ s = ss[n]
    BY <1>2
  <2>2. flat[n] = f \o s
    BY <1>1, <2>1
  <2>3. PICK a \in Nat, b \in Nat : a = Len(f) /\ b = Len(s) /\ Len(f \o s) = a + b
    OBVIOUS
  <2>4. a <= (n - 1) * M /\ b <= M
    BY <1>4, <2>1, <2>3
  <2>5. a + b <= n * M
    <3>1. n \in Nat /\ (n - 1) * M + M = n * M
      BY <1>2
    <3>2. QED
      BY <2>4, <3>1
  <2>6. QED
    BY <1>2, <2>2, <2>3, <2>5
<1> HIDE DEF T
<1>5. K \in T
  BY <1>2, <1>3, <1>4, Reached
<1>6. flat[K] \in Seq(X)
  BY <1>2
<1>7. QED
  BY <1>1, <1>5, <1>6 DEF T

LEMMA GetOidIs ==
    ASSUME NEW data \in Seq(Byte), Len(data) >= 1, data[1] = FIRST_BYTE,
           NEW K \in Nat, K = Len(data) - 1
    PROVE  \E read \in [0..K -> OidStates] :
              /\ read[0] = Midway(<<>>, 0, FALSE)
              /\ \A n \in 1..K : read[n] = NextByte(read[n - 1], data[n + 1])
              /\ ~read[K].open => GetOid(data) = read[K].ids
<1> DEFINE base == [ids |-> <<>>, big |-> 0, open |-> FALSE]
           step == [e \in (1..K) \X OidStates |-> NextByte(e[2], data[e[1] + 1])]
           read[n \in 0..(Len(data) - 1)] ==
               IF n = 0 THEN [ids |-> <<>>, big |-> 0, open |-> FALSE]
               ELSE NextByte(read[n - 1], data[n + 1])
<1>1. /\ base \in OidStates
      /\ \A n \in 1..K : data[n + 1] \in Byte
  BY DEF OidStates
<1>2. step \in [(1..K) \X OidStates -> OidStates]
  BY <1>1, NextByteStays
<1>3. ASSUME NEW n \in 1..K, NEW x \in OidStates
      PROVE  step[<<n, x>>] = NextByte(x, data[n + 1])
  OBVIOUS
<1> HIDE DEF step, base
<1>4. PICK f \in [0..K -> OidStates] : Runs(f, K, base, step)
  BY <1>1, <1>2, LoopIs
<1>5. f = [n \in 0..K |-> IF n = 0 THEN base ELSE NextByte(f[n - 1], data[n + 1])]
  <2>1. ASSUME NEW n \in 0..K, n # 0 PROVE step[<<n, f[n - 1]>>] = NextByte(f[n - 1], data[n + 1])
    <3>1. n \in 1..K /\ n - 1 \in 0..K
      BY <2>1
    <3>2. QED
      BY <1>3, <3>1
  <2>2. QED
    BY <1>4, <2>1 DEF Runs
<1>6. read = [n \in 0..K |-> IF n = 0 THEN base ELSE NextByte(read[n - 1], data[n + 1])]
  BY <1>5 DEF read, base
<1>7. GetOid(data) = IF data = <<>> \/ Head(data) # FIRST_BYTE \/ read[K].open THEN <<>>
                     ELSE read[K].ids
  BY DEF GetOid, read
<1>8. data # <<>> /\ Head(data) = FIRST_BYTE
  OBVIOUS
<1> HIDE DEF read
<1>9. read[0] = base /\ \A n \in 1..K : read[n] = NextByte(read[n - 1], data[n + 1])
  <2>1. 0 \in 0..K /\ \A n \in 1..K : n \in 0..K /\ n # 0
    OBVIOUS
  <2>2. QED
    BY <1>6, <2>1
<1>10. \A n \in 0..K : read[n] \in OidStates
  <2> DEFINE T == {n \in 0..K : read[n] \in OidStates}
  <2>1. 0 \in T
    BY <1>1, <1>9
  <2>2. ASSUME NEW n \in 1..K, n - 1 \in T PROVE n \in T
    <3>1. n \in 0..K /\ read[n - 1] \in OidStates
      BY <2>2
    <3>2. QED
      BY <1>1, <1>9, <3>1, NextByteStays
  <2> HIDE DEF T
  <2>3. \A n \in 0..K : n \in T
    BY <2>1, <2>2, Reached
  <2>4. QED
    BY <2>3 DEF T
<1>11. read \in [0..K -> OidStates]
  BY <1>6, <1>10
<1>12. base = Midway(<<>>, 0, FALSE)
  BY DEF base, Midway
<1>13. QED
  BY <1>7, <1>8, <1>9, <1>11, <1>12

\* An identifier is read as its numbers, however many there are.
LEMMA OidIsRead ==
    ASSUME NEW ids \in Seq(Nat), \A n \in 1..Len(ids) : ids[n] <= MaxInt
    PROVE  /\ PackOid(ids) \in Seq(Byte) /\ Len(PackOid(ids)) <= 1 + Len(ids) * 5
           /\ GetOid(PackOid(ids)) = ids
<1>1. CASE ids = <<>>
  <2>1. PackOid(ids) = <<>> /\ <<>> \in Seq(Byte) /\ Len(<<>>) = 0 /\ Len(ids) = 0
    BY <1>1 DEF PackOid
  <2>2. GetOid(<<>>) = <<>>
    BY DEF GetOid
  <2>3. 0 <= 1 + 0 * 5
    OBVIOUS
  <2>4. QED
    BY <1>1, <2>1, <2>2, <2>3
<1>2. CASE ids # <<>>
  <2> DEFINE I == Len(ids)
             chunks == [n \in 1..I |-> PackInt(ids[n])]
             all == FlattenSeq(chunks)
  <2>1. I \in Nat /\ \A n \in 1..I : ids[n] \in Nat
    OBVIOUS
  <2>2. \A n \in 1..I : PackInt(ids[n]) \in Seq(Byte) /\ Len(PackInt(ids[n])) <= 5
    <3>1. ASSUME NEW n \in 1..I PROVE PackInt(ids[n]) \in Seq(Byte) /\ Len(PackInt(ids[n])) <= 5
      <4>1. PICK last \in 0..4 : Len(PackInt(ids[n])) = last + 1 /\ PackInt(ids[n]) \in Seq(Byte)
        BY <2>1, PackIntIs
      <4>2. last + 1 <= 5
        OBVIOUS
      <4>3. QED
        BY <4>1, <4>2
    <3>2. QED
      BY <3>1
  <2>3. /\ chunks \in Seq(Seq(Byte)) /\ Len(chunks) = I
        /\ \A n \in 1..I : chunks[n] = PackInt(ids[n])
    BY <2>1, <2>2
  <2>4. PackOid(ids) = <<FIRST_BYTE>> \o all
    BY <1>2 DEF PackOid
  <2> HIDE DEF chunks, I
  <2>5. PICK flat \in [0..I -> Seq(Byte)] :
            /\ flat[0] = <<>> /\ all = flat[I]
            /\ \A n \in 1..I : flat[n] = flat[n - 1] \o chunks[n]
    BY <2>3, FlattenIs
  <2>6. \A n \in 1..I : FoundAt(all, Len(flat[n - 1]), chunks[n])
    <3>1. /\ flat \in [0..Len(chunks) -> Seq(Byte)] /\ all = flat[Len(chunks)]
          /\ Flattens(flat, chunks)
      BY <2>3, <2>5 DEF Flattens
    <3>2. ASSUME NEW n \in 1..Len(chunks)
          PROVE  FoundAt(flat[Len(chunks)], Len(flat[n - 1]), chunks[n])
      BY <2>3, <3>1, FlatParts
    <3>3. QED
      BY <2>3, <3>1, <3>2
  <2>7. all \in Seq(Byte) /\ Len(all) <= I * 5
    <3>1. PICK M \in Nat : M = 5
      OBVIOUS
    <3>2. \A n \in 1..Len(chunks) : Len(chunks[n]) <= M
      BY <2>2, <2>3, <3>1
    <3>3. QED
      BY <2>3, <3>1, <3>2, FlatSize
  <2> HIDE DEF all
  <2> DEFINE data == <<FIRST_BYTE>> \o all
             K == Len(all)
  <2>8. /\ data \in Seq(Byte) /\ K \in Nat /\ Len(data) = K + 1 /\ data[1] = FIRST_BYTE
        /\ \A i \in 1..K : data[i + 1] = all[i]
    <3>1. FIRST_BYTE \in Byte
      BY BytesAre DEF FIRST_BYTE
    <3>2. QED
      BY <2>7, <3>1
  <2> HIDE DEF data, K
  <2>9. PICK read \in [0..K -> OidStates] :
            /\ read[0] = Midway(<<>>, 0, FALSE)
            /\ \A n \in 1..K : read[n] = NextByte(read[n - 1], data[n + 1])
            /\ ~read[K].open => GetOid(data) = read[K].ids
    <3>1. Len(data) >= 1 /\ K = Len(data) - 1
      BY <2>8
    <3>2. QED
      BY <2>8, <3>1, GetOidIs
  <2> DEFINE T == {n \in 0..I : read[Len(flat[n])] = Midway(SubSeq(ids, 1, n), 0, FALSE)}
  <2>10. 0 \in T
    <3>1. Len(flat[0]) = 0 /\ SubSeq(ids, 1, 0) = <<>> /\ 0 \in 0..I
      BY <2>1, <2>5
    <3>2. QED
      BY <2>9, <3>1
  <2>11. ASSUME NEW n \in 1..I, n - 1 \in T PROVE n \in T
    <3>1. PICK L \in Nat, bytes \in Seq(Byte) : L = Len(flat[n - 1]) /\ bytes = PackInt(ids[n])
      <4>1. n - 1 \in 0..I
        BY <2>1
      <4>2. QED
        BY <2>2, <2>5, <4>1
    <3>2. bytes = chunks[n] /\ flat[n] = flat[n - 1] \o bytes
      BY <2>3, <2>5, <3>1
    <3>3. Len(flat[n]) = L + Len(bytes)
      <4>1. PICK f \in Seq(Byte) : f = flat[n - 1]
        BY <2>1, <2>5
      <4>2. Len(f \o bytes) = Len(f) + Len(bytes)
        OBVIOUS
      <4>3. QED
        BY <3>1, <3>2, <4>1, <4>2
    <3>4. ASSUME NEW j \in 1..Len(bytes) PROVE read[L + j] = NextByte(read[L + j - 1], bytes[j])
      <4>1. L + j \in 1..K /\ all[L + j] = bytes[j]
        BY <2>6, <3>1, <3>2 DEF K, FoundAt
      <4>2. data[(L + j) + 1] = bytes[j]
        BY <2>8, <4>1
      <4>3. QED
        BY <2>9, <4>1, <4>2
    <3>5. read[L] = Midway(SubSeq(ids, 1, n - 1), 0, FALSE)
      BY <2>11, <3>1
    <3>6. ids[n] \in Nat /\ ids[n] <= MaxInt
      BY <2>1 DEF I
    <3>7. read[L + Len(bytes)] = Midway(Append(SubSeq(ids, 1, n - 1), ids[n]), 0, FALSE)
      <4>1. Continues(read, L, bytes)
        BY <3>4 DEF Continues
      <4>2. PICK v \in Nat, before \in Seq(Nat) :
                  v = ids[n] /\ before = SubSeq(ids, 1, n - 1)
        <5>1. SubSeq(ids, 1, n - 1) \in Seq(Nat)
          BY <2>1 DEF I
        <5>2. QED
          BY <3>6, <5>1
      <4>3. v <= MaxInt /\ bytes = PackInt(v) /\ read[L] = Midway(before, 0, FALSE)
        BY <3>1, <3>5, <3>6, <4>2, Zenon
      <4>4. read[L + Len(bytes)] = Midway(Append(before, v), 0, FALSE)
        BY <4>1, <4>3, NumberIsRead
      <4>5. QED
        BY <4>2, <4>4
    <3>8. Append(SubSeq(ids, 1, n - 1), ids[n]) = SubSeq(ids, 1, n)
      BY <2>1 DEF I
    <3>9. n \in 0..I
      BY <2>1
    <3>10. QED
      BY <3>3, <3>7, <3>8, <3>9
  <2> HIDE DEF T
  <2>12. I \in T
    <3>1. I \in 0..I
      BY <2>1
    <3>2. QED
      BY <2>1, <2>10, <2>11, <3>1, Reached
  <2>13. read[K] = Midway(ids, 0, FALSE)
    <3>1. SubSeq(ids, 1, I) = ids
      BY DEF I
    <3>2. read[Len(flat[I])] = Midway(SubSeq(ids, 1, I), 0, FALSE)
      BY <2>12 DEF T
    <3>3. QED
      BY <2>5, <3>1, <3>2 DEF K
  <2>14. GetOid(data) = ids
    <3>1. ~Midway(ids, 0, FALSE).open /\ Midway(ids, 0, FALSE).ids = ids
      BY DEF Midway
    <3>2. QED
      BY <2>9, <2>13, <3>1
  <2>15. PackOid(ids) = data
    BY <2>4 DEF data
  <2>16. Len(data) <= 1 + I * 5
    BY <2>1, <2>7, <2>8 DEF K
  <2>17. QED
    BY <2>8, <2>14, <2>15, <2>16 DEF I
<1>3. QED
  BY <1>1, <1>2

OidRoom == 327687
LEMMA OidRoomIs == OidRoom \in Nat /\ OidRoom >= 10 /\ 200 * OidRoom <= MaxInt
BY MaxIntIs, SMT DEF OidRoom

LEMMA OidTravels ==
    ASSUME NEW ids \in Seq(Nat), \A n \in 1..Len(ids) : ids[n] <= MaxInt, Len(ids) <= 2^16
    PROVE  \E bytes : Travels(OidData(ids), 1, bytes) /\ Len(bytes) <= OidRoom
<1> DEFINE content == PackOid(ids)
           d == OidData(ids)
<1>1. content \in Seq(Byte) /\ Len(content) <= 1 + Len(ids) * 5 /\ GetOid(content) = ids
  BY OidIsRead
<1> HIDE DEF content
<1>2. Len(content) <= 327681
  <2>1. PICK n \in Nat, m \in Nat : n = Len(ids) /\ m = Len(content)
    BY <1>1
  <2>2. n <= 2^16 /\ m <= 1 + n * 5
    BY <1>1, <2>1
  <2>3. n <= 65536
    BY <2>2, SMT
  <2>4. m <= 327681
    BY <2>2, <2>3
  <2>5. QED
    BY <2>1, <2>4
<1>3. d = Packet(OBJECT_TYPE, ids, <<>>, <<>>)
  BY DEF OidData
<1>4. Constructed(OBJECT_TYPE, content, <<>>) = d
  BY <1>1, <1>3, ConstructedIs
<1> HIDE DEF d
<1>5. d.m_type = OBJECT_TYPE /\ d.m_data = ids
  BY <1>3, PacketFields
<1>6. IsValid(d)
  BY <1>5 DEF IsValid
<1>7. \A chunks : Chunk(d, chunks) = PackContent(OBJECT_TYPE, content)
  BY <1>5, ChunkIs DEF content
<1>8. Len(content) <= MaxInt
  <2>1. PICK m \in Nat : m = Len(content)
    BY <1>1
  <2>2. m <= MaxInt
    BY <1>2, <2>1, MaxIntIs
  <2>3. QED
    BY <2>1, <2>2
<1>9. Travels(d, 1, PackContent(OBJECT_TYPE, content))
  BY <1>1, <1>3, <1>4, <1>6, <1>7, <1>8, TypesAre, LeafTravels
<1>10. Len(PackContent(OBJECT_TYPE, content)) <= OidRoom
  <2>1. /\ PackContent(OBJECT_TYPE, content) \in Seq(Byte)
        /\ Len(PackContent(OBJECT_TYPE, content)) <= Len(content) + 6
    BY <1>1, <1>8, TypesAre, PackedSize
  <2>2. PICK m \in Nat, n \in Nat : m = Len(content) /\ n = Len(PackContent(OBJECT_TYPE, content))
    BY <1>1, <2>1
  <2>3. m <= 327681 /\ n <= m + 6
    BY <1>2, <2>1, <2>2
  <2>4. n <= OidRoom
    BY <2>3, SMT DEF OidRoom
  <2>5. QED
    BY <2>2, <2>4
<1>11. QED
  BY <1>9, <1>10 DEF d

\* How deep a packet is and how many bytes it takes at most.
Moves(d, k, M) == \E bytes : Travels(d, k, bytes) /\ Len(bytes) <= M
AllMove(childs, k, M) == \A c \in 1..Len(childs) : Moves(childs[c], k, M)
Room(n, M, N) == n * M + 6 <= N /\ N <= MaxInt

LEMMA MovesWider ==
    ASSUME NEW k \in Nat, NEW l \in Nat, k <= l, NEW M \in Nat, NEW N \in Nat, M <= N,
           NEW d, Moves(d, k, M)
    PROVE  Moves(d, l, N)
<1>1. PICK bytes : Travels(d, k, bytes) /\ Len(bytes) <= M
  BY DEF Moves
<1>2. bytes \in Seq(Byte) /\ Len(bytes) \in Nat
  BY <1>1 DEF Travels
<1>3. Len(bytes) <= N
  BY <1>1, <1>2
<1>4. \A n \in 0..Nesting : l <= n => k <= n
  BY NestingAssumption
<1>5. Travels(d, l, bytes)
  BY <1>1, <1>4 DEF Travels
<1>6. QED
  BY <1>3, <1>5 DEF Moves

LEMMA ParentMoves ==
    ASSUME NEW type \in ParentTypes, type # SET_REQUEST_TYPE, NEW k \in Nat, NEW l, l = k + 1,
           NEW X, NEW childs \in Seq(X), NEW M \in Nat, AllMove(childs, k, M),
           NEW n \in Nat, Len(childs) <= n, NEW N \in Nat, Room(n, M, N)
    PROVE  Moves(Packet(type, <<>>, childs, <<>>), l, N)
<1> DEFINE good(c, bytes) == Travels(childs[c], k, bytes) /\ Len(bytes) <= M
           chunks == [c \in 1..Len(childs) |-> CHOOSE bytes : good(c, bytes)]
<1>1. PICK K \in Nat : K = Len(childs)
  OBVIOUS
<1>2. \A c \in 1..K : good(c, chunks[c])
  <2>1. \A c \in 1..K : \E bytes : good(c, bytes)
    BY <1>1 DEF AllMove, Moves
  <2> HIDE DEF good
  <2>2. QED
    BY <1>1, <2>1
<1>3. \A c \in 1..K : chunks[c] \in Seq(Byte)
  BY <1>2 DEF Travels
<1>4. chunks \in Seq(Seq(Byte)) /\ Len(chunks) = K
  <2>1. chunks = [c \in 1..K |-> chunks[c]]
    BY <1>1
  <2> HIDE DEF chunks
  <2>2. QED
    BY <1>3, <2>1
<1> HIDE DEF chunks
<1>5. \A c \in 1..Len(childs) : Travels(childs[c], k, chunks[c])
  BY <1>1, <1>2
<1>6. \A c \in 1..Len(chunks) : Len(chunks[c]) <= M
  BY <1>2, <1>4
<1>7. PICK content : content = FlattenSeq(chunks)
  OBVIOUS
<1>8. content \in Seq(Byte) /\ Len(content) <= Len(chunks) * M
  BY <1>4, <1>6, <1>7, FlatSize
<1>9. Len(content) <= MaxInt /\ Len(content) + 6 <= N
  <2>1. PICK m \in Nat : m = Len(content)
    BY <1>8
  <2>2. m <= K * M /\ K <= n /\ n * M + 6 <= N /\ N <= MaxInt
    BY <1>1, <1>4, <1>8, <2>1 DEF Room
  <2>3. K * M <= n * M
    <3>1. PICK r \in Nat : n = K + r
      <4>1. n - K \in Nat /\ n = K + (n - K)
        BY <2>2
      <4>2. QED
        BY <4>1
    <3>2. n * M = K * M + r * M /\ r * M >= 0 /\ K * M \in Nat
      BY <3>1
    <3>3. QED
      BY <3>2
  <2>4. K * M \in Nat /\ n * M \in Nat /\ MaxInt \in Int
    BY MaxIntInt
  <2>5. m <= MaxInt /\ m + 6 <= N
    BY <2>2, <2>3, <2>4
  <2>6. QED
    BY <2>1, <2>5
<1>10. PICK d : d = Packet(type, <<>>, childs, <<>>)
  OBVIOUS
<1>11. Travels(d, k + 1, PackContent(type, content))
  BY <1>1, <1>4, <1>5, <1>7, <1>9, <1>10, ParentTravels
<1>12. Len(PackContent(type, content)) <= N
  <2>1. type \in Byte
    BY TypesAre
  <2>2. /\ PackContent(type, content) \in Seq(Byte)
        /\ Len(PackContent(type, content)) <= Len(content) + 6
    BY <1>8, <1>9, <2>1, PackedSize
  <2>3. PICK m \in Nat, p \in Nat : m = Len(content) /\ p = Len(PackContent(type, content))
    BY <1>8, <2>2
  <2>4. p <= N
    BY <1>9, <2>2, <2>3
  <2>5. QED
    BY <2>3, <2>4
<1>13. QED
  BY <1>10, <1>11, <1>12 DEF Moves

LEMMA EmptyParent ==
    ASSUME NEW type \in ParentTypes, NEW X, NEW childs \in Seq(X)
    PROVE  AddChildren(Data(type, <<>>), childs) = Packet(type, <<>>, childs, <<>>)
<1>1. ParseData(<<>>).packets = <<>>
  <2>1. /\ Len(<<>>) = 0 /\ 0 \in Nat /\ 0 <= 0
        /\ [packets |-> <<>>, ends |-> "done"].packets = <<>>
    OBVIOUS
  <2>2. Reading[0][<<>>] = [packets |-> <<>>, ends |-> "done"]
    BY <2>1, NothingIsRead DEF Reads
  <2>3. QED
    BY <2>1, <2>2 DEF ParseData
<1>2. Data(type, <<>>) = Packet(type, <<>>, <<>>, <<>>)
  BY <1>1, ConstructedIs DEF Data
<1>3. <<>> \o childs = childs
  BY ConcatEmptySeq
<1>4. Packet(type, <<>>, <<>>, <<>>).m_childs = <<>>
  BY DEF Packet
<1>5. PICK d : d = Packet(type, <<>>, <<>>, <<>>)
  OBVIOUS
<1>6. [d EXCEPT !.m_childs = childs] = Packet(type, <<>>, childs, <<>>)
  BY <1>5, PacketChanges
<1>7. AddChildren(d, childs) = [d EXCEPT !.m_childs = d.m_childs \o childs]
  BY DEF AddChildren
<1>8. d.m_childs \o childs = childs
  BY <1>3, <1>4, <1>5
<1>9. QED
  BY <1>2, <1>5, <1>6, <1>7, <1>8

\* A packet of a few children.
LEMMA SequenceOf ==
    ASSUME NEW k \in Nat, NEW l, l = k + 1, NEW type \in ParentTypes, type # SET_REQUEST_TYPE,
           NEW X, NEW childs \in Seq(X), NEW M \in Nat, AllMove(childs, k, M),
           NEW n \in Nat, Len(childs) <= n, NEW N \in Nat, Room(n, M, N)
    PROVE  Moves(AddChildren(Data(type, <<>>), childs), l, N)
BY ParentMoves, EmptyParent

LEMMA PairMoves ==
    ASSUME NEW a, NEW b, NEW k, NEW M, Moves(a, k, M), Moves(b, k, M)
    PROVE  /\ <<a, b>> \in Seq({a, b}) /\ Len(<<a, b>>) = 2 /\ AllMove(<<a, b>>, k, M)
<1>1. <<a, b>> \in Seq({a, b}) /\ Len(<<a, b>>) = 2
  OBVIOUS
<1>2. \A c \in 1..2 : <<a, b>>[c] = a \/ <<a, b>>[c] = b
  OBVIOUS
<1>3. QED
  BY <1>1, <1>2 DEF AllMove

LEMMA TripleMoves ==
    ASSUME NEW a, NEW b, NEW c, NEW k, NEW M, Moves(a, k, M), Moves(b, k, M), Moves(c, k, M)
    PROVE  /\ <<a, b, c>> \in Seq({a, b, c}) /\ Len(<<a, b, c>>) = 3
           /\ AllMove(<<a, b, c>>, k, M)
<1>1. <<a, b, c>> \in Seq({a, b, c}) /\ Len(<<a, b, c>>) = 3
  OBVIOUS
<1>2. \A n \in 1..3 : <<a, b, c>>[n] = a \/ <<a, b, c>>[n] = b \/ <<a, b, c>>[n] = c
  OBVIOUS
<1>3. QED
  BY <1>1, <1>2 DEF AllMove

LEMMA FourMove ==
    ASSUME NEW a, NEW b, NEW c, NEW d, NEW k, NEW M,
           Moves(a, k, M), Moves(b, k, M), Moves(c, k, M), Moves(d, k, M)
    PROVE  /\ <<a, b, c, d>> \in Seq({a, b, c, d}) /\ Len(<<a, b, c, d>>) = 4
           /\ AllMove(<<a, b, c, d>>, k, M)
<1>1. <<a, b, c, d>> \in Seq({a, b, c, d}) /\ Len(<<a, b, c, d>>) = 4
  OBVIOUS
<1>2. \A n \in 1..4 : \/ <<a, b, c, d>>[n] = a \/ <<a, b, c, d>>[n] = b
                      \/ <<a, b, c, d>>[n] = c \/ <<a, b, c, d>>[n] = d
  OBVIOUS
<1>3. QED
  BY <1>1, <1>2 DEF AllMove

\* A request to get is five levels deep.
LEMMA RequestMoves ==
    ASSUME NEW oids, oids \in Seq(Seq(Nat)), NEW k \in Nat, Len(oids) <= k, k >= 1,
           NEW M \in Nat, M >= 10, \A n \in 1..Len(oids) : Moves(OidData(oids[n]), 1, M),
           NEW community, Moves(String(community), 1, M),
           NEW id \in Int, -MaxInt - 1 <= id, id <= MaxInt, 100 * k * M <= MaxInt
    PROVE  Moves(RequestPacket(GET_REQUEST_TYPE, community, id, oids), 5, 100 * k * M)
<1> DEFINE info(ids) == AddChildren(Data(SEQUENCE_TYPE, <<>>), <<OidData(ids), NullData>>)
           infos == [n \in 1..Len(oids) |-> info(oids[n])]
           objects == AddChildren(Data(SEQUENCE_TYPE, <<>>), infos)
           request == AddChildren(Data(GET_REQUEST_TYPE, <<>>),
                                  <<Integer(id), Integer(0), Integer(0), objects>>)
           message == AddChildren(Data(SEQUENCE_TYPE, <<>>),
                                  <<Integer(0), String(community), request>>)
<1>1. PICK kM \in Nat : kM = k * M /\ kM >= M
  <2>1. PICK r \in Nat : k = 1 + r
    <3>1. k - 1 \in Nat /\ k = 1 + (k - 1)
      OBVIOUS
    <3>2. QED
      BY <3>1
  <2>2. k * M = M + r * M /\ r * M >= 0 /\ k * M \in Nat
    BY <2>1
  <2>3. QED
    BY <2>2
<1>2. 100 * k * M = 100 * kM /\ 100 * kM <= MaxInt /\ MaxInt \in Int
  <2>1. 100 * k * M = 100 * (k * M)
    OBVIOUS
  <2>2. QED
    BY <1>1, <2>1, MaxIntInt
<1>3. PICK M2 \in Nat, M3 \in Nat, M4 \in Nat, M5 \in Nat, four \in Nat, three \in Nat, two \in Nat :
          /\ M2 = 3 * M /\ M3 = 4 * kM /\ M4 = 20 * kM /\ M5 = 100 * kM
          /\ four = 4 /\ three = 3 /\ two = 2
  OBVIOUS
<1>4. /\ Room(two, M, M2) /\ Room(k, M2, M3) /\ Room(four, M3, M4) /\ Room(three, M4, M5)
  <2>1. two * M + 6 <= M2 /\ M2 <= MaxInt
    <3>1. 2 * M + 6 <= 3 * M
      OBVIOUS
    <3>2. M2 <= 100 * kM
      BY <1>1, <1>3
    <3>3. M2 <= MaxInt
      BY <1>2, <3>2
    <3>4. QED
      BY <1>3, <3>1, <3>3
  <2>2. k * M2 + 6 <= M3 /\ M3 <= MaxInt
    <3>1. k * M2 = 3 * kM
      <4>1. k * (3 * M) = 3 * (k * M)
        OBVIOUS
      <4>2. QED
        BY <1>1, <1>3, <4>1
    <3>2. QED
      BY <1>1, <1>2, <1>3, <3>1
  <2>3. four * M3 + 6 <= M4 /\ M4 <= MaxInt
    BY <1>1, <1>2, <1>3
  <2>4. three * M4 + 6 <= M5 /\ M5 <= MaxInt
    BY <1>1, <1>2, <1>3
  <2>5. QED
    BY <2>1, <2>2, <2>3, <2>4 DEF Room
<1>5. PICK l1 \in Nat, l2 \in Nat, l3 \in Nat, l4 \in Nat, l5 \in Nat :
          /\ l1 = 1 /\ l2 = l1 + 1 /\ l3 = l2 + 1 /\ l4 = l3 + 1 /\ l5 = l4 + 1
          /\ l1 <= l3 /\ l1 <= l4 /\ l5 = 5
  <2>1. 2 = 1 + 1 /\ 3 = 2 + 1 /\ 4 = 3 + 1 /\ 5 = 4 + 1 /\ 1 <= 3 /\ 1 <= 4
    OBVIOUS
  <2>2. QED
    BY <2>1
<1>6. M <= M3 /\ M <= M4
  BY <1>1, <1>3
<1>7. /\ SEQUENCE_TYPE \in ParentTypes /\ SEQUENCE_TYPE # SET_REQUEST_TYPE
      /\ GET_REQUEST_TYPE \in ParentTypes /\ GET_REQUEST_TYPE # SET_REQUEST_TYPE
  BY DEF ParentTypes, SEQUENCE_TYPE, GET_REQUEST_TYPE, SET_REQUEST_TYPE
<1>8. \A v \in Int : -MaxInt - 1 <= v /\ v <= MaxInt => Moves(Integer(v), l1, M)
  <2>1. ASSUME NEW v \in Int, -MaxInt - 1 <= v, v <= MaxInt PROVE Moves(Integer(v), l1, M)
    <3>1. PICK data \in Seq(Byte) : data = Stream(v) /\ Len(data) = 4
      BY <2>1, StreamIs
    <3>2. PICK d : d = Packet(INTEGER_TYPE, data, <<>>, <<>>)
      OBVIOUS
    <3>3. Data(INTEGER_TYPE, data) = d /\ \E bytes : Travels(d, 1, bytes) /\ Len(bytes) <= 10
      BY <3>1, <3>2, WordTravels
    <3>4. PICK ten \in Nat : ten = 10 /\ ten <= M
      OBVIOUS
    <3>5. Moves(d, l1, ten)
      BY <1>5, <3>3, <3>4 DEF Moves
    <3>6. l1 <= l1
      OBVIOUS
    <3>7. Moves(d, l1, M)
      BY <3>4, <3>5, <3>6, MovesWider
    <3>8. QED
      BY <3>1, <3>3, <3>7 DEF Integer
  <2>2. QED
    BY <2>1
<1>9. Moves(NullData, l1, M)
  <2>1. PICK d : d = Packet(NULL_DATA_TYPE, <<>>, <<>>, <<>>)
    OBVIOUS
  <2>2. NullData = d /\ \E bytes : Travels(d, 1, bytes) /\ Len(bytes) <= 6
    BY <2>1, NullTravels
  <2>3. PICK six \in Nat : six = 6 /\ six <= M
    OBVIOUS
  <2>4. Moves(d, l1, six) /\ l1 <= l1
    BY <1>5, <2>2, <2>3 DEF Moves
  <2>5. QED
    BY <2>2, <2>3, <2>4, MovesWider
<1>10. Moves(Integer(id), l1, M) /\ Moves(Integer(0), l1, M)
  <2>1. -MaxInt - 1 <= 0 /\ 0 <= MaxInt
    BY MaxIntIs, SMT
  <2>2. Moves(Integer(id), l1, M)
    BY <1>8
  <2>3. Moves(Integer(0), l1, M)
    BY <1>8, <2>1
  <2>4. QED
    BY <2>2, <2>3
<1>11. \A n \in 1..Len(oids) : Moves(info(oids[n]), l2, M2)
  <2>1. ASSUME NEW n \in 1..Len(oids) PROVE Moves(info(oids[n]), l2, M2)
    <3>1. PICK a, b, s : a = OidData(oids[n]) /\ b = NullData /\ s = <<a, b>>
      OBVIOUS
    <3>2. Moves(a, l1, M) /\ Moves(b, l1, M)
      BY <1>5, <1>9, <3>1
    <3>3. s \in Seq({a, b}) /\ Len(s) = 2 /\ AllMove(s, l1, M)
      BY <3>1, <3>2, PairMoves
    <3>4. Len(s) <= two
      BY <1>3, <3>3
    <3>5. Moves(AddChildren(Data(SEQUENCE_TYPE, <<>>), s), l2, M2)
      BY <1>4, <1>5, <1>7, <3>3, <3>4, SequenceOf
    <3>6. QED
      BY <3>1, <3>5
  <2>2. QED
    BY <2>1
<1>12. Moves(objects, l3, M3)
  <2> DEFINE X == {info(oids[n]) : n \in 1..Len(oids)}
  <2>1. infos \in Seq(X) /\ Len(infos) = Len(oids) /\ \A n \in 1..Len(oids) : infos[n] = info(oids[n])
    <3> HIDE DEF info
    <3>1. QED
      OBVIOUS
  <2> HIDE DEF info, infos, X
  <2>2. AllMove(infos, l2, M2)
    BY <1>11, <2>1 DEF AllMove
  <2>3. Len(infos) <= k
    BY <2>1
  <2>4. QED
    BY <1>4, <1>5, <1>7, <2>1, <2>2, <2>3, SequenceOf
<1> HIDE DEF objects
<1>13. Moves(request, l4, M4)
  <2>1. PICK a, b, s : a = Integer(id) /\ b = Integer(0) /\ s = <<a, b, b, objects>>
    OBVIOUS
  <2>2. Moves(a, l3, M3) /\ Moves(b, l3, M3)
    <3>1. Moves(a, l1, M) /\ Moves(b, l1, M)
      BY <1>10, <2>1
    <3>2. Moves(a, l3, M3)
      BY <1>5, <1>6, <3>1, MovesWider
    <3>3. Moves(b, l3, M3)
      BY <1>5, <1>6, <3>1, MovesWider
    <3>4. QED
      BY <3>2, <3>3
  <2>3. s \in Seq({a, b, b, objects}) /\ Len(s) = 4 /\ AllMove(s, l3, M3)
    BY <1>12, <2>1, <2>2, FourMove
  <2>4. Len(s) <= four
    BY <1>3, <2>3
  <2>5. Moves(AddChildren(Data(GET_REQUEST_TYPE, <<>>), s), l4, M4)
    BY <1>4, <1>5, <1>7, <2>3, <2>4, SequenceOf
  <2>6. QED
    BY <2>1, <2>5
<1> HIDE DEF request
<1>14. Moves(message, l5, M5)
  <2>1. PICK a, b, s : a = Integer(0) /\ b = String(community) /\ s = <<a, b, request>>
    OBVIOUS
  <2>2. Moves(a, l4, M4) /\ Moves(b, l4, M4)
    <3>1. Moves(a, l1, M) /\ Moves(b, l1, M)
      BY <1>5, <1>10, <2>1
    <3>2. Moves(a, l4, M4)
      BY <1>5, <1>6, <3>1, MovesWider
    <3>3. Moves(b, l4, M4)
      BY <1>5, <1>6, <3>1, MovesWider
    <3>4. QED
      BY <3>2, <3>3
  <2>3. s \in Seq({a, b, request}) /\ Len(s) = 3 /\ AllMove(s, l4, M4)
    BY <1>13, <2>1, <2>2, TripleMoves
  <2>4. Len(s) <= three
    BY <1>3, <2>3
  <2>5. Moves(AddChildren(Data(SEQUENCE_TYPE, <<>>), s), l5, M5)
    BY <1>4, <1>5, <1>7, <2>3, <2>4, SequenceOf
  <2>6. QED
    BY <2>1, <2>5
<1>15. RequestPacket(GET_REQUEST_TYPE, community, id, oids) = message
  BY DEF RequestPacket, Sequence, message, request, objects
<1>16. M5 = 100 * k * M
  BY <1>2, <1>3
<1> HIDE DEF message
<1>17. QED
  BY <1>5, <1>14, <1>15, <1>16, Zenon

LEMMA MoversSurvive ==
    ASSUME NEW d, NEW k \in Nat, k <= Nesting, NEW M, Moves(d, k, M)
    PROVE  Survives(d)
<1>1. PICK bytes : Travels(d, k, bytes)
  BY DEF Moves
<1>2. QED
  BY <1>1, TravellersSurvive

\* The requests for no, one or two identifiers.
LEMMA RequestSurvives ==
    ASSUME NEW ids \in Seq(Nat), \A n \in 1..Len(ids) : ids[n] <= MaxInt, Len(ids) <= 2^16,
           NEW more \in Seq(Nat), \A n \in 1..Len(more) : more[n] <= MaxInt, Len(more) <= 2^16,
           NEW id \in Nat, id <= MaxInt,
           NEW oids \in {<<>>, <<ids>>, <<ids, more>>}
    PROVE  /\ Survives(OidData(ids))
           /\ Survives(RequestPacket(GET_REQUEST_TYPE, <<112, 117, 98>>, id, oids))
<1>1. PICK M \in Nat, two \in Nat, one \in Nat, five \in Nat :
          M = OidRoom /\ two = 2 /\ one = 1 /\ five = 5
  BY OidRoomIs
<1>2. Moves(OidData(ids), one, M) /\ Moves(OidData(more), one, M)
  <2>1. Moves(OidData(ids), one, M)
    BY <1>1, OidTravels DEF Moves
  <2>2. Moves(OidData(more), one, M)
    BY <1>1, OidTravels DEF Moves
  <2>3. QED
    BY <2>1, <2>2
<1>3. one <= Nesting /\ five <= Nesting
  BY <1>1, NestingAssumption
<1>4. Survives(OidData(ids))
  BY <1>2, <1>3, MoversSurvive
<1>5. oids \in Seq(Seq(Nat)) /\ (\A n \in 1..Len(oids) : oids[n] \in {ids, more}) /\ Len(oids) <= two
  <2>1. CASE oids = <<>>
    BY <1>1, <2>1
  <2>2. CASE oids = <<ids>>
    <3>1. <<ids>> \in Seq(Seq(Nat)) /\ Len(<<ids>>) = 1 /\ \A n \in 1..1 : <<ids>>[n] = ids
      OBVIOUS
    <3>2. QED
      BY <1>1, <2>2, <3>1
  <2>3. CASE oids = <<ids, more>>
    <3>1. /\ <<ids, more>> \in Seq(Seq(Nat)) /\ Len(<<ids, more>>) = 2
          /\ \A n \in 1..2 : <<ids, more>>[n] = ids \/ <<ids, more>>[n] = more
      OBVIOUS
    <3>2. QED
      BY <1>1, <2>3, <3>1
  <2>4. QED
    BY <2>1, <2>2, <2>3
<1>6. Len(oids) <= two
  BY <1>5
<1>7. \A n \in 1..Len(oids) : Moves(OidData(oids[n]), one, M)
  BY <1>2, <1>5
<1>8. Moves(String(<<112, 117, 98>>), one, M)
  <2>1. PICK data \in Seq(Byte), three \in Nat, nine \in Nat :
            data = <<112, 117, 98>> /\ Len(data) = three /\ three = 3 /\ nine = 9
    <3>1. 112 \in Byte /\ 117 \in Byte /\ 98 \in Byte
      BY SMT DEF Byte
    <3>2. <<112, 117, 98>> \in Seq(Byte) /\ Len(<<112, 117, 98>>) = 3
      BY <3>1
    <3>3. QED
      BY <3>2
  <2>2. PICK d : d = Packet(STRING_TYPE, data, <<>>, <<>>)
    OBVIOUS
  <2>3. three <= 2^20 /\ Len(data) <= three
    BY <2>1, SMT
  <2>4. Len(data) <= MaxInt
    BY <2>3, FewBytes
  <2>5. String(data) = d /\ Travels(d, 1, PackContent(STRING_TYPE, data))
    BY <2>2, <2>4, StringTravels
  <2>6. Len(PackContent(STRING_TYPE, data)) <= nine
    <3>1. /\ PackContent(STRING_TYPE, data) \in Seq(Byte)
          /\ Len(PackContent(STRING_TYPE, data)) <= Len(data) + 6
      BY <2>4, TypesAre, PackedSize
    <3>2. QED
      BY <2>1, <3>1
  <2>7. Moves(d, one, nine)
    BY <1>1, <2>5, <2>6 DEF Moves
  <2>8. one <= one /\ nine <= M
    BY <1>1, <2>1, OidRoomIs
  <2>9. QED
    BY <2>1, <2>5, <2>7, <2>8, MovesWider
<1>9. 100 * two * M <= MaxInt /\ -MaxInt - 1 <= id
  <2>1. 100 * two * M = 200 * M
    BY <1>1
  <2>2. -MaxInt - 1 <= id
    BY MaxIntIs, SMT
  <2>3. QED
    BY <1>1, <2>1, <2>2, OidRoomIs, Zenon
<1>10. PICK community : community = <<112, 117, 98>>
  OBVIOUS
<1>11. Moves(RequestPacket(GET_REQUEST_TYPE, community, id, oids), five, 100 * two * M)
  <2>1. id \in Int /\ M >= 10 /\ two >= 1
    BY <1>1, OidRoomIs
  <2>2. Moves(String(community), 1, M) /\ \A n \in 1..Len(oids) : Moves(OidData(oids[n]), 1, M)
    BY <1>1, <1>7, <1>8, <1>10
  <2>3. Moves(RequestPacket(GET_REQUEST_TYPE, community, id, oids), 5, 100 * two * M)
    BY <1>5, <1>6, <1>9, <2>1, <2>2, RequestMoves
  <2>4. QED
    BY <1>1, <2>3
<1>12. Survives(RequestPacket(GET_REQUEST_TYPE, community, id, oids))
  BY <1>3, <1>11, MoversSurvive
<1>13. QED
  BY <1>4, <1>10, <1>12

LEMMA ReverseIs ==
    ASSUME NEW X, NEW s \in Seq(X)
    PROVE  Reverse(s) \in Seq(X) /\ Len(Reverse(s)) = Len(s)
BY DEF Reverse

\* An identifier of numbers that an int holds survives being sent and read, alone and in
\* a request for one, two or no values, however long it is, up to 2^16 numbers.
THEOREM OidsAreRead == ConversionSpec => []OidRoundTrip
<1>1. ConversionTypeOK => OidRoundTrip
  <2>1. SUFFICES ASSUME ConversionTypeOK, kind = "oid", input # <<>>
                 PROVE  /\ Survives(OidData(input))
                        /\ \A oids \in {<<>>, <<input>>, <<input, Reverse(input)>>} :
                              Survives(RequestPacket(GET_REQUEST_TYPE, <<112, 117, 98>>,
                                                     Head(input), oids))
    BY DEF OidRoundTrip
  <2>2. /\ Elements("oid") \subseteq 0..MaxInt /\ input \in Seq(Elements("oid"))
        /\ MaxLength("oid") \in Nat /\ MaxLength("oid") <= 2^16 /\ Len(input) <= MaxLength("oid")
    BY <2>1, InputsAssumption, Zenon DEF ConversionTypeOK, Kinds
  <2>3. input \in Seq(0..MaxInt)
    BY <2>2, SeqSubset
  <2>4. Reverse(input) \in Seq(0..MaxInt) /\ Len(Reverse(input)) = Len(input)
    BY <2>3, ReverseIs
  <2>5. \A v \in 0..MaxInt : v \in Nat /\ v <= MaxInt
    BY MaxIntInt
  <2>6. PICK S : S = 0..MaxInt
    OBVIOUS
  <2>7. \A s \in Seq(S) : s \in Seq(Nat) /\ \A n \in 1..Len(s) : s[n] \in Nat /\ s[n] <= MaxInt
    <3>1. S \subseteq Nat /\ \A v \in S : v <= MaxInt
      BY <2>5, <2>6
    <3>2. ASSUME NEW s \in Seq(S)
          PROVE  s \in Seq(Nat) /\ \A n \in 1..Len(s) : s[n] \in Nat /\ s[n] <= MaxInt
      <4>1. s \in Seq(Nat)
        BY <3>1, SeqSubset
      <4>2. \A n \in 1..Len(s) : s[n] \in S
        OBVIOUS
      <4>3. QED
        BY <3>1, <4>1, <4>2
    <3>3. QED
      BY <3>2
  <2>8. Len(input) <= 2^16
    <3>1. PICK n \in Nat, m \in Nat : n = Len(input) /\ m = MaxLength("oid")
      BY <2>2
    <3>2. n <= m /\ m <= 2^16
      BY <2>2, <3>1
    <3>3. n <= 2^16
      <4>1. 2^16 = 65536
        BY SMT
      <4>2. QED
        BY <3>2, <4>1
    <3>4. QED
      BY <3>1, <3>3
  <2>9. PICK ids, more, id : ids = input /\ more = Reverse(input) /\ id = Head(input)
    OBVIOUS
  <2>10. /\ ids \in Seq(Nat) /\ (\A n \in 1..Len(ids) : ids[n] <= MaxInt) /\ Len(ids) <= 2^16
         /\ more \in Seq(Nat) /\ (\A n \in 1..Len(more) : more[n] <= MaxInt) /\ Len(more) <= 2^16
    BY <2>3, <2>4, <2>6, <2>7, <2>8, <2>9
  <2>11. id \in Nat /\ id <= MaxInt
    <3>1. 1 \in 1..Len(input) /\ Head(input) = input[1]
      BY <2>1, <2>3
    <3>2. QED
      BY <2>3, <2>6, <2>7, <2>9, <3>1
  <2>12. \A oids \in {<<>>, <<ids>>, <<ids, more>>} :
            /\ Survives(OidData(ids))
            /\ Survives(RequestPacket(GET_REQUEST_TYPE, <<112, 117, 98>>, id, oids))
    BY <2>10, <2>11, RequestSurvives
  <2>13. QED
    BY <2>9, <2>12
<1>2. QED
  BY <1>1, ConversionTypes, PTL

-----------------------------------------------------------------------------
(* Counters, gauges and time ticks.                                        *)

Unsigned(bytes) == IF bytes[1] > 127 THEN <<0>> \o bytes ELSE bytes

LEMMA UnsignedFills ==
    ASSUME NEW K \in Nat, K >= 1, NEW D \in Seq(Byte), Len(D) = K,
           NEW chunk, chunk = Unsigned(CompressLeadingZeros(D))
    PROVE  /\ chunk \in Seq(Byte) /\ Len(chunk) \in 1..(K + 1) /\ chunk[1] < 128
           /\ Len(chunk) <= K => FillTo(K, chunk) = D
           /\ Len(chunk) = K + 1 => D[1] > 127 /\ SubSeq(chunk, 2, K + 1) = D
<1>1. PICK b \in Seq(Byte), m \in 1..K :
          b = CompressLeadingZeros(D) /\ Len(b) = m /\ FillTo(K, b) = D
  BY CompressFills
<1>2. PICK first \in Byte : first = b[1]
  BY <1>1
<1>3. /\ first \in Nat /\ 0 \in Byte
      /\ \A n \in 1..K : FillTo(K, b)[n] = IF n <= K - m THEN 0 ELSE b[n - (K - m)]
  <2>1. first \in Nat /\ 0 \in Byte
    BY BytesAre
  <2>2. Len(b) <= K
    BY <1>1
  <2>3. \A n \in 1..K : FillTo(K, b)[n] = IF n <= K - Len(b) THEN 0 ELSE b[n - (K - Len(b))]
    BY <2>2, FillToIs
  <2>4. QED
    BY <1>1, <2>1, <2>3
<1>4. CASE first > 127
  <2>1. chunk = <<0>> \o b
    BY <1>1, <1>2, <1>4 DEF Unsigned
  <2>2. /\ chunk \in Seq(Byte) /\ Len(chunk) = m + 1 /\ chunk[1] = 0
        /\ \A n \in 2..(m + 1) : chunk[n] = b[n - 1]
    BY <1>1, <1>3, <2>1
  <2>3. ASSUME m + 1 <= K PROVE FillTo(K, chunk) = D
    <3>1. /\ FillTo(K, chunk) \in Seq(Byte) /\ Len(FillTo(K, chunk)) = K
          /\ \A n \in 1..K : FillTo(K, chunk)[n] =
                 IF n <= K - (m + 1) THEN 0 ELSE chunk[n - (K - (m + 1))]
      BY <2>2, <2>3, FillToIs
    <3>2. ASSUME NEW n \in 1..K PROVE FillTo(K, chunk)[n] = D[n]
      <4>1. D[n] = IF n <= K - m THEN 0 ELSE b[n - (K - m)]
        BY <1>1, <1>3
      <4>2. CASE n <= K - (m + 1)
        BY <3>1, <4>1, <4>2
      <4>3. CASE n = K - m
        <5>1. n - (K - (m + 1)) = 1 /\ ~(n <= K - (m + 1)) /\ n <= K - m
          BY <4>3
        <5>2. QED
          BY <2>2, <3>1, <4>1, <5>1
      <4>4. CASE n > K - m
        <5>1. PICK i \in 2..(m + 1) : i = n - (K - (m + 1)) /\ i - 1 = n - (K - m)
          BY <4>4
        <5>2. ~(n <= K - (m + 1)) /\ ~(n <= K - m)
          BY <4>4
        <5>3. QED
          BY <2>2, <3>1, <4>1, <5>1, <5>2
      <4>5. QED
        BY <4>2, <4>3, <4>4
    <3>3. QED
      BY <3>1, <3>2, SeqEqual
  <2>4. ASSUME m + 1 = K + 1 PROVE D[1] > 127 /\ SubSeq(chunk, 2, K + 1) = D
    <3>1. m = K
      BY <2>4
    <3>2. b = D
      BY <1>1, <3>1, FillsNothing
    <3>3. SubSeq(chunk, 2, K + 1) \in Seq(Byte) /\ Len(SubSeq(chunk, 2, K + 1)) = K
          /\ \A n \in 1..K : SubSeq(chunk, 2, K + 1)[n] = chunk[n + 1]
      BY <2>2, <3>1
    <3>4. \A n \in 1..K : SubSeq(chunk, 2, K + 1)[n] = D[n]
      BY <2>2, <3>1, <3>2, <3>3
    <3>5. SubSeq(chunk, 2, K + 1) = D
      BY <3>3, <3>4, SeqEqual
    <3>6. QED
      BY <1>2, <1>4, <3>2, <3>5
  <2>5. PICK L \in Nat : L = Len(chunk) /\ L = m + 1
    BY <2>2
  <2>6. L \in 1..(K + 1) /\ 0 < 128
    BY <2>5
  <2>7. QED
    BY <2>2, <2>3, <2>4, <2>5, <2>6
<1>5. CASE ~(first > 127)
  <2>1. chunk = b
    BY <1>1, <1>2, <1>5 DEF Unsigned
  <2>2. first < 128 /\ m \in 1..(K + 1) /\ m # K + 1
    BY <1>3, <1>5
  <2>3. QED
    BY <1>1, <1>2, <2>1, <2>2
<1>6. QED
  BY <1>4, <1>5

LEMMA UnsignedChunkIs ==
    ASSUME NEW type \in Byte, NEW D, NEW chunk, chunk = Unsigned(CompressLeadingZeros(D)),
           chunk \in Seq(Byte), NEW L \in Nat, L = Len(chunk), L >= 1, L < 128
    PROVE  /\ UnsignedChunk(type, D) = PackContent(type, chunk)
           /\ PackContent(type, chunk)[3] = chunk[1]
<1>1. L \in Byte
  BY BytesAre
<1>2. PackLength(L) = <<L>>
  BY DEF PackLength
<1>3. <<type>> \o <<L>> = <<type, L>>
  BY <1>1, PairOf
<1>4. PackContent(type, chunk) = <<type, L>> \o chunk
  BY <1>2, <1>3 DEF PackContent
<1>5. UnsignedChunk(type, D) = <<type, L>> \o chunk
  BY DEF UnsignedChunk, Unsigned
<1>6. (<<type, L>> \o chunk)[3] = chunk[1]
  <2>1. <<type, L>> \in Seq(Byte) /\ Len(<<type, L>>) = 2
    BY <1>1
  <2> DEFINE f == <<type, L>>
  <2> HIDE DEF f
  <2>2. (f \o chunk)[2 + 1] = chunk[1]
    BY <2>1 DEF f
  <2>3. QED
    BY <2>1, <2>2 DEF f
<1>7. QED
  BY <1>4, <1>5, <1>6

LEMMA UnsignedTravels ==
    ASSUME NEW type \in {GAUGE_TYPE, COUNTER_TYPE, TIME_TICKS_TYPE},
           NEW K \in Nat, K >= 1, K <= 8, NEW D \in Seq(Byte), Len(D) = K,
           NEW d, d = Packet(type, D, <<>>, <<>>), IsValid(d),
           NEW chunk, chunk = Unsigned(CompressLeadingZeros(D)),
           Constructed(type, chunk, <<>>) = d
    PROVE  /\ Travels(d, 1, PackContent(type, chunk))
           /\ PackContent(type, chunk)[3] < 128
<1>1. chunk \in Seq(Byte) /\ Len(chunk) \in 1..(K + 1) /\ chunk[1] < 128
  BY UnsignedFills
<1>2. PICK L \in Nat : L = Len(chunk) /\ L >= 1 /\ L <= 9
  BY <1>1
<1>3. type \in Byte /\ type \notin ParentTypes
  BY TypesAre
<1>4. L < 128
  BY <1>2
<1>5. UnsignedChunk(type, D) = PackContent(type, chunk) /\ PackContent(type, chunk)[3] = chunk[1]
  BY <1>1, <1>2, <1>3, <1>4, UnsignedChunkIs
<1>6. d.m_type = type /\ d.m_data = D
  BY PacketFields
<1>7. \A chunks : Chunk(d, chunks) = PackContent(type, chunk)
  BY <1>5, <1>6, ChunkIs
<1>8. D \in Seq(Nat) /\ Len(chunk) <= MaxInt
  <2>1. PICK k \in Nat : k = 9
    OBVIOUS
  <2>2. k <= 2^20 /\ K <= k /\ L <= k
    BY <1>2, <2>1, SMT
  <2>3. QED
    BY <1>1, <1>2, <2>2, FewBytes
<1>9. Travels(d, 1, PackContent(type, chunk))
  BY <1>1, <1>3, <1>7, <1>8, LeafTravels
<1>10. QED
  BY <1>1, <1>5, <1>9

\* A packet with nothing after it.
LEMMA AloneIsRead ==
    ASSUME NEW type \in Byte, NEW content \in Seq(Byte), Len(content) <= MaxInt,
           NEW d, Reads(PackContent(type, content) \o <<>>, <<d>> \o <<>>)
    PROVE  ReadAs(PackContent(type, content), d)
<1> DEFINE bytes == PackContent(type, content)
<1>1. bytes \in Seq(Byte)
  BY PackedSize
<1> HIDE DEF bytes
<1>2. bytes \o <<>> = bytes /\ Len(bytes) \in Nat
  BY <1>1
<1>3. <<d>> \o <<>> = <<d>>
  <2>1. <<d>> \in Seq({d})
    OBVIOUS
  <2>2. QED
    BY <2>1, ConcatEmptySeq
<1>4. Reads(bytes, <<d>>)
  BY <1>2, <1>3 DEF bytes
<1>5. Reading[Len(bytes)][bytes] = [packets |-> <<d>>, ends |-> "done"]
  BY <1>2, <1>4 DEF Reads
<1>6. ParseData(bytes) = [packets |-> <<d>>, ends |-> "done"]
  BY <1>5 DEF ParseData
<1>7. QED
  BY <1>6 DEF ReadAs, bytes

LEMMA WordOfFive ==
    ASSUME NEW data \in Seq(Byte), NEW K \in Nat, K = 4, Len(data) = K + 1
    PROVE  Word(data) = SubSeq(data, 2, K + 1)
<1>1. PICK n \in Nat : n = Len(data) /\ ~(n < 4) /\ n - 3 = 2 /\ n = K + 1
  OBVIOUS
<1>2. QED
  BY <1>1 DEF Word

LEMMA GaugeTravels ==
    ASSUME NEW D \in Seq(Byte), Len(D) = 4, NEW d, d = Packet(GAUGE_TYPE, D, <<>>, <<>>)
    PROVE  Survives(d) /\ MakeSnmpChunk(d)[3] < 128
<1>1. PICK K \in Nat, one \in Nat : K = 4 /\ K >= 1 /\ K <= 8 /\ Len(D) = K /\ one = 1
  OBVIOUS
<1>2. PICK chunk : chunk = Unsigned(CompressLeadingZeros(D))
  OBVIOUS
<1>3. /\ chunk \in Seq(Byte) /\ Len(chunk) \in 1..(K + 1)
      /\ Len(chunk) <= K => FillTo(K, chunk) = D
      /\ Len(chunk) = K + 1 => D[1] > 127 /\ SubSeq(chunk, 2, K + 1) = D
  BY <1>1, <1>2, UnsignedFills
<1>4. Word(chunk) = D
  <2>1. PICK L \in 1..(K + 1) : L = Len(chunk)
    BY <1>3
  <2>2. CASE L <= K
    <3>1. Len(chunk) <= 4
      BY <1>1, <2>1, <2>2
    <3>2. QED
      BY <1>1, <1>3, <2>1, <2>2, <3>1, WordFills
  <2>3. CASE L = K + 1
    BY <1>1, <1>3, <2>1, <2>3, WordOfFive
  <2>4. QED
    BY <2>1, <2>2, <2>3
<1>5. d.m_type = GAUGE_TYPE /\ d.m_data = D
  BY PacketFields
<1>6. IsValid(d)
  BY <1>5 DEF IsValid
<1>7. Constructed(GAUGE_TYPE, chunk, <<>>) = d
  BY <1>4, ConstructedIs
<1>8. GAUGE_TYPE \in {GAUGE_TYPE, COUNTER_TYPE, TIME_TICKS_TYPE}
  OBVIOUS
<1>9. Travels(d, one, PackContent(GAUGE_TYPE, chunk)) /\ PackContent(GAUGE_TYPE, chunk)[3] < 128
  BY <1>1, <1>2, <1>6, <1>7, <1>8, UnsignedTravels
<1>10. one <= Nesting
  BY <1>1, NestingAssumption
<1>11. MakeSnmpChunk(d) = PackContent(GAUGE_TYPE, chunk) /\ Survives(d)
  BY <1>9, <1>10, TravellersSurvive
<1>12. QED
  BY <1>9, <1>11

LEMMA CounterTravels ==
    ASSUME NEW type \in {COUNTER_TYPE, TIME_TICKS_TYPE},
           NEW D \in Seq(Byte), Len(D) = 8, D[1] = 0, NEW d, d = Packet(type, D, <<>>, <<>>)
    PROVE  Survives(d) /\ MakeSnmpChunk(d)[3] < 128
<1>1. PICK K \in Nat, one \in Nat : K = 8 /\ K >= 1 /\ K <= 8 /\ Len(D) = K /\ one = 1
  OBVIOUS
<1>2. PICK chunk : chunk = Unsigned(CompressLeadingZeros(D))
  OBVIOUS
<1>3. /\ chunk \in Seq(Byte) /\ Len(chunk) \in 1..(K + 1)
      /\ Len(chunk) <= K => FillTo(K, chunk) = D
      /\ Len(chunk) = K + 1 => D[1] > 127 /\ SubSeq(chunk, 2, K + 1) = D
  BY <1>1, <1>2, UnsignedFills
<1>4. Long(chunk) = D
  <2>1. PICK L \in 1..(K + 1) : L = Len(chunk)
    BY <1>3
  <2>2. L <= K
    <3>1. ~(0 > 127)
      OBVIOUS
    <3>2. L # K + 1
      BY <1>3, <2>1, <3>1
    <3>3. QED
      BY <2>1, <3>2
  <2>3. QED
    BY <1>1, <1>3, <2>1, <2>2 DEF Long
<1>5. d.m_type = type /\ d.m_data = D
  BY PacketFields
<1>6. IsValid(d)
  BY <1>5 DEF IsValid
<1>7. Constructed(type, chunk, <<>>) = d
  BY <1>4, ConstructedIs
<1>8. type \in {GAUGE_TYPE, COUNTER_TYPE, TIME_TICKS_TYPE}
  OBVIOUS
<1>9. Travels(d, one, PackContent(type, chunk)) /\ PackContent(type, chunk)[3] < 128
  BY <1>1, <1>2, <1>6, <1>7, <1>8, UnsignedTravels
<1>10. one <= Nesting
  BY <1>1, NestingAssumption
<1>11. MakeSnmpChunk(d) = PackContent(type, chunk) /\ Survives(d)
  BY <1>9, <1>10, TravellersSurvive
<1>12. QED
  BY <1>9, <1>11

\* What the constructor makes of a few bytes, and of five, the first of them zero.
LEMMA WordsAreRead ==
    ASSUME NEW w \in Seq(Byte), Len(w) >= 1, NEW K \in Nat, K = 4, Len(w) <= K
    PROVE  /\ \A type \in {COUNTER_TYPE, GAUGE_TYPE, TIME_TICKS_TYPE} :
                 /\ Survives(Data(type, w))
                 /\ MakeSnmpChunk(Data(type, w))[3] < 128
           /\ ReadAs(PackContent(GAUGE_TYPE, FillTo(5, w)), Data(GAUGE_TYPE, w))
<1>1. PICK m \in 1..K : m = Len(w)
  <2>1. PICK m \in Nat : m = Len(w)
    OBVIOUS
  <2>2. m \in 1..K
    BY <2>1
  <2>3. QED
    BY <2>1, <2>2
<1>2. /\ Len(w) <= 4 /\ Word(w) = FillTo(K, w)
      /\ FillTo(K, w) \in Seq(Byte) /\ Len(FillTo(K, w)) = K
      /\ \A n \in 1..K : FillTo(K, w)[n] = IF n <= K - Len(w) THEN 0 ELSE w[n - (K - Len(w))]
  <2>1. Len(w) <= 4
    BY <1>1
  <2>2. QED
    BY <2>1, WordFills, FillToIs
<1>3. Data(GAUGE_TYPE, w) = Packet(GAUGE_TYPE, FillTo(K, w), <<>>, <<>>)
  BY <1>2, ConstructedIs DEF Data
<1>4. ASSUME NEW type \in {COUNTER_TYPE, TIME_TICKS_TYPE}
      PROVE  Survives(Data(type, w)) /\ MakeSnmpChunk(Data(type, w))[3] < 128
  <2>1. Data(type, w) = Packet(type, Long(w), <<>>, <<>>)
    BY ConstructedIs DEF Data
  <2>2. PICK eight \in Nat : eight = 8 /\ Len(w) <= eight
    BY <1>1
  <2>3. /\ FillTo(eight, w) \in Seq(Byte) /\ Len(FillTo(eight, w)) = eight
        /\ \A n \in 1..eight : FillTo(eight, w)[n] =
               IF n <= eight - Len(w) THEN 0 ELSE w[n - (eight - Len(w))]
    BY <2>2, FillToIs
  <2>4. FillTo(eight, w)[1] = 0
    <3>1. 1 \in 1..eight /\ 1 <= eight - m
      BY <1>1, <2>2
    <3>2. QED
      BY <1>1, <2>3, <3>1
  <2>5. PICK D \in Seq(Byte) : D = Long(w) /\ Len(D) = 8 /\ D[1] = 0
    BY <2>2, <2>3, <2>4 DEF Long
  <2>6. QED
    BY <2>1, <2>5, CounterTravels
<1>5. Survives(Data(GAUGE_TYPE, w)) /\ MakeSnmpChunk(Data(GAUGE_TYPE, w))[3] < 128
  BY <1>2, <1>3, GaugeTravels
<1>6. ReadAs(PackContent(GAUGE_TYPE, FillTo(5, w)), Data(GAUGE_TYPE, w))
  <2>1. PICK five \in Nat : five = K + 1 /\ five = 5
    OBVIOUS
  <2>2. Len(w) <= five
    BY <1>1, <2>1
  <2>3. PICK c : c = FillTo(five, w)
    OBVIOUS
  <2>4. /\ c \in Seq(Byte) /\ Len(c) = five
        /\ \A n \in 1..five : c[n] = IF n <= five - Len(w) THEN 0 ELSE w[n - (five - Len(w))]
    BY <2>2, <2>3, FillToIs
  <2>5. Word(c) = SubSeq(c, 2, K + 1)
    BY <2>1, <2>4, WordOfFive
  <2>6. /\ SubSeq(c, 2, K + 1) \in Seq(Byte) /\ Len(SubSeq(c, 2, K + 1)) = K
        /\ \A n \in 1..K : SubSeq(c, 2, K + 1)[n] = c[n + 1]
    BY <2>1, <2>4
  <2>7. \A n \in 1..K : SubSeq(c, 2, K + 1)[n] = FillTo(K, w)[n]
    <3>1. ASSUME NEW n \in 1..K PROVE SubSeq(c, 2, K + 1)[n] = FillTo(K, w)[n]
      <4>1. /\ n + 1 \in 1..five /\ (n + 1 <= five - m <=> n <= K - m)
            /\ n + 1 - (five - m) = n - (K - m)
        BY <1>1, <2>1
      <4>2. c[n + 1] = IF n <= K - m THEN 0 ELSE w[n - (K - m)]
        BY <1>1, <2>4, <4>1
      <4>3. QED
        BY <1>1, <1>2, <2>6, <4>2
    <3>2. QED
      BY <3>1
  <2>8. Word(c) = FillTo(K, w)
    BY <1>2, <2>5, <2>6, <2>7, SeqEqual
  <2>9. PICK d : d = Packet(GAUGE_TYPE, FillTo(K, w), <<>>, <<>>)
    OBVIOUS
  <2>10. Constructed(GAUGE_TYPE, c, <<>>) = d
    BY <2>8, <2>9, ConstructedIs
  <2>11. IsValid(d)
    <3>1. d.m_type = GAUGE_TYPE /\ d.m_data = FillTo(K, w)
      BY <2>9, PacketFields
    <3>2. QED
      BY <1>2, <3>1 DEF IsValid
  <2>12. Len(c) <= MaxInt
    <3>1. five <= 2^20 /\ Len(c) <= five
      BY <2>1, <2>4, SMT
    <3>2. QED
      BY <2>4, <3>1, FewBytes
  <2>13. Reads(PackContent(GAUGE_TYPE, c) \o <<>>, <<d>> \o <<>>)
    BY <2>4, <2>10, <2>11, <2>12, TypesAre, NothingIsRead, PacketIsRead
  <2>14. ReadAs(PackContent(GAUGE_TYPE, c), d)
    BY <2>4, <2>12, <2>13, TypesAre, AloneIsRead
  <2>15. QED
    BY <1>3, <2>1, <2>3, <2>9, <2>14
<1>7. QED
  BY <1>4, <1>5, <1>6

LEMMA IntegerMoves ==
    ASSUME NEW v \in Int, -MaxInt - 1 <= v, v <= MaxInt, NEW one, one = 1, NEW ten, ten = 10
    PROVE  /\ Moves(Integer(v), one, ten) /\ IntValue(Integer(v)) = v
           /\ ToVariant(Integer(v)) = <<v>>
<1>1. PICK data \in Seq(Byte) : data = Stream(v) /\ Len(data) = 4 /\ FromStream(data) = v
  BY StreamIs
<1>2. PICK d : d = Packet(INTEGER_TYPE, data, <<>>, <<>>)
  OBVIOUS
<1>3. Data(INTEGER_TYPE, data) = d /\ \E bytes : Travels(d, 1, bytes) /\ Len(bytes) <= 10
  BY <1>1, <1>2, WordTravels
<1>4. Integer(v) = d
  BY <1>1, <1>3 DEF Integer
<1>5. d.m_type = INTEGER_TYPE /\ d.m_data = data
  BY <1>2, PacketFields
<1>6. Word(data) = data
  <2>1. PICK n : n = Len(data) /\ n <= 4
    BY <1>1
  <2>2. Len(data) <= 4
    BY <2>1
  <2>3. QED
    BY <1>1, <2>2, WordFills
<1>7. IntValue(d) = v
  BY <1>1, <1>5, <1>6 DEF IntValue
<1>8. ToVariant(d) = <<IntValue(d)>>
  <2> DEFINE t == d.m_type
             x == <<IntValue(d)>>
  <2>1. ToVariant(d) =
            CASE t \in {INTEGER_TYPE, GAUGE_TYPE, COUNTER_TYPE, TIME_TICKS_TYPE} -> x
              [] t = STRING_TYPE -> d.m_data
              [] OTHER -> <<>>
    BY DEF ToVariant
  <2>2. t = INTEGER_TYPE
    BY <1>5
  <2> HIDE DEF t, x
  <2>3. ToVariant(d) = x
    BY <2>1, <2>2 DEF INTEGER_TYPE, GAUGE_TYPE, COUNTER_TYPE, TIME_TICKS_TYPE, STRING_TYPE
  <2>4. QED
    BY <2>3 DEF x
<1>9. Moves(d, one, ten)
  BY <1>3 DEF Moves
<1>10. QED
  BY <1>4, <1>7, <1>8, <1>9

LEMMA IntegersMove ==
    ASSUME NEW values \in Seq(Int), NEW n \in Nat, Len(values) <= n, n <= 2^16,
           \A i \in 1..Len(values) : -MaxInt - 1 <= values[i] /\ values[i] <= MaxInt
    PROVE  Survives(AddChildren(Sequence, [i \in 1..Len(values) |-> Integer(values[i])]))
<1>1. PICK one \in Nat, two \in Nat, ten \in Nat, N \in Nat :
          one = 1 /\ two = one + 1 /\ ten = 10 /\ N = n * ten + 6 /\ two <= Nesting
  <2>1. 2 \in Nat /\ 2 = 1 + 1 /\ 2 <= Nesting /\ n * 10 + 6 \in Nat
    BY NestingAssumption
  <2>2. QED
    BY <2>1
<1> DEFINE X == {Integer(values[i]) : i \in 1..Len(values)}
           childs == [i \in 1..Len(values) |-> Integer(values[i])]
<1>2. childs \in Seq(X) /\ Len(childs) = Len(values)
      /\ \A i \in 1..Len(values) : childs[i] = Integer(values[i])
  OBVIOUS
<1> HIDE DEF X, childs
<1>3. \A i \in 1..Len(values) : Moves(Integer(values[i]), one, ten)
  <2>1. \A i \in 1..Len(values) : values[i] \in Int
    OBVIOUS
  <2>2. QED
    BY <1>1, <2>1, IntegerMoves
<1>4. AllMove(childs, one, ten)
  BY <1>2, <1>3 DEF AllMove
<1>5. Room(n, ten, N)
  <2>1. N <= 655366
    BY <1>1, SMT
  <2>2. N <= MaxInt
    BY <2>1, MaxIntIs, SMT
  <2>3. N <= N
    OBVIOUS
  <2>4. QED
    BY <1>1, <2>2, <2>3, Zenon DEF Room
<1>6. SEQUENCE_TYPE \in ParentTypes /\ SEQUENCE_TYPE # SET_REQUEST_TYPE /\ Len(childs) <= n
  BY <1>2 DEF ParentTypes, SEQUENCE_TYPE, GET_REQUEST_TYPE, SET_REQUEST_TYPE
<1>7. Moves(AddChildren(Data(SEQUENCE_TYPE, <<>>), childs), two, N)
  BY <1>1, <1>2, <1>4, <1>5, <1>6, SequenceOf
<1>8. Survives(AddChildren(Data(SEQUENCE_TYPE, <<>>), childs))
  BY <1>1, <1>7, MoversSurvive
<1>9. QED
  BY <1>8 DEF Sequence, childs

\* Integers of 32 bits survive in a sequence, however many there are, and give the number
\* they were made of; counters, gauges and time ticks survive, are sent as no negative
\* number, and a gauge of five bytes is read as the four of its value.
THEOREM NumbersAreRead == ConversionSpec => []NumbersRoundTrip
<1>1. ConversionTypeOK => NumbersRoundTrip
  <2>1. SUFFICES ASSUME ConversionTypeOK PROVE NumbersRoundTrip
    OBVIOUS
  <2>2. ASSUME kind = "integers"
        PROVE  /\ Survives(AddChildren(Sequence, [n \in 1..Len(input) |-> Integer(input[n])]))
               /\ \A n \in 1..Len(input) : ToVariant(Integer(input[n])) = <<input[n]>>
    <3>1. PICK S : S = (-MaxInt - 1)..MaxInt
      OBVIOUS
    <3>2. /\ Elements("integers") \subseteq S /\ input \in Seq(Elements("integers"))
          /\ MaxLength("integers") \in Nat /\ MaxLength("integers") <= 2^16
          /\ Len(input) <= MaxLength("integers")
      BY <2>1, <2>2, <3>1, InputsAssumption, Zenon DEF ConversionTypeOK, Kinds
    <3>3. S \subseteq Int /\ \A v \in S : -MaxInt - 1 <= v /\ v <= MaxInt
      BY <3>1, MaxIntInt
    <3>4. input \in Seq(S) /\ input \in Seq(Int)
      <4>1. input \in Seq(S)
        BY <3>2, SeqSubset
      <4>2. input \in Seq(Int)
        BY <3>3, <4>1, SeqSubset
      <4>3. QED
        BY <4>1, <4>2
    <3>5. \A n \in 1..Len(input) : input[n] \in Int /\ input[n] \in S
      BY <3>4
    <3>6. \A n \in 1..Len(input) : -MaxInt - 1 <= input[n] /\ input[n] <= MaxInt
      BY <3>3, <3>5
    <3>7. Survives(AddChildren(Sequence, [n \in 1..Len(input) |-> Integer(input[n])]))
      BY <3>2, <3>4, <3>6, IntegersMove
    <3>8. \A n \in 1..Len(input) : ToVariant(Integer(input[n])) = <<input[n]>>
      BY <3>5, <3>6, IntegerMoves
    <3>9. QED
      BY <3>7, <3>8
  <2>3. ASSUME kind = "word", input # <<>>
        PROVE  /\ \A type \in {COUNTER_TYPE, GAUGE_TYPE, TIME_TICKS_TYPE} :
                     /\ Survives(Data(type, input))
                     /\ MakeSnmpChunk(Data(type, input))[3] < 128
               /\ ReadAs(PackContent(GAUGE_TYPE, FillTo(5, input)), Data(GAUGE_TYPE, input))
    <3>1. /\ Elements("word") \subseteq Byte /\ input \in Seq(Elements("word"))
          /\ MaxLength("word") \in Nat /\ MaxLength("word") <= 4 /\ Len(input) <= MaxLength("word")
      BY <2>1, <2>3, InputsAssumption, Zenon DEF ConversionTypeOK, Kinds
    <3>2. input \in Seq(Byte)
      BY <3>1, SeqSubset
    <3>3. PICK K \in Nat, n \in Nat, m \in Nat : K = 4 /\ n = Len(input) /\ m = MaxLength("word")
      BY <3>1, <3>2
    <3>4. n <= K
      BY <3>1, <3>3
    <3>5. Len(input) >= 1 /\ Len(input) <= K
      BY <2>3, <3>2, <3>3, <3>4
    <3>6. QED
      BY <3>2, <3>3, <3>5, WordsAreRead
  <2>4. QED
    BY <2>2, <2>3 DEF NumbersRoundTrip
<1>2. QED
  BY <1>1, ConversionTypes, PTL

-----------------------------------------------------------------------------
(* Integers for other implementations.                                     *)

Adds(value, content) ==
    value[0] = 0 /\ \A n \in 1..Len(content) : value[n] = value[n - 1] * 256 + content[n]

LEMMA BerValueIs ==
    ASSUME NEW content \in Seq(Byte), NEW m \in Nat, m = Len(content), m >= 1, content[1] < 128
    PROVE  \E value \in [0..m -> Int] : Adds(value, content) /\ BerValue(content) = value[m]
<1> DEFINE base == IF content[1] >= 128 THEN -1 ELSE 0
           step == [e \in (1..m) \X Int |-> e[2] * 256 + content[e[1]]]
           value[n \in 0..Len(content)] ==
               IF n = 0 THEN IF content[1] >= 128 THEN -1 ELSE 0
               ELSE value[n - 1] * 256 + content[n]
<1>1. \A n \in 1..m : content[n] \in Nat
  <2>1. \A n \in 1..m : content[n] \in Byte
    OBVIOUS
  <2>2. QED
    BY <2>1, BytesAre
<1>2. base = 0 /\ base \in Int
  <2>1. 1 \in 1..m
    OBVIOUS
  <2>2. PICK first \in Nat : first = content[1]
    BY <1>1, <2>1
  <2>3. ~(first >= 128)
    BY <2>2
  <2>4. QED
    BY <2>2, <2>3
<1>3. step \in [(1..m) \X Int -> Int]
  <2>1. \A e \in (1..m) \X Int : e[2] * 256 + content[e[1]] \in Int
    <3>1. \A n \in 1..m, x \in Int : x * 256 + content[n] \in Int
      BY <1>1
    <3>2. QED
      BY <3>1
  <2>2. QED
    BY <2>1
<1>4. ASSUME NEW n \in 1..m, NEW x \in Int PROVE step[<<n, x>>] = x * 256 + content[n]
  OBVIOUS
<1> HIDE DEF step, base
<1>5. PICK f \in [0..m -> Int] : Runs(f, m, base, step)
  BY <1>2, <1>3, LoopIs
<1>6. f = [n \in 0..m |-> IF n = 0 THEN base ELSE f[n - 1] * 256 + content[n]]
  <2>1. ASSUME NEW n \in 0..m, n # 0 PROVE step[<<n, f[n - 1]>>] = f[n - 1] * 256 + content[n]
    <3>1. n \in 1..m /\ n - 1 \in 0..m
      BY <2>1
    <3>2. QED
      BY <1>4, <3>1
  <2>2. QED
    BY <1>5, <2>1 DEF Runs
<1>7. value = [n \in 0..m |-> IF n = 0 THEN base ELSE value[n - 1] * 256 + content[n]]
  BY <1>6 DEF value, base
<1>8. BerValue(content) = value[m]
  BY DEF BerValue, value
<1> HIDE DEF value
<1>9. value[0] = 0 /\ \A n \in 1..m : value[n] = value[n - 1] * 256 + content[n]
  <2>1. 0 \in 0..m /\ \A n \in 1..m : n \in 0..m /\ n # 0
    OBVIOUS
  <2>2. QED
    BY <1>2, <1>7, <2>1
<1>10. \A n \in 0..m : value[n] \in Int
  <2> DEFINE T == {n \in 0..m : value[n] \in Int}
  <2>1. 0 \in T
    BY <1>9
  <2>2. ASSUME NEW n \in 1..m, n - 1 \in T PROVE n \in T
    <3>1. PICK x \in Int, c \in Nat : x = value[n - 1] /\ c = content[n]
      BY <1>1, <2>2
    <3>2. value[n] = x * 256 + c /\ n \in 0..m
      BY <1>9, <3>1
    <3>3. QED
      BY <3>2
  <2> HIDE DEF T
  <2>3. \A n \in 0..m : n \in T
    BY <2>1, <2>2, Reached
  <2>4. QED
    BY <2>3 DEF T
<1>11. value \in [0..m -> Int]
  BY <1>7, <1>10
<1>12. Adds(value, content)
  BY <1>9 DEF Adds
<1>13. QED
  BY <1>8, <1>11, <1>12

Follows(content, D, z, K) ==
    /\ content \in Seq(Byte) /\ Len(content) = K - z
    /\ \A n \in 1..(K - z) : content[n] = D[z + n]
    /\ \A n \in 1..K : D[n] \in Nat
    /\ FillTo(K, content) = D

LEMMA FollowsZeros ==
    ASSUME NEW D \in Seq(Byte), NEW K \in Nat, K = Len(D), NEW z \in Nat, z < K,
           \A n \in 1..z : D[n] = 0, NEW content, content = SubSeq(D, z + 1, K)
    PROVE  Follows(content, D, z, K)
<1>1. z \in 0..(Len(D) - 1) /\ content = SubSeq(D, z + 1, Len(D))
  OBVIOUS
<1>2. /\ content \in Seq(Byte) /\ Len(content) = Len(D) - z
      /\ \A n \in 1..(Len(D) - z) : content[n] = D[z + n]
      /\ FillTo(Len(D), content) = D
  BY <1>1, ZerosFill
<1>3. \A n \in 1..K : D[n] \in Byte
  OBVIOUS
<1>4. QED
  BY <1>2, <1>3, BytesAre DEF Follows

\* Zeros before a content with no high bit do not change its value.
LEMMA BerIsStream ==
    ASSUME NEW D \in Seq(Byte), NEW K \in Nat, K = 4, Len(D) = K, D[1] < 128,
           NEW z \in 0..2, \A n \in 1..z : D[n] = 0,
           NEW content, content = SubSeq(D, z + 1, K), content[1] < 128
    PROVE  BerValue(content) = FromStream(D)
<1>1. K = 4 /\ Len(D) = K
  OBVIOUS
<1>2. /\ content \in Seq(Byte) /\ Len(content) = K - z
      /\ \A n \in 1..(K - z) : content[n] = D[z + n]
      /\ \A n \in 1..K : D[n] \in Nat
  <2>1. z \in Nat /\ z < K
    OBVIOUS
  <2>2. K = Len(D)
    OBVIOUS
  <2>3. Follows(content, D, z, K)
    BY <2>1, <2>2, FollowsZeros
  <2>4. QED
    BY <2>3 DEF Follows
<1>3. PICK a \in Nat, b \in Nat, c \in Nat, d \in Nat : a = D[1] /\ b = D[2] /\ c = D[3] /\ d = D[4]
  <2>1. 1 \in 1..K /\ 2 \in 1..K /\ 3 \in 1..K /\ 4 \in 1..K
    BY <1>1
  <2>2. D[1] \in Nat /\ D[2] \in Nat /\ D[3] \in Nat /\ D[4] \in Nat
    BY <1>2, <2>1
  <2>3. QED
    BY <2>2
<1>4. FromStream(D) = a * 16777216 + b * 65536 + c * 256 + d
  <2>1. 256^3 = 16777216 /\ 256^2 = 65536
    BY SMT
  <2>2. ~(a >= 128)
    BY <1>3
  <2>3. FromStream(D) = a * 256^3 + b * 256^2 + c * 256 + d
    BY <1>3, <2>2 DEF FromStream
  <2>4. QED
    BY <2>1, <2>3, SMT
<1>5. PICK m \in Nat : m = K - z /\ m = Len(content) /\ m >= 1
  BY <1>1, <1>2
<1>6. PICK value \in [0..m -> Int] :
          /\ value[0] = 0 /\ BerValue(content) = value[m]
          /\ \A n \in 1..m : value[n] = value[n - 1] * 256 + content[n]
  <2>1. PICK value \in [0..m -> Int] : Adds(value, content) /\ BerValue(content) = value[m]
    BY <1>2, <1>5, BerValueIs
  <2>2. QED
    BY <1>5, <2>1 DEF Adds
<1>7. \A n \in 1..m : value[n] = value[n - 1] * 256 + D[z + n]
  BY <1>2, <1>5, <1>6
<1>8. CASE z = 0
  <2>1. m = 4 /\ value[1] = 0 * 256 + a
    BY <1>1, <1>3, <1>5, <1>6, <1>7, <1>8
  <2>2. value[2] = value[1] * 256 + b
    BY <1>3, <1>7, <1>8, <2>1
  <2>3. value[3] = value[2] * 256 + c
    BY <1>3, <1>7, <1>8, <2>1
  <2>4. value[4] = value[3] * 256 + d
    BY <1>3, <1>7, <1>8, <2>1
  <2>5. value[4] = a * 16777216 + b * 65536 + c * 256 + d
    BY <2>1, <2>2, <2>3, <2>4, SMT
  <2>6. QED
    BY <1>4, <1>6, <2>1, <2>5, SMT
<1>9. CASE z = 1
  <2>1. m = 3 /\ a = 0 /\ value[1] = 0 * 256 + b
    BY <1>1, <1>3, <1>5, <1>6, <1>7, <1>9
  <2>2. value[2] = value[1] * 256 + c
    BY <1>3, <1>7, <1>9, <2>1
  <2>3. value[3] = value[2] * 256 + d
    BY <1>3, <1>7, <1>9, <2>1
  <2>4. value[3] = a * 16777216 + b * 65536 + c * 256 + d
    BY <2>1, <2>2, <2>3, SMT
  <2>5. QED
    BY <1>4, <1>6, <2>1, <2>4, SMT
<1>10. CASE z = 2
  <2>1. m = 2 /\ a = 0 /\ b = 0 /\ value[1] = 0 * 256 + c
    BY <1>1, <1>3, <1>5, <1>6, <1>7, <1>10
  <2>2. value[2] = value[1] * 256 + d
    BY <1>3, <1>7, <1>10, <2>1
  <2>3. value[2] = a * 16777216 + b * 65536 + c * 256 + d
    BY <2>1, <2>2, SMT
  <2>4. QED
    BY <1>4, <1>6, <2>1, <2>3, SMT
<1>11. QED
  BY <1>8, <1>9, <1>10

\* Which bytes of a small number are zero.
LEMMA SmallBytes ==
    ASSUME NEW v \in Nat, v <= MaxInt
    PROVE  /\ Stream(v)[1] < 128
           /\ v < 2^23 => Stream(v)[1] = 0 /\ Stream(v)[2] < 128
           /\ v < 2^15 => Stream(v)[2] = 0 /\ Stream(v)[3] < 128
           /\ v < 2^7 => Stream(v)[3] = 0
<1>1. v <= 2147483647
  BY MaxIntIs, SMT
<1>2. 256^3 = 16777216 /\ 256^2 = 65536 /\ 2^23 = 8388608 /\ 2^15 = 32768 /\ 2^7 = 128
  BY SMT
<1>3. /\ Stream(v)[1] = (v \div 256^3) % 256 /\ Stream(v)[2] = (v \div 256^2) % 256
      /\ Stream(v)[3] = (v \div 256) % 256
  BY DEF Stream
<1>4. (v \div 16777216) % 256 < 128
  BY <1>1, SMT
<1>5. v < 8388608 => (v \div 16777216) % 256 = 0 /\ (v \div 65536) % 256 < 128
  BY <1>1, SMT
<1>6. v < 32768 => (v \div 65536) % 256 = 0 /\ (v \div 256) % 256 < 128
  BY <1>1, SMT
<1>7. v < 128 => (v \div 256) % 256 = 0
  BY <1>1, SMT
<1>8. QED
  BY <1>2, <1>3, <1>4, <1>5, <1>6, <1>7, SMT

\* The zeros that the contents of other implementations and of this one leave out are
\* filled in again.
LEMMA WordOfZeros ==
    ASSUME NEW D \in Seq(Byte), NEW K \in Nat, K = 4, Len(D) = K, NEW z \in Nat, z < K,
           \A n \in 1..z : D[n] = 0, NEW content, content = SubSeq(D, z + 1, K)
    PROVE  Word(content) = D /\ Word(D) = D
<1>1. K = Len(D)
  OBVIOUS
<1>2. Follows(content, D, z, K)
  BY <1>1, FollowsZeros
<1>3. content \in Seq(Byte) /\ Len(content) = K - z /\ FillTo(K, content) = D
  BY <1>2 DEF Follows
<1>4. PICK n \in Nat : n = Len(content) /\ n <= 4 /\ K <= 4
  BY <1>3
<1>5. Len(content) <= 4 /\ Len(D) <= 4
  BY <1>4
<1>6. QED
  BY <1>3, <1>5, WordFills

\* The smallest size whose sign bit is clear.
LEMMA BerContentIs ==
    ASSUME NEW v \in Nat, v <= MaxInt, NEW K \in Nat, K = 4
    PROVE  \E z \in Nat : /\ z < K /\ BerContent(v) = SubSeq(Stream(v), z + 1, K)
                          /\ \A n \in 1..z : Stream(v)[n] = 0
<1> DEFINE sizes == {m \in 1..4 : m = 4 \/ v < 2^(8 * m - 1)}
<1>1. BerContent(v) = SubSeq(Stream(v), 5 - Min(sizes), 4)
  BY DEF BerContent
<1>2. Min(sizes) \in 1..4 /\ (Min(sizes) = 4 \/ v < 2^(8 * Min(sizes) - 1))
  <2>1. sizes \subseteq Nat /\ 4 \in sizes
    OBVIOUS
  <2>2. Min(sizes) \in sizes
    <3> HIDE DEF sizes
    <3>1. PICK x \in sizes : \A y \in sizes : x <= y
      BY <2>1, LeastNumber
    <3>2. QED
      BY <3>1 DEF Min
  <2>3. QED
    BY <2>2
<1>3. PICK size \in 1..4 : size = Min(sizes) /\ (size = 4 \/ v < 2^(8 * size - 1))
  BY <1>2
<1> HIDE DEF sizes
<1>4. /\ v < 2^23 => Stream(v)[1] = 0
      /\ v < 2^15 => Stream(v)[2] = 0
      /\ v < 2^7 => Stream(v)[3] = 0
  BY SmallBytes
<1>5. v < 2^7 => v < 2^15
  BY SMT
<1>6. v < 2^15 => v < 2^23
  BY SMT
<1>7. \A n \in 1..(4 - size) : Stream(v)[n] = 0
  <2>1. CASE size = 4
    BY <2>1
  <2>2. CASE size = 3
    <3>1. 8 * size - 1 = 23 /\ size # 4
      BY <2>2
    <3>2. v < 2^23
      BY <1>3, <3>1
    <3>3. \A n \in 1..(4 - size) : n = 1
      BY <2>2
    <3>4. QED
      BY <1>4, <3>2, <3>3
  <2>3. CASE size = 2
    <3>1. 8 * size - 1 = 15 /\ size # 4
      BY <2>3
    <3>2. v < 2^15
      BY <1>3, <3>1
    <3>3. \A n \in 1..(4 - size) : n = 1 \/ n = 2
      BY <2>3
    <3>4. QED
      BY <1>4, <1>6, <3>2, <3>3
  <2>4. CASE size = 1
    <3>1. 8 * size - 1 = 7 /\ size # 4
      BY <2>4
    <3>2. v < 2^7
      BY <1>3, <3>1
    <3>3. \A n \in 1..(4 - size) : n = 1 \/ n = 2 \/ n = 3
      BY <2>4
    <3>4. QED
      BY <1>4, <1>5, <1>6, <3>2, <3>3
  <2>5. QED
    BY <2>1, <2>2, <2>3, <2>4
<1>8. PICK z \in Nat : z = 4 - size /\ z < K /\ z + 1 = 5 - size
  OBVIOUS
<1>9. BerContent(v) = SubSeq(Stream(v), z + 1, K)
  BY <1>1, <1>3, <1>8
<1>10. \A n \in 1..z : Stream(v)[n] = 0
  BY <1>7, <1>8
<1>11. QED
  BY <1>8, <1>9, <1>10

\* What another implementation writes is read as the number that it means.
LEMMA AnswerIsRead ==
    ASSUME NEW v \in Nat, v <= MaxInt
    PROVE  IntValue(Data(INTEGER_TYPE, BerContent(v))) = v
<1>1. PICK K \in Nat : K = 4
  OBVIOUS
<1>2. PICK z \in Nat : /\ z < K /\ BerContent(v) = SubSeq(Stream(v), z + 1, K)
                       /\ \A n \in 1..z : Stream(v)[n] = 0
  BY <1>1, BerContentIs
<1>3. v \in Int /\ -MaxInt - 1 <= v
  BY MaxIntInt
<1>4. PICK D \in Seq(Byte) : D = Stream(v) /\ Len(D) = K /\ FromStream(D) = v
  BY <1>1, <1>3, StreamIs
<1>5. PICK content : content = BerContent(v)
  OBVIOUS
<1>6. Word(content) = D /\ Word(D) = D
  <2>1. /\ z < K /\ content = SubSeq(D, z + 1, K)
        /\ \A n \in 1..z : D[n] = 0
    BY <1>2, <1>4, <1>5
  <2>2. QED
    BY <1>1, <1>4, <2>1, WordOfZeros
<1>7. PICK d : d = Packet(INTEGER_TYPE, Word(content), <<>>, <<>>)
  OBVIOUS
<1>8. Data(INTEGER_TYPE, content) = d
  <2>1. INTEGER_TYPE \in {INTEGER_TYPE, GAUGE_TYPE}
    OBVIOUS
  <2>2. QED
    BY <1>7, <2>1, ConstructedIs DEF Data
<1>9. d.m_data = D
  BY <1>6, <1>7, PacketFields
<1>10. QED
  BY <1>4, <1>5, <1>6, <1>8, <1>9 DEF IntValue

\* What is written of a small number means that number to another implementation.
LEMMA RequestIsBer ==
    ASSUME NEW v \in Nat, v <= MaxInt, v < 2^15
    PROVE  BerValue(CompressLeadingZeros(Stream(v))) = v
<1>1. PICK K \in Nat : K = 4 /\ K >= 1
  OBVIOUS
<1>2. v \in Int /\ -MaxInt - 1 <= v
  BY MaxIntInt
<1>3. PICK D \in Seq(Byte) : D = Stream(v) /\ Len(D) = K /\ FromStream(D) = v
  BY <1>1, <1>2, StreamIs
<1>4. v < 2^23
  BY SMT
<1>5. D[1] = 0 /\ D[2] = 0 /\ D[3] < 128
  BY <1>3, <1>4, SmallBytes
<1>6. PICK content : content = CompressLeadingZeros(D)
  OBVIOUS
<1>7. PICK z \in 0..(K - 1) : /\ content = SubSeq(D, z + 1, K)
                              /\ \A n \in 1..z : D[n] = 0
                              /\ z = 0 \/ z + 1 < K
  BY <1>1, <1>3, <1>6, CompressDropsZeros
<1>8. z \in 0..2 /\ z \in Nat /\ z < K /\ K = Len(D)
  BY <1>1, <1>3, <1>7
<1>9. content[1] < 128 /\ D[1] < 128
  <2>1. Follows(content, D, z, K)
    BY <1>7, <1>8, FollowsZeros
  <2>2. \A n \in 1..(K - z) : content[n] = D[z + n]
    BY <2>1 DEF Follows
  <2>3. 1 \in 1..(K - z)
    BY <1>8
  <2>4. content[1] = D[z + 1]
    BY <2>2, <2>3
  <2>5. z = 0 \/ z = 1 \/ z = 2
    BY <1>8
  <2>6. QED
    BY <1>5, <2>4, <2>5
<1>10. BerValue(content) = FromStream(D)
  BY <1>1, <1>3, <1>7, <1>8, <1>9, BerIsStream
<1>11. QED
  BY <1>3, <1>6, <1>10

Understood(v) ==
    /\ v \in Small => BerValue(CompressLeadingZeros(Stream(v))) = v
    /\ v >= 0 => IntValue(Data(INTEGER_TYPE, BerContent(v))) = v

LEMMA IntegerIsUnderstood ==
    ASSUME NEW v \in Int, v <= MaxInt
    PROVE  Understood(v)
<1>1. v \in Small => v \in Nat /\ v < 2^15
  BY SMT DEF Small
<1>2. v >= 0 => v \in Nat
  OBVIOUS
<1>3. v \in Small => BerValue(CompressLeadingZeros(Stream(v))) = v
  BY <1>1, RequestIsBer
<1>4. v >= 0 => IntValue(Data(INTEGER_TYPE, BerContent(v))) = v
  BY <1>2, AnswerIsRead
<1>5. QED
  BY <1>3, <1>4 DEF Understood

LEMMA UnderstoodAreBer ==
    ASSUME kind = "integers" => \A n \in 1..Len(input) : Understood(input[n])
    PROVE  IntegersReadAsBer
  BY Zenon DEF IntegersReadAsBer, Understood

\* The bytes that compressLeadingZeros leaves of the request id, and of every other
\* integer up to 0x7FFF, have in BER the value that was meant, and every number that is
\* not negative is read as it was meant when its bytes are the shortest ones of BER
\* (QtSnmpData.cpp).  The value only: 0..255 go out with leading zeros.
THEOREM IntegersAreRead == ConversionSpec => []IntegersReadAsBer
<1>1. ConversionTypeOK => IntegersReadAsBer
  <2>1. ASSUME ConversionTypeOK, kind = "integers"
        PROVE  \A n \in 1..Len(input) : Understood(input[n])
    <3>1. PICK S : S = (-MaxInt - 1)..MaxInt
      OBVIOUS
    <3>2. Elements("integers") \subseteq S /\ input \in Seq(Elements("integers"))
      BY <2>1, <3>1, InputsAssumption, Zenon DEF ConversionTypeOK, Kinds
    <3>3. \A v \in S : v \in Int /\ v <= MaxInt
      BY <3>1, MaxIntInt
    <3>4. \A n \in 1..Len(input) : input[n] \in S
      <4>1. input \in Seq(S)
        BY <3>2, SeqSubset
      <4>2. QED
        BY <4>1
    <3>5. QED
      BY <3>3, <3>4, IntegerIsUnderstood
  <2>2. QED
    BY <2>1, UnderstoodAreBer
<1>2. QED
  BY <1>1, ConversionTypes, PTL

-----------------------------------------------------------------------------
(* Objects written to a stream.                                            *)

LEMMA Regrouped ==
    ASSUME NEW X
    PROVE  \A x \in Seq(X), y \in Seq(X), z \in Seq(X) : (x \o y) \o z = x \o (y \o z)
BY ConcatAssociative

Leaves(left, ss, tail, K) ==
    /\ left[K] = tail /\ left[0] = FlattenSeq(ss) \o tail
    /\ \A n \in 1..K : left[n - 1] = ss[n] \o left[n]

\* What is left after each of some sequences one after the other.
LEMMA WhatIsLeft ==
    ASSUME NEW X, NEW ss \in Seq(Seq(X)), NEW tail \in Seq(X), NEW K \in Nat, K = Len(ss)
    PROVE  \E left \in [0..K -> Seq(X)] : Leaves(left, ss, tail, K)
<1> DEFINE step == [e \in (1..K) \X Seq(X) |-> ss[K + 1 - e[1]] \o e[2]]
<1>0. \A x \in Seq(X), y \in Seq(X), z \in Seq(X) : (x \o y) \o z = x \o (y \o z)
  BY Regrouped
<1>1. \A n \in 1..K : ss[n] \in Seq(X)
  OBVIOUS
<1>2. \A n \in 1..K : K + 1 - n \in 1..K
  OBVIOUS
<1>3. step \in [(1..K) \X Seq(X) -> Seq(X)]
  <2>1. \A n \in 1..K, s \in Seq(X) : ss[K + 1 - n] \o s \in Seq(X)
    BY <1>1, <1>2
  <2>2. \A e \in (1..K) \X Seq(X) : ss[K + 1 - e[1]] \o e[2] \in Seq(X)
    BY <2>1
  <2>3. QED
    BY <2>2
<1>4. \A n \in 1..K, s \in Seq(X) : step[<<n, s>>] = ss[K + 1 - n] \o s
  OBVIOUS
<1> HIDE DEF step
<1>5. PICK f \in [0..K -> Seq(X)] : Runs(f, K, tail, step)
  BY <1>3, LoopIs
<1>6. f[0] = tail /\ \A n \in 1..K : f[n] = ss[K + 1 - n] \o f[n - 1]
  <2>1. 0 \in 0..K /\ \A n \in 1..K : n \in 0..K /\ n - 1 \in 0..K /\ n # 0
    OBVIOUS
  <2>2. \A n \in 1..K : f[n] = step[<<n, f[n - 1]>>]
    BY <1>5, <2>1 DEF Runs
  <2>3. f[0] = tail
    BY <1>5, <2>1 DEF Runs
  <2>4. QED
    BY <1>4, <2>1, <2>2, <2>3
<1> DEFINE left == [n \in 0..K |-> f[K - n]]
<1>7. left \in [0..K -> Seq(X)] /\ left[K] = tail
  <2>1. K \in 0..K /\ K - K = 0 /\ \A n \in 0..K : K - n \in 0..K
    OBVIOUS
  <2>2. QED
    BY <1>6, <2>1
<1>8. \A n \in 1..K : left[n - 1] = ss[n] \o left[n]
  <2>1. ASSUME NEW n \in 1..K PROVE left[n - 1] = ss[n] \o left[n]
    <3>1. PICK m \in 1..K : m = K - (n - 1) /\ m - 1 = K - n /\ K + 1 - m = n
      <4>1. K - (n - 1) \in 1..K /\ (K - (n - 1)) - 1 = K - n /\ K + 1 - (K - (n - 1)) = n
        OBVIOUS
      <4>2. QED
        BY <4>1
    <3>2. left[n - 1] = f[m] /\ left[n] = f[m - 1]
      <4>1. n - 1 \in 0..K /\ n \in 0..K
        OBVIOUS
      <4>2. QED
        BY <3>1, <4>1
    <3>3. f[m] = ss[K + 1 - m] \o f[m - 1]
      BY <1>6
    <3>4. QED
      BY <3>1, <3>2, <3>3
  <2>2. QED
    BY <2>1
<1> HIDE DEF left
<1>9. PICK flat \in [0..K -> Seq(X)] :
          /\ flat[0] = <<>> /\ FlattenSeq(ss) = flat[K]
          /\ \A n \in 1..K : flat[n] = flat[n - 1] \o ss[n]
  <2>1. \E flat \in [0..Len(ss) -> Seq(X)] :
          /\ flat[0] = <<>> /\ FlattenSeq(ss) = flat[Len(ss)]
          /\ \A n \in 1..Len(ss) : flat[n] = flat[n - 1] \o ss[n]
    BY FlattenIs
  <2>2. QED
    BY <2>1
<1> DEFINE T == {n \in 0..K : flat[n] \o left[n] = left[0]}
<1>10. 0 \in T
  <2>1. 0 \in 0..K
    OBVIOUS
  <2>2. left[0] \in Seq(X)
    BY <1>7, <2>1
  <2>3. flat[0] \o left[0] = left[0]
    BY <1>9, <2>2
  <2>4. QED
    BY <2>1, <2>3
<1>11. ASSUME NEW n \in 1..K, n - 1 \in T PROVE n \in T
  <2>1. n \in 0..K /\ n - 1 \in 0..K
    OBVIOUS
  <2>2. flat[n - 1] \in Seq(X) /\ ss[n] \in Seq(X) /\ left[n] \in Seq(X)
    BY <1>1, <1>7, <1>9, <2>1
  <2>3. flat[n] = flat[n - 1] \o ss[n] /\ left[n - 1] = ss[n] \o left[n]
    BY <1>8, <1>9
  <2>4. (flat[n - 1] \o ss[n]) \o left[n] = flat[n - 1] \o (ss[n] \o left[n])
    <3>1. PICK a \in Seq(X), b \in Seq(X), c \in Seq(X) :
              a = flat[n - 1] /\ b = ss[n] /\ c = left[n]
      BY <2>2
    <3>2. (a \o b) \o c = a \o (b \o c)
      BY <1>0
    <3>3. QED
      BY <3>1, <3>2
  <2>5. flat[n - 1] \o left[n - 1] = left[0]
    BY <1>11
  <2>6. QED
    BY <2>1, <2>3, <2>4, <2>5
<1> HIDE DEF T
<1>12. K \in T
  <2>1. \A n \in 0..K : n \in T
    BY <1>10, <1>11, Reached
  <2>2. QED
    BY <2>1
<1>13. left[0] = FlattenSeq(ss) \o tail
  BY <1>7, <1>9, <1>12 DEF T
<1>14. QED
  BY <1>7, <1>8, <1>13 DEF Leaves

IsBack(x, type, data, childs, address, more) ==
    x = [obj |-> Packet(type, data, childs, address), rest |-> more]
ReadsOn(read, left, childs, K) ==
    \A n \in 1..K : read[left[n - 1]] = [obj |-> childs[n], rest |-> left[n]]
Begins(s, a, b, c, rest) ==
    s[1] = a /\ s[2] = b /\ s[3] = c /\ SubSeq(s, 4, Len(s)) = rest

\* The children of an object are read one after the other, then its address.
LEMMA RestoredIs ==
    ASSUME NEW X, NEW childs \in Seq(X), NEW K \in Nat, K = Len(childs), NEW Y, NEW read,
           NEW left \in [0..K -> Seq(Y)],
           ReadsOn(read, left, childs, K),
           NEW type, NEW data, NEW address \in Y, NEW more \in Seq(Y),
           left[K] = <<address>> \o more,
           NEW s, Begins(s, <<type>>, data, <<K>>, left[0])
    PROVE  IsBack(Restored(s, read), type, data, childs, address, more)
<1> DEFINE state(n) == [obj |-> SubSeq(childs, 1, n), rest |-> left[n]]
           f == [n \in 0..K |-> state(n)]
           children[c \in 0..s[3][1]] ==
               IF c = 0 THEN [obj |-> <<>>, rest |-> SubSeq(s, 4, Len(s))]
               ELSE LET child == read[children[c - 1].rest]
                    IN  [obj |-> Append(children[c - 1].obj, child.obj), rest |-> child.rest]
           base == [obj |-> <<>>, rest |-> left[0]]
           next(x) == [obj |-> Append(x.obj, read[x.rest].obj), rest |-> read[x.rest].rest]
<1>1. /\ \A n \in 1..K : read[left[n - 1]] = [obj |-> childs[n], rest |-> left[n]]
      /\ s[1] = <<type>> /\ s[2] = data /\ s[3] = <<K>> /\ SubSeq(s, 4, Len(s)) = left[0]
  BY DEF ReadsOn, Begins
<1>2. 0 \in 0..K /\ K \in 0..K /\ \A n \in 1..K : n \in 0..K /\ n - 1 \in 0..K /\ n # 0
  OBVIOUS
<1>3. s[3][1] = K
  BY <1>1
<1>4. ASSUME NEW n \in 1..K PROVE state(n) = next(state(n - 1))
  <2>1. /\ state(n - 1).obj = SubSeq(childs, 1, n - 1) /\ state(n - 1).rest = left[n - 1]
    OBVIOUS
  <2>2. read[left[n - 1]].obj = childs[n] /\ read[left[n - 1]].rest = left[n]
    <3>1. PICK a, b, r : /\ r = read[left[n - 1]] /\ a = childs[n] /\ b = left[n]
                         /\ r = [obj |-> a, rest |-> b]
      BY <1>1
    <3>2. r.obj = a /\ r.rest = b
      BY <3>1, SMT
    <3>3. QED
      BY <3>1, <3>2, Zenon
  <2>3. SubSeq(childs, 1, n) = Append(SubSeq(childs, 1, n - 1), childs[n])
    OBVIOUS
  <2> HIDE DEF state
  <2>4. next(state(n - 1)) = [obj |-> Append(SubSeq(childs, 1, n - 1), childs[n]), rest |-> left[n]]
    BY <2>1, <2>2
  <2>5. QED
    BY <2>3, <2>4 DEF state
<1>5. state(0) = base
  OBVIOUS
<1>6. state(K).obj = childs /\ state(K).rest = left[K]
  <2>1. SubSeq(childs, 1, K) = childs
    OBVIOUS
  <2>2. QED
    BY <2>1
<1> HIDE DEF state, next, base
<1>7. f = [n \in 0..K |-> IF n = 0 THEN base ELSE next(f[n - 1])]
  <2>1. ASSUME NEW n \in 0..K PROVE f[n] = IF n = 0 THEN base ELSE next(f[n - 1])
    <3>1. CASE n = 0
      BY <1>5, <3>1
    <3>2. CASE n # 0
      <4>1. n \in 1..K /\ n - 1 \in 0..K
        BY <3>2
      <4>2. f[n - 1] = state(n - 1) /\ f[n] = state(n)
        BY <4>1
      <4> HIDE DEF f
      <4>3. QED
        BY <1>4, <3>2, <4>1, <4>2
    <3>3. QED
      BY <3>1, <3>2
  <2>2. f = [n \in 0..K |-> f[n]]
    OBVIOUS
  <2> HIDE DEF f
  <2>3. QED
    BY <2>1, <2>2
<1> HIDE DEF f
<1>8. children = [n \in 0..K |-> IF n = 0 THEN base ELSE next(children[n - 1])]
  BY <1>1, <1>3, <1>7 DEF children, base, next
<1>9. Restored(s, read) = [obj |-> Packet(s[1][1], s[2], children[K].obj, Head(children[K].rest)),
                           rest |-> Tail(children[K].rest)]
  BY <1>3 DEF Restored, children
<1> HIDE DEF children
<1>10. children[0] = base /\ \A n \in 1..K : children[n] = next(children[n - 1])
  BY <1>2, <1>8
<1> DEFINE T == {n \in 0..K : children[n] = state(n)}
<1>11. 0 \in T
  BY <1>2, <1>5, <1>10
<1>12. ASSUME NEW n \in 1..K, n - 1 \in T PROVE n \in T
  <2>1. children[n - 1] = state(n - 1) /\ n \in 0..K
    BY <1>2, <1>12
  <2>2. QED
    BY <1>4, <1>10, <2>1
<1> HIDE DEF T
<1>13. children[K] = state(K)
  <2>1. K \in T
    BY <1>2, <1>11, <1>12, Reached
  <2>2. QED
    BY <2>1 DEF T
<1>14. children[K].obj = childs /\ children[K].rest = <<address>> \o more
  BY <1>6, <1>13
<1>15. Head(<<address>> \o more) = address /\ Tail(<<address>> \o more) = more
  OBVIOUS
<1>16. s[1][1] = type /\ s[2] = data
  BY <1>1
<1>17. QED
  BY <1>9, <1>14, <1>15, <1>16 DEF IsBack

LEMMA AfterThree ==
    ASSUME NEW Y, NEW a \in Y, NEW b \in Y, NEW c \in Y, NEW r \in Seq(Y),
           NEW s, s = <<a, b, c>> \o r
    PROVE  /\ s \in Seq(Y) /\ s[1] = a /\ s[2] = b /\ s[3] = c /\ SubSeq(s, 4, Len(s)) = r
<1>1. <<a, b, c>> \in Seq(Y) /\ Len(<<a, b, c>>) = 3
  OBVIOUS
<1>2. PICK h \in Seq(Y) : h = <<a, b, c>> /\ Len(h) = 3 /\ h[1] = a /\ h[2] = b /\ h[3] = c
  BY <1>1
<1>3. s = h \o r
  BY <1>2
<1>4. s \in Seq(Y) /\ Len(s) = 3 + Len(r) /\ Len(r) \in Nat
  BY <1>2, <1>3
<1>5. s[1] = a /\ s[2] = b /\ s[3] = c
  BY <1>2, <1>3
<1>6. \A i \in 1..Len(r) : s[3 + i] = r[i]
  BY <1>2, <1>3
<1>7. SubSeq(s, 4, Len(s)) = r
  <2>1. PICK t \in Seq(Y) : t = SubSeq(s, 4, Len(s)) /\ Len(t) = Len(r)
    BY <1>4
  <2>2. ASSUME NEW i \in 1..Len(r) PROVE t[i] = r[i]
    <3>1. t[i] = s[3 + i]
      BY <1>4, <2>1
    <3>2. QED
      BY <1>6, <3>1
  <2>3. t = r
    BY <2>1, <2>2
  <2>4. QED
    BY <2>1, <2>3
<1>8. QED
  BY <1>4, <1>5, <1>7

Streamable == Seq(Int)

\* An object of at most k levels is written as this stream, and read back from it,
\* whatever follows.
Restores(d, k, stream) ==
    /\ stream \in Seq(Streamable)
    /\ \A n \in 0..Nesting : k <= n =>
          /\ d \in Packets[n] /\ Streams[n][d] = stream
          /\ \A more \in Seq(Streamable) :
                OfStreams[n][stream \o more] = [obj |-> d, rest |-> more]

LEMMA StreamLevelIs ==
    ASSUME NEW n \in 0..Nesting, n # 0
    PROVE  /\ n - 1 \in 0..Nesting /\ Packets[n] = PacketsOver(Packets[n - 1])
           /\ \A d \in Packets[n] : Streams[n][d] = Streamed(d, Streams[n - 1])
           /\ \A s \in Seq(Streamable) : OfStreams[n][s] = Restored(s, OfStreams[n - 1])
<1>1. n - 1 \in 0..Nesting /\ Packets[n] = PacketsOver(Packets[n - 1])
  BY LevelIs
<1>2. Streams[n] = [d \in Packets[n] |-> Streamed(d, Streams[n - 1])]
  BY StreamsIs
<1>3. OfStreams[n] = [s \in Seq(Streamable) |-> Restored(s, OfStreams[n - 1])]
  BY OfStreamsIs DEF Streamable
<1>4. QED
  BY <1>1, <1>2, <1>3

\* What an object of these parts is written as, its children written as ss.
StreamOf(head, ss, last) == (head \o FlattenSeq(ss)) \o last

Parted(stream, head, ss, last, more, K, Y) ==
    /\ stream \in Seq(Y)
    /\ \E left \in [0..K -> Seq(Y)] :
          Leaves(left, ss, last \o more, K) /\ stream \o more = head \o left[0]

\* A stream that begins with an object's, and what is left of it after each child.
LEMMA StreamParts ==
    ASSUME NEW Y, NEW ss \in Seq(Seq(Y)), NEW K \in Nat, K = Len(ss),
           NEW head \in Seq(Y), NEW last \in Seq(Y), NEW more \in Seq(Y)
    PROVE  Parted(StreamOf(head, ss, last), head, ss, last, more, K, Y)
<1>1. \A x \in Seq(Y), y \in Seq(Y), z \in Seq(Y) : (x \o y) \o z = x \o (y \o z)
  BY Regrouped
<1>4. last \o more \in Seq(Y)
  OBVIOUS
<1>5. PICK tail \in Seq(Y) : tail = last \o more
  BY <1>4
<1>6. PICK left \in [0..K -> Seq(Y)] : Leaves(left, ss, tail, K)
  BY WhatIsLeft
<1>7. left[0] = FlattenSeq(ss) \o tail
  BY <1>6 DEF Leaves
<1>8. FlattenSeq(ss) \in Seq(Y)
  <2>1. \E f \in [0..Len(ss) -> Seq(Y)] :
          /\ f[0] = <<>> /\ FlattenSeq(ss) = f[Len(ss)]
          /\ \A n \in 1..Len(ss) : f[n] = f[n - 1] \o ss[n]
    BY FlattenIs
  <2>2. Len(ss) \in 0..Len(ss)
    OBVIOUS
  <2>3. QED
    BY <2>1, <2>2
<1>9. PICK h \in Seq(Y), flat \in Seq(Y) : h = head /\ flat = FlattenSeq(ss)
  BY <1>8
<1>10. h \o flat \in Seq(Y) /\ (h \o flat) \o last \in Seq(Y)
  OBVIOUS
<1>11. ((h \o flat) \o last) \o more = (h \o flat) \o tail
  <2>1. PICK x \in Seq(Y) : x = h \o flat
    BY <1>10
  <2>2. (x \o last) \o more = x \o (last \o more)
    BY <1>1
  <2>3. QED
    BY <1>5, <2>1, <2>2
<1>12. (h \o flat) \o tail = h \o (flat \o tail)
  BY <1>1
<1>13. ((h \o flat) \o last) \o more = h \o left[0]
  BY <1>7, <1>9, <1>11, <1>12
<1>14. QED
  BY <1>5, <1>6, <1>9, <1>10, <1>13 DEF StreamOf, Parted

\* An object whose children are restored.
LEMMA ObjectRestores ==
    ASSUME NEW type \in Byte, NEW data \in Seq(Nat), NEW address \in Seq(Nat),
           NEW k \in Nat, NEW l, l = k + 1, NEW X, NEW childs \in Seq(X),
           NEW ss \in Seq(Seq(Streamable)), NEW K \in Nat, K = Len(childs), Len(ss) = K,
           \A c \in 1..K : Restores(childs[c], k, ss[c]),
           NEW d, d = Packet(type, data, childs, address)
    PROVE  \E stream : Restores(d, l, stream)
<1>1. PICK a \in Streamable, b \in Streamable, c \in Streamable, e \in Streamable :
          a = <<type>> /\ b = data /\ c = <<K>> /\ e = address
  <2>1. type \in Int /\ K \in Int /\ Nat \subseteq Int
    BY BytesAre
  <2>2. <<type>> \in Seq(Int) /\ <<K>> \in Seq(Int)
    BY <2>1
  <2>3. data \in Seq(Int) /\ address \in Seq(Int)
    BY <2>1, SeqSubset
  <2>4. QED
    BY <2>2, <2>3 DEF Streamable
<1>2. PICK head : head = <<a, b, c>>
  OBVIOUS
<1>3. PICK stream : stream = StreamOf(head, ss, <<e>>)
  OBVIOUS
<1>4. ASSUME NEW more \in Seq(Streamable)
      PROVE  /\ stream \in Seq(Streamable)
             /\ \E left \in [0..K -> Seq(Streamable)] :
                   /\ Leaves(left, ss, <<e>> \o more, K)
                   /\ stream \o more = head \o left[0]
  <2>1. K = Len(ss) /\ head \in Seq(Streamable) /\ <<e>> \in Seq(Streamable)
    BY <1>2
  <2>2. Parted(stream, head, ss, <<e>>, more, K, Streamable)
    BY <1>3, <2>1, StreamParts
  <2>3. QED
    BY <2>2 DEF Parted
<1>5. stream \in Seq(Streamable)
  <2>1. <<>> \in Seq(Streamable)
    OBVIOUS
  <2>2. QED
    BY <1>4, <2>1
<1>6. /\ d.m_type = type /\ d.m_childs = childs /\ d.m_data = data /\ d.m_address = address
  BY PacketFields
<1>7. ASSUME NEW n \in 0..Nesting, l <= n
      PROVE  n # 0 /\ k <= n - 1 /\ n - 1 \in 0..Nesting /\ d \in Packets[n]
  <2>1. n # 0 /\ n - 1 \in 0..Nesting /\ k <= n - 1
    BY <1>7, NestingAssumption
  <2>2. childs \in Seq(Packets[n - 1])
    <3>1. \A i \in 1..K : childs[i] \in Packets[n - 1]
      BY <2>1 DEF Restores
    <3>2. QED
      BY <3>1, ElementsOf
  <2>3. Packet(type, data, childs, address) \in PacketsOver(Packets[n - 1])
    BY <2>2, PacketIsOf
  <2>4. Packets[n] = PacketsOver(Packets[n - 1])
    BY <2>1, LevelIs
  <2>5. QED
    BY <2>1, <2>3, <2>4
<1>8. ASSUME NEW n \in 0..Nesting, l <= n
      PROVE  Streams[n][d] = stream
  <2>1. n # 0 /\ k <= n - 1 /\ n - 1 \in 0..Nesting /\ d \in Packets[n]
    BY <1>7, <1>8
  <2>2. PICK below : below = Streams[n - 1]
    OBVIOUS
  <2>3. Streams[n][d] = Streamed(d, below)
    BY <2>1, <2>2, StreamLevelIs
  <2>4. [i \in 1..K |-> below[childs[i]]] = ss
    <3>1. \A i \in 1..K : below[childs[i]] = ss[i]
      BY <2>1, <2>2 DEF Restores
    <3>2. ss = [i \in 1..K |-> ss[i]]
      OBVIOUS
    <3>3. QED
      BY <3>1, <3>2
  <2>5. Streamed(d, below)
          = (<<<<type>>, data, <<K>>>> \o FlattenSeq([i \in 1..K |-> below[childs[i]]]))
                \o <<address>>
    BY <1>6 DEF Streamed
  <2>6. QED
    BY <1>1, <1>2, <1>3, <2>3, <2>4, <2>5 DEF StreamOf
<1>9. ASSUME NEW n \in 0..Nesting, l <= n, NEW more \in Seq(Streamable)
      PROVE  OfStreams[n][stream \o more] = [obj |-> d, rest |-> more]
  <2>1. n # 0 /\ k <= n - 1 /\ n - 1 \in 0..Nesting
    BY <1>7, <1>9
  <2>2. PICK below : below = OfStreams[n - 1]
    OBVIOUS
  <2>3. PICK left \in [0..K -> Seq(Streamable)] :
            Leaves(left, ss, <<e>> \o more, K) /\ stream \o more = head \o left[0]
    BY <1>4
  <2>4. /\ left[K] = <<e>> \o more
        /\ \A i \in 1..K : left[i - 1] = ss[i] \o left[i]
    BY <2>3 DEF Leaves
  <2>5. \A i \in 1..K : below[left[i - 1]] = [obj |-> childs[i], rest |-> left[i]]
    <3>1. ASSUME NEW i \in 1..K PROVE below[left[i - 1]] = [obj |-> childs[i], rest |-> left[i]]
      <4>1. left[i] \in Seq(Streamable)
        <5>1. i \in 0..K
          OBVIOUS
        <5>2. QED
          BY <5>1
      <4>2. OfStreams[n - 1][ss[i] \o left[i]] = [obj |-> childs[i], rest |-> left[i]]
        BY <2>1, <4>1 DEF Restores
      <4>3. QED
        BY <2>2, <2>4, <4>2
    <3>2. QED
      BY <3>1
  <2>6. PICK s : s = stream \o more
    OBVIOUS
  <2>7. /\ s \in Seq(Streamable) /\ s[1] = a /\ s[2] = b /\ s[3] = c
        /\ SubSeq(s, 4, Len(s)) = left[0]
    <3>1. left[0] \in Seq(Streamable)
      <4>1. 0 \in 0..K
        OBVIOUS
      <4>2. QED
        BY <4>1
    <3>2. s = <<a, b, c>> \o left[0]
      BY <1>2, <2>3, <2>6
    <3>3. QED
      BY <3>1, <3>2, AfterThree
  <2>8. Restored(s, below) = [obj |-> Packet(type, data, childs, e), rest |-> more]
    <3>1. Begins(s, <<type>>, data, <<K>>, left[0])
      BY <1>1, <2>7 DEF Begins
    <3>2. ReadsOn(below, left, childs, K)
      BY <2>5 DEF ReadsOn
    <3>3. left[K] = <<e>> \o more
      BY <2>4
    <3>4. IsBack(Restored(s, below), type, data, childs, e, more)
      BY <3>1, <3>2, <3>3, RestoredIs
    <3>5. QED
      BY <3>4 DEF IsBack
  <2>9. OfStreams[n][s] = Restored(s, below)
    BY <2>1, <2>2, <2>7, StreamLevelIs
  <2>10. QED
    BY <1>1, <2>6, <2>8, <2>9
<1>10. Restores(d, l, stream)
  BY <1>5, <1>7, <1>8, <1>9 DEF Restores
<1>11. QED
  BY <1>10

\* An object is written to a stream and read back from it.
Restorable(d, k) == \E stream : Restores(d, k, stream)

LEMMA LeafRestores ==
    ASSUME NEW type \in Byte, NEW data \in Seq(Nat), NEW one, one = 1
    PROVE  Restorable(Packet(type, data, <<>>, <<>>), one)
<1>1. PICK none : none = <<>>
  OBVIOUS
<1>2. none \in Seq({}) /\ none \in Seq(Seq(Streamable)) /\ none \in Seq(Nat) /\ Len(none) = 0
  BY <1>1
<1>3. PICK K \in Nat : K = 0 /\ one = K + 1
  OBVIOUS
<1>4. PICK d : d = Packet(type, data, none, none)
  OBVIOUS
<1>5. \A c \in 1..K : Restores(none[c], K, none[c])
  BY <1>3
<1>6. K = Len(none) /\ Len(none) = K
  BY <1>2, <1>3
<1>7. \E stream : Restores(d, one, stream)
  BY <1>2, <1>3, <1>4, <1>5, <1>6, ObjectRestores
<1>8. QED
  BY <1>1, <1>4, <1>7 DEF Restorable

LEMMA ParentRestores ==
    ASSUME NEW type \in Byte, NEW address \in Seq(Nat), NEW k \in Nat, NEW l, l = k + 1,
           NEW X, NEW childs \in Seq(X), NEW K \in Nat, K = Len(childs),
           \A c \in 1..K : Restorable(childs[c], k)
    PROVE  Restorable(Packet(type, <<>>, childs, address), l)
<1> DEFINE good(c, stream) == Restores(childs[c], k, stream)
           ss == [c \in 1..K |-> CHOOSE stream : good(c, stream)]
<1>1. \A c \in 1..K : good(c, ss[c])
  <2>1. \A c \in 1..K : \E stream : good(c, stream)
    BY DEF Restorable
  <2> HIDE DEF good
  <2>2. QED
    BY <2>1
<1>2. \A c \in 1..K : ss[c] \in Seq(Streamable)
  BY <1>1 DEF Restores
<1>3. ss \in Seq(Seq(Streamable)) /\ Len(ss) = K
  <2>1. ss = [c \in 1..K |-> ss[c]]
    OBVIOUS
  <2> HIDE DEF ss
  <2>2. QED
    BY <1>2, <2>1
<1> HIDE DEF ss
<1>4. PICK none : none = <<>> /\ none \in Seq(Nat)
  <2>1. <<>> \in Seq(Nat)
    OBVIOUS
  <2>2. QED
    BY <2>1
<1>5. PICK d : d = Packet(type, none, childs, address)
  OBVIOUS
<1>6. \E stream : Restores(d, l, stream)
  BY <1>1, <1>3, <1>4, <1>5, ObjectRestores
<1>7. QED
  BY <1>4, <1>5, <1>6 DEF Restorable

\* Of two objects written one after the other, both are read.
LEMMA TwoAreRestored ==
    ASSUME NEW k \in Nat, k <= Nesting, NEW d, Restorable(d, k), NEW e, Restorable(e, k),
           NEW read, read = OfStream(ToStream(d) \o ToStream(e))
    PROVE  read.obj = d /\ OfStream(read.rest).obj = e
<1>1. PICK s, t : Restores(d, k, s) /\ Restores(e, k, t)
  BY DEF Restorable
<1>2. PICK n \in 0..Nesting : n = Nesting /\ k <= n
  BY NestingAssumption
<1>3. /\ s \in Seq(Streamable) /\ t \in Seq(Streamable) /\ Streams[n][d] = s /\ Streams[n][e] = t
      /\ \A more \in Seq(Streamable) : OfStreams[n][s \o more] = [obj |-> d, rest |-> more]
      /\ \A more \in Seq(Streamable) : OfStreams[n][t \o more] = [obj |-> e, rest |-> more]
  BY <1>1, <1>2 DEF Restores
<1>4. ToStream(d) = s /\ ToStream(e) = t
  BY <1>2, <1>3 DEF ToStream
<1>5. OfStream(s \o t) = [obj |-> d, rest |-> t]
  BY <1>2, <1>3 DEF OfStream
<1>6. read.obj = d /\ read.rest = t
  BY <1>4, <1>5
<1>7. t \o <<>> = t /\ <<>> \in Seq(Streamable)
  BY <1>3
<1>8. OfStreams[n][t \o <<>>] = [obj |-> e, rest |-> <<>>]
  BY <1>3, <1>7
<1>9. OfStream(t) = [obj |-> e, rest |-> <<>>]
  BY <1>2, <1>7, <1>8 DEF OfStream
<1>10. QED
  BY <1>6, <1>9

\* No address is sent.
LEMMA AddressIsNotSent ==
    ASSUME NEW d, NEW a, NEW b, NEW type, NEW data, NEW childs,
           d = Packet(type, data, childs, a), NEW e, e = Packet(type, data, childs, b), NEW chunks
    PROVE  Chunk(d, chunks) = Chunk(e, chunks)
<1>1. d.m_type = type /\ d.m_data = data /\ d.m_childs = childs
  BY PacketFields
<1>2. e.m_type = type /\ e.m_data = data /\ e.m_childs = childs
  BY PacketFields
<1>3. QED
  BY <1>1, <1>2 DEF Chunk

LEMMA AddressedIs ==
    ASSUME NEW type, NEW data, NEW childs, NEW a, NEW b, NEW d, d = Packet(type, data, childs, a)
    PROVE  SetDataAddress(d, b) = Packet(type, data, childs, b)
BY DEF SetDataAddress, Packet

LEMMA AddressedIsRead ==
    ASSUME NEW type \in Byte, NEW data \in Seq(Nat), NEW childs, NEW a \in Seq(Nat), NEW b \in Seq(Nat),
           NEW d, d = Packet(type, data, childs, a), Survives(d),
           NEW e, e = Packet(type, data, childs, b), NEW k \in Nat, k <= Nesting,
           Restorable(d, k), Restorable(e, k)
    PROVE  ReadAs(MakeSnmpChunk(e), d)
<1>1. PICK n \in 0..Nesting : n = Nesting /\ k <= n /\ n # 0
  BY NestingAssumption
<1>2. d \in Packets[n] /\ e \in Packets[n]
  BY <1>1 DEF Restorable, Restores
<1>3. Chunks[n] = [x \in Packets[n] |-> Chunk(x, Chunks[n - 1])]
  BY <1>1, LevelIs
<1>4. Chunk(d, Chunks[n - 1]) = Chunk(e, Chunks[n - 1])
  BY AddressIsNotSent
<1>5. MakeSnmpChunk(d) = MakeSnmpChunk(e)
  BY <1>1, <1>2, <1>3, <1>4 DEF MakeSnmpChunk
<1>6. QED
  BY <1>5 DEF Survives

\* The strings of the inputs.
Piece(length, n) == String([m \in 1..length |-> (m + n) % 256])

LEMMA PieceMoves ==
    ASSUME NEW L \in Nat, L <= 2^20, NEW M \in Nat, M = L + 6, NEW one, one = 1,
           NEW length \in Nat, length <= L, NEW n \in Nat
    PROVE  Moves(Piece(length, n), one, M) /\ Restorable(Piece(length, n), one)
<1> DEFINE bytes == [m \in 1..length |-> (m + n) % 256]
<1>1. \A m \in 1..length : (m + n) % 256 \in Byte
  BY SMT DEF Byte
<1>2. bytes \in Seq(Byte) /\ Len(bytes) = length
  BY <1>1
<1>3. Piece(length, n) = String(bytes)
  BY DEF Piece
<1> HIDE DEF bytes
<1>4. bytes \in Seq(Nat) /\ Len(bytes) <= MaxInt
  <2>1. Len(bytes) <= L
    BY <1>2
  <2>2. QED
    BY <1>2, <2>1, FewBytes
<1>5. PICK d : d = Packet(STRING_TYPE, bytes, <<>>, <<>>)
  OBVIOUS
<1>6. String(bytes) = d /\ Travels(d, 1, PackContent(STRING_TYPE, bytes))
  BY <1>2, <1>4, <1>5, StringTravels
<1>7. STRING_TYPE \in Byte
  BY TypesAre
<1>8. Len(PackContent(STRING_TYPE, bytes)) <= M
  <2>1. /\ PackContent(STRING_TYPE, bytes) \in Seq(Byte)
        /\ Len(PackContent(STRING_TYPE, bytes)) <= Len(bytes) + 6
    BY <1>2, <1>4, <1>7, PackedSize
  <2>2. PICK p \in Nat : p = Len(PackContent(STRING_TYPE, bytes)) /\ p <= length + 6
    BY <1>2, <2>1
  <2>3. p <= M
    BY <2>2
  <2>4. QED
    BY <2>2, <2>3
<1>9. Moves(d, one, M)
  BY <1>6, <1>8 DEF Moves
<1>10. Restorable(d, one)
  BY <1>4, <1>5, <1>7, LeafRestores
<1>11. QED
  BY <1>3, <1>6, <1>9, <1>10

PiecesFit(lengths) ==
    \E L \in Nat, N \in Nat, M \in Nat, R \in Nat :
        /\ L <= 2^20 /\ M = L + 6 /\ Room(N, M, R)
        /\ Len(lengths) <= N /\ \A n \in 1..Len(lengths) : lengths[n] <= L
Arrive(both, addressed, read, lengths) ==
    /\ Survives(both) /\ ReadAs(MakeSnmpChunk(addressed), both)
    /\ DataEq(read.obj, addressed) /\ DataEq(OfStream(read.rest).obj, both)
    /\ lengths # <<>> => ~DataEq(addressed, both)

\* What a sequence of strings, with an address or without one, becomes on its way.
LEMMA PiecesTravel ==
    ASSUME NEW lengths \in Seq(Nat), PiecesFit(lengths), NEW both,
           both = AddChildren(Sequence, [n \in 1..Len(lengths) |-> Piece(lengths[n], n)]),
           NEW addressed, addressed = SetDataAddress(both, lengths),
           NEW read, read = OfStream(ToStream(addressed) \o ToStream(both))
    PROVE  Arrive(both, addressed, read, lengths)
<1>0. PICK L \in Nat, N \in Nat, M \in Nat, R \in Nat :
          /\ L <= 2^20 /\ M = L + 6 /\ Room(N, M, R)
          /\ Len(lengths) <= N /\ \A n \in 1..Len(lengths) : lengths[n] <= L
  BY DEF PiecesFit
<1> DEFINE X == {Piece(lengths[n], n) : n \in 1..Len(lengths)}
           childs == [n \in 1..Len(lengths) |-> Piece(lengths[n], n)]
<1>1. childs \in Seq(X) /\ Len(childs) = Len(lengths)
      /\ \A n \in 1..Len(lengths) : childs[n] = Piece(lengths[n], n)
  OBVIOUS
<1>2. both = AddChildren(Sequence, childs)
  OBVIOUS
<1> HIDE DEF X, childs
<1>3. PICK one \in Nat, two \in Nat, K \in Nat :
          one = 1 /\ two = one + 1 /\ K = Len(childs) /\ K = Len(lengths) /\ two <= Nesting
  <2>1. 2 \in Nat /\ 1 \in Nat /\ 2 = 1 + 1 /\ 2 <= Nesting /\ Len(lengths) \in Nat
    BY NestingAssumption
  <2>2. QED
    BY <1>1, <2>1
<1>4. \A n \in 1..K : Moves(childs[n], one, M) /\ Restorable(childs[n], one)
  <2>1. ASSUME NEW n \in 1..K PROVE Moves(childs[n], one, M) /\ Restorable(childs[n], one)
    <3>1. lengths[n] \in Nat /\ lengths[n] <= L /\ n \in Nat /\ childs[n] = Piece(lengths[n], n)
      BY <1>0, <1>1, <1>3
    <3>2. Moves(Piece(lengths[n], n), one, M) /\ Restorable(Piece(lengths[n], n), one)
      BY <1>0, <1>3, <3>1, PieceMoves
    <3>3. QED
      BY <3>1, <3>2
  <2>2. QED
    BY <2>1
<1>5. SEQUENCE_TYPE \in ParentTypes /\ SEQUENCE_TYPE # SET_REQUEST_TYPE
  BY DEF ParentTypes, SEQUENCE_TYPE, GET_REQUEST_TYPE, SET_REQUEST_TYPE
<1>6. PICK none : none = <<>> /\ none \in Seq(Nat)
  <2>1. <<>> \in Seq(Nat)
    OBVIOUS
  <2>2. QED
    BY <2>1
<1>7. both = Packet(SEQUENCE_TYPE, none, childs, none)
  BY <1>1, <1>2, <1>5, <1>6, EmptyParent DEF Sequence
<1>8. addressed = Packet(SEQUENCE_TYPE, none, childs, lengths)
  BY <1>7, AddressedIs
<1>9. Survives(both)
  <2>1. AllMove(childs, one, M)
    BY <1>3, <1>4 DEF AllMove
  <2>2. Len(childs) <= N
    BY <1>0, <1>1
  <2>3. Moves(AddChildren(Data(SEQUENCE_TYPE, <<>>), childs), two, R)
    BY <1>0, <1>1, <1>3, <1>5, <2>1, <2>2, SequenceOf
  <2>4. Moves(both, two, R)
    BY <1>2, <2>3 DEF Sequence
  <2>5. QED
    BY <1>3, <2>4, MoversSurvive
<1>10. Restorable(both, two) /\ Restorable(addressed, two)
  <2>1. SEQUENCE_TYPE \in Byte
    BY <1>5, TypesAre
  <2>2. \A address \in Seq(Nat) : Restorable(Packet(SEQUENCE_TYPE, <<>>, childs, address), two)
    BY <1>1, <1>3, <1>4, <2>1, ParentRestores
  <2>3. QED
    BY <1>6, <1>7, <1>8, <2>2
<1>11. ReadAs(MakeSnmpChunk(addressed), both)
  <2>1. SEQUENCE_TYPE \in Byte
    BY <1>5, TypesAre
  <2>2. QED
    BY <1>3, <1>6, <1>7, <1>8, <1>9, <1>10, <2>1, AddressedIsRead
<1>12. read.obj = addressed /\ OfStream(read.rest).obj = both
  BY <1>3, <1>10, TwoAreRestored
<1>13. DataEq(read.obj, addressed) /\ DataEq(OfStream(read.rest).obj, both)
  BY <1>12 DEF DataEq
<1>14. lengths # <<>> => ~DataEq(addressed, both)
  <2>1. both.m_address = <<>>
    BY <1>6, <1>7, PacketFields
  <2>2. addressed.m_address = lengths
    BY <1>8, PacketFields
  <2>3. QED
    BY <2>1, <2>2 DEF DataEq
<1>15. QED
  BY <1>9, <1>11, <1>13, <1>14 DEF Arrive

LEMMA PiecesRoom ==
    \E L \in Nat, N \in Nat, M \in Nat, R \in Nat :
        /\ L = 2^16 /\ N = 2^10 /\ L <= 2^20 /\ M = L + 6 /\ Room(N, M, R)
<1>1. 2^16 = 65536 /\ 2^10 = 1024 /\ 65536 <= 2^20
  BY SMT
<1>2. 1024 * 65542 + 6 <= 67115014 /\ 67115014 <= MaxInt
  BY MaxIntIs, SMT
<1>3. PICK L \in Nat, N \in Nat, M \in Nat, R \in Nat :
          L = 65536 /\ N = 1024 /\ M = L + 6 /\ R = 67115014
  BY SMT
<1>4. N * M + 6 <= R /\ R <= MaxInt
  BY <1>2, <1>3, SMT
<1>5. Room(N, M, R)
  BY <1>4, SMT DEF Room
<1>6. L = 2^16 /\ N = 2^10 /\ L <= 2^20 /\ M = L + 6
  BY <1>1, <1>3, SMT
<1>7. QED
  BY <1>5, <1>6, Zenon

\* Contents of up to 2^16 bytes, up to 2^10 of them in a sequence, are found again in their
\* packets and in the sequence whatever the lengths and however many bytes these take; an
\* object written with operator << is read by operator >> with its address, and what
\* follows it in the stream is read, too: of packContent, parseData and the stream
\* operators (QtSnmpData.cpp).
THEOREM ContentsTravel == ConversionSpec => []ContentRoundTrip
<1>1. ConversionTypeOK => ContentRoundTrip
  <2>1. SUFFICES ASSUME ConversionTypeOK, kind = "lengths" PROVE ContentRoundTrip
    BY DEF ContentRoundTrip
  <2>2. PICK L \in Nat, N \in Nat, M \in Nat, R \in Nat :
            /\ L = 2^16 /\ N = 2^10 /\ L <= 2^20 /\ M = L + 6 /\ Room(N, M, R)
    BY PiecesRoom
  <2>3. /\ Elements("lengths") \subseteq 0..L /\ input \in Seq(Elements("lengths"))
        /\ MaxLength("lengths") \in Nat /\ MaxLength("lengths") <= N
        /\ Len(input) <= MaxLength("lengths")
    BY <2>1, <2>2, InputsAssumption, Zenon DEF ConversionTypeOK, Kinds
  <2>4. input \in Seq(0..L) /\ input \in Seq(Nat) /\ Len(input) \in Nat
    <3>1. 0..L \subseteq Nat
      BY <2>2
    <3>2. input \in Seq(0..L)
      BY <2>3, SeqSubset
    <3>3. input \in Seq(Nat)
      BY <3>1, <3>2, SeqSubset
    <3>4. QED
      BY <3>2, <3>3
  <2>5. Len(input) <= N /\ \A n \in 1..Len(input) : input[n] <= L
    <3>1. \A n \in 1..Len(input) : input[n] \in 0..L
      BY <2>4
    <3>2. QED
      BY <2>3, <2>4, <3>1
  <2> DEFINE string(n) == String([m \in 1..input[n] |-> (m + n) % 256])
             both == AddChildren(Sequence, [n \in 1..Len(input) |-> string(n)])
             addressed == SetDataAddress(both, input)
             read == OfStream(ToStream(addressed) \o ToStream(both))
  <2>6. both = AddChildren(Sequence, [n \in 1..Len(input) |-> Piece(input[n], n)])
    BY DEF Piece
  <2> HIDE DEF string
  <2>7. /\ Survives(both) /\ ReadAs(MakeSnmpChunk(addressed), both)
        /\ DataEq(read.obj, addressed) /\ DataEq(OfStream(read.rest).obj, both)
        /\ input # <<>> => ~DataEq(addressed, both)
    <3>1. PICK b, a, r : b = both /\ a = addressed /\ r = read
      OBVIOUS
    <3>2. /\ b = AddChildren(Sequence, [n \in 1..Len(input) |-> Piece(input[n], n)])
          /\ a = SetDataAddress(b, input) /\ r = OfStream(ToStream(a) \o ToStream(b))
      BY <2>6, <3>1
    <3> HIDE DEF both, addressed, read
    <3>3. input \in Seq(Nat) /\ PiecesFit(input)
      BY <2>2, <2>4, <2>5 DEF PiecesFit
    <3>4. Arrive(b, a, r, input)
      BY <3>2, <3>3, PiecesTravel
    <3>5. QED
      BY <3>1, <3>4 DEF Arrive
  <2>8. QED
    BY <2>7 DEF ContentRoundTrip, string
<1>2. QED
  BY <1>1, ConversionTypes, PTL
-----------------------------------------------------------------------------
\* libdes: what the operations on words undo.
Block64 == Words \X Words

LEMMA XorIs ==
    ASSUME NEW a \in Words, NEW b \in Words
    PROVE  /\ Xor(a, b) \in Words /\ Xor(a, b) = Xor(b, a)
           /\ Xor(Xor(a, b), b) = a /\ Xor(b, Xor(b, a)) = a
<1>1. Xor(a, b) \in Words
  BY DEF Xor, Words
<1>2. Xor(a, b) = Xor(b, a)
  BY DEF Xor
<1>3. Xor(Xor(a, b), b) = a
  BY DEF Xor
<1>4. Xor(b, Xor(b, a)) = a
  BY DEF Xor
<1>5. QED
  BY <1>1, <1>2, <1>3, <1>4

\* A turn of the bits and the rest of a full turn.
LEMMA RorIs ==
    ASSUME NEW w \in Words, NEW n \in 0..32
    PROVE  Ror(w, n) \in Words /\ Ror(Ror(w, n), 32 - n) = w
<1>1. \A b \in w : b \in 0..31
  BY DEF Words
<1>2. \A b \in 0..31 : (b - n) % 32 \in 0..31
  OBVIOUS
<1>3. \A b \in 0..31 : (((b - n) % 32) - (32 - n)) % 32 = b
  <2>1. TAKE b \in 0..31
  <2>2. CASE b >= n
    <3>1. (b - n) % 32 = b - n \/ b - n = 32
      BY <2>2
    <3>2. (b - 32) % 32 = b
      OBVIOUS
    <3>3. QED
      BY <3>1, <3>2, <2>2
  <2>3. CASE b < n
    <3>1. (b - n) % 32 = b - n + 32
      BY <2>3
    <3>2. QED
      BY <3>1
  <2>4. QED
    BY <2>2, <2>3
<1>4. Ror(w, n) \in Words
  BY <1>1, <1>2 DEF Ror, Words
<1>5. Ror(Ror(w, n), 32 - n) = {(((b - n) % 32) - (32 - n)) % 32 : b \in w}
  BY DEF Ror
<1>6. {(((b - n) % 32) - (32 - n)) % 32 : b \in w} = w
  BY <1>1, <1>3
<1>7. QED
  BY <1>4, <1>5, <1>6

LEMMA SwappedIs ==
    ASSUME NEW p \in Block64
    PROVE  /\ Swapped(p) \in Block64 /\ Swapped(Swapped(p)) = p
           /\ p = <<p[1], p[2]>> /\ p[1] \in Words /\ p[2] \in Words
BY DEF Swapped, Block64

LEMMA RorBothIs ==
    ASSUME NEW p \in Block64
    PROVE  /\ RorBoth(p, 3) \in Block64 /\ RorBoth(p, 29) \in Block64
           /\ RorBoth(RorBoth(p, 3), 29) = p /\ RorBoth(RorBoth(p, 29), 3) = p
<1>1. p = <<p[1], p[2]>> /\ p[1] \in Words /\ p[2] \in Words
  BY SwappedIs
<1>2. \A w \in Words : /\ Ror(w, 3) \in Words /\ Ror(w, 29) \in Words
                       /\ Ror(Ror(w, 3), 29) = w /\ Ror(Ror(w, 29), 3) = w
  <2>1. TAKE w \in Words
  <2>2. 32 - 3 = 29 /\ 32 - 29 = 3 /\ 3 \in 0..32 /\ 29 \in 0..32
    OBVIOUS
  <2>3. Ror(w, 3) \in Words /\ Ror(Ror(w, 3), 32 - 3) = w
    BY <2>2, RorIs
  <2>4. Ror(w, 29) \in Words /\ Ror(Ror(w, 29), 32 - 29) = w
    BY <2>2, RorIs
  <2>5. QED
    BY <2>2, <2>3, <2>4
<1>3. \A n : RorBoth(p, n) = <<Ror(p[1], n), Ror(p[2], n)>>
  BY DEF RorBoth
<1>4. RorBoth(p, 3) \in Block64 /\ RorBoth(p, 29) \in Block64
  BY <1>1, <1>2, <1>3 DEF Block64
<1>5. QED
  BY <1>1, <1>2, <1>4 DEF RorBoth

-----------------------------------------------------------------------------
\* PERM_OP exchanges groups of bits, so that a second one exchanges them back.
LEMMA ShiftedBack ==
    ASSUME NEW n \in {1, 2, 4, 8, 16}, NEW t \in SUBSET Mask(n)
    PROVE  Shl(t, n) \in Words /\ Shr(Shl(t, n), n) = t
<1>1. \A b \in t : b \in 0..31 /\ b + n \in 0..31 /\ b + n - n = b /\ b + n >= n
  <2>1. \A b \in Mask(n) : b \in 0..31 /\ (b \div n) % 2 = 0
    BY DEF Mask
  <2>2. \A b \in 0..31 : (b \div n) % 2 = 0 => b + n \in 0..31
    OBVIOUS
  <2>3. QED
    BY <2>1, <2>2
<1>2. Shl(t, n) = {b + n : b \in t}
  BY <1>1 DEF Shl
<1>3. Shl(t, n) \in Words
  BY <1>1, <1>2 DEF Words
<1>4. Shr(Shl(t, n), n) = t
  BY <1>1, <1>2 DEF Shr
<1>5. QED
  BY <1>3, <1>4

LEMMA ShrOfXor ==
    ASSUME NEW a \in Words, NEW b \in Words, NEW n \in Nat
    PROVE  Shr(a, n) \in Words /\ Shr(Xor(a, b), n) = Xor(Shr(a, n), Shr(b, n))
<1>1. \A w \in Words : \A x \in 0..31 : x \in Shr(w, n) <=> x + n \in w
  <2>1. TAKE w \in Words
  <2>2. TAKE x \in 0..31
  <2>3. w \subseteq 0..31
    BY DEF Words
  <2>4. QED
    BY <2>3 DEF Shr
<1>2. \A w \in Words : Shr(w, n) \in Words
  BY DEF Shr, Words
<1>3. Xor(a, b) \in Words
  BY XorIs
<1>4. \A x \in 0..31 : x \in Shr(Xor(a, b), n) <=> x \in Xor(Shr(a, n), Shr(b, n))
  BY <1>1, <1>3 DEF Xor
<1>5. Xor(Shr(a, n), Shr(b, n)) \in Words /\ Shr(Xor(a, b), n) \in Words
  BY <1>2, <1>3, XorIs
<1>6. QED
  BY <1>2, <1>4, <1>5 DEF Words

LEMMA PermOpUndone ==
    ASSUME NEW p \in Block64, NEW n \in {1, 2, 4, 8, 16}
    PROVE  PermOp(p, n) \in Block64 /\ PermOp(PermOp(p, n), n) = p
<1> DEFINE a == p[1]
           b == p[2]
           t == Xor(Shr(a, n), b) \cap Mask(n)
           c == Xor(a, Shl(t, n))
           d == Xor(b, t)
           u == Xor(Shr(c, n), d) \cap Mask(n)
<1>1. p = <<a, b>> /\ a \in Words /\ b \in Words /\ n \in Nat
  BY SwappedIs
<1>2. t \in SUBSET Mask(n) /\ t \in Words
  BY DEF Mask, Words
<1> HIDE DEF a, b
<1>3. Shl(t, n) \in Words /\ Shr(Shl(t, n), n) = t
  <2> HIDE DEF t
  <2>1. QED
    BY <1>2, ShiftedBack
<1>4. Shr(a, n) \in Words
  BY <1>1, ShrOfXor
<1>5. c \in Words /\ d \in Words
  <2> HIDE DEF t
  <2>1. QED
    BY <1>1, <1>2, <1>3, XorIs
<1>6. Shr(c, n) = Xor(Shr(a, n), t)
  <2> HIDE DEF t
  <2>1. Shr(Xor(a, Shl(t, n)), n) = Xor(Shr(a, n), Shr(Shl(t, n), n))
    BY <1>1, <1>3, ShrOfXor
  <2>2. QED
    BY <1>3, <2>1
<1>7. u = t
  <2> DEFINE s == Shr(a, n)
  <2>1. t = Xor(s, b) \cap Mask(n)
    OBVIOUS
  <2>2. u = Xor(Xor(s, t), Xor(b, t)) \cap Mask(n)
    BY <1>6
  <2> HIDE DEF s, t, u
  <2>3. Xor(Xor(s, t), Xor(b, t)) = Xor(s, b)
    BY DEF Xor
  <2>4. QED
    BY <2>1, <2>2, <2>3
<1>8. PermOp(p, n) = <<c, d>>
  BY DEF PermOp, a, b
<1>9. PermOp(<<c, d>>, n) = <<Xor(c, Shl(u, n)), Xor(d, u)>>
  <2> HIDE DEF c, d
  <2>1. QED
    BY DEF PermOp
<1>10. Xor(c, Shl(t, n)) = a /\ Xor(d, t) = b
  <2> HIDE DEF t
  <2>1. QED
    BY <1>1, <1>2, <1>3, XorIs
<1>11. <<c, d>> \in Block64
  BY <1>5 DEF Block64
<1> HIDE DEF c, d, t, u
<1>12. QED
  BY <1>1, <1>7, <1>8, <1>9, <1>10, <1>11

\* A PERM_OP of IP or FP, and the same one after the row of the others is undone.
PermStep(p, n) == Swapped(PermOp(p, n))

LEMMA PermStepUndone ==
    ASSUME NEW p \in Block64, NEW n \in {1, 2, 4, 8, 16}
    PROVE  PermStep(p, n) \in Block64 /\ PermStep(Swapped(PermStep(p, n)), n) = Swapped(p)
<1>1. PermOp(p, n) \in Block64 /\ PermOp(PermOp(p, n), n) = p
  BY PermOpUndone
<1>2. Swapped(PermOp(p, n)) \in Block64 /\ Swapped(Swapped(PermOp(p, n))) = PermOp(p, n)
  BY <1>1, SwappedIs
<1>3. QED
  BY <1>1, <1>2 DEF PermStep

LEMMA ElementIs ==
    ASSUME NEW X, NEW s \in Seq(X)
    PROVE  Len(s) \in Nat /\ s = [n \in 1..Len(s) |-> s[n]] /\ \A n \in 1..Len(s) : s[n] \in X
OBVIOUS

\* A row of five of them.
Groups == {1, 2, 4, 8, 16}

LEMMA FiveSteps ==
    ASSUME NEW p \in Block64, NEW s \in Seq(Groups), Len(s) = 5
    PROVE  PermOps(p, s) =
             PermStep(PermStep(PermStep(PermStep(PermStep(p, s[1]), s[2]), s[3]), s[4]), s[5])
<1> DEFINE K == 5
           step == [e \in (1..K) \X Block64 |-> PermStep(e[2], s[e[1]])]
           permuted[n \in 0..Len(s)] ==
               IF n = 0 THEN p ELSE Swapped(PermOp(permuted[n - 1], s[n]))
<1>1. K \in Nat /\ \A n \in 1..K : s[n] \in {1, 2, 4, 8, 16}
  <2>1. \A n \in 1..Len(s) : s[n] \in Groups
    BY Zenon, ElementIs
  <2>2. QED
    BY <2>1 DEF Groups
<1>2. step \in [(1..K) \X Block64 -> Block64]
  BY <1>1, PermStepUndone
<1>3. ASSUME NEW n \in 1..K, NEW x \in Block64 PROVE step[<<n, x>>] = PermStep(x, s[n])
  OBVIOUS
<1> HIDE DEF step, K
<1>4. PICK f \in [0..K -> Block64] : Runs(f, K, p, step)
  BY <1>1, <1>2, LoopIs
<1>5. f = [n \in 0..K |-> IF n = 0 THEN p ELSE Swapped(PermOp(f[n - 1], s[n]))]
  <2>1. ASSUME NEW n \in 0..K, n # 0 PROVE step[<<n, f[n - 1]>>] = Swapped(PermOp(f[n - 1], s[n]))
    <3>1. n \in 1..K /\ n - 1 \in 0..K
      BY <1>1, <2>1
    <3>2. QED
      BY <1>3, <3>1 DEF PermStep
  <2>2. QED
    BY <1>4, <2>1 DEF Runs
<1>6. permuted = [n \in 0..K |-> IF n = 0 THEN p ELSE Swapped(PermOp(permuted[n - 1], s[n]))]
  BY <1>5 DEF permuted, K
<1>7. PermOps(p, s) = permuted[5]
  BY DEF PermOps, permuted
<1> HIDE DEF permuted
<1>8. permuted[0] = p /\ \A n \in 1..5 : permuted[n] = PermStep(permuted[n - 1], s[n])
  BY <1>6 DEF K, PermStep
<1>9. /\ permuted[1] = PermStep(permuted[0], s[1]) /\ permuted[2] = PermStep(permuted[1], s[2])
      /\ permuted[3] = PermStep(permuted[2], s[3]) /\ permuted[4] = PermStep(permuted[3], s[4])
      /\ permuted[5] = PermStep(permuted[4], s[5])
  BY <1>8
<1>10. QED
  BY <1>7, <1>8, <1>9

LEMMA FiveUndone ==
    ASSUME NEW p \in Block64, NEW a \in Groups, NEW b \in Groups, NEW c \in Groups,
           NEW d \in Groups, NEW e \in Groups
    PROVE  /\ PermOps(p, <<a, b, c, d, e>>) \in Block64
           /\ PermOps(Swapped(PermOps(p, <<a, b, c, d, e>>)), <<e, d, c, b, a>>) = Swapped(p)
<1> DEFINE p1 == PermStep(p, a)
           p2 == PermStep(p1, b)
           p3 == PermStep(p2, c)
           p4 == PermStep(p3, d)
           p5 == PermStep(p4, e)
<1>1. \A q \in Block64 : \A n \in Groups :
         PermStep(q, n) \in Block64 /\ PermStep(Swapped(PermStep(q, n)), n) = Swapped(q)
  BY PermStepUndone DEF Groups
<1>2. p1 \in Block64 /\ PermStep(Swapped(p1), a) = Swapped(p)
  BY <1>1
<1> HIDE DEF p1
<1>3. p2 \in Block64 /\ PermStep(Swapped(p2), b) = Swapped(p1)
  BY <1>1, <1>2
<1> HIDE DEF p2
<1>4. p3 \in Block64 /\ PermStep(Swapped(p3), c) = Swapped(p2)
  BY <1>1, <1>3
<1> HIDE DEF p3
<1>5. p4 \in Block64 /\ PermStep(Swapped(p4), d) = Swapped(p3)
  BY <1>1, <1>4
<1> HIDE DEF p4
<1>6. p5 \in Block64 /\ PermStep(Swapped(p5), e) = Swapped(p4)
  BY <1>1, <1>5
<1> HIDE DEF p5
<1>7. Swapped(p5) \in Block64
  BY <1>6, SwappedIs
<1>8. \A q \in Block64, v \in Groups, w \in Groups, x \in Groups, y \in Groups, z \in Groups :
         PermOps(q, <<v, w, x, y, z>>) =
           PermStep(PermStep(PermStep(PermStep(PermStep(q, v), w), x), y), z)
  <2>1. TAKE q \in Block64, v \in Groups, w \in Groups, x \in Groups, y \in Groups, z \in Groups
  <2> DEFINE s == <<v, w, x, y, z>>
  <2>2. /\ s \in Seq(Groups) /\ Len(s) = 5
        /\ s[1] = v /\ s[2] = w /\ s[3] = x /\ s[4] = y /\ s[5] = z
    OBVIOUS
  <2> HIDE DEF s
  <2>3. PermOps(q, s) =
          PermStep(PermStep(PermStep(PermStep(PermStep(q, s[1]), s[2]), s[3]), s[4]), s[5])
    BY <2>2, FiveSteps
  <2>4. QED
    BY <2>2, <2>3 DEF s
<1>9. PermOps(p, <<a, b, c, d, e>>) = p5
  <2>1. PermOps(p, <<a, b, c, d, e>>) =
          PermStep(PermStep(PermStep(PermStep(PermStep(p, a), b), c), d), e)
    BY <1>8
  <2>2. QED
    BY <2>1 DEF p1, p2, p3, p4, p5
<1>10. PermOps(Swapped(p5), <<e, d, c, b, a>>) = Swapped(p)
  <2>1. PermOps(Swapped(p5), <<e, d, c, b, a>>) =
          PermStep(PermStep(PermStep(PermStep(PermStep(Swapped(p5), e), d), c), b), a)
    BY <1>7, <1>8
  <2>2. QED
    BY <2>1, <1>2, <1>3, <1>4, <1>5, <1>6
<1>11. QED
  BY <1>6, <1>9, <1>10

\* The two permutations of a block undo each other.
LEMMA PermutationsUndone ==
    ASSUME NEW p \in Block64
    PROVE  /\ IP(p) \in Block64 /\ FP(p) \in Block64
           /\ IP(Swapped(FP(Swapped(p)))) = p /\ Swapped(FP(Swapped(IP(p)))) = p
<1> DEFINE q == Swapped(p)
           s == <<4, 16, 2, 8, 1>>
           r == <<1, 8, 2, 16, 4>>
<1>1. q \in Block64 /\ Swapped(q) = p
  BY SwappedIs
<1>2. \A x \in Block64 : /\ PermOps(x, s) \in Block64 /\ PermOps(x, r) \in Block64
                         /\ PermOps(Swapped(PermOps(x, s)), r) = Swapped(x)
                         /\ PermOps(Swapped(PermOps(x, r)), s) = Swapped(x)
  <2>1. 1 \in Groups /\ 2 \in Groups /\ 4 \in Groups /\ 8 \in Groups /\ 16 \in Groups
    BY DEF Groups
  <2>2. QED
    BY <2>1, FiveUndone
<1>3. \A x : IP(x) = PermOps(Swapped(x), s) /\ FP(x) = Swapped(PermOps(x, r))
  BY DEF IP, FP
<1> HIDE DEF s, r, q
<1>4. PermOps(p, r) \in Block64 /\ PermOps(q, r) \in Block64 /\ PermOps(q, s) \in Block64
  BY <1>1, <1>2
<1>5. IP(p) = PermOps(q, s) /\ FP(p) = Swapped(PermOps(p, r)) /\ FP(p) \in Block64
  BY <1>3, <1>4, SwappedIs DEF q
<1>6. IP(Swapped(FP(Swapped(p)))) = p
  <2>1. Swapped(FP(q)) = PermOps(q, r)
    BY <1>3, <1>4, SwappedIs
  <2>2. IP(PermOps(q, r)) = PermOps(Swapped(PermOps(q, r)), s)
    BY <1>3
  <2>3. PermOps(Swapped(PermOps(q, r)), s) = Swapped(q)
    BY <1>1, <1>2
  <2>4. QED
    BY <1>1, <2>1, <2>2, <2>3 DEF q
<1>7. Swapped(FP(Swapped(IP(p)))) = p
  <2> DEFINE x == PermOps(q, s)
  <2>1. x \in Block64 /\ Swapped(x) \in Block64
    BY <1>4, SwappedIs
  <2>2. PermOps(Swapped(x), r) = p
    BY <1>1, <1>2
  <2>3. FP(Swapped(x)) = Swapped(PermOps(Swapped(x), r))
    BY <1>3
  <2>4. Swapped(Swapped(p)) = p
    BY SwappedIs
  <2>5. QED
    BY <1>5, <2>2, <2>3, <2>4
<1>8. QED
  BY <1>4, <1>5, <1>6, <1>7

-----------------------------------------------------------------------------
\* What D_ENCRYPT mixes in is a word, whatever the key is.
LEMMA PlacesAre == \A m \in 1..8, b \in 1..4 : SpPlaces[m][b] \in 0..31
BY DEF SpPlaces

LEMMA SixBitsAre == \A w, low : SixBits(w, low) \in 0..63
<1>1. TAKE w, low
<1> DEFINE B(x) == Bit(w, x)
<1>2. \A x : B(x) \in 0..1
  BY DEF Bit
<1>3. SixBits(w, low) = B(low) + 2 * B(low + 1) + 4 * B(low + 2) + 8 * B(low + 3)
                          + 16 * B(low + 4) + 32 * B(low + 5)
  BY DEF SixBits
<1> HIDE DEF B
<1>4. PICK b0 \in 0..1, b1 \in 0..1, b2 \in 0..1, b3 \in 0..1, b4 \in 0..1, b5 \in 0..1 :
         SixBits(w, low) = b0 + 2 * b1 + 4 * b2 + 8 * b3 + 16 * b4 + 32 * b5
  BY <1>2, <1>3
<1>5. QED
  BY <1>4

LEMMA LookupIs == \A u, t : Lookup(u, t) \in Words
<1>1. TAKE u, t
<1>2. \A m \in 1..8 : \A i \in 0..63 : SPtrans[m][i] \in Words
  <2>1. TAKE m \in 1..8
  <2>2. TAKE i \in 0..63
  <2> DEFINE some == {c \in 1..4 : (SpNibbles[m][i + 1] \div 2^(c - 1)) % 2 = 1}
  <2>3. SPtrans[m][i] = {SpPlaces[m][b] : b \in some}
    BY DEF SPtrans
  <2>4. some \subseteq 1..4
    OBVIOUS
  <2> HIDE DEF some
  <2>5. QED
    BY <2>3, <2>4, PlacesAre DEF Words
<1> DEFINE one(n) == SPtrans[2*n + 1][SixBits(u, 8*n + 2)]
           other(n) == SPtrans[2*n + 2][SixBits(t, 8*n + 2)]
<1>3. \A n \in 0..3 : one(n) \in Words /\ other(n) \in Words
  <2>1. TAKE n \in 0..3
  <2>2. 2*n + 1 \in 1..8 /\ 2*n + 2 \in 1..8
    OBVIOUS
  <2>3. SixBits(u, 8*n + 2) \in 0..63 /\ SixBits(t, 8*n + 2) \in 0..63
    BY SixBitsAre
  <2>4. QED
    BY <1>2, <2>2, <2>3
<1>4. Lookup(u, t) = UNION {one(n) \cup other(n) : n \in 0..3}
  BY DEF Lookup
<1> HIDE DEF one, other
<1>5. QED
  BY <1>3, <1>4 DEF Words

LEMMA ScrambleIs == \A r, key : Scramble(r, key) \in Words
BY LookupIs DEF Scramble

\* A round, done to the halves the other way round, undoes itself.
LEMMA RoundUndone ==
    ASSUME NEW p \in Block64, NEW key
    PROVE  /\ Round(p, key) \in Block64
           /\ Round(Swapped(Round(p, key)), key) = Swapped(p)
<1>1. p = <<p[1], p[2]>> /\ p[1] \in Words /\ p[2] \in Words
  BY SwappedIs
<1> DEFINE m == Scramble(p[2], key)
           x == Xor(p[1], m)
<1>2. m \in Words
  BY ScrambleIs
<1>3. Round(p, key) = <<p[2], x>>
  BY DEF Round
<1>4. x \in Words /\ Xor(x, m) = p[1]
  <2> HIDE DEF m
  <2>1. QED
    BY <1>1, <1>2, XorIs
<1>5. Swapped(<<p[2], x>>) = <<x, p[2]>>
  BY DEF Swapped
<1>6. Round(<<x, p[2]>>, key) = <<p[2], Xor(x, m)>>
  <2> HIDE DEF x
  <2>1. QED
    BY DEF Round
<1> HIDE DEF m, x
<1>7. QED
  BY <1>1, <1>3, <1>4, <1>5, <1>6 DEF Block64, Swapped

\* The rounds, one after the other.
LEMMA RoundsAre ==
    ASSUME NEW X, NEW keys \in Seq(X), NEW p \in Block64
    PROVE  \E done \in [0..Len(keys) -> Block64] :
              /\ done[0] = p /\ Rounds(keys)[p] = done[Len(keys)]
              /\ \A n \in 1..Len(keys) : done[n] = Round(done[n - 1], keys[n])
<1> DEFINE K == Len(keys)
           step == [e \in (1..K) \X Block64 |-> Round(e[2], keys[e[1]])]
           done[n \in 0..K] == IF n = 0 THEN p ELSE Round(done[n - 1], keys[n])
<1>1. K \in Nat
  OBVIOUS
<1>2. step \in [(1..K) \X Block64 -> Block64]
  BY RoundUndone
<1>3. ASSUME NEW n \in 1..K, NEW x \in Block64 PROVE step[<<n, x>>] = Round(x, keys[n])
  OBVIOUS
<1>4. Rounds(keys)[p] = done[K]
  BY DEF Rounds, Block64, done, K
<1> HIDE DEF step, K
<1>5. PICK f \in [0..K -> Block64] : Runs(f, K, p, step)
  BY <1>1, <1>2, LoopIs
<1>6. f = [n \in 0..K |-> IF n = 0 THEN p ELSE Round(f[n - 1], keys[n])]
  <2>1. ASSUME NEW n \in 0..K, n # 0 PROVE step[<<n, f[n - 1]>>] = Round(f[n - 1], keys[n])
    <3>1. n \in 1..K /\ n - 1 \in 0..K
      BY <1>1, <2>1
    <3>2. QED
      BY <1>3, <3>1
  <2>2. QED
    BY <1>5, <2>1 DEF Runs
<1>7. done = [n \in 0..K |-> IF n = 0 THEN p ELSE Round(done[n - 1], keys[n])]
  BY <1>6 DEF done
<1> HIDE DEF done
<1>8. done[0] = p /\ \A n \in 1..K : done[n] = Round(done[n - 1], keys[n])
  BY <1>1, <1>7
<1>9. \A n \in 0..K : done[n] \in Block64
  <2> DEFINE T == {n \in 0..K : done[n] \in Block64}
  <2>1. 0 \in T
    BY <1>1, <1>8
  <2>2. ASSUME NEW n \in 1..K, n - 1 \in T PROVE n \in T
    BY <1>1, <1>8, <2>2, RoundUndone
  <2> HIDE DEF T
  <2>3. \A n \in 0..K : n \in T
    BY <1>1, <2>1, <2>2, Reached
  <2>4. QED
    BY <2>3 DEF T
<1>10. done \in [0..K -> Block64]
  BY <1>7, <1>9
<1>11. QED
  BY <1>4, <1>8, <1>10 DEF K

\* The other way round: the first is the last one.
LEMMA Reversed ==
    ASSUME NEW X, NEW s \in Seq(X)
    PROVE  /\ Reverse(s) \in Seq(X) /\ Len(Reverse(s)) = Len(s) /\ Reverse(Reverse(s)) = s
           /\ \A n \in 1..Len(s) : Reverse(s)[n] = s[Len(s) - n + 1]
<1>1. Reverse(s) \in Seq(X) /\ Len(Reverse(s)) = Len(s)
  BY DEF Reverse
<1>2. \A n \in 1..Len(s) : Reverse(s)[n] = s[Len(s) - n + 1]
  BY DEF Reverse
<1>3. Reverse(Reverse(s)) = s
  <2> DEFINE r == Reverse(s)
  <2>1. r \in Seq(X) /\ Len(r) = Len(s)
    BY <1>1
  <2>2. \A n \in 1..Len(s) : r[n] = s[Len(s) - n + 1]
    BY <1>2
  <2> HIDE DEF r
  <2>3. Reverse(r) = [n \in 1..Len(s) |-> r[Len(s) - n + 1]]
    BY <2>1 DEF Reverse
  <2>4. \A n \in 1..Len(s) : r[Len(s) - n + 1] = s[n]
    <3>1. TAKE n \in 1..Len(s)
    <3>2. Len(s) - n + 1 \in 1..Len(s) /\ Len(s) - (Len(s) - n + 1) + 1 = n
      OBVIOUS
    <3>3. QED
      BY <2>2, <3>2
  <2>5. s = [n \in 1..Len(s) |-> s[n]]
    OBVIOUS
  <2>6. QED
    BY <2>3, <2>4, <2>5 DEF r
<1>4. QED
  BY <1>1, <1>2, <1>3

\* The rounds undo themselves when the keys come in the other order.
LEMMA RoundsUndone ==
    ASSUME NEW X, NEW keys \in Seq(X), NEW p \in Block64
    PROVE  /\ Rounds(keys)[p] \in Block64
           /\ Rounds(Reverse(keys))[Swapped(Rounds(keys)[p])] = Swapped(p)
<1> DEFINE K == Len(keys)
           back == Reverse(keys)
<1>1. K \in Nat
  OBVIOUS
<1>2. PICK f \in [0..K -> Block64] :
         /\ f[0] = p /\ Rounds(keys)[p] = f[K]
         /\ \A n \in 1..K : f[n] = Round(f[n - 1], keys[n])
  BY RoundsAre
<1>3. /\ back \in Seq(X) /\ Len(back) = K
      /\ \A n \in 1..K : back[n] = keys[K - n + 1]
  BY Reversed
<1> HIDE DEF K, back
<1>4. f[K] \in Block64 /\ Swapped(f[K]) \in Block64
  BY <1>1, <1>2, SwappedIs
<1>5. PICK g \in [0..K -> Block64] :
         /\ g[0] = Swapped(f[K]) /\ Rounds(back)[Swapped(f[K])] = g[K]
         /\ \A n \in 1..K : g[n] = Round(g[n - 1], back[n])
  BY <1>3, <1>4, RoundsAre
<1> DEFINE T == {n \in 0..K : g[n] = Swapped(f[K - n])}
<1>6. 0 \in T
  BY <1>1, <1>5
<1>7. ASSUME NEW n \in 1..K, n - 1 \in T PROVE n \in T
  <2> DEFINE m == K - n
  <2>1. m \in 0..K /\ m + 1 \in 1..K /\ K - (n - 1) = m + 1 /\ m + 1 - 1 = m /\ n \in 0..K
    BY <1>1
  <2>2. g[n - 1] = Swapped(f[m + 1])
    BY <1>7, <2>1
  <2>3. f[m + 1] = Round(f[m], keys[m + 1])
    BY <1>2, <2>1
  <2>4. back[n] = keys[m + 1]
    BY <1>3
  <2>5. g[n] = Round(Swapped(f[m + 1]), keys[m + 1])
    BY <1>5, <2>2, <2>4
  <2>6. f[m] \in Block64
    BY <1>2, <2>1
  <2>7. g[n] = Swapped(f[m])
    BY <2>3, <2>5, <2>6, RoundUndone
  <2>8. QED
    BY <2>1, <2>7
<1>8. \A n \in 0..K : n \in T
  <2> HIDE DEF T
  <2>1. QED
    BY <1>1, <1>6, <1>7, Reached
<1>9. g[K] = Swapped(f[0])
  BY <1>1, <1>8
<1>10. QED
  BY <1>2, <1>4, <1>5, <1>9 DEF back

\* des_encrypt2 and the same with the other direction.
LEMMA Encrypt2Undone ==
    ASSUME NEW X, NEW ks \in Seq(X), NEW b \in Block64, NEW encrypt \in BOOLEAN
    PROVE  /\ Encrypt2(b, ks, encrypt) \in Block64
           /\ Encrypt2(Encrypt2(b, ks, encrypt), ks, ~encrypt) = b
<1> DEFINE keys(e) == IF e THEN ks ELSE Reverse(ks)
           y == RorBoth(b, 29)
           z == Rounds(keys(encrypt))[Swapped(y)]
<1>1. \A e \in BOOLEAN : keys(e) \in Seq(X) /\ keys(~e) = Reverse(keys(e))
  BY Reversed
<1>2. \A c, e : Encrypt2(c, ks, e) = RorBoth(Rounds(keys(e))[Swapped(RorBoth(c, 29))], 3)
  BY DEF Encrypt2
<1> HIDE DEF keys
<1>3. y \in Block64 /\ RorBoth(y, 3) = b /\ Swapped(y) \in Block64 /\ Swapped(Swapped(y)) = y
  BY RorBothIs, SwappedIs
<1> HIDE DEF y
<1>4. z \in Block64 /\ Rounds(Reverse(keys(encrypt)))[Swapped(z)] = y
  <2>1. keys(encrypt) \in Seq(X)
    BY <1>1
  <2>2. z \in Block64 /\ Rounds(Reverse(keys(encrypt)))[Swapped(z)] = Swapped(Swapped(y))
    BY <1>3, <2>1, RoundsUndone
  <2>3. QED
    BY <1>3, <2>2
<1>5. Encrypt2(b, ks, encrypt) = RorBoth(z, 3)
  BY <1>2 DEF y
<1> HIDE DEF z
<1>6. RorBoth(z, 3) \in Block64 /\ RorBoth(RorBoth(z, 3), 29) = z
  BY <1>4, RorBothIs
<1>7. Encrypt2(RorBoth(z, 3), ks, ~encrypt) = RorBoth(Rounds(keys(~encrypt))[Swapped(z)], 3)
  BY <1>2, <1>6
<1>8. Encrypt2(RorBoth(z, 3), ks, ~encrypt) = b
  BY <1>1, <1>3, <1>4, <1>7
<1>9. QED
  BY <1>5, <1>6, <1>8

\* The passes of des_encrypt2 on a block, each with its keys and its direction.
PassesWith(X) == Seq(X) \X BOOLEAN
Pass(b, pass) == Encrypt2(b, pass[1], pass[2])

LEMMA PassUndone ==
    ASSUME NEW X, NEW pass \in PassesWith(X), NEW b \in Block64
    PROVE  /\ Pass(b, pass) \in Block64
           /\ Pass(Pass(b, pass), <<pass[1], ~pass[2]>>) = b
<1>1. PICK ks \in Seq(X), e \in BOOLEAN : pass = <<ks, e>>
  BY DEF PassesWith
<1>2. Encrypt2(b, ks, e) \in Block64 /\ Encrypt2(Encrypt2(b, ks, e), ks, ~e) = b
  BY Encrypt2Undone
<1>3. \A c : Pass(c, pass) = Encrypt2(c, ks, e) /\ Pass(c, <<ks, ~e>>) = Encrypt2(c, ks, ~e)
  BY <1>1 DEF Pass
<1>4. <<pass[1], ~pass[2]>> = <<ks, ~e>>
  BY <1>1
<1>5. QED
  BY <1>2, <1>3, <1>4

LEMMA PassesAre ==
    ASSUME NEW X, NEW passes \in Seq(PassesWith(X)), NEW b \in Block64
    PROVE  \E passed \in [0..Len(passes) -> Block64] :
              /\ passed[0] = IP(b)
              /\ Passes(b, passes) = Swapped(FP(Swapped(passed[Len(passes)])))
              /\ \A n \in 1..Len(passes) : passed[n] = Pass(passed[n - 1], passes[n])
<1> DEFINE K == Len(passes)
           step == [e \in (1..K) \X Block64 |-> Pass(e[2], passes[e[1]])]
           passed[n \in 0..Len(passes)] ==
               IF n = 0 THEN IP(b) ELSE Encrypt2(passed[n - 1], passes[n][1], passes[n][2])
<1>1. K \in Nat /\ \A n \in 1..K : passes[n] \in PassesWith(X)
  BY ElementIs
<1>2. IP(b) \in Block64
  BY PermutationsUndone
<1>3. step \in [(1..K) \X Block64 -> Block64]
  BY <1>1, PassUndone
<1>4. ASSUME NEW n \in 1..K, NEW x \in Block64 PROVE step[<<n, x>>] = Pass(x, passes[n])
  OBVIOUS
<1>5. Passes(b, passes) = Swapped(FP(Swapped(passed[K])))
  BY DEF Passes, passed, K
<1> HIDE DEF step
<1>6. PICK f \in [0..K -> Block64] : Runs(f, K, IP(b), step)
  <2> HIDE DEF K
  <2>1. QED
    BY <1>1, <1>2, <1>3, LoopIs
<1>7. f = [n \in 0..K |-> IF n = 0 THEN IP(b) ELSE Encrypt2(f[n - 1], passes[n][1], passes[n][2])]
  <2> HIDE DEF K
  <2>1. ASSUME NEW n \in 0..K, n # 0
        PROVE  step[<<n, f[n - 1]>>] = Encrypt2(f[n - 1], passes[n][1], passes[n][2])
    <3>1. n \in 1..K /\ n - 1 \in 0..K
      BY <1>1, <2>1
    <3>2. QED
      BY <1>4, <3>1 DEF Pass
  <2>2. QED
    BY <1>6, <2>1 DEF Runs
<1>8. passed = [n \in 0..K |-> IF n = 0 THEN IP(b)
                               ELSE Encrypt2(passed[n - 1], passes[n][1], passes[n][2])]
  BY <1>7 DEF passed, K
<1> HIDE DEF passed, K
<1>9. passed[0] = IP(b) /\ \A n \in 1..K : passed[n] = Pass(passed[n - 1], passes[n])
  BY <1>1, <1>8 DEF Pass
<1>10. \A n \in 0..K : passed[n] \in Block64
  <2> DEFINE T == {n \in 0..K : passed[n] \in Block64}
  <2>1. 0 \in T
    BY <1>1, <1>2, <1>9
  <2>2. ASSUME NEW n \in 1..K, n - 1 \in T PROVE n \in T
    <3>1. n \in 0..K /\ n - 1 \in 0..K /\ passed[n - 1] \in Block64
      BY <1>1, <2>2
    <3>2. passes[n] \in PassesWith(X)
      BY <1>1
    <3>3. Pass(passed[n - 1], passes[n]) \in Block64
      BY Zenon, <3>1, <3>2, PassUndone
    <3>4. QED
      BY <1>9, <3>1, <3>3
  <2> HIDE DEF T
  <2>3. \A n \in 0..K : n \in T
    BY <1>1, <2>1, <2>2, Reached
  <2>4. QED
    BY <2>3 DEF T
<1>11. passed \in [0..K -> Block64]
  BY <1>8, <1>10
<1>12. QED
  BY <1>5, <1>9, <1>11 DEF K

\* The passes, each in the other direction and the last one first, give the block back.
Other(pass) == <<pass[1], ~pass[2]>>
Opposite(passes, others) ==
    /\ Len(others) = Len(passes)
    /\ \A n \in 1..Len(passes) : others[n] = Other(passes[Len(passes) - n + 1])

LEMMA PassesUndone ==
    ASSUME NEW X, NEW passes \in Seq(PassesWith(X)), NEW b \in Block64,
           NEW others \in Seq(PassesWith(X)), Opposite(passes, others)
    PROVE  Passes(b, passes) \in Block64 /\ Passes(Passes(b, passes), others) = b
<1> DEFINE K == Len(passes)
           c == Passes(b, passes)
<1>1. K \in Nat /\ \A n \in 1..K : passes[n] \in PassesWith(X)
  BY ElementIs
<1>2. PICK f \in [0..K -> Block64] :
         /\ f[0] = IP(b) /\ c = Swapped(FP(Swapped(f[K])))
         /\ \A n \in 1..K : f[n] = Pass(f[n - 1], passes[n])
  BY PassesAre
<1>3. /\ Len(others) = K
      /\ \A n \in 1..K : others[n] = <<passes[K - n + 1][1], ~passes[K - n + 1][2]>>
  BY DEF Opposite, Other
<1> HIDE DEF K, c
<1>4. f[K] \in Block64 /\ c \in Block64 /\ IP(c) = f[K]
  <2>1. f[K] \in Block64
    BY <1>1, <1>2
  <2>2. Swapped(f[K]) \in Block64
    BY <2>1, SwappedIs
  <2>3. FP(Swapped(f[K])) \in Block64
    BY <2>2, PermutationsUndone
  <2>4. c \in Block64
    BY <1>2, <2>3, SwappedIs
  <2>5. IP(c) = f[K]
    BY <1>2, <2>1, PermutationsUndone
  <2>6. QED
    BY <2>1, <2>4, <2>5
<1>5. PICK g \in [0..K -> Block64] :
         /\ g[0] = IP(c) /\ Passes(c, others) = Swapped(FP(Swapped(g[K])))
         /\ \A n \in 1..K : g[n] = Pass(g[n - 1], others[n])
  <2>1. \E g \in [0..Len(others) -> Block64] :
         /\ g[0] = IP(c) /\ Passes(c, others) = Swapped(FP(Swapped(g[Len(others)])))
         /\ \A n \in 1..Len(others) : g[n] = Pass(g[n - 1], others[n])
    BY <1>4, PassesAre
  <2>2. QED
    BY <1>3, <2>1
<1> DEFINE T == {n \in 0..K : g[n] = f[K - n]}
<1>6. 0 \in T
  BY <1>1, <1>4, <1>5
<1>7. ASSUME NEW n \in 1..K, n - 1 \in T PROVE n \in T
  <2> DEFINE m == K - n
  <2>1. m \in 0..K /\ m + 1 \in 1..K /\ K - (n - 1) = m + 1 /\ K - n + 1 = m + 1
        /\ m + 1 - 1 = m /\ n \in 0..K
    BY <1>1
  <2>2. g[n - 1] = f[m + 1]
    BY <1>7, <2>1
  <2>3. f[m + 1] = Pass(f[m], passes[m + 1])
    BY <1>2, <2>1
  <2>4. others[n] = <<passes[m + 1][1], ~passes[m + 1][2]>>
    BY <1>3, <2>1
  <2>5. g[n] = Pass(f[m + 1], others[n])
    BY <1>5, <2>2
  <2>6. f[m] \in Block64 /\ passes[m + 1] \in PassesWith(X)
    BY <1>1, <1>2, <2>1
  <2> HIDE DEF m
  <2>7. Pass(Pass(f[m], passes[m + 1]), <<passes[m + 1][1], ~passes[m + 1][2]>>) = f[m]
    BY Zenon, <2>6, PassUndone
  <2>8. g[n] = f[m]
    BY <2>3, <2>4, <2>5, <2>7
  <2>9. QED
    BY <2>1, <2>8 DEF m
<1>8. \A n \in 0..K : n \in T
  <2> HIDE DEF T
  <2>1. QED
    BY <1>1, <1>6, <1>7, Reached
<1>9. g[K] = IP(b)
  BY <1>1, <1>2, <1>8
<1>10. Passes(c, others) = b
  BY <1>5, <1>9, PermutationsUndone
<1>11. QED
  BY <1>4, <1>10 DEF c

-----------------------------------------------------------------------------
\* Bytes and words.
LEMMA TwoToThe ==
    /\ 2^0 = 1 /\ 2^1 = 2 /\ 2^2 = 4 /\ 2^3 = 8
    /\ 2^4 = 16 /\ 2^5 = 32 /\ 2^6 = 64 /\ 2^7 = 128
OBVIOUS

\* The bits of a byte add up to it, and are those that were added up.
BitsAddUp(x, b0, b1, b2, b3, b4, b5, b6, b7) ==
    x = b0 + 2 * b1 + 4 * b2 + 8 * b3 + 16 * b4 + 32 * b5 + 64 * b6 + 128 * b7
OneBit(x, j) == (x \div 2^j) % 2 = 1

LEMMA BitsOfSum ==
    ASSUME NEW b0 \in 0..1, NEW b1 \in 0..1, NEW b2 \in 0..1, NEW b3 \in 0..1,
           NEW b4 \in 0..1, NEW b5 \in 0..1, NEW b6 \in 0..1, NEW b7 \in 0..1,
           NEW x, BitsAddUp(x, b0, b1, b2, b3, b4, b5, b6, b7)
    PROVE  /\ x \in Byte
           /\ OneBit(x, 0) <=> b0 = 1
           /\ OneBit(x, 1) <=> b1 = 1
           /\ OneBit(x, 2) <=> b2 = 1
           /\ OneBit(x, 3) <=> b3 = 1
           /\ OneBit(x, 4) <=> b4 = 1
           /\ OneBit(x, 5) <=> b5 = 1
           /\ OneBit(x, 6) <=> b6 = 1
           /\ OneBit(x, 7) <=> b7 = 1
<1>1. x = b0 + 2 * b1 + 4 * b2 + 8 * b3 + 16 * b4 + 32 * b5 + 64 * b6 + 128 * b7
  BY DEF BitsAddUp
<1>2. x \in Byte
  BY <1>1 DEF Byte
<1>3. OneBit(x, 0) <=> b0 = 1
  BY <1>1, TwoToThe DEF OneBit
<1>4. OneBit(x, 1) <=> b1 = 1
  BY <1>1, TwoToThe DEF OneBit
<1>5. OneBit(x, 2) <=> b2 = 1
  BY <1>1, TwoToThe DEF OneBit
<1>6. OneBit(x, 3) <=> b3 = 1
  BY <1>1, TwoToThe DEF OneBit
<1>7. OneBit(x, 4) <=> b4 = 1
  BY <1>1, TwoToThe DEF OneBit
<1>8. OneBit(x, 5) <=> b5 = 1
  BY <1>1, TwoToThe DEF OneBit
<1>9. OneBit(x, 6) <=> b6 = 1
  BY <1>1, TwoToThe DEF OneBit
<1>10. OneBit(x, 7) <=> b7 = 1
  BY <1>1, TwoToThe DEF OneBit
<1>11. QED
  BY <1>2, <1>3, <1>4, <1>5, <1>6, <1>7, <1>8, <1>9, <1>10

LEMMA SumOfBits ==
    ASSUME NEW x \in Byte
    PROVE  \E b0 \in 0..1, b1 \in 0..1, b2 \in 0..1, b3 \in 0..1,
              b4 \in 0..1, b5 \in 0..1, b6 \in 0..1, b7 \in 0..1 :
              BitsAddUp(x, b0, b1, b2, b3, b4, b5, b6, b7)
<1> DEFINE x1 == x \div 2
           x2 == x1 \div 2
           x3 == x2 \div 2
           x4 == x3 \div 2
           x5 == x4 \div 2
           x6 == x5 \div 2
           x7 == x6 \div 2
<1>1. x \in 0..255 /\ x1 \in 0..127 /\ x2 \in 0..63 /\ x3 \in 0..31
      /\ x4 \in 0..15 /\ x5 \in 0..7 /\ x6 \in 0..3 /\ x7 \in 0..1
  BY DEF Byte
<1>2. \A y \in Nat : y % 2 \in 0..1 /\ y = 2 * (y \div 2) + (y % 2)
  OBVIOUS
<1>3. /\ x = 2 * x1 + (x % 2) /\ x1 = 2 * x2 + (x1 % 2) /\ x2 = 2 * x3 + (x2 % 2)
      /\ x3 = 2 * x4 + (x3 % 2) /\ x4 = 2 * x5 + (x4 % 2) /\ x5 = 2 * x6 + (x5 % 2)
      /\ x6 = 2 * x7 + (x6 % 2)
  BY <1>1, <1>2
<1> HIDE DEF x1, x2, x3, x4, x5, x6, x7
<1>4. PICK b0 \in 0..1, b1 \in 0..1, b2 \in 0..1, b3 \in 0..1, b4 \in 0..1, b5 \in 0..1,
           b6 \in 0..1 :
         /\ x = 2 * x1 + b0 /\ x1 = 2 * x2 + b1 /\ x2 = 2 * x3 + b2
         /\ x3 = 2 * x4 + b3 /\ x4 = 2 * x5 + b4 /\ x5 = 2 * x6 + b5 /\ x6 = 2 * x7 + b6
  <2>1. /\ x % 2 \in 0..1 /\ x1 % 2 \in 0..1 /\ x2 % 2 \in 0..1 /\ x3 % 2 \in 0..1
        /\ x4 % 2 \in 0..1 /\ x5 % 2 \in 0..1 /\ x6 % 2 \in 0..1
    BY <1>1, <1>2
  <2>2. QED
    BY <1>3, <2>1, Zenon
<1>5. BitsAddUp(x, b0, b1, b2, b3, b4, b5, b6, x7)
  BY <1>1, <1>4 DEF BitsAddUp
<1>6. QED
  BY Zenon, <1>1, <1>5

LEMMA EightBitsAre ==
    ASSUME NEW w, NEW low \in Nat
    PROVE  /\ EightBits(w, low) \in Byte
           /\ \A j \in 0..7 : OneBit(EightBits(w, low), j) <=> low + j \in w
<1> DEFINE x == EightBits(w, low)
<1>1. \A b : Bit(w, b) \in 0..1 /\ (Bit(w, b) = 1 <=> b \in w)
  BY DEF Bit
<1>2. PICK b0 \in 0..1, b1 \in 0..1, b2 \in 0..1, b3 \in 0..1, b4 \in 0..1, b5 \in 0..1,
           b6 \in 0..1, b7 \in 0..1 :
         /\ b0 = Bit(w, low) /\ b1 = Bit(w, low + 1) /\ b2 = Bit(w, low + 2)
         /\ b3 = Bit(w, low + 3) /\ b4 = Bit(w, low + 4) /\ b5 = Bit(w, low + 5)
         /\ b6 = Bit(w, low + 6) /\ b7 = Bit(w, low + 7)
  BY <1>1, Zenon
<1>3. BitsAddUp(x, b0, b1, b2, b3, b4, b5, b6, b7)
  BY <1>2 DEF EightBits, SixBits, BitsAddUp
<1> HIDE DEF x
<1>4. /\ x \in Byte
      /\ OneBit(x, 0) <=> b0 = 1
      /\ OneBit(x, 1) <=> b1 = 1
      /\ OneBit(x, 2) <=> b2 = 1
      /\ OneBit(x, 3) <=> b3 = 1
      /\ OneBit(x, 4) <=> b4 = 1
      /\ OneBit(x, 5) <=> b5 = 1
      /\ OneBit(x, 6) <=> b6 = 1
      /\ OneBit(x, 7) <=> b7 = 1
  BY <1>3, BitsOfSum
<1>5. \A j \in 0..7 : OneBit(x, j) <=> low + j \in w
  <2>1. low + 0 = low /\ \A j \in 0..7 : j \in {0, 1, 2, 3, 4, 5, 6, 7}
    OBVIOUS
  <2>2. /\ OneBit(x, 0) <=> low \in w
        /\ OneBit(x, 1) <=> low + 1 \in w
        /\ OneBit(x, 2) <=> low + 2 \in w
        /\ OneBit(x, 3) <=> low + 3 \in w
        /\ OneBit(x, 4) <=> low + 4 \in w
        /\ OneBit(x, 5) <=> low + 5 \in w
        /\ OneBit(x, 6) <=> low + 6 \in w
        /\ OneBit(x, 7) <=> low + 7 \in w
    BY Zenon, <1>1, <1>2, <1>4
  <2>3. QED
    BY <2>1, <2>2
<1>6. QED
  BY <1>4, <1>5 DEF x

\* Two bytes are the same if their bits are.
LEMMA SameBits ==
    ASSUME NEW x \in Byte, NEW y \in Byte, \A j \in 0..7 : OneBit(x, j) <=> OneBit(y, j)
    PROVE  x = y
<1>1. PICK b0 \in 0..1, b1 \in 0..1, b2 \in 0..1, b3 \in 0..1, b4 \in 0..1, b5 \in 0..1,
           b6 \in 0..1, b7 \in 0..1 : BitsAddUp(x, b0, b1, b2, b3, b4, b5, b6, b7)
  BY SumOfBits
<1>2. PICK c0 \in 0..1, c1 \in 0..1, c2 \in 0..1, c3 \in 0..1, c4 \in 0..1, c5 \in 0..1,
           c6 \in 0..1, c7 \in 0..1 : BitsAddUp(y, c0, c1, c2, c3, c4, c5, c6, c7)
  BY SumOfBits
<1>3. /\ OneBit(x, 0) <=> b0 = 1
      /\ OneBit(x, 1) <=> b1 = 1
      /\ OneBit(x, 2) <=> b2 = 1
      /\ OneBit(x, 3) <=> b3 = 1
      /\ OneBit(x, 4) <=> b4 = 1
      /\ OneBit(x, 5) <=> b5 = 1
      /\ OneBit(x, 6) <=> b6 = 1
      /\ OneBit(x, 7) <=> b7 = 1
  BY Zenon, <1>1, BitsOfSum
<1>4. /\ OneBit(y, 0) <=> c0 = 1
      /\ OneBit(y, 1) <=> c1 = 1
      /\ OneBit(y, 2) <=> c2 = 1
      /\ OneBit(y, 3) <=> c3 = 1
      /\ OneBit(y, 4) <=> c4 = 1
      /\ OneBit(y, 5) <=> c5 = 1
      /\ OneBit(y, 6) <=> c6 = 1
      /\ OneBit(y, 7) <=> c7 = 1
  BY Zenon, <1>2, BitsOfSum
<1>5. /\ 0 \in 0..7 /\ 1 \in 0..7 /\ 2 \in 0..7 /\ 3 \in 0..7
      /\ 4 \in 0..7 /\ 5 \in 0..7 /\ 6 \in 0..7 /\ 7 \in 0..7
  OBVIOUS
<1>6. /\ b0 = 1 <=> c0 = 1
      /\ b1 = 1 <=> c1 = 1
      /\ b2 = 1 <=> c2 = 1
      /\ b3 = 1 <=> c3 = 1
      /\ b4 = 1 <=> c4 = 1
      /\ b5 = 1 <=> c5 = 1
      /\ b6 = 1 <=> c6 = 1
      /\ b7 = 1 <=> c7 = 1
  BY Zenon, <1>3, <1>4, <1>5
<1>7. b0 = c0 /\ b1 = c1 /\ b2 = c2 /\ b3 = c3 /\ b4 = c4 /\ b5 = c5 /\ b6 = c6 /\ b7 = c7
  BY <1>6
<1>8. QED
  BY <1>1, <1>2, <1>7 DEF BitsAddUp

LEMMA NoBits == \A j \in 0..7 : ~OneBit(0, j)
<1>1. \A m \in {1, 2, 4, 8, 16, 32, 64, 128} : (0 \div m) % 2 # 1
  OBVIOUS
<1>2. \A j \in 0..7 : 2^j \in {1, 2, 4, 8, 16, 32, 64, 128}
  <2>1. \A j \in 0..7 : j \in {0, 1, 2, 3, 4, 5, 6, 7}
    OBVIOUS
  <2>2. QED
    BY <2>1, TwoToThe
<1>3. QED
  BY <1>1, <1>2 DEF OneBit

\* c2l: the bits of the bytes, those of the first one lowest.
ByteOr0(bytes, i) == IF i < Len(bytes) THEN bytes[i + 1] ELSE 0

LEMMA C2lIs ==
    ASSUME NEW bytes \in Seq(Byte), Len(bytes) <= 4
    PROVE  /\ C2l(bytes) \in Words
           /\ \A i \in 0..3 : EightBits(C2l(bytes), 8 * i) = ByteOr0(bytes, i)
<1> DEFINE w == C2l(bytes)
<1>1. w \in Words
  BY DEF C2l, Words
<1>2. ASSUME NEW i \in 0..3 PROVE EightBits(w, 8 * i) = ByteOr0(bytes, i)
  <2> DEFINE x == EightBits(w, 8 * i)
             y == ByteOr0(bytes, i)
  <2>1. x \in Byte /\ \A j \in 0..7 : OneBit(x, j) <=> 8 * i + j \in w
    <3>1. 8 * i \in Nat
      OBVIOUS
    <3> HIDE DEF w
    <3>2. QED
      BY Zenon, <3>1, EightBitsAre
  <2>2. y \in Byte
    <3>1. CASE i < Len(bytes)
      <4>1. i + 1 \in 1..Len(bytes)
        BY <3>1
      <4>2. bytes[i + 1] \in Byte
        BY Zenon, <4>1, ElementIs
      <4>3. QED
        BY <3>1, <4>2 DEF ByteOr0
    <3>2. CASE ~(i < Len(bytes))
      BY <3>2 DEF ByteOr0, Byte
    <3>3. QED
      BY <3>1, <3>2
  <2>3. ASSUME NEW j \in 0..7 PROVE 8 * i + j \in w <=> OneBit(y, j)
    <3> DEFINE b == 8 * i + j
    <3>1. b \in 0..31 /\ b \div 8 = i /\ b % 8 = j
      OBVIOUS
    <3>2. w = {c \in 0..31 : c \div 8 < Len(bytes) /\ OneBit(bytes[c \div 8 + 1], c % 8)}
      BY DEF C2l, OneBit
    <3> HIDE DEF w, b
    <3>3. b \in w <=> i < Len(bytes) /\ OneBit(bytes[i + 1], j)
      BY <3>1, <3>2
    <3>4. ~OneBit(0, j)
      BY NoBits
    <3>5. QED
      BY <3>3, <3>4 DEF ByteOr0, b
  <2> HIDE DEF w, x, y
  <2>4. x = y
    BY <2>1, <2>2, <2>3, SameBits
  <2>5. QED
    BY <2>4 DEF x, y
<1>3. QED
  BY <1>1, <1>2

\* l2c writes the bytes that c2l reads.
LEMMA L2cIs ==
    ASSUME NEW w \in Words
    PROVE  /\ L2c(w) \in Seq(Byte) /\ Len(L2c(w)) = 4 /\ C2l(L2c(w)) = w
           /\ \A i \in 1..4 : L2c(w)[i] = EightBits(w, 8 * (i - 1))
<1> DEFINE bytes == L2c(w)
<1>1. \A i \in 1..4 : /\ 8 * (i - 1) \in Nat /\ EightBits(w, 8 * (i - 1)) \in Byte
                      /\ bytes[i] = EightBits(w, 8 * (i - 1))
  BY EightBitsAre DEF L2c
<1>2. bytes = [i \in 1..4 |-> EightBits(w, 8 * (i - 1))]
  BY DEF L2c
<1>3. bytes \in Seq(Byte) /\ Len(bytes) = 4
  <2> HIDE DEF bytes
  <2>1. QED
    BY <1>1, <1>2
<1> HIDE DEF bytes
<1>4. \A c \in 0..31 : c \div 8 < 4 /\ c \div 8 + 1 \in 1..4 /\ c % 8 \in 0..7
                       /\ 8 * (c \div 8 + 1 - 1) + (c % 8) = c
  OBVIOUS
<1>5. \A c \in 0..31 : OneBit(bytes[c \div 8 + 1], c % 8) <=> c \in w
  <2>1. TAKE c \in 0..31
  <2> DEFINE i == c \div 8 + 1
             j == c % 8
  <2>2. i \in 1..4 /\ j \in 0..7 /\ 8 * (i - 1) + j = c
    BY <1>4
  <2> HIDE DEF i, j
  <2>3. bytes[i] = EightBits(w, 8 * (i - 1)) /\ 8 * (i - 1) \in Nat
    BY <1>1, <2>2
  <2>4. OneBit(bytes[i], j) <=> c \in w
    BY <2>2, <2>3, EightBitsAre
  <2>5. QED
    BY <2>4 DEF i, j
<1>6. C2l(bytes) = {c \in 0..31 : c \div 8 < Len(bytes) /\ OneBit(bytes[c \div 8 + 1], c % 8)}
  BY DEF C2l, OneBit
<1>7. C2l(bytes) = w
  <2>1. \A c \in 0..31 : c \div 8 < Len(bytes)
    BY <1>3, <1>4
  <2>2. C2l(bytes) = {c \in 0..31 : c \in w}
    BY Zenon, <1>5, <1>6, <2>1
  <2>3. QED
    BY <2>2 DEF Words
<1>8. QED
  BY <1>1, <1>3, <1>7 DEF bytes

\* A block of eight bytes: its words are written and read.
LEMMA MinOfTwo == \A a \in Int, b \in Int : Min({a, b}) = IF a <= b THEN a ELSE b
<1>1. TAKE a \in Int, b \in Int
<1>2. PICK m \in {a, b} : \A y \in {a, b} : m <= y
  <2>1. CASE a <= b
    BY <2>1
  <2>2. CASE ~(a <= b)
    BY <2>2
  <2>3. QED
    BY <2>1, <2>2
<1>3. Min({a, b}) \in {a, b} /\ \A y \in {a, b} : Min({a, b}) <= y
  BY <1>2 DEF Min
<1>4. QED
  BY <1>3

LEMMA StoreIs ==
    ASSUME NEW block \in Block64, NEW K \in 4..4
    PROVE  /\ Store(block) \in Seq(Byte) /\ Len(Store(block)) = K + K
           /\ Load(Store(block)) = block
           /\ \A i \in 1..K : /\ Store(block)[i] = EightBits(block[1], 8 * (i - 1))
                              /\ Store(block)[K + i] = EightBits(block[2], 8 * (i - 1))
<1> DEFINE a == L2c(block[1])
           b == L2c(block[2])
           s == a \o b
<1>1. block = <<block[1], block[2]>> /\ block[1] \in Words /\ block[2] \in Words
  BY SwappedIs
<1>2. /\ a \in Seq(Byte) /\ Len(a) = K /\ C2l(a) = block[1]
      /\ \A i \in 1..K : a[i] = EightBits(block[1], 8 * (i - 1))
  <2>1. K = 4
    OBVIOUS
  <2>2. QED
    BY <1>1, <2>1, L2cIs
<1>3. /\ b \in Seq(Byte) /\ Len(b) = K /\ C2l(b) = block[2]
      /\ \A i \in 1..K : b[i] = EightBits(block[2], 8 * (i - 1))
  <2>1. K = 4
    OBVIOUS
  <2>2. QED
    BY <1>1, <2>1, L2cIs
<1>4. Store(block) = s
  BY DEF Store
<1> HIDE DEF a, b
<1>5. /\ s \in Seq(Byte) /\ Len(s) = K + K
      /\ \A n \in 1..K : s[n] = a[n]
      /\ \A n \in 1..K : s[K + n] = b[n]
  <2>1. a \in Seq(Byte) /\ b \in Seq(Byte)
    BY <1>2, <1>3
  <2>2. /\ s \in Seq(Byte) /\ Len(s) = Len(a) + Len(b)
        /\ \A n \in 1..Len(a) : s[n] = a[n]
        /\ \A n \in 1..Len(b) : s[Len(a) + n] = b[n]
    BY <2>1
  <2>3. Len(a) = K /\ Len(b) = K
    BY <1>2, <1>3
  <2>4. QED
    BY Zenon, <2>2, <2>3
<1> HIDE DEF s
<1>6. SubSeq(s, 1, K) = a
  <2>1. 0 \in Nat /\ 0 + Len(a) <= Len(s) /\ \A n \in 1..Len(a) : s[0 + n] = a[n]
    BY <1>2, <1>5
  <2>2. SubSeq(s, 0 + 1, 0 + Len(a)) = a
    BY <1>2, <1>5, <2>1, PartIs
  <2>3. QED
    BY <1>2, <2>2
<1>7. SubSeq(s, K + 1, K + K) = b
  <2>1. K \in Nat /\ K + Len(b) <= Len(s) /\ \A n \in 1..Len(b) : s[K + n] = b[n]
    BY <1>3, <1>5
  <2>2. SubSeq(s, K + 1, K + Len(b)) = b
    BY <1>3, <1>5, <2>1, PartIs
  <2>3. QED
    BY <1>3, <2>2
<1>8. Min({4, Len(s)}) = K
  BY <1>5, MinOfTwo
<1>9. Load(s) = <<C2l(a), C2l(b)>>
  <2>1. Load(s) = <<C2l(SubSeq(s, 1, Min({4, Len(s)}))), C2l(SubSeq(s, 5, Len(s)))>>
    BY DEF Load
  <2>2. 5 = K + 1 /\ Len(s) = K + K
    BY <1>5
  <2>3. QED
    BY <1>6, <1>7, <1>8, <2>1, <2>2
<1>10. QED
  BY <1>1, <1>2, <1>3, <1>4, <1>5, <1>9

\* Less than eight bytes are filled with zeros.
Filled(bytes) == [j \in 1..8 |-> IF j <= Len(bytes) THEN bytes[j] ELSE 0]

LEMMA LoadIs ==
    ASSUME NEW bytes \in Seq(Byte), NEW L \in 0..8, L = Len(bytes)
    PROVE  Load(bytes) \in Block64 /\ Store(Load(bytes)) = Filled(bytes)
<1> DEFINE m == Min({4, Len(bytes)})
           a == SubSeq(bytes, 1, m)
           b == SubSeq(bytes, 5, Len(bytes))
<1>1. L \in 0..8 /\ L = Len(bytes)
  OBVIOUS
<1>2. m = IF L >= 4 THEN 4 ELSE L
  BY <1>1, MinOfTwo
<1>3. a \in Seq(Byte) /\ Len(a) = m /\ \A i \in 1..m : a[i] = bytes[i]
  <2> HIDE DEF m
  <2>1. m \in 0..L
    BY <1>1, <1>2
  <2>2. QED
    BY <1>1, <2>1
<1>4. /\ b \in Seq(Byte) /\ Len(b) = IF L >= 4 THEN L - 4 ELSE 0
      /\ \A i \in 1..Len(b) : b[i] = bytes[4 + i]
  BY <1>1
<1>5. Load(bytes) = <<C2l(a), C2l(b)>>
  BY DEF Load
<1> HIDE DEF m, a, b
<1>6. /\ C2l(a) \in Words /\ \A i \in 0..3 : EightBits(C2l(a), 8 * i) = ByteOr0(a, i)
      /\ C2l(b) \in Words /\ \A i \in 0..3 : EightBits(C2l(b), 8 * i) = ByteOr0(b, i)
  <2>1. Len(a) <= 4 /\ Len(b) <= 4
    <3>1. m <= 4 /\ (IF L >= 4 THEN L - 4 ELSE 0) <= 4
      BY <1>1, <1>2
    <3>2. QED
      BY Zenon, <1>3, <1>4, <3>1
  <2>2. a \in Seq(Byte) /\ b \in Seq(Byte)
    BY <1>3, <1>4
  <2>3. QED
    BY Zenon, <2>1, <2>2, C2lIs
<1>7. Load(bytes) \in Block64
  BY <1>5, <1>6 DEF Block64
<1> DEFINE s == Store(Load(bytes))
<1>8. /\ s \in Seq(Byte) /\ Len(s) = 4 + 4
      /\ \A i \in 1..4 : /\ s[i] = EightBits(Load(bytes)[1], 8 * (i - 1))
                         /\ s[4 + i] = EightBits(Load(bytes)[2], 8 * (i - 1))
  BY <1>7, StoreIs
<1>9. Load(bytes)[1] = C2l(a) /\ Load(bytes)[2] = C2l(b)
  BY <1>5
<1> HIDE DEF s
<1>10. \A i \in 1..4 : s[i] = ByteOr0(a, i - 1) /\ s[4 + i] = ByteOr0(b, i - 1)
  <2>1. \A i \in 1..4 : i - 1 \in 0..3
    OBVIOUS
  <2>2. QED
    BY <1>6, <1>8, <1>9, <2>1
<1>11. \A i \in 1..4 : s[i] = Filled(bytes)[i] /\ s[4 + i] = Filled(bytes)[4 + i]
  <2>1. TAKE i \in 1..4
  <2>2. ByteOr0(a, i - 1) = IF i <= L THEN bytes[i] ELSE 0
    BY <1>2, <1>3 DEF ByteOr0
  <2>3. ByteOr0(b, i - 1) = IF 4 + i <= L THEN bytes[4 + i] ELSE 0
    BY <1>4 DEF ByteOr0
  <2>4. i \in 1..8 /\ 4 + i \in 1..8
    OBVIOUS
  <2>5. \A j \in 1..8 : Filled(bytes)[j] = IF j <= L THEN bytes[j] ELSE 0
    BY <1>1 DEF Filled
  <2>6. QED
    BY <1>10, <2>2, <2>3, <2>4, <2>5
<1>12. \A j \in 1..8 : s[j] = Filled(bytes)[j]
  <2>1. \A j \in 1..8 : j \in 1..4 \/ \E i \in 1..4 : j = 4 + i
    <3>1. \A j \in 1..8 : j \in 1..4 \/ (j - 4 \in 1..4 /\ j = 4 + (j - 4))
      OBVIOUS
    <3>2. QED
      BY <3>1
  <2>2. QED
    BY <1>11, <2>1
<1>13. s = [j \in 1..8 |-> s[j]]
  <2>1. PICK n : n = Len(s)
    OBVIOUS
  <2>2. s = [j \in 1..n |-> s[j]] /\ n = 8
    BY <1>8, <2>1
  <2>3. QED
    BY <2>2
<1>14. s = Filled(bytes)
  BY <1>12, <1>13 DEF Filled
<1>15. QED
  BY <1>7, <1>14 DEF s

-----------------------------------------------------------------------------
\* Blocks under one key and under three.
Ciphers(keys) ==
    \A b \in Block64 : /\ Enc(b, keys) \in Block64 /\ Dec(b, keys) \in Block64
                       /\ Dec(Enc(b, keys), keys) = b

LEMMA OppositeOfOne == \A p : Opposite(<<p>>, <<Other(p)>>)
BY DEF Opposite

LEMMA OppositeOfThree == \A p, q, r : Opposite(<<p, q, r>>, <<Other(r), Other(q), Other(p)>>)
<1>1. TAKE p, q, r
<1> DEFINE there == <<p, q, r>>
           back == <<Other(r), Other(q), Other(p)>>
<1>2. Len(there) = 3 /\ Len(back) = 3
  OBVIOUS
<1>3. /\ there[1] = p /\ there[2] = q /\ there[3] = r
      /\ back[1] = Other(r) /\ back[2] = Other(q) /\ back[3] = Other(p)
  OBVIOUS
<1> HIDE DEF there, back
<1>4. ASSUME NEW n \in 1..3 PROVE back[n] = Other(there[3 - n + 1])
  <2>1. n = 1 \/ n = 2 \/ n = 3
    OBVIOUS
  <2>2. QED
    BY <1>3, <2>1
<1>5. Opposite(there, back)
  BY <1>2, <1>4 DEF Opposite
<1>6. QED
  BY <1>5 DEF there, back

LEMMA OneKey ==
    ASSUME NEW X, NEW ks \in Seq(X)
    PROVE  Ciphers(<<ks>>)
<1> DEFINE keys == <<ks>>
           there == <<<<ks, TRUE>>>>
           back == <<<<ks, FALSE>>>>
<1>1. \A b : Enc(b, keys) = Passes(b, there) /\ Dec(b, keys) = Passes(b, back)
  BY DEF Enc, Dec, Encrypt
<1>2. there \in Seq(PassesWith(X)) /\ back \in Seq(PassesWith(X))
  <2>1. <<ks, TRUE>> \in PassesWith(X) /\ <<ks, FALSE>> \in PassesWith(X)
    BY DEF PassesWith
  <2>2. QED
    BY <2>1
<1>3. Opposite(there, back) /\ Opposite(back, there)
  <2>1. <<ks, FALSE>> = Other(<<ks, TRUE>>) /\ <<ks, TRUE>> = Other(<<ks, FALSE>>)
    BY DEF Other
  <2>2. QED
    BY <2>1, OppositeOfOne
<1> HIDE DEF keys, there, back
<1>4. ASSUME NEW b \in Block64
      PROVE  /\ Passes(b, there) \in Block64 /\ Passes(b, back) \in Block64
             /\ Passes(Passes(b, there), back) = b
  BY Zenon, <1>2, <1>3, PassesUndone
<1>5. Ciphers(keys)
  BY <1>1, <1>4 DEF Ciphers
<1>6. QED
  BY <1>5 DEF keys

LEMMA ThreeKeys ==
    ASSUME NEW X, NEW ks1 \in Seq(X), NEW ks2 \in Seq(X), NEW ks3 \in Seq(X)
    PROVE  Ciphers(<<ks1, ks2, ks3>>)
<1> DEFINE keys == <<ks1, ks2, ks3>>
           there == <<<<ks1, TRUE>>, <<ks2, FALSE>>, <<ks3, TRUE>>>>
           back == <<<<ks3, FALSE>>, <<ks2, TRUE>>, <<ks1, FALSE>>>>
<1>1. \A b : Enc(b, keys) = Passes(b, there) /\ Dec(b, keys) = Passes(b, back)
  BY DEF Enc, Dec, Encrypt3, Decrypt3
<1>2. there \in Seq(PassesWith(X)) /\ back \in Seq(PassesWith(X))
  <2>1. \A ks \in Seq(X), e \in BOOLEAN : <<ks, e>> \in PassesWith(X)
    BY DEF PassesWith
  <2>2. \A a \in PassesWith(X), b \in PassesWith(X), c \in PassesWith(X) :
           <<a, b, c>> \in Seq(PassesWith(X))
    OBVIOUS
  <2>3. QED
    BY Zenon, <2>1, <2>2
<1>3. Opposite(there, back) /\ Opposite(back, there)
  <2>1. /\ <<ks3, FALSE>> = Other(<<ks3, TRUE>>)
        /\ <<ks2, TRUE>> = Other(<<ks2, FALSE>>)
        /\ <<ks1, FALSE>> = Other(<<ks1, TRUE>>)
        /\ <<ks3, TRUE>> = Other(<<ks3, FALSE>>)
        /\ <<ks2, FALSE>> = Other(<<ks2, TRUE>>)
        /\ <<ks1, TRUE>> = Other(<<ks1, FALSE>>)
    BY DEF Other
  <2>2. QED
    BY <2>1, OppositeOfThree
<1> HIDE DEF keys, there, back
<1>4. ASSUME NEW b \in Block64
      PROVE  /\ Passes(b, there) \in Block64 /\ Passes(b, back) \in Block64
             /\ Passes(Passes(b, there), back) = b
  BY Zenon, <1>2, <1>3, PassesUndone
<1>5. Ciphers(keys)
  BY <1>1, <1>4 DEF Ciphers
<1>6. QED
  BY <1>5 DEF keys

\* des_set_key: sixteen round keys, whatever the key.
Halves == [1..2 -> SUBSET Int]
RoundKeys == {RoundKey(h) : h \in Halves}
Made == [halves : Halves, ks : Seq(RoundKeys)]

LEMMA NextKeyIs ==
    ASSUME NEW made \in Made, NEW n \in Int
    PROVE  NextKey(made, n) \in Made
<1> DEFINE halves == Turn28(made.halves, n)
<1>1. halves \in Halves
  BY DEF Made, Halves, Turn28
<1>2. NextKey(made, n) = [halves |-> halves, ks |-> Append(made.ks, RoundKey(halves))]
  BY DEF NextKey
<1> HIDE DEF halves
<1>3. RoundKey(halves) \in RoundKeys
  BY <1>1 DEF RoundKeys
<1>4. made.ks \in Seq(RoundKeys)
  BY DEF Made
<1>5. Append(made.ks, RoundKey(halves)) \in Seq(RoundKeys)
  BY <1>3, <1>4
<1>6. QED
  BY <1>1, <1>2, <1>5 DEF Made

LEMMA KeyScheduleIs ==
    ASSUME NEW key, KeyHalves(key) \in Halves
    PROVE  KeySchedule(key) \in Seq(RoundKeys)
<1> DEFINE K == 16
           base == [halves |-> KeyHalves(key), ks |-> <<>>]
           step == [e \in (1..K) \X Made |-> NextKey(e[2], Shifts2[e[1]])]
           made[n \in 0..16] == IF n = 0 THEN [halves |-> KeyHalves(key), ks |-> <<>>]
                                ELSE NextKey(made[n - 1], Shifts2[n])
<1>1. base \in Made
  BY DEF Made
<1>2. \A n \in 1..K : Shifts2[n] \in Int
  BY DEF Shifts2
<1>3. step \in [(1..K) \X Made -> Made]
  BY <1>2, NextKeyIs
<1>4. ASSUME NEW n \in 1..K, NEW x \in Made PROVE step[<<n, x>>] = NextKey(x, Shifts2[n])
  OBVIOUS
<1>5. KeySchedule(key) = made[16].ks
  BY DEF KeySchedule, made
<1>6. K \in Nat /\ K = 16
  OBVIOUS
<1> HIDE DEF step, base
<1>7. PICK f \in [0..K -> Made] : Runs(f, K, base, step)
  <2> HIDE DEF K
  <2>1. QED
    BY <1>1, <1>3, <1>6, LoopIs
<1>8. f = [n \in 0..16 |-> IF n = 0 THEN [halves |-> KeyHalves(key), ks |-> <<>>]
                           ELSE NextKey(f[n - 1], Shifts2[n])]
  <2>1. ASSUME NEW n \in 0..K, n # 0
        PROVE  step[<<n, f[n - 1]>>] = NextKey(f[n - 1], Shifts2[n])
    <3>1. n \in 1..K /\ n - 1 \in 0..K
      BY <2>1
    <3>2. f[n - 1] \in Made
      BY <1>7, <3>1
    <3>3. QED
      BY <1>4, <3>1, <3>2
  <2>2. QED
    BY <1>7, <2>1 DEF Runs, base

<1>9. made = [n \in 0..16 |-> IF n = 0 THEN [halves |-> KeyHalves(key), ks |-> <<>>]
                              ELSE NextKey(made[n - 1], Shifts2[n])]
  BY <1>8 DEF made
<1> HIDE DEF made
<1> DEFINE T == {n \in 0..K : made[n] \in Made}
<1>10. 0 \in T
  BY <1>1, <1>9 DEF base
<1>11. ASSUME NEW n \in 1..K, n - 1 \in T PROVE n \in T
  <2>1. n \in 0..K /\ n # 0 /\ made[n - 1] \in Made /\ Shifts2[n] \in Int
    BY <1>2, <1>11
  <2>2. made[n] = NextKey(made[n - 1], Shifts2[n])
    BY <1>6, <1>9, <2>1
  <2>3. QED
    BY <2>1, <2>2, NextKeyIs
<1>12. \A n \in 0..K : n \in T
  <2> HIDE DEF T, K
  <2>1. QED
    BY <1>6, <1>10, <1>11, Reached
<1>13. made[16] \in Made
  BY <1>12
<1>14. QED
  BY <1>5, <1>13 DEF Made

\* The halves are cut out of the key's bits: numbers, whatever the key is.
LEMMA KeyHalvesAre == \A key : KeyHalves(key) \in Halves
<1>1. TAKE key
<1> DEFINE cd == PermOps(HPermOps(PermOp(Swapped(Load(key)), 4)), <<1, 8, 1>>)
           c == cd[1] \cap (0..27)
           d == Shl(cd[2] \cap (0..7), 16) \cup (cd[2] \cap (8..15))
                   \cup Shr(cd[2] \cap (16..23), 16) \cup Shr(cd[1] \cap (28..31), 4)
<1>2. KeyHalves(key) = <<c, d>>
  BY DEF KeyHalves
<1> HIDE DEF cd
<1>3. c \in SUBSET Int
  OBVIOUS
<1>4. d \in SUBSET Int
  BY DEF Shl, Shr
<1> HIDE DEF c, d
<1>5. <<c, d>> \in Halves
  <2>1. <<c, d>> = [i \in 1..2 |-> IF i = 1 THEN c ELSE d]
    OBVIOUS
  <2>2. \A i \in 1..2 : (IF i = 1 THEN c ELSE d) \in SUBSET Int
    BY <1>3, <1>4
  <2>3. QED
    BY Zenon, <2>1, <2>2 DEF Halves
<1>6. QED
  BY <1>2, <1>5

-----------------------------------------------------------------------------
\* One block of the chain: what is decrypted is the block, filled with zeros.
EightBytes == [1..8 -> Byte]
CipherBlock(block, iv, keys) == Store(Enc(Xor2(Load(block), Load(iv)), keys))
PlainBlock(block, iv, keys) == Store(Xor2(Dec(Load(block), keys), Load(iv)))
ShortBlock(block) == block \in Seq(Byte) /\ \E L \in 0..8 : L = Len(block)

LEMMA RowIs ==
    ASSUME NEW X, NEW n \in Nat
    PROVE  \A s \in [1..n -> X] : s \in Seq(X) /\ Len(s) = n
OBVIOUS

LEMMA EightIs ==
    \A s \in EightBytes : s \in Seq(Byte) /\ Len(s) = 8 /\ ShortBlock(s) /\ Filled(s) = s
<1>1. TAKE s \in EightBytes
<1>2. s \in Seq(Byte) /\ Len(s) = 8
  <2>1. 8 \in Nat
    OBVIOUS
  <2>2. QED
    BY <2>1, RowIs DEF EightBytes
<1>3. s = [j \in 1..8 |-> s[j]]
  BY DEF EightBytes
<1>4. ShortBlock(s)
  <2>1. 8 \in 0..8
    OBVIOUS
  <2>2. QED
    BY Zenon, <1>2, <2>1 DEF ShortBlock
<1>5. Filled(s) = s
  <2>1. PICK n \in 8..8 : n = Len(s)
    BY <1>2
  <2>2. \A j \in 1..8 : j <= n
    OBVIOUS
  <2>3. Filled(s) = [j \in 1..8 |-> IF j <= n THEN s[j] ELSE 0]
    BY Zenon, <2>1 DEF Filled
  <2>4. Filled(s) = [j \in 1..8 |-> s[j]]
    BY <2>2, <2>3
  <2>5. QED
    BY Zenon, <1>3, <2>4
<1>6. QED
  BY <1>2, <1>4, <1>5

LEMMA Xor2Is ==
    ASSUME NEW a \in Block64, NEW b \in Block64
    PROVE  Xor2(a, b) \in Block64 /\ Xor2(Xor2(a, b), b) = a
<1>1. PICK a1 \in Words, a2 \in Words, b1 \in Words, b2 \in Words : a = <<a1, a2>> /\ b = <<b1, b2>>
  BY DEF Block64
<1>2. /\ Xor(a1, b1) \in Words /\ Xor(Xor(a1, b1), b1) = a1
      /\ Xor(a2, b2) \in Words /\ Xor(Xor(a2, b2), b2) = a2
  BY XorIs
<1>3. Xor2(a, b) = <<Xor(a1, b1), Xor(a2, b2)>>
  BY <1>1 DEF Xor2
<1>4. Xor2(Xor2(a, b), b) = <<Xor(Xor(a1, b1), b1), Xor(Xor(a2, b2), b2)>>
  BY <1>1, <1>3 DEF Xor2
<1>5. QED
  BY <1>1, <1>2, <1>3, <1>4 DEF Block64

LEMMA LoadShort ==
    ASSUME NEW block, ShortBlock(block)
    PROVE  Load(block) \in Block64 /\ Store(Load(block)) = Filled(block)
<1>1. PICK L \in 0..8 : L = Len(block)
  BY DEF ShortBlock
<1>2. block \in Seq(Byte)
  BY DEF ShortBlock
<1>3. QED
  BY Zenon, <1>1, <1>2, LoadIs

LEMMA StoredIs == \A b \in Block64 : Store(b) \in EightBytes /\ Load(Store(b)) = b
<1>1. TAKE b \in Block64
<1> DEFINE s == Store(b)
<1>2. /\ s \in Seq(Byte) /\ Len(s) = 4 + 4 /\ Load(s) = b
  BY StoreIs
<1> HIDE DEF s
<1>3. PICK n : n = Len(s)
  OBVIOUS
<1>4. s \in [1..n -> Byte] /\ n = 8
  <2>1. s = [j \in 1..Len(s) |-> s[j]] /\ \A j \in 1..Len(s) : s[j] \in Byte
    BY Zenon, <1>2, ElementIs
  <2>2. s \in [1..n -> Byte]
    BY Zenon, <1>3, <2>1
  <2>3. QED
    BY <1>2, <1>3, <2>2
<1>5. s \in EightBytes
  BY <1>4 DEF EightBytes
<1>6. QED
  BY <1>2, <1>5 DEF s

LEMMA BlockUndone ==
    ASSUME NEW keys, Ciphers(keys), NEW iv \in EightBytes, NEW block, ShortBlock(block)
    PROVE  /\ CipherBlock(block, iv, keys) \in EightBytes
           /\ PlainBlock(block, iv, keys) \in EightBytes
           /\ PlainBlock(CipherBlock(block, iv, keys), iv, keys) = Filled(block)
<1> DEFINE b == Load(block)
           v == Load(iv)
           x == Enc(Xor2(b, v), keys)
<1>1. b \in Block64 /\ Store(b) = Filled(block) /\ v \in Block64
  BY EightIs, LoadShort
<1>2. CipherBlock(block, iv, keys) = Store(x)
  BY DEF CipherBlock
<1>3. \A c : PlainBlock(c, iv, keys) = Store(Xor2(Dec(Load(c), keys), v))
  BY DEF PlainBlock
<1> HIDE DEF b, v
<1>4. x \in Block64 /\ Dec(x, keys) = Xor2(b, v) /\ Xor2(Dec(x, keys), v) = b
  BY <1>1, Xor2Is DEF Ciphers
<1>5. Dec(b, keys) \in Block64 /\ Xor2(Dec(b, keys), v) \in Block64
  BY <1>1, Xor2Is DEF Ciphers
<1> HIDE DEF x
<1>6. Store(x) \in EightBytes /\ Load(Store(x)) = x
  BY <1>4, StoredIs
<1>7. Store(Xor2(Dec(b, keys), v)) \in EightBytes
  BY <1>5, StoredIs
<1>8. QED
  BY <1>1, <1>2, <1>3, <1>4, <1>6, <1>7 DEF b

-----------------------------------------------------------------------------
\* The chain: eight bytes behind eight bytes.
LEMMA PlaceBefore ==
    \A m \in Nat : \A n, j : n \in 1..m /\ n # m /\ j \in 1..8
                   => n \in 1..(m - 1) /\ 8 * (n - 1) + j \in 1..(8 * (m - 1))
<1>1. SUFFICES ASSUME NEW m \in Nat, NEW n \in 1..m, n # m, NEW j \in 1..8
               PROVE  n \in 1..(m - 1) /\ 8 * (n - 1) + j \in 1..(8 * (m - 1))
  OBVIOUS
<1>2. n \in Int /\ 1 <= n /\ n <= m /\ n # m /\ j \in Int /\ 1 <= j /\ j <= 8
  BY <1>1
<1>3. QED
  BY <1>2

LEMMA JoinedBlocks ==
    ASSUME NEW N \in Nat, NEW f \in [0..N -> Seq(Byte)], NEW part \in [1..N -> EightBytes],
           f[0] = <<>>, \A n \in 1..N : f[n] = f[n - 1] \o part[n]
    PROVE  \A m \in 0..N : /\ Len(f[m]) = 8 * m
                           /\ \A n \in 1..m, j \in 1..8 : f[m][8 * (n - 1) + j] = part[n][j]
<1> DEFINE good(m) == /\ Len(f[m]) = 8 * m
                      /\ \A n \in 1..m, j \in 1..8 : f[m][8 * (n - 1) + j] = part[n][j]
           T == {m \in 0..N : good(m)}
<1>1. 0 \in T
  <2>1. Len(f[0]) = 0
    OBVIOUS
  <2>2. good(0)
    BY <2>1
  <2>3. QED
    BY <2>2
<1>2. ASSUME NEW m \in 1..N, m - 1 \in T PROVE m \in T
  <2> DEFINE a == f[m - 1]
             b == part[m]
             c == f[m]
  <2>1. m \in Nat /\ m - 1 \in 0..N /\ m \in 0..N /\ good(m - 1)
    BY <1>2
  <2>2. a \in Seq(Byte) /\ b \in EightBytes /\ c = a \o b
    BY <2>1
  <2> HIDE DEF a, b, c
  <2>3. b \in Seq(Byte)
    BY Zenon, <2>2, EightIs
  <2>4. /\ Len(c) = Len(a) + Len(b)
        /\ \A i \in 1..Len(a) : c[i] = a[i]
        /\ \A i \in 1..Len(b) : c[Len(a) + i] = b[i]
    BY <2>2, <2>3, TwoParts
  <2>5. Len(b) = 8 /\ Len(a) = 8 * (m - 1)
        /\ \A n \in 1..(m - 1), j \in 1..8 : a[8 * (n - 1) + j] = part[n][j]
    <3>1. Len(b) = 8
      BY Zenon, <2>2, EightIs
    <3>2. QED
      BY <2>1, <3>1 DEF a
  <2>6. \A n \in 1..m, j \in 1..8 : c[8 * (n - 1) + j] = part[n][j]
    <3>1. TAKE n \in 1..m, j \in 1..8
    <3>2. CASE n = m
      <4>1. 8 * (n - 1) + j = Len(a) + j /\ j \in 1..Len(b)
        BY <2>5, <3>2
      <4>2. QED
        BY <2>4, <3>2, <4>1 DEF b
    <3>3. CASE n # m
      <4>1. n \in 1..(m - 1) /\ 8 * (n - 1) + j \in 1..Len(a)
        <5>1. n \in 1..(m - 1) /\ 8 * (n - 1) + j \in 1..(8 * (m - 1))
          BY Zenon, <2>1, <3>3, PlaceBefore
        <5>2. QED
          BY Zenon, <2>5, <5>1
      <4>2. QED
        BY <2>4, <2>5, <4>1
    <3>4. QED
      BY <3>2, <3>3
  <2>7. Len(c) = 8 * m
    BY <2>4, <2>5
  <2>8. good(m)
    BY <2>6, <2>7 DEF c
  <2> HIDE DEF good
  <2>9. QED
    BY <2>1, <2>8
<1>3. \A m \in 0..N : m \in T
  <2> HIDE DEF T
  <2>1. QED
    BY <1>1, <1>2, Reached
<1>4. QED
  BY <1>3

\* What the loops keep: the bytes written and the vector.
Chain == [out : Seq(Byte), ivec : EightBytes]
First(iv) == [out |-> <<>>, ivec |-> iv]

LEMMA ChainedIs ==
    ASSUME NEW keys, Ciphers(keys), NEW a \in Chain, NEW block, ShortBlock(block)
    PROVE  /\ Chained(a, block, keys) \in Chain
           /\ Chained(a, block, keys).ivec = CipherBlock(block, a.ivec, keys)
           /\ Chained(a, block, keys).out = a.out \o CipherBlock(block, a.ivec, keys)
           /\ Unchained(a, block, keys).ivec = block
           /\ Unchained(a, block, keys).out = a.out \o PlainBlock(block, a.ivec, keys)
           /\ block \in EightBytes => Unchained(a, block, keys) \in Chain
<1> DEFINE c == CipherBlock(block, a.ivec, keys)
           p == PlainBlock(block, a.ivec, keys)
<1>1. /\ Chained(a, block, keys) = [out |-> a.out \o c, ivec |-> c]
      /\ Unchained(a, block, keys) = [out |-> a.out \o p, ivec |-> block]
  BY DEF Chained, Unchained, CipherBlock, PlainBlock
<1>2. a.out \in Seq(Byte) /\ a.ivec \in EightBytes
  BY DEF Chain
<1>3. c \in EightBytes /\ p \in EightBytes
  BY <1>2, BlockUndone
<1> HIDE DEF c, p
<1>4. c \in Seq(Byte) /\ p \in Seq(Byte)
  BY <1>3, EightIs
<1>5. a.out \o c \in Seq(Byte) /\ a.out \o p \in Seq(Byte)
  BY <1>2, <1>4
<1>6. QED
  BY <1>1, <1>3, <1>5 DEF Chain, c, p

\* The blocks of a message: all but the last one have eight bytes.
LEMMA BlockIs ==
    ASSUME NEW bytes \in Seq(Byte), NEW length \in 0..Len(bytes), NEW n \in 1..Blocks(length)
    PROVE  /\ ShortBlock(Block(bytes, length, n))
           /\ Len(Block(bytes, length, n)) = IF 8 * n <= length THEN 8 ELSE length - 8 * n + 8
           /\ \A j \in 1..Len(Block(bytes, length, n)) :
                 Block(bytes, length, n)[j] = bytes[8 * (n - 1) + j]
<1> DEFINE lo == 8 * n - 7
           hi == Min({8 * n, length})
           block == SubSeq(bytes, lo, hi)
<1>1. PICK K \in Nat : K = Len(bytes)
  BY Zenon, ElementIs
<1>2. n \in Nat /\ length \in 0..K /\ lo >= 1 /\ lo <= length
  BY <1>1 DEF Blocks
<1>3. hi = IF 8 * n <= length THEN 8 * n ELSE length
  <2>1. 8 * n \in Int /\ length \in Int
    BY <1>2
  <2>2. QED
    BY Zenon, <2>1, MinOfTwo
<1>4. Block(bytes, length, n) = block
  BY DEF Block
<1> HIDE DEF hi
<1>5. PICK L \in 0..8 : L = hi - lo + 1 /\ L = IF 8 * n <= length THEN 8 ELSE length - 8 * n + 8
  BY <1>2, <1>3
<1>6. hi \in lo..K
  BY <1>2, <1>3
<1>7. /\ block \in Seq(Byte) /\ Len(block) = hi - lo + 1
      /\ \A j \in 1..(hi - lo + 1) : block[j] = bytes[lo + j - 1]
  <2>1. lo \in 1..(Len(bytes) + 1) /\ hi \in (lo - 1)..Len(bytes)
    BY <1>1, <1>2, <1>6
  <2> HIDE DEF lo
  <2>2. QED
    BY <2>1
<1> HIDE DEF block
<1>8. Len(block) = L
  BY <1>5, <1>7
<1>9. ShortBlock(block)
  BY <1>5, <1>7, <1>8 DEF ShortBlock
<1>10. \A j \in 1..L : block[j] = bytes[8 * (n - 1) + j]
  <2>1. \A j \in 1..L : lo + j - 1 = 8 * (n - 1) + j
    BY <1>2
  <2>2. QED
    BY <1>5, <1>7, <2>1
<1>11. QED
  BY Zenon, <1>4, <1>5, <1>8, <1>9, <1>10

LEMMA BlocksAre == \A length \in Nat : Blocks(length) \in Nat
BY DEF Blocks

\* Encryption, block by block.
LEMMA EncryptChainIs ==
    ASSUME NEW keys, Ciphers(keys), NEW bytes \in Seq(Byte), NEW iv \in EightBytes,
           NEW length \in 0..Len(bytes)
    PROVE  \E chain \in [0..Blocks(length) -> Chain] :
              /\ chain[0] = First(iv)
              /\ ChainEncrypt(bytes, length, iv, keys) = chain[Blocks(length)]
              /\ \A n \in 1..Blocks(length) : chain[n] = Chained(chain[n - 1], Block(bytes, length, n), keys)
<1> DEFINE K == Blocks(length)
           base == First(iv)
           step == [e \in (1..K) \X Chain |-> Chained(e[2], Block(bytes, length, e[1]), keys)]
           chain[n \in 0..Blocks(length)] ==
               IF n = 0 THEN [out |-> <<>>, ivec |-> iv]
               ELSE Chained(chain[n - 1], Block(bytes, length, n), keys)
<1>1. K \in Nat
  BY BlocksAre DEF Blocks
<1>2. base \in Chain
  BY DEF Chain, First
<1>3. \A n \in 1..K, x \in Chain : Chained(x, Block(bytes, length, n), keys) \in Chain
  BY BlockIs, ChainedIs
<1>4. \A n \in 1..K, x \in Chain : step[<<n, x>>] = Chained(x, Block(bytes, length, n), keys)
  OBVIOUS
<1>5. step \in [(1..K) \X Chain -> Chain]
  BY <1>3
<1>6. ChainEncrypt(bytes, length, iv, keys) = chain[Blocks(length)]
  BY DEF ChainEncrypt, chain
<1> HIDE DEF step, base
<1>7. PICK f \in [0..K -> Chain] : Runs(f, K, base, step)
  <2> HIDE DEF K
  <2>1. QED
    BY <1>1, <1>2, <1>5, LoopIs
<1>8. f = [n \in 0..Blocks(length) |-> IF n = 0 THEN [out |-> <<>>, ivec |-> iv]
                                      ELSE Chained(f[n - 1], Block(bytes, length, n), keys)]
  <2> HIDE DEF K
  <2>1. ASSUME NEW n \in 0..K, n # 0
        PROVE  step[<<n, f[n - 1]>>] = Chained(f[n - 1], Block(bytes, length, n), keys)
    <3>1. n \in 1..K /\ n - 1 \in 0..K
      BY <1>1, <2>1
    <3>2. f[n - 1] \in Chain
      BY <1>7, <3>1
    <3>3. QED
      BY <1>4, <3>1, <3>2
  <2>2. QED
    BY <1>7, <2>1 DEF Runs, base, First, K
<1>9. chain = [n \in 0..Blocks(length) |-> IF n = 0 THEN [out |-> <<>>, ivec |-> iv]
                                          ELSE Chained(chain[n - 1], Block(bytes, length, n), keys)]
  BY <1>8 DEF chain
<1> HIDE DEF chain
<1>10. chain[0] = base /\ \A n \in 1..K : chain[n] = Chained(chain[n - 1], Block(bytes, length, n), keys)
  BY <1>1, <1>9 DEF base, First
<1> HIDE DEF K
<1> DEFINE T == {n \in 0..K : chain[n] \in Chain}
<1>11. 0 \in T
  BY <1>1, <1>2, <1>10
<1>12. ASSUME NEW n \in 1..K, n - 1 \in T PROVE n \in T
  <2>1. n \in 0..K /\ chain[n - 1] \in Chain
    BY <1>12
  <2>2. QED
    BY <1>3, <1>10, <2>1
<1>13. \A n \in 0..K : n \in T
  <2> HIDE DEF T
  <2>1. QED
    BY <1>1, <1>11, <1>12, Reached
<1>14. chain \in [0..K -> Chain]
  BY <1>9, <1>13 DEF K
<1>15. QED
  BY <1>6, <1>10, <1>14 DEF K, base


\* Decryption, block by block.
LEMMA DecryptChainIs ==
    ASSUME NEW keys, Ciphers(keys), NEW bytes \in Seq(Byte), NEW iv \in EightBytes,
           NEW length \in Nat,
           \A n \in 1..Blocks(length) : Block(bytes, 8 * n, n) \in EightBytes
    PROVE  \E chain \in [0..Blocks(length) -> Chain] :
              /\ chain[0] = First(iv)
              /\ ChainDecrypt(bytes, length, iv, keys)
                   = [out |-> SubSeq(chain[Blocks(length)].out, 1, length),
                      ivec |-> chain[Blocks(length)].ivec]
              /\ \A n \in 1..Blocks(length) : chain[n] = Unchained(chain[n - 1], Block(bytes, 8 * n, n), keys)
<1> DEFINE K == Blocks(length)
           base == First(iv)
           step == [e \in (1..K) \X Chain |-> Unchained(e[2], Block(bytes, 8 * e[1], e[1]), keys)]
           chain[n \in 0..Blocks(length)] ==
               IF n = 0 THEN [out |-> <<>>, ivec |-> iv]
               ELSE Unchained(chain[n - 1], Block(bytes, 8 * n, n), keys)
<1>1. K \in Nat
  BY BlocksAre DEF Blocks
<1>2. base \in Chain
  BY DEF Chain, First
<1>3. \A n \in 1..K, x \in Chain : Unchained(x, Block(bytes, 8 * n, n), keys) \in Chain
  BY EightIs, ChainedIs
<1>4. \A n \in 1..K, x \in Chain : step[<<n, x>>] = Unchained(x, Block(bytes, 8 * n, n), keys)
  OBVIOUS
<1>5. step \in [(1..K) \X Chain -> Chain]
  BY <1>3
<1>6. ChainDecrypt(bytes, length, iv, keys)
                   = [out |-> SubSeq(chain[Blocks(length)].out, 1, length),
                      ivec |-> chain[Blocks(length)].ivec]
  BY DEF ChainDecrypt, chain
<1> HIDE DEF step, base
<1>7. PICK f \in [0..K -> Chain] : Runs(f, K, base, step)
  <2> HIDE DEF K
  <2>1. QED
    BY <1>1, <1>2, <1>5, LoopIs
<1>8. f = [n \in 0..Blocks(length) |-> IF n = 0 THEN [out |-> <<>>, ivec |-> iv]
                                      ELSE Unchained(f[n - 1], Block(bytes, 8 * n, n), keys)]
  <2> HIDE DEF K
  <2>1. ASSUME NEW n \in 0..K, n # 0
        PROVE  step[<<n, f[n - 1]>>] = Unchained(f[n - 1], Block(bytes, 8 * n, n), keys)
    <3>1. n \in 1..K /\ n - 1 \in 0..K
      BY <1>1, <2>1
    <3>2. f[n - 1] \in Chain
      BY <1>7, <3>1
    <3>3. QED
      BY <1>4, <3>1, <3>2
  <2>2. QED
    BY <1>7, <2>1 DEF Runs, base, First, K
<1>9. chain = [n \in 0..Blocks(length) |-> IF n = 0 THEN [out |-> <<>>, ivec |-> iv]
                                          ELSE Unchained(chain[n - 1], Block(bytes, 8 * n, n), keys)]
  BY <1>8 DEF chain
<1> HIDE DEF chain
<1>10. chain[0] = base /\ \A n \in 1..K : chain[n] = Unchained(chain[n - 1], Block(bytes, 8 * n, n), keys)
  BY <1>1, <1>9 DEF base, First
<1> HIDE DEF K
<1> DEFINE T == {n \in 0..K : chain[n] \in Chain}
<1>11. 0 \in T
  BY <1>1, <1>2, <1>10
<1>12. ASSUME NEW n \in 1..K, n - 1 \in T PROVE n \in T
  <2>1. n \in 0..K /\ chain[n - 1] \in Chain
    BY <1>12
  <2>2. QED
    BY <1>3, <1>10, <2>1
<1>13. \A n \in 0..K : n \in T
  <2> HIDE DEF T
  <2>1. QED
    BY <1>1, <1>11, <1>12, Reached
<1>14. chain \in [0..K -> Chain]
  BY <1>9, <1>13 DEF K
<1>15. QED
  BY <1>6, <1>10, <1>14 DEF K, base

LEMMA StartsSame ==
    ASSUME NEW X, NEW a \in Seq(X), NEW b \in Seq(X), NEW n \in 0..Len(a), n \in 0..Len(b),
           \A k \in 1..n : a[k] = b[k]
    PROVE  SubSeq(a, 1, n) = SubSeq(b, 1, n)
<1> DEFINE p == SubSeq(a, 1, n)
           q == SubSeq(b, 1, n)
<1>1. p \in Seq(X) /\ Len(p) = n /\ \A k \in 1..n : p[k] = a[k]
  OBVIOUS
<1>2. q \in Seq(X) /\ Len(q) = n /\ \A k \in 1..n : q[k] = b[k]
  OBVIOUS
<1> HIDE DEF p, q
<1>3. p = q
  BY <1>1, <1>2, SeqEqual
<1>4. QED
  BY <1>3 DEF p, q

LEMMA FilledIs ==
    ASSUME NEW block, ShortBlock(block)
    PROVE  Filled(block) \in EightBytes
<1>1. Load(block) \in Block64 /\ Store(Load(block)) = Filled(block)
  BY LoadShort
<1>2. Store(Load(block)) \in EightBytes
  BY <1>1, StoredIs
<1>3. QED
  BY <1>1, <1>2

\* The place of a byte: in which block and where in it.
LEMMA PlaceIs ==
    ASSUME NEW length \in Nat, NEW k \in 1..length
    PROVE  \E n \in 1..Blocks(length), j \in 1..8 : k = 8 * (n - 1) + j
<1> DEFINE n == (k - 1) \div 8 + 1
           j == ((k - 1) % 8) + 1
<1>1. n \in 1..Blocks(length) /\ j \in 1..8 /\ k = 8 * (n - 1) + j
  BY DEF Blocks
<1> HIDE DEF n, j
<1>2. QED
  BY <1>1

\* Decryption finds the blocks that encryption left, and in each of them its message.
Encrypted(w, bytes, length, iv, keys) == w = ChainEncrypt(bytes, length, iv, keys)

Result(r, out, ivec) == r = [out |-> out, ivec |-> ivec]

LEMMA ChainUndone ==
    ASSUME NEW keys, Ciphers(keys), NEW bytes \in Seq(Byte), NEW iv \in EightBytes,
           NEW length \in 0..Len(bytes), NEW whole, Encrypted(whole, bytes, length, iv, keys)
    PROVE  /\ whole \in Chain /\ Len(whole.out) = 8 * Blocks(length)
           /\ Result(ChainDecrypt(whole.out, length, iv, keys),
                     SubSeq(bytes, 1, length), whole.ivec)
<1> DEFINE N == Blocks(length)
           block(n) == Block(bytes, length, n)
<1>1. length \in Nat /\ N \in Nat
  <2>1. PICK K \in Nat : K = Len(bytes)
    BY Zenon, ElementIs
  <2>2. length \in Nat
    BY <2>1
  <2>3. QED
    BY <2>2, BlocksAre
<1>2. PICK E \in [0..N -> Chain] :
         /\ E[0] = First(iv) /\ whole = E[N]
         /\ \A n \in 1..N : E[n] = Chained(E[n - 1], block(n), keys)
  BY EncryptChainIs DEF Encrypted
<1>3. \A n \in 1..N : ShortBlock(block(n))
  BY BlockIs
<1> HIDE DEF N, block
<1>4. /\ \A n \in 0..N : E[n] \in Chain /\ E[n].out \in Seq(Byte) /\ E[n].ivec \in EightBytes
      /\ \A n \in 1..N : n \in 0..N /\ n - 1 \in 0..N
  BY <1>1, <1>2 DEF Chain
<1>5. \A n \in 1..N : /\ E[n].ivec = CipherBlock(block(n), E[n - 1].ivec, keys)
                      /\ E[n].out = E[n - 1].out \o E[n].ivec
  <2>1. TAKE n \in 1..N
  <2>2. E[n - 1] \in Chain /\ ShortBlock(block(n)) /\ E[n] = Chained(E[n - 1], block(n), keys)
    BY <1>2, <1>3, <1>4
  <2>3. /\ Chained(E[n - 1], block(n), keys).ivec = CipherBlock(block(n), E[n - 1].ivec, keys)
        /\ Chained(E[n - 1], block(n), keys).out
              = E[n - 1].out \o CipherBlock(block(n), E[n - 1].ivec, keys)
    BY Zenon, <2>2, ChainedIs
  <2>4. QED
    BY <2>2, <2>3
<1>6. /\ Len(whole.out) = 8 * N
      /\ \A n \in 1..N, j \in 1..8 : whole.out[8 * (n - 1) + j] = E[n].ivec[j]
  <2> DEFINE f == [n \in 0..N |-> E[n].out]
             part == [n \in 1..N |-> E[n].ivec]
  <2>1. f \in [0..N -> Seq(Byte)] /\ part \in [1..N -> EightBytes]
    BY <1>4
  <2>2. f[0] = <<>>
    BY <1>1, <1>2 DEF First
  <2>3. \A n \in 1..N : f[n] = f[n - 1] \o part[n]
    BY <1>4, <1>5
  <2>4. f[N] = whole.out /\ \A n \in 1..N : part[n] = E[n].ivec
    BY <1>1, <1>2
  <2> HIDE DEF f, part
  <2>5. N \in 0..N
    BY <1>1
  <2>6. Len(f[N]) = 8 * N /\ \A n \in 1..N, j \in 1..8 : f[N][8 * (n - 1) + j] = part[n][j]
    BY <1>1, <2>1, <2>2, <2>3, <2>5, JoinedBlocks
  <2>7. QED
    BY <2>4, <2>6
<1>7. whole \in Chain /\ whole.out \in Seq(Byte)
  BY <1>1, <1>2, <1>4
<1> DEFINE total == whole.out
<1> HIDE DEF total
<1>8. \A n \in 1..N : Block(total, 8 * n, n) = E[n].ivec
  <2>1. TAKE n \in 1..N
  <2> DEFINE v == E[n].ivec
             i == 8 * n - 8
  <2>2. v \in EightBytes
    BY <1>4
  <2> HIDE DEF v
  <2>3. v \in Seq(Byte) /\ Len(v) = 8
    BY Zenon, <2>2, EightIs
  <2>4. total \in Seq(Byte) /\ Len(total) = 8 * N
    BY <1>6, <1>7 DEF total
  <2>5. n \in Nat /\ i \in Nat /\ i + 8 <= 8 * N /\ i + 1 = 8 * n - 7 /\ i + 8 = 8 * n
    BY <1>1
  <2>6. \A j \in 1..8 : total[i + j] = v[j]
    <3>1. \A j \in 1..8 : i + j = 8 * (n - 1) + j
      BY <2>5
    <3>2. QED
      BY <1>6, <3>1 DEF total, v
  <2> HIDE DEF i
  <2>7. SubSeq(total, i + 1, i + Len(v)) = v
    <3>1. i + Len(v) <= Len(total) /\ \A j \in 1..Len(v) : total[i + j] = v[j]
      BY Zenon, <2>3, <2>4, <2>5, <2>6
    <3>2. i \in Nat /\ v \in Seq(Byte) /\ total \in Seq(Byte)
      BY <2>3, <2>4, <2>5
    <3>3. QED
      BY <3>1, <3>2, PartIs
  <2>8. Min({8 * n, 8 * n}) = 8 * n
    <3>1. 8 * n \in Int
      BY <2>5
    <3>2. QED
      BY <3>1, MinOfTwo
  <2>9. Block(total, 8 * n, n) = SubSeq(total, 8 * n - 7, 8 * n)
    BY <2>8 DEF Block
  <2>10. Block(total, 8 * n, n) = v
    BY <2>3, <2>5, <2>7, <2>9
  <2>11. QED
    BY <2>10 DEF v
<1>9. PICK D \in [0..N -> Chain] :
         /\ D[0] = First(iv)
         /\ ChainDecrypt(total, length, iv, keys) = [out |-> SubSeq(D[N].out, 1, length), ivec |-> D[N].ivec]
         /\ \A n \in 1..N : D[n] = Unchained(D[n - 1], E[n].ivec, keys)
  <2>1. \A n \in 1..N : Block(total, 8 * n, n) \in EightBytes
    BY <1>4, <1>8
  <2>2. total \in Seq(Byte)
    BY <1>7 DEF total
  <2>3. PICK D \in [0..N -> Chain] :
         /\ D[0] = First(iv)
         /\ ChainDecrypt(total, length, iv, keys) = [out |-> SubSeq(D[N].out, 1, length), ivec |-> D[N].ivec]
         /\ \A n \in 1..N : D[n] = Unchained(D[n - 1], Block(total, 8 * n, n), keys)
    BY <1>1, <2>1, <2>2, DecryptChainIs DEF N
  <2>4. QED
    BY <1>8, <2>3
<1>10. \A n \in 0..N : D[n] \in Chain /\ D[n].out \in Seq(Byte) /\ D[n].ivec \in EightBytes
  BY <1>9 DEF Chain
<1>11. \A n \in 1..N : /\ D[n].ivec = E[n].ivec
                       /\ D[n].out = D[n - 1].out \o PlainBlock(E[n].ivec, D[n - 1].ivec, keys)
  <2>1. TAKE n \in 1..N
  <2>2. D[n - 1] \in Chain /\ E[n].ivec \in EightBytes /\ D[n] = Unchained(D[n - 1], E[n].ivec, keys)
    BY <1>4, <1>9, <1>10
  <2>3. ShortBlock(E[n].ivec)
    BY <2>2, EightIs
  <2>4. /\ Unchained(D[n - 1], E[n].ivec, keys).ivec = E[n].ivec
        /\ Unchained(D[n - 1], E[n].ivec, keys).out
              = D[n - 1].out \o PlainBlock(E[n].ivec, D[n - 1].ivec, keys)
    BY Zenon, <2>2, <2>3, ChainedIs
  <2>5. QED
    BY <2>2, <2>4
<1>12. \A n \in 0..N : D[n].ivec = E[n].ivec
  <2>1. D[0].ivec = E[0].ivec
    BY <1>2, <1>9
  <2>2. \A n \in 0..N : n = 0 \/ n \in 1..N
    BY <1>1
  <2>3. QED
    BY <1>11, <2>1, <2>2
<1>13. \A n \in 1..N : D[n].out = D[n - 1].out \o Filled(block(n))
  <2>1. TAKE n \in 1..N
  <2>2. D[n - 1].ivec = E[n - 1].ivec /\ E[n - 1].ivec \in EightBytes /\ ShortBlock(block(n))
    BY <1>3, <1>4, <1>12
  <2>3. PlainBlock(CipherBlock(block(n), E[n - 1].ivec, keys), E[n - 1].ivec, keys)
           = Filled(block(n))
    BY Zenon, <2>2, BlockUndone
  <2>4. PlainBlock(E[n].ivec, D[n - 1].ivec, keys) = Filled(block(n))
    BY <1>5, <2>2, <2>3
  <2>5. QED
    BY <1>11, <2>4
<1>14. /\ Len(D[N].out) = 8 * N
       /\ \A n \in 1..N, j \in 1..8 : D[N].out[8 * (n - 1) + j] = Filled(block(n))[j]
  <2> DEFINE f == [n \in 0..N |-> D[n].out]
             part == [n \in 1..N |-> Filled(block(n))]
  <2>1. f \in [0..N -> Seq(Byte)]
    BY <1>10
  <2>2. part \in [1..N -> EightBytes]
    BY <1>3, FilledIs
  <2>3. f[0] = <<>>
    BY <1>1, <1>9 DEF First
  <2>4. \A n \in 1..N : f[n] = f[n - 1] \o part[n]
    BY <1>4, <1>13
  <2>5. f[N] = D[N].out /\ \A n \in 1..N : part[n] = Filled(block(n))
    BY <1>1
  <2> HIDE DEF f, part
  <2>6. N \in 0..N
    BY <1>1
  <2>7. Len(f[N]) = 8 * N /\ \A n \in 1..N, j \in 1..8 : f[N][8 * (n - 1) + j] = part[n][j]
    BY <1>1, <2>1, <2>2, <2>3, <2>4, <2>6, JoinedBlocks
  <2>8. QED
    BY <2>5, <2>7
<1>15. \A k \in 1..length : D[N].out[k] = bytes[k]
  <2>1. TAKE k \in 1..length
  <2>2. PICK n \in 1..N, j \in 1..8 : k = 8 * (n - 1) + j
    BY <1>1, PlaceIs DEF N
  <2>3. /\ Len(block(n)) = IF 8 * n <= length THEN 8 ELSE length - 8 * n + 8
        /\ \A m \in 1..Len(block(n)) : block(n)[m] = bytes[8 * (n - 1) + m]
    BY BlockIs DEF N, block
  <2>4. PICK L : L = Len(block(n))
    OBVIOUS
  <2>5. j \in 1..L /\ j <= L
    BY <1>1, <2>2, <2>3, <2>4
  <2>6. Filled(block(n))[j] = block(n)[j]
    BY <2>4, <2>5 DEF Filled
  <2>7. block(n)[j] = bytes[k]
    BY <2>2, <2>3, <2>4, <2>5
  <2>8. QED
    BY <1>14, <2>2, <2>6, <2>7
<1>16. SubSeq(D[N].out, 1, length) = SubSeq(bytes, 1, length)
  <2> DEFINE d == D[N].out
  <2>1. d \in Seq(Byte) /\ Len(d) = 8 * N
    BY <1>1, <1>10, <1>14
  <2> HIDE DEF d
  <2>2. length <= 8 * N
    BY <1>1 DEF N, Blocks
  <2>3. length \in 0..Len(d)
    BY <1>1, <2>1, <2>2
  <2>4. \A k \in 1..length : d[k] = bytes[k]
    BY <1>15 DEF d
  <2>5. SubSeq(d, 1, length) = SubSeq(bytes, 1, length)
    BY <2>1, <2>3, <2>4, StartsSame
  <2>6. QED
    BY <2>5 DEF d
<1>17. ChainDecrypt(whole.out, length, iv, keys)
          = [out |-> SubSeq(bytes, 1, length), ivec |-> whole.ivec]
  <2>1. D[N].ivec = whole.ivec
    BY <1>1, <1>2, <1>12
  <2>2. QED
    BY <1>9, <1>16, <2>1 DEF total
<1>18. QED
  BY <1>6, <1>7, <1>17 DEF N, Result

\* A chain in two pieces: the second one goes on with the vector of the first.
LEMMA RestIs ==
    ASSUME NEW X, NEW s \in Seq(X), NEW n \in 0..Len(s)
    PROVE  /\ SubSeq(s, n + 1, Len(s)) \in Seq(X) /\ Len(SubSeq(s, n + 1, Len(s))) = Len(s) - n
           /\ \A j \in 1..(Len(s) - n) : SubSeq(s, n + 1, Len(s))[j] = s[n + j]
OBVIOUS

Split(bytes, length, less, rest) ==
    length = Len(bytes) /\ length = less + 8 /\ rest = SubSeq(bytes, 9, length)

LEMMA BlocksLater ==
    ASSUME NEW bytes \in Seq(Byte), NEW length \in Nat, NEW less \in Nat, NEW rest,
           Split(bytes, length, less, rest)
    PROVE  /\ rest \in Seq(Byte) /\ Len(rest) = less
           /\ \A m \in 1..Blocks(less) : Block(rest, less, m) = Block(bytes, length, m + 1)
<1>1. /\ rest \in Seq(Byte) /\ Len(rest) = less
      /\ \A j \in 1..less : rest[j] = bytes[8 + j]
  <2>1. 8 \in 0..length /\ 8 + 1 = 9 /\ length - 8 = less
    BY DEF Split
  <2>2. length = Len(bytes) /\ rest = SubSeq(bytes, 9, length)
    BY DEF Split
  <2>3. 8 \in 0..Len(bytes)
    BY Zenon, <2>1, <2>2
  <2>4. /\ SubSeq(bytes, 8 + 1, Len(bytes)) \in Seq(Byte)
        /\ Len(SubSeq(bytes, 8 + 1, Len(bytes))) = Len(bytes) - 8
        /\ \A j \in 1..(Len(bytes) - 8) : SubSeq(bytes, 8 + 1, Len(bytes))[j] = bytes[8 + j]
    BY Zenon, <2>3, RestIs
  <2>5. SubSeq(bytes, 8 + 1, Len(bytes)) = rest /\ Len(bytes) - 8 = less
    BY Zenon, <2>1, <2>2
  <2>6. QED
    BY Zenon, <2>4, <2>5
<1>2. Blocks(length) = Blocks(less) + 1 /\ Blocks(less) \in Nat /\ length = less + 8
  BY DEF Blocks, Split
<1>3. ASSUME NEW m \in 1..Blocks(less)
      PROVE  Block(rest, less, m) = Block(bytes, length, m + 1)
  <2> DEFINE a == Block(rest, less, m)
             b == Block(bytes, length, m + 1)
  <2>1. /\ ShortBlock(a) /\ Len(a) = IF 8 * m <= less THEN 8 ELSE less - 8 * m + 8
        /\ \A j \in 1..Len(a) : a[j] = rest[8 * (m - 1) + j]
    <3>1. less \in 0..Len(rest)
      BY <1>1
    <3>2. rest \in Seq(Byte)
      BY <1>1
    <3>3. QED
      BY Zenon, <3>1, <3>2, BlockIs
  <2>2. /\ ShortBlock(b)
        /\ Len(b) = IF 8 * (m + 1) <= length THEN 8 ELSE length - 8 * (m + 1) + 8
        /\ \A j \in 1..Len(b) : b[j] = bytes[8 * (m + 1 - 1) + j]
    <3>1. length \in 0..Len(bytes) /\ m + 1 \in 1..Blocks(length)
      BY <1>2 DEF Split
    <3>2. PICK n \in 1..Blocks(length) : n = m + 1
      BY Zenon, <3>1
    <3>3. /\ ShortBlock(Block(bytes, length, n))
          /\ Len(Block(bytes, length, n)) = IF 8 * n <= length THEN 8 ELSE length - 8 * n + 8
          /\ \A j \in 1..Len(Block(bytes, length, n)) :
                Block(bytes, length, n)[j] = bytes[8 * (n - 1) + j]
      BY Zenon, <3>1, BlockIs
    <3>4. QED
      BY <3>2, <3>3
  <2> HIDE DEF a, b
  <2>3. a \in Seq(Byte) /\ b \in Seq(Byte)
    BY <2>1, <2>2 DEF ShortBlock
  <2>4. PICK L \in 1..8 : L = Len(a) /\ L = Len(b) /\ 8 * (m - 1) + L <= less
    <3> DEFINE l == IF 8 * m <= less THEN 8 ELSE less - 8 * m + 8
    <3>1. l \in 1..8 /\ 8 * (m - 1) + l <= less
      BY <1>2 DEF Blocks
    <3>2. l = IF 8 * (m + 1) <= length THEN 8 ELSE length - 8 * (m + 1) + 8
      BY <1>2
    <3> HIDE DEF l
    <3>3. Len(a) = l /\ Len(b) = l
      BY Zenon, <2>1, <2>2, <3>2 DEF l
    <3>4. QED
      BY Zenon, <3>1, <3>3
  <2>5. \A j \in 1..L : a[j] = b[j]
    <3>1. TAKE j \in 1..L
    <3>2. 8 * (m - 1) + j \in 1..less /\ 8 + (8 * (m - 1) + j) = 8 * (m + 1 - 1) + j
      BY <1>2, <2>4
    <3>3. a[j] = rest[8 * (m - 1) + j] /\ b[j] = bytes[8 * (m + 1 - 1) + j]
      BY Zenon, <2>1, <2>2, <2>4
    <3>4. QED
      BY <1>1, <3>2, <3>3
  <2>6. a = b
    BY <2>3, <2>4, <2>5, SeqEqual
  <2>7. QED
    BY <2>6 DEF a, b
<1>4. QED
  BY <1>1, <1>3

LEMMA FirstBlocks ==
    ASSUME NEW bytes, NEW length \in Nat, length > 8
    PROVE  Block(bytes, 8, 1) = Block(bytes, length, 1)
<1>1. Min({8 * 1, 8}) = 8 /\ Min({8 * 1, length}) = 8
  <2>1. 8 * 1 \in Int /\ 8 \in Int /\ length \in Int /\ 8 * 1 = 8 /\ 8 <= length /\ 8 <= 8
    OBVIOUS
  <2>2. QED
    BY <2>1, MinOfTwo
<1>2. QED
  BY <1>1 DEF Block

LEMMA PiecesAre ==
    ASSUME NEW keys, Ciphers(keys), NEW bytes \in Seq(Byte), NEW iv \in EightBytes,
           NEW length \in Nat, NEW less \in Nat, less > 0,
           NEW rest, Split(bytes, length, less, rest),
           NEW head, Encrypted(head, bytes, 8, iv, keys),
           NEW tail, Encrypted(tail, rest, less, head.ivec, keys)
    PROVE  Result(ChainEncrypt(bytes, length, iv, keys), head.out \o tail.out, tail.ivec)
<1> DEFINE N == Blocks(length)
           M == Blocks(less)
           whole == ChainEncrypt(bytes, length, iv, keys)
<1>0. \A x \in Seq(Byte), y \in Seq(Byte), z \in Seq(Byte) : (x \o y) \o z = x \o (y \o z)
  BY Regrouped
<1>1. M \in Nat /\ N = M + 1 /\ Blocks(8) = 1 /\ 1 \in 1..1 /\ length \in 0..Len(bytes)
      /\ 8 \in 0..Len(bytes)
  BY DEF Blocks, Split
<1>2. PICK E \in [0..N -> Chain] :
         /\ E[0] = First(iv) /\ whole = E[N]
         /\ \A n \in 1..N : E[n] = Chained(E[n - 1], Block(bytes, length, n), keys)
  BY <1>1, EncryptChainIs
<1>3. PICK H \in [0..1 -> Chain] :
         /\ H[0] = First(iv) /\ head = H[1]
         /\ \A n \in 1..1 : H[n] = Chained(H[n - 1], Block(bytes, 8, n), keys)
  <2>1. \E H \in [0..Blocks(8) -> Chain] :
         /\ H[0] = First(iv) /\ head = H[Blocks(8)]
         /\ \A n \in 1..Blocks(8) : H[n] = Chained(H[n - 1], Block(bytes, 8, n), keys)
    BY Zenon, <1>1, EncryptChainIs DEF Encrypted
  <2>2. QED
    BY Zenon, <1>1, <2>1
<1> HIDE DEF N, M, whole
<1>4. head = E[1]
  <2>1. head = Chained(First(iv), Block(bytes, 8, 1), keys)
    BY <1>3
  <2>2. E[1] = Chained(First(iv), Block(bytes, length, 1), keys)
    BY <1>1, <1>2
  <2>3. length > 8
    BY DEF Split
  <2>4. QED
    BY <2>1, <2>2, <2>3, FirstBlocks
<1>5. /\ head \in Chain /\ head.out \in Seq(Byte) /\ head.ivec \in EightBytes
      /\ \A n \in 0..N : E[n] \in Chain
  BY <1>1, <1>2, <1>4 DEF Chain
<1>6. /\ rest \in Seq(Byte) /\ less \in 0..Len(rest)
      /\ \A m \in 1..M : Block(rest, less, m) = Block(bytes, length, m + 1)
  <2>1. /\ rest \in Seq(Byte) /\ Len(rest) = less
        /\ \A m \in 1..M : Block(rest, less, m) = Block(bytes, length, m + 1)
    BY BlocksLater DEF M
  <2>2. less \in 0..less
    OBVIOUS
  <2>3. QED
    BY Zenon, <2>1, <2>2
<1>7. PICK F \in [0..M -> Chain] :
         /\ F[0] = First(head.ivec) /\ tail = F[M]
         /\ \A n \in 1..M : F[n] = Chained(F[n - 1], Block(rest, less, n), keys)
  BY <1>5, <1>6, EncryptChainIs DEF M, Encrypted
<1>8. \A m \in 1..M : ShortBlock(Block(bytes, length, m + 1))
  <2>1. TAKE m \in 1..M
  <2>2. m + 1 \in 1..N
    BY <1>1
  <2>3. QED
    BY <1>1, <2>2, BlockIs DEF N
<1> DEFINE T == {m \in 0..M : E[m + 1].ivec = F[m].ivec /\ E[m + 1].out = head.out \o F[m].out}
<1>9. 0 \in T
  <2>1. head.out \o <<>> = head.out
    BY <1>5
  <2>2. F[0].ivec = head.ivec /\ F[0].out = <<>> /\ 0 + 1 = 1 /\ 0 \in 0..M
    BY <1>1, <1>7 DEF First
  <2>3. QED
    BY <1>4, <2>1, <2>2
<1>10. ASSUME NEW m \in 1..M, m - 1 \in T PROVE m \in T
  <2> DEFINE b == Block(bytes, length, m + 1)
             c == CipherBlock(b, F[m - 1].ivec, keys)
  <2>1. /\ m \in 0..M /\ m - 1 \in 0..M /\ m - 1 + 1 = m /\ m + 1 \in 1..N /\ m + 1 - 1 = m
        /\ m \in 0..N
        /\ E[m].ivec = F[m - 1].ivec /\ E[m].out = head.out \o F[m - 1].out
    <3>1. /\ m \in 0..M /\ m - 1 \in 0..M /\ m - 1 + 1 = m /\ m + 1 \in 1..N /\ m + 1 - 1 = m
          /\ m \in 0..N
      BY <1>1
    <3>2. /\ E[m - 1 + 1].ivec = F[m - 1].ivec
          /\ E[m - 1 + 1].out = head.out \o F[m - 1].out
      BY Zenon, <1>10
    <3>3. QED
      BY Zenon, <3>1, <3>2
  <2>2. F[m - 1] \in Chain /\ E[m] \in Chain /\ ShortBlock(b)
    BY <1>5, <1>7, <1>8, <2>1
  <2>3. F[m] = Chained(F[m - 1], b, keys) /\ E[m + 1] = Chained(E[m], b, keys)
    BY <1>2, <1>6, <1>7, <2>1
  <2> HIDE DEF b
  <2>4. /\ Chained(F[m - 1], b, keys).ivec = c
        /\ Chained(F[m - 1], b, keys).out = F[m - 1].out \o c
    BY Zenon, <2>2, ChainedIs
  <2>5. /\ Chained(E[m], b, keys).ivec = CipherBlock(b, E[m].ivec, keys)
        /\ Chained(E[m], b, keys).out = E[m].out \o CipherBlock(b, E[m].ivec, keys)
    BY Zenon, <2>2, ChainedIs
  <2>6. CipherBlock(b, E[m].ivec, keys) = c
    BY <2>1
  <2>7. F[m - 1].out \in Seq(Byte) /\ F[m - 1].ivec \in EightBytes
    BY <2>2 DEF Chain
  <2>8. c \in Seq(Byte)
    <3>1. c \in EightBytes
      BY Zenon, <2>2, <2>7, BlockUndone
    <3>2. QED
      BY Zenon, <3>1, EightIs
  <2> HIDE DEF c
  <2>9. (head.out \o F[m - 1].out) \o c = head.out \o (F[m - 1].out \o c)
    BY Zenon, <1>0, <1>5, <2>7, <2>8
  <2>10. E[m + 1].out = head.out \o F[m].out
    BY <2>1, <2>3, <2>4, <2>5, <2>6, <2>9
  <2>11. E[m + 1].ivec = F[m].ivec
    BY <2>3, <2>4, <2>5, <2>6
  <2>12. QED
    BY <2>1, <2>10, <2>11
<1>11. M \in T
  <2> HIDE DEF T
  <2>1. \A m \in 0..M : m \in T
    BY <1>1, <1>9, <1>10, Reached
  <2>2. M \in 0..M
    BY <1>1
  <2>3. QED
    BY <2>1, <2>2
<1>12. whole.ivec = tail.ivec /\ whole.out = head.out \o tail.out
  BY <1>1, <1>2, <1>7, <1>11
<1>13. whole = [out |-> whole.out, ivec |-> whole.ivec]
  <2>1. whole \in Chain
    BY <1>1, <1>2, <1>5
  <2>2. QED
    BY <2>1 DEF Chain
<1>14. QED
  BY <1>12, <1>13 DEF whole, Result

-----------------------------------------------------------------------------
\* A message under a row of keys, at once and in two pieces.
InPieces(m, n, iv, keys, whole) ==
    LET head == ChainEncrypt(m, 8, iv, keys)
        rest == SubSeq(m, 9, n)
        tail == ChainEncrypt(rest, n - 8, head.ivec, keys)
        back == ChainDecrypt(head.out, 8, iv, keys)
    IN  /\ whole = [out |-> head.out \o tail.out, ivec |-> tail.ivec]
        /\ ChainDecrypt(tail.out, n - 8, back.ivec, keys).out = rest

IsLength(n, m) == n = Len(m)

LEMMA MessageAtOnce ==
    ASSUME NEW keys, Ciphers(keys), NEW iv \in EightBytes, NEW m \in Seq(Byte), NEW n, IsLength(n, m)
    PROVE  LET whole == ChainEncrypt(m, n, iv, keys)
           IN  /\ Len(whole.out) = 8 * Blocks(n)
               /\ ChainDecrypt(whole.out, n, iv, keys) = [out |-> m, ivec |-> whole.ivec]
<1>1. n \in 0..Len(m)
  <2>1. Len(m) \in Nat
    BY Zenon, ElementIs
  <2>2. QED
    BY <2>1 DEF IsLength
<1>2. SubSeq(m, 1, n) = m
  <2>1. SubSeq(m, 1, Len(m)) = m
    OBVIOUS
  <2>2. QED
    BY <2>1 DEF IsLength
<1> DEFINE whole == ChainEncrypt(m, n, iv, keys)
<1>3. Encrypted(whole, m, n, iv, keys)
  BY DEF Encrypted
<1> HIDE DEF whole
<1>4. /\ Len(whole.out) = 8 * Blocks(n)
      /\ Result(ChainDecrypt(whole.out, n, iv, keys), SubSeq(m, 1, n), whole.ivec)
  BY Zenon, <1>1, <1>3, ChainUndone
<1>5. QED
  BY <1>2, <1>4 DEF whole, Result

LEMMA MessageInPieces ==
    ASSUME NEW keys, Ciphers(keys), NEW iv \in EightBytes, NEW m \in Seq(Byte),
           NEW n \in Nat, n > 8, IsLength(n, m)
    PROVE  InPieces(m, n, iv, keys, ChainEncrypt(m, n, iv, keys))
<1> DEFINE less == n - 8
           rest == SubSeq(m, 9, n)
           head == ChainEncrypt(m, 8, iv, keys)
           tail == ChainEncrypt(rest, less, head.ivec, keys)
           back == ChainDecrypt(head.out, 8, iv, keys)
           whole == ChainEncrypt(m, n, iv, keys)
<1>1. less \in Nat /\ less > 0 /\ 8 \in 0..n /\ n = less + 8
  OBVIOUS
<1>2. Split(m, n, less, rest)
  BY <1>1 DEF Split, IsLength
<1>3. InPieces(m, n, iv, keys, whole)
         <=> /\ whole = [out |-> head.out \o tail.out, ivec |-> tail.ivec]
             /\ ChainDecrypt(tail.out, less, back.ivec, keys).out = rest
  BY DEF InPieces
<1> HIDE DEF less, rest
<1>4. rest \in Seq(Byte) /\ Len(rest) = less
  BY <1>1, <1>2, BlocksLater
<1>5. Encrypted(head, m, 8, iv, keys) /\ Encrypted(tail, rest, less, head.ivec, keys)
  BY DEF Encrypted
<1>6. \A x : ChainDecrypt(head.out, 8, iv, keys) = x => back = x
  OBVIOUS
<1> HIDE DEF head, back, tail, whole
<1>7. head \in Chain /\ back = [out |-> SubSeq(m, 1, 8), ivec |-> head.ivec]
  <2>1. 8 \in 0..Len(m)
    BY Zenon, <1>1 DEF IsLength
  <2>2. head \in Chain
    BY Zenon, <1>5, <2>1, ChainUndone
  <2>3. Result(ChainDecrypt(head.out, 8, iv, keys), SubSeq(m, 1, 8), head.ivec)
    BY Zenon, <1>5, <2>1, ChainUndone
  <2>4. QED
    BY <1>6, <2>2, <2>3 DEF Result
<1>8. head.ivec \in EightBytes /\ back.ivec = head.ivec
  BY <1>7 DEF Chain
<1>9. ChainDecrypt(tail.out, less, head.ivec, keys) = [out |-> rest, ivec |-> tail.ivec]
  <2>1. IsLength(less, rest)
    BY <1>4 DEF IsLength
  <2>2. LET w == ChainEncrypt(rest, less, head.ivec, keys)
        IN  ChainDecrypt(w.out, less, head.ivec, keys) = [out |-> rest, ivec |-> w.ivec]
    BY Zenon, <1>4, <1>8, <2>1, MessageAtOnce
  <2>3. QED
    BY Zenon, <2>2 DEF tail
<1>10. whole = [out |-> head.out \o tail.out, ivec |-> tail.ivec]
  <2>1. Result(ChainEncrypt(m, n, iv, keys), head.out \o tail.out, tail.ivec)
    BY Zenon, <1>1, <1>2, <1>5, PiecesAre
  <2>2. QED
    BY <2>1 DEF whole, Result
<1>11. QED
  BY <1>3, <1>8, <1>9, <1>10 DEF whole

\* One key and three of them, as the two modes take them.
LEMMA MessageReturns ==
    ASSUME NEW key, KeySchedule(key) \in Seq(RoundKeys), NEW iv \in EightBytes,
           NEW other, KeySchedule(other) \in Seq(RoundKeys), NEW m \in Seq(Byte)
    PROVE  LET ks == KeySchedule(key)
               ks2 == KeySchedule(other)
               n == Len(m)
               whole == NcbcEncrypt(m, n, ks, iv, TRUE)
               ede == Ede3CbcEncrypt(m, n, ks, ks2, ks, iv, TRUE)
           IN  /\ Len(whole.out) = 8 * ((n + 7) \div 8)
               /\ CbcEncrypt(whole.out, n, ks, iv, FALSE) = [out |-> m, ivec |-> iv]
               /\ Ede3CbcEncrypt(ede.out, n, ks, ks2, ks, iv, FALSE).out = m
               /\ n > 8 => InPieces(m, n, iv, <<ks>>, whole)
<1> DEFINE ks == KeySchedule(key)
           ks2 == KeySchedule(other)
           n == Len(m)
           whole == ChainEncrypt(m, n, iv, <<ks>>)
           ede == ChainEncrypt(m, n, iv, <<ks, ks2, ks>>)
<1>1. Ciphers(<<ks>>) /\ Ciphers(<<ks, ks2, ks>>)
  <2> HIDE DEF ks, ks2
  <2>1. ks \in Seq(RoundKeys) /\ ks2 \in Seq(RoundKeys)
    BY DEF ks, ks2
  <2>2. QED
    BY Zenon, <2>1, OneKey, ThreeKeys
<1>2. /\ NcbcEncrypt(m, n, ks, iv, TRUE) = whole
      /\ Ede3CbcEncrypt(m, n, ks, ks2, ks, iv, TRUE) = ede
  BY DEF NcbcEncrypt, Ede3CbcEncrypt
<1>3. /\ CbcEncrypt(whole.out, n, ks, iv, FALSE)
            = [ChainDecrypt(whole.out, n, iv, <<ks>>) EXCEPT !.ivec = iv]
      /\ Ede3CbcEncrypt(ede.out, n, ks, ks2, ks, iv, FALSE)
            = ChainDecrypt(ede.out, n, iv, <<ks, ks2, ks>>)
  BY DEF CbcEncrypt, NcbcEncrypt, Ede3CbcEncrypt
<1>4. /\ Len(whole.out) = 8 * Blocks(n)
      /\ ChainDecrypt(whole.out, n, iv, <<ks>>) = [out |-> m, ivec |-> whole.ivec]
      /\ ChainDecrypt(ede.out, n, iv, <<ks, ks2, ks>>) = [out |-> m, ivec |-> ede.ivec]
  <2>1. IsLength(n, m)
    BY DEF IsLength
  <2>2. QED
    BY Zenon, <1>1, <2>1, MessageAtOnce
<1>5. n > 8 => InPieces(m, n, iv, <<ks>>, whole)
  <2>1. n \in Nat /\ IsLength(n, m)
    BY Zenon, ElementIs DEF IsLength
  <2>2. QED
    BY Zenon, <1>1, <2>1, MessageInPieces
<1> HIDE DEF ks, ks2, n, whole, ede
<1>6. CbcEncrypt(whole.out, n, ks, iv, FALSE) = [out |-> m, ivec |-> iv]
  <2>1. \A x, v : x = [out |-> m, ivec |-> v]
                      => [x EXCEPT !.ivec = iv] = [out |-> m, ivec |-> iv]
    OBVIOUS
  <2>2. QED
    BY Zenon, <1>3, <1>4, <2>1
<1>7. Ede3CbcEncrypt(ede.out, n, ks, ks2, ks, iv, FALSE).out = m
  <2>1. \A x, v : x = [out |-> m, ivec |-> v] => x.out = m
    OBVIOUS
  <2>2. QED
    BY Zenon, <1>3, <1>4, <2>1
<1>8. Len(whole.out) = 8 * ((n + 7) \div 8)
  BY <1>4 DEF Blocks
<1>9. QED
  BY Zenon, <1>2, <1>5, <1>6, <1>7, <1>8 DEF ks, ks2, n

LEMMA ChainsReturn ==
    ASSUME Message \in Seq(Byte), CipherKeys \subseteq EightBytes
    PROVE  ChainingRoundTrip
<1>1. ASSUME NEW key \in CipherKeys
      PROVE  LET ks == KeySchedule(key)
                 ks2 == KeySchedule(Reverse(key))
                 n == Len(Message)
                 whole == NcbcEncrypt(Message, n, ks, key, TRUE)
                 ede == Ede3CbcEncrypt(Message, n, ks, ks2, ks, key, TRUE)
             IN  /\ Len(whole.out) = 8 * ((n + 7) \div 8)
                 /\ CbcEncrypt(whole.out, n, ks, key, FALSE) = [out |-> Message, ivec |-> key]
                 /\ Ede3CbcEncrypt(ede.out, n, ks, ks2, ks, key, FALSE).out = Message
                 /\ n > 8 => InPieces(Message, n, key, <<ks>>, whole)
  <2>1. key \in EightBytes
    OBVIOUS
  <2>2. /\ KeySchedule(key) \in Seq(RoundKeys)
        /\ KeySchedule(Reverse(key)) \in Seq(RoundKeys)
    BY KeyHalvesAre, KeyScheduleIs
  <2>3. QED
    BY Zenon, <2>1, <2>2, MessageReturns
<1>2. \A m, n, ks, iv, whole :
         InPieces(m, n, iv, <<ks>>, whole) <=>
             LET head == NcbcEncrypt(m, 8, ks, iv, TRUE)
                 rest == SubSeq(m, 9, n)
                 tail == NcbcEncrypt(rest, n - 8, ks, head.ivec, TRUE)
                 back == NcbcEncrypt(head.out, 8, ks, iv, FALSE)
             IN  /\ whole = [out |-> head.out \o tail.out, ivec |-> tail.ivec]
                 /\ NcbcEncrypt(tail.out, n - 8, ks, back.ivec, FALSE).out = rest
  BY DEF InPieces, NcbcEncrypt
<1>3. QED
  BY Zenon, <1>1, <1>2 DEF ChainingRoundTrip

\* A message encrypted in the chaining modes of libdes and decrypted again is the
\* message, whatever its length; in two pieces of whole blocks it is what it is at once.
THEOREM MessagesReturn == ConversionSpec => []ChainingRoundTrip
<1>1. CipherKeys \subseteq EightBytes
  BY InputsAssumption, Zenon DEF EightBytes
<1>2. ConversionTypeOK => ChainingRoundTrip
  <2>1. SUFFICES ASSUME ConversionTypeOK, kind = "cipher" PROVE ChainingRoundTrip
    BY DEF ChainingRoundTrip
  <2>2. input \in Seq(Elements("cipher")) /\ Elements("cipher") \subseteq Seq(Byte)
    BY <2>1, InputsAssumption, Zenon DEF ConversionTypeOK
  <2>3. input \in Seq(Seq(Byte))
    BY <2>2, SeqSubset
  <2>4. Message \in Seq(Byte)
    <3>1. PICK flat \in [0..Len(input) -> Seq(Byte)] : Message = flat[Len(input)]
      BY <2>3, FlattenIs DEF Message
    <3>2. Len(input) \in 0..Len(input)
      BY <2>3
    <3>3. QED
      BY <3>1, <3>2
  <2>5. QED
    BY <1>1, <2>4, ChainsReturn
<1>3. QED
  BY <1>2, ConversionTypes, PTL
=============================================================================
