---------------------------- MODULE DesStandard ----------------------------
(***************************************************************************)
(* The reference for libdes: DES as FIPS 46 writes it, on sequences of     *)
(* bits numbered from 1, the first bit of a byte its highest.              *)
(***************************************************************************)
EXTENDS Integers, Sequences, SequencesExt

BitsOf(bytes) ==
    [n \in 1..(8 * Len(bytes)) |-> (bytes[(n - 1) \div 8 + 1] \div 2^(7 - ((n - 1) % 8))) % 2]
BytesOf(bits) ==
    [n \in 1..(Len(bits) \div 8) |->
        FoldLeft(LAMBDA v, m : 2 * v + bits[8 * (n - 1) + m], 0, <<1, 2, 3, 4, 5, 6, 7, 8>>)]
Selected(bits, table) == [n \in 1..Len(table) |-> bits[table[n]]]
Plus(a, b) == [n \in 1..Len(a) |-> (a[n] + b[n]) % 2]
Left(bits, n) == [m \in 1..Len(bits) |-> bits[((m + n - 1) % Len(bits)) + 1]]

StdIP == [n \in 1..64 |->
            LET r == (n - 1) \div 8
            IN  (IF r < 4 THEN 58 + 2 * r ELSE 49 + 2 * r) - 8 * ((n - 1) % 8)]
StdFP == [n \in 1..64 |-> CHOOSE m \in 1..64 : StdIP[m] = n]
StdE == [n \in 1..48 |-> (((4 * ((n - 1) \div 6) + ((n - 1) % 6)) - 1) % 32) + 1]
StdP == <<16,7,20,21,29,12,28,17,1,15,23,26,5,18,31,10,
          2,8,24,14,32,27,3,9,19,13,30,6,22,11,4,25>>
StdPC1 == <<57,49,41,33,25,17,9,1,58,50,42,34,26,18,10,2,59,51,43,35,27,19,11,3,60,52,44,36,
            63,55,47,39,31,23,15,7,62,54,46,38,30,22,14,6,61,53,45,37,29,21,13,5,28,20,12,4>>
StdPC2 == <<14,17,11,24,1,5,3,28,15,6,21,10,23,19,12,4,26,8,16,7,27,20,13,2,
            41,52,31,37,47,55,30,40,51,45,33,48,44,49,39,56,34,53,46,42,50,36,29,32>>
StdTurns == <<1, 2, 4, 6, 8, 10, 12, 14, 15, 17, 19, 21, 23, 25, 27, 28>>
StdS ==
  <<
    <<14,4,13,1,2,15,11,8,3,10,6,12,5,9,0,7,
      0,15,7,4,14,2,13,1,10,6,12,11,9,5,3,8,
      4,1,14,8,13,6,2,11,15,12,9,7,3,10,5,0,
      15,12,8,2,4,9,1,7,5,11,3,14,10,0,6,13>>,
    <<15,1,8,14,6,11,3,4,9,7,2,13,12,0,5,10,
      3,13,4,7,15,2,8,14,12,0,1,10,6,9,11,5,
      0,14,7,11,10,4,13,1,5,8,12,6,9,3,2,15,
      13,8,10,1,3,15,4,2,11,6,7,12,0,5,14,9>>,
    <<10,0,9,14,6,3,15,5,1,13,12,7,11,4,2,8,
      13,7,0,9,3,4,6,10,2,8,5,14,12,11,15,1,
      13,6,4,9,8,15,3,0,11,1,2,12,5,10,14,7,
      1,10,13,0,6,9,8,7,4,15,14,3,11,5,2,12>>,
    <<7,13,14,3,0,6,9,10,1,2,8,5,11,12,4,15,
      13,8,11,5,6,15,0,3,4,7,2,12,1,10,14,9,
      10,6,9,0,12,11,7,13,15,1,3,14,5,2,8,4,
      3,15,0,6,10,1,13,8,9,4,5,11,12,7,2,14>>,
    <<2,12,4,1,7,10,11,6,8,5,3,15,13,0,14,9,
      14,11,2,12,4,7,13,1,5,0,15,10,3,9,8,6,
      4,2,1,11,10,13,7,8,15,9,12,5,6,3,0,14,
      11,8,12,7,1,14,2,13,6,15,0,9,10,4,5,3>>,
    <<12,1,10,15,9,2,6,8,0,13,3,4,14,7,5,11,
      10,15,4,2,7,12,9,5,6,1,13,14,0,11,3,8,
      9,14,15,5,2,8,12,3,7,0,4,10,1,13,11,6,
      4,3,2,12,9,5,15,10,11,14,1,7,6,0,8,13>>,
    <<4,11,2,14,15,0,8,13,3,12,9,7,5,10,6,1,
      13,0,11,7,4,9,1,10,14,3,5,12,2,15,8,6,
      1,4,11,13,12,3,7,14,10,15,6,8,0,5,9,2,
      6,11,13,8,1,4,10,7,9,5,0,15,14,2,3,12>>,
    <<13,2,8,4,6,15,11,1,10,9,3,14,5,0,12,7,
      1,15,13,8,10,3,7,4,12,5,6,11,0,14,9,2,
      7,11,4,1,9,12,14,2,0,6,10,13,15,3,5,8,
      2,1,14,7,4,10,8,13,15,12,9,0,3,5,6,11>>
  >>

\* Six bits give a number of four: the outer two choose the row.
StdBox(n, b) ==
    LET v == StdS[n][16 * (2 * b[1] + b[6]) + 8 * b[2] + 4 * b[3] + 2 * b[4] + b[5] + 1]
    IN  <<v \div 8, (v \div 4) % 2, (v \div 2) % 2, v % 2>>

StdKeys(key) ==
    LET k == Selected(BitsOf(key), StdPC1)
    IN  [n \in 1..16 |-> Selected(Left(SubSeq(k, 1, 28), StdTurns[n])
                                    \o Left(SubSeq(k, 29, 56), StdTurns[n]), StdPC2)]

\* The salt of crypt: the bits of the expansion that change places with those
\* 24 further.
Expanded(r, salt) ==
    [n \in 1..48 |-> r[StdE[IF ((n - 1) % 24) + 1 \in salt THEN ((n + 23) % 48) + 1 ELSE n]]]
StdF(r, k, salt) ==
    LET x == Plus(Expanded(r, salt), k)
    IN  Selected(FlattenSeq([n \in 1..8 |-> StdBox(n, SubSeq(x, 6 * n - 5, 6 * n))]), StdP)

StdRounds(bits, keys, salt) ==
    LET p == FoldLeft(LAMBDA q, k : <<q[2], Plus(q[1], StdF(q[2], k, salt))>>,
                      <<SubSeq(bits, 1, 32), SubSeq(bits, 33, 64)>>, keys)
    IN  p[2] \o p[1]
StdDes(bits, keys, salt) ==
    Selected(StdRounds(Selected(bits, StdIP), keys, salt), StdFP)

StdEncrypt(block, key) == BytesOf(StdDes(BitsOf(block), StdKeys(key), {}))
StdDecrypt(block, key) == BytesOf(StdDes(BitsOf(block), Reverse(StdKeys(key)), {}))

\* The characters of crypt stand for the numbers 0 to 63.
StdChars == [n \in 0..63 |-> IF n < 12 THEN 46 + n ELSE IF n < 38 THEN 65 + n - 12 ELSE 97 + n - 38]
StdNumber(c) == CHOOSE n \in 0..63 : StdChars[n] = c

\* crypt: a block of zeros encrypted 25 times under the characters of the
\* password, the twelve bits of the salt counted from the lowest.
StdCrypt(password, s1, s2) ==
    LET key == [n \in 1..8 |-> IF n <= Len(password) THEN 2 * password[n] ELSE 0]
        salt == {n \in 1..12 : ((StdNumber(s1) + 64 * StdNumber(s2)) \div 2^(n - 1)) % 2 = 1}
        keys == StdKeys(key)
        des[b \in [1..64 -> {0, 1}]] == StdDes(b, keys, salt)
        bits == FoldLeft(LAMBDA b, n : des[b], [n \in 1..64 |-> 0],
                         [n \in 1..25 |-> n]) \o <<0, 0>>
    IN  <<s1, s2>> \o [n \in 1..11 |->
            StdChars[FoldLeft(LAMBDA v, m : 2 * v + bits[6 * (n - 1) + m], 0, <<1,2,3,4,5,6>>)]]
=============================================================================
