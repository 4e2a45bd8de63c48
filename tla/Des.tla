-------------------------------- MODULE Des --------------------------------
(***************************************************************************)
(* libdes, which the SNMP library brings for the privacy of version 3.  A  *)
(* word of 32 bits is the set of its bits that are 1; a block is a pair of *)
(* words, its bytes go into them low byte first.  The variants of          *)
(* D_ENCRYPT that the preprocessor chooses from compute the same.          *)
(***************************************************************************)
EXTENDS Integers, Sequences, FiniteSetsExt, SequencesExt

Words == SUBSET (0..31)
Xor(a, b) == (a \ b) \cup (b \ a)
Shr(w, n) == {b - n : b \in {c \in w : c >= n}}
Shl(w, n) == {b + n : b \in {c \in w : c + n < 32}}
Ror(w, n) == {(b - n) % 32 : b \in w}

\* c2l, c2ln: up to four bytes; l2c, l2cn: all four of them.
C2l(bytes) == {i \in 0..31 : i \div 8 < Len(bytes)
                            /\ (bytes[i \div 8 + 1] \div 2^(i % 8)) % 2 = 1}
Bit(w, b) == IF b \in w THEN 1 ELSE 0
SixBits(w, low) == Bit(w, low) + 2 * Bit(w, low + 1) + 4 * Bit(w, low + 2)
                     + 8 * Bit(w, low + 3) + 16 * Bit(w, low + 4) + 32 * Bit(w, low + 5)
EightBits(w, low) == SixBits(w, low) + 64 * Bit(w, low + 6) + 128 * Bit(w, low + 7)
L2c(w) == [i \in 1..4 |-> EightBits(w, 8 * (i - 1))]

Load(bytes) == <<C2l(SubSeq(bytes, 1, Min({4, Len(bytes)}))), C2l(SubSeq(bytes, 5, Len(bytes)))>>
Store(block) == L2c(block[1]) \o L2c(block[2])

-----------------------------------------------------------------------------
\* The masks of PERM_OP: every other group of n bits.
Mask(n) == {b \in 0..31 : (b \div n) % 2 = 0}
PermOp(pair, n) ==
    LET t == Xor(Shr(pair[1], n), pair[2]) \cap Mask(n)
    IN  <<Xor(pair[1], Shl(t, n)), Xor(pair[2], t)>>
Swapped(pair) == <<pair[2], pair[1]>>
RorBoth(pair, n) == <<Ror(pair[1], n), Ror(pair[2], n)>>

\* A row of PERM_OPs, each with its arguments the other way round.
PermOps(pair, shifts) ==
    LET permuted[n \in 0..Len(shifts)] ==
            IF n = 0 THEN pair ELSE Swapped(PermOp(permuted[n - 1], shifts[n]))
    IN  permuted[Len(shifts)]
IP(pair) == PermOps(Swapped(pair), <<4, 16, 2, 8, 1>>)
FP(pair) == Swapped(PermOps(pair, <<1, 8, 2, 16, 4>>))

\* des_SPtrans: the four bits of a nibble and the places where they go.
SpPlaces ==
  <<<<1,11,19,25>>, <<4,15,20,30>>, <<0,8,18,26>>, <<3,12,22,28>>,
    <<5,10,16,27>>, <<6,13,21,31>>, <<2,9,14,24>>, <<7,17,23,29>>>>
SpNibbles ==
  <<
    <<14,4,9,15,8,7,5,9,7,14,12,3,11,8,0,5,4,1,10,6,15,12,3,10,1,2,6,13,2,11,13,0,
      0,15,10,5,14,4,3,10,13,2,6,9,7,1,9,12,15,6,12,11,8,3,5,0,4,8,11,14,1,13,2,7>>,
    <<15,0,6,12,9,3,10,6,2,13,1,10,5,14,12,1,4,11,13,2,7,8,0,5,11,7,14,9,8,4,3,15,
      5,14,10,7,15,5,9,0,8,3,4,13,2,8,7,11,14,2,0,9,1,15,6,12,13,4,3,10,11,1,12,6>>,
    <<9,14,2,11,5,8,11,6,10,4,12,1,15,3,1,13,0,5,14,2,3,15,4,9,13,10,7,12,6,0,8,7,
      14,2,1,4,3,5,12,11,0,14,6,13,5,8,15,1,7,9,8,15,4,10,11,6,10,0,13,3,9,7,2,12>>,
    <<7,10,1,15,0,12,11,5,14,9,8,3,9,7,4,8,13,6,2,1,6,11,12,2,3,0,5,14,10,13,15,4,
      13,3,4,9,6,10,1,12,11,0,2,5,0,13,14,2,8,15,7,4,15,1,10,7,5,6,12,11,3,8,9,14>>,
    <<8,4,2,15,13,10,7,12,4,1,9,6,11,13,14,0,6,8,5,3,10,7,0,9,1,11,15,5,12,2,3,14,
      14,11,5,12,4,1,9,10,8,6,15,0,7,8,2,5,11,2,0,15,13,14,3,4,6,13,10,3,1,7,12,9>>,
    <<9,5,0,14,5,2,11,4,3,15,6,8,10,9,12,7,4,11,13,0,2,1,14,13,15,12,8,3,1,6,7,10,
      3,8,10,7,14,5,0,10,8,2,13,4,5,15,6,1,15,6,4,11,9,12,7,0,2,9,11,14,12,3,1,13>>,
    <<4,2,10,9,15,5,6,0,8,11,3,12,1,14,12,3,11,4,5,15,0,10,9,6,13,7,14,1,7,13,2,8,
      7,12,13,3,4,2,8,13,11,7,6,0,2,9,1,10,0,11,10,6,3,4,15,8,14,1,5,15,9,14,12,5>>,
    <<13,14,3,0,10,5,12,15,1,8,6,3,7,11,9,12,2,7,5,10,15,9,0,6,8,4,11,13,4,2,14,1,
      4,2,9,15,3,8,0,6,13,11,10,5,14,1,5,10,15,4,12,9,6,3,11,12,1,14,7,0,8,13,2,7>>
  >>
SPtrans == [n \in 1..8 |-> [i \in 0..63 |->
              {SpPlaces[n][b] : b \in {c \in 1..4 : (SpNibbles[n][i + 1] \div 2^(c - 1)) % 2 = 1}}]]

\* D_ENCRYPT: the odd tables take six bits of each byte of u, the even ones of t;
\* their places are disjoint.
Lookup(u, t) == UNION {SPtrans[2*n + 1][SixBits(u, 8*n + 2)]
                         \cup SPtrans[2*n + 2][SixBits(t, 8*n + 2)] : n \in 0..3}
Scramble(r, key) == Lookup(Xor(r, key[1]), Ror(Xor(r, key[2]), 4))

\* FCRYPT_MOD: the salt swaps bits of u and t with those 16 places away.
ScrambleSalted(r, key, e0, e1) ==
    LET v == Xor(r, Shr(r, 16))
        mod(e, k) == LET m == v \cap e IN Xor(Xor(m, Xor(r, k)), Shl(m, 16))
    IN  Lookup(mod(e0, key[1]), Ror(mod(e1, key[2]), 4))

\* The sixteen D_ENCRYPTs on <<l, r>>, in the order of the keys.
Round(p, key) == <<p[2], Xor(p[1], Scramble(p[2], key))>>
Rounds(keys) == [pair \in Words \X Words |->
    LET done[n \in 0..Len(keys)] == IF n = 0 THEN pair ELSE Round(done[n - 1], keys[n])
    IN  done[Len(keys)]]
SaltedRound(p, key, e0, e1) == <<p[2], Xor(p[1], ScrambleSalted(p[2], key, e0, e1))>>
SaltedRounds(keys, e0, e1) == [pair \in Words \X Words |->
    LET done[n \in 0..Len(keys)] ==
            IF n = 0 THEN pair ELSE SaltedRound(done[n - 1], keys[n], e0, e1)
    IN  done[Len(keys)]]

\* Faulty: decryption with the keys in the order of encryption.
Encrypt2Forward(block, ks, encrypt) == RorBoth(Rounds(ks)[Swapped(RorBoth(block, 29))], 3)

\* des_encrypt2.
Encrypt2(block, ks, encrypt) ==
    RorBoth(Rounds(IF encrypt THEN ks ELSE Reverse(ks))[Swapped(RorBoth(block, 29))], 3)

\* One or three passes of des_encrypt2 between the two permutations.
Passes(block, passes) ==
    LET passed[n \in 0..Len(passes)] ==
            IF n = 0 THEN IP(block) ELSE Encrypt2(passed[n - 1], passes[n][1], passes[n][2])
    IN  Swapped(FP(Swapped(passed[Len(passes)])))

Encrypt(block, ks, encrypt) == Passes(block, <<<<ks, encrypt>>>>)
Encrypt3(block, ks1, ks2, ks3) ==
    Passes(block, <<<<ks1, TRUE>>, <<ks2, FALSE>>, <<ks3, TRUE>>>>)
Decrypt3(block, ks1, ks2, ks3) ==
    Passes(block, <<<<ks3, FALSE>>, <<ks2, TRUE>>, <<ks1, FALSE>>>>)

-----------------------------------------------------------------------------
\* odd_parity: the lowest bit makes the number of ones odd.
OddParity(byte) ==
    LET high == byte - (byte % 2)
        ones == MapThenSumSet(LAMBDA b : (byte \div 2^b) % 2, 1..7)
    IN  high + 1 - (ones % 2)
SetOddParity(key) == [i \in 1..8 |-> OddParity(key[i])]
CheckParity(key) == \A i \in 1..8 : key[i] = OddParity(key[i])

\* des_is_weak_key compares as many bytes as a pointer has, not as a key has.
WeakKeys ==
    LET two(a, b) == <<a, b, a, b, a, b, a, b>>
        four(a, b, c, d) == <<a, b, a, b, c, d, c, d>>
    IN  {two(1, 1), two(254, 254), two(31, 31), two(224, 224),
         two(1, 254), two(254, 1),
         four(31, 224, 14, 241), four(224, 31, 241, 14),
         four(1, 224, 1, 241), four(224, 1, 241, 1),
         four(31, 254, 14, 254), four(254, 31, 254, 14),
         four(1, 31, 1, 14), four(31, 1, 14, 1),
         four(224, 254, 241, 254), four(254, 224, 254, 241)}
IsWeakKey(key, pointer) ==
    \E weak \in WeakKeys : SubSeq(weak, 1, pointer) = SubSeq(key, 1, pointer)

\* des_skb: which bit of c or d goes to which place, six of them to a table.
SkbTake == <<0,1,2,3,4,5, 6,7,9,10,11,12, 13,14,15,16,18,19, 20,22,23,25,26,27,
             0,1,2,3,4,5, 7,8,10,11,12,13, 15,16,17,18,19,20, 21,22,23,24,26,27>>
SkbPut == <<4,29,16,11,5,19, 25,13,21,2,10,28, 0,18,24,1,9,27, 20,8,3,12,26,17,
            28,16,2,29,20,12, 27,3,10,17,0,25, 8,19,24,4,21,9, 26,18,1,13,5,11>>
Skb(w, tables) == {SkbPut[n] : n \in {m \in tables : SkbTake[m] \in w}}

HPermOp(a) == LET t == Xor(Shl(a, 18), a) \cap {18, 19, 22, 23, 26, 27, 30, 31}
              IN  Xor(Xor(a, t), Shr(t, 18))
HPermOps(pair) == <<HPermOp(pair[1]), HPermOp(pair[2])>>

\* The two halves of the key, 28 bits each.
KeyHalves(key) ==
    LET cd == PermOps(HPermOps(PermOp(Swapped(Load(key)), 4)), <<1, 8, 1>>)
    IN  <<cd[1] \cap (0..27),
          Shl(cd[2] \cap (0..7), 16) \cup (cd[2] \cap (8..15))
             \cup Shr(cd[2] \cap (16..23), 16) \cup Shr(cd[1] \cap (28..31), 4)>>

Shifts2 == <<1, 1, 2, 2, 2, 2, 2, 2, 1, 2, 2, 2, 2, 2, 2, 1>>

\* The halves turned to the right in their 28 bits.
Turn28(halves, n) == [i \in 1..2 |-> {(b - n) % 28 : b \in halves[i]}]

RoundKey(halves) ==
    LET s == Skb(halves[1], 1..24)
        t == Skb(halves[2], 25..48)
    IN  <<Ror(Shl(t, 16) \cup (s \cap (0..15)), 30),
          Ror(Shr(s, 16) \cup (t \cap (16..31)), 26)>>

NextKey(made, n) ==
    LET halves == Turn28(made.halves, n)
    IN  [halves |-> halves, ks |-> Append(made.ks, RoundKey(halves))]

\* des_set_key without the checks that des_check_key asks for.
KeySchedule(key) ==
    LET made[n \in 0..16] ==
            IF n = 0 THEN [halves |-> KeyHalves(key), ks |-> <<>>]
            ELSE NextKey(made[n - 1], Shifts2[n])
    IN  made[16].ks

SetKey(key, check, pointer) ==
    IF check /\ ~CheckParity(key) THEN [ret |-> -1, ks |-> <<>>]
    ELSE IF check /\ IsWeakKey(key, pointer) THEN [ret |-> -2, ks |-> <<>>]
    ELSE [ret |-> 0, ks |-> KeySchedule(key)]

-----------------------------------------------------------------------------
EcbEncrypt(bytes, ks, encrypt) == Store(Encrypt(Load(bytes), ks, encrypt))

\* How many blocks length bytes make, and the n-th of them.
Blocks(length) == (length + 7) \div 8
Block(bytes, length, n) == SubSeq(bytes, 8 * n - 7, Min({8 * n, length}))
Xor2(a, b) == <<Xor(a[1], b[1]), Xor(a[2], b[2])>>

\* One block under one key or under three.
Enc(block, keys) ==
    IF Len(keys) = 1 THEN Encrypt(block, keys[1], TRUE) ELSE Encrypt3(block, keys[1], keys[2], keys[3])
Dec(block, keys) ==
    IF Len(keys) = 1 THEN Encrypt(block, keys[1], FALSE) ELSE Decrypt3(block, keys[1], keys[2], keys[3])

\* Encryption writes whole blocks, a last short block is filled with zeros.
Chained(a, block, keys) ==
    LET c == Store(Enc(Xor2(Load(block), Load(a.ivec)), keys))
    IN  [out |-> a.out \o c, ivec |-> c]
ChainEncrypt(bytes, length, ivec, keys) ==
    LET chain[n \in 0..Blocks(length)] ==
            IF n = 0 THEN [out |-> <<>>, ivec |-> ivec]
            ELSE Chained(chain[n - 1], Block(bytes, length, n), keys)
    IN  chain[Blocks(length)]

\* Faulty: the chain goes on with what was decrypted.
UnchainedPlain(a, block, keys) ==
    LET p == Store(Xor2(Dec(Load(block), keys), Load(a.ivec)))
    IN  [out |-> a.out \o p, ivec |-> p]

\* Decryption reads whole blocks and writes length bytes.
Unchained(a, block, keys) ==
    [out |-> a.out \o Store(Xor2(Dec(Load(block), keys), Load(a.ivec))), ivec |-> block]
ChainDecrypt(bytes, length, ivec, keys) ==
    LET chain[n \in 0..Blocks(length)] ==
            IF n = 0 THEN [out |-> <<>>, ivec |-> ivec]
            ELSE Unchained(chain[n - 1], Block(bytes, 8 * n, n), keys)
        last == chain[Blocks(length)]
    IN  [out |-> SubSeq(last.out, 1, length), ivec |-> last.ivec]

NcbcEncrypt(bytes, length, ks, ivec, encrypt) ==
    IF encrypt THEN ChainEncrypt(bytes, length, ivec, <<ks>>)
               ELSE ChainDecrypt(bytes, length, ivec, <<ks>>)
\* The same, but the caller's ivec stays as it is.
CbcEncrypt(bytes, length, ks, ivec, encrypt) ==
    [NcbcEncrypt(bytes, length, ks, ivec, encrypt) EXCEPT !.ivec = ivec]
Ede3CbcEncrypt(bytes, length, ks1, ks2, ks3, ivec, encrypt) ==
    IF encrypt THEN ChainEncrypt(bytes, length, ivec, <<ks1, ks2, ks3>>)
               ELSE ChainDecrypt(bytes, length, ivec, <<ks1, ks2, ks3>>)

-----------------------------------------------------------------------------
\* con_salt and cov_2char, by their rules: "." to "9", "A" to "Z", "a" to "z".
ConSalt(c) == IF c <= 57 THEN (c + 210) % 256 ELSE IF c <= 90 THEN c - 53 ELSE c - 59
Cov2Char(n) == IF n < 12 THEN n + 46 ELSE IF n < 38 THEN n + 53 ELSE n + 59

\* fcrypt_body: 25 times the rounds, on zeros.
FcryptBody(ks, e0, e1) ==
    LET done[n \in 0..25] ==
            IF n = 0 THEN <<{}, {}>> ELSE Swapped(SaltedRounds(ks, e0, e1)[done[n - 1]])
    IN  Swapped(FP(RorBoth(done[25], 3)))

\* des_fcrypt: two characters of salt ('A' for none), eleven of six bits each.
Fcrypt(buf, salt) ==
    LET char(n) == IF n > Len(salt) THEN 65 ELSE salt[n]
        key == [i \in 1..8 |-> IF i > Len(buf) THEN 0 ELSE (2 * buf[i]) % 256]
        e(n) == C2l(<<ConSalt(char(n))>>)
        bb == Append(Store(FcryptBody(KeySchedule(key), Shl(e(1), 2), Shl(e(2), 6))), 0)
        bit(n) == (bb[n \div 8 + 1] \div 2^(7 - (n % 8))) % 2
        c(i) == MapThenSumSet(LAMBDA j : bit(6*i + j) * 2^(5 - j), 0..5)
    IN  <<char(1), char(2)>> \o [i \in 1..11 |-> Cov2Char(c(i - 1))]
=============================================================================
