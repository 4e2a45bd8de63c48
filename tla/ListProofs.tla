----------------------------- MODULE ListProofs -----------------------------
(***************************************************************************)
(* The loops of SnmpCollection and of ComTableWid.  A collection is the    *)
(* list of what was put into it, for any elements and size of a block; the *)
(* table shows what was asked for, for any texts and number of columns.    *)
(* What holds before a loop and is kept by each pass holds after it: there *)
(* is no first pass after which it does not (LeastNumber).                 *)
(***************************************************************************)
EXTENDS ValuesProofs, Collection, ComTable

\* The block and the cell of a position.
Block(p) == (p \div MAXT) + 1
Cell(p) == p % MAXT
Blocks(n) == IF n = 0 THEN 1 ELSE Block(n - 1)

LEMMA Places ==
    /\ \A p \in Nat : Block(p) \in Nat \ {0} /\ Cell(p) \in 0..(MAXT - 1)
    /\ Block(0) = 1 /\ Cell(0) = 0
    /\ \A p \in Nat :
          IF Cell(p) = MAXT - 1 THEN Cell(p + 1) = 0 /\ Block(p + 1) = Block(p) + 1
          ELSE Cell(p + 1) = Cell(p) + 1 /\ Block(p + 1) = Block(p)
    /\ \A p \in Nat, q \in Nat :
          q < p => Block(q) < Block(p) \/ (Block(q) = Block(p) /\ Cell(q) < Cell(p))
    /\ \A n \in Nat : Blocks(n) = IF n = 0 THEN 1 ELSE (n + MAXT - 1) \div MAXT
<1> USE CollectionAssumption
<1>1. ASSUME NEW p \in Nat
      PROVE  /\ p \div MAXT \in Nat /\ p % MAXT \in 0..(MAXT - 1)
             /\ p = MAXT * (p \div MAXT) + (p % MAXT)
  BY DivMod
<1>2. \A p \in Nat : Block(p) \in Nat \ {0} /\ Cell(p) \in 0..(MAXT - 1)
  BY <1>1 DEF Block, Cell
<1>3. Block(0) = 1 /\ Cell(0) = 0
  <2>1. (MAXT * 0 + 0) \div MAXT = 0 /\ (MAXT * 0 + 0) % MAXT = 0
    BY DivIs
  <2>2. MAXT * 0 + 0 = 0
    OBVIOUS
  <2>3. QED
    BY <2>1, <2>2 DEF Block, Cell
<1>4. ASSUME NEW p \in Nat
      PROVE  IF Cell(p) = MAXT - 1 THEN Cell(p + 1) = 0 /\ Block(p + 1) = Block(p) + 1
             ELSE Cell(p + 1) = Cell(p) + 1 /\ Block(p + 1) = Block(p)
  <2>1. PICK q \in Nat, r \in 0..(MAXT - 1) :
            q = p \div MAXT /\ r = p % MAXT /\ p = MAXT * q + r
    BY <1>1
  <2>2. CASE r = MAXT - 1
    <3>1. PICK z \in Nat, o \in 0..(MAXT - 1) : z = q + 1 /\ o = 0 /\ p + 1 = MAXT * z + o
      BY <2>1, <2>2
    <3>2. (p + 1) \div MAXT = q + 1 /\ (p + 1) % MAXT = 0
      BY <3>1, DivIs
    <3>3. QED
      BY <2>1, <2>2, <3>2 DEF Block, Cell
  <2>3. CASE r # MAXT - 1
    <3>1. p + 1 = MAXT * q + (r + 1) /\ r + 1 \in 0..(MAXT - 1)
      BY <2>1, <2>3
    <3>2. (p + 1) \div MAXT = q /\ (p + 1) % MAXT = r + 1
      BY <3>1, DivIs
    <3>3. QED
      BY <2>1, <2>3, <3>2 DEF Block, Cell
  <2>4. QED
    BY <2>2, <2>3
<1>5. ASSUME NEW p \in Nat, NEW q \in Nat, q < p
      PROVE  Block(q) < Block(p) \/ (Block(q) = Block(p) /\ Cell(q) < Cell(p))
  <2>1. PICK a \in Nat, b \in 0..(MAXT - 1) :
            a = p \div MAXT /\ b = p % MAXT /\ p = MAXT * a + b
    BY <1>1
  <2>2. PICK c \in Nat, d \in 0..(MAXT - 1) :
            c = q \div MAXT /\ d = q % MAXT /\ q = MAXT * c + d
    BY <1>1
  <2>3. ~(a < c)
    <3>1. SUFFICES ASSUME a < c PROVE FALSE
      OBVIOUS
    <3>2. PICK e \in Nat : c = a + 1 + e
      <4>1. c - a - 1 \in Nat /\ c = a + 1 + (c - a - 1)
        BY <3>1
      <4>2. QED
        BY <4>1
    <3>3. MAXT * c = MAXT * a + MAXT + MAXT * e /\ MAXT * e >= 0
      BY <3>2
    <3>4. QED
      BY <1>5, <2>1, <2>2, <3>3
  <2>4. a = c => d < b
    BY <1>5, <2>1, <2>2
  <2>5. QED
    BY <2>1, <2>2, <2>3, <2>4 DEF Block, Cell
<1>6. ASSUME NEW n \in Nat
      PROVE  Blocks(n) = IF n = 0 THEN 1 ELSE (n + MAXT - 1) \div MAXT
  <2>1. CASE n = 0
    BY <2>1 DEF Blocks
  <2>2. CASE n # 0
    <3>1. n - 1 \in Nat
      BY <2>2
    <3>2. PICK q \in Nat, r \in 0..(MAXT - 1) : q = (n - 1) \div MAXT /\ n - 1 = MAXT * q + r
      BY <1>1, <3>1
    <3>3. PICK z \in Nat : z = q + 1 /\ n + MAXT - 1 = MAXT * z + r
      BY <3>2
    <3>4. (n + MAXT - 1) \div MAXT = q + 1
      BY <3>2, <3>3, DivIs
    <3>5. QED
      BY <2>2, <3>2, <3>4 DEF Blocks, Block
  <2>3. QED
    BY <2>1, <2>2
<1>7. QED
  BY <1>2, <1>3, <1>4, <1>5, <1>6

-----------------------------------------------------------------------------
\* The chain of blocks that holds a list, and a collection of it.
CellBlocks == [0..(MAXT - 1) -> Things \cup {Dangling}]
IsChain(data, v) ==
    /\ v \in Seq(Things) /\ data \in Seq(CellBlocks) /\ Len(data) = Blocks(Len(v))
    /\ \A p \in 0..(Len(v) - 1) : data[Block(p)][Cell(p)] = v[p + 1]
IsList(c, v) == c = [count |-> Len(v), data |-> c.data] /\ IsChain(c.data, v)

LEMMA ChainFacts ==
    ASSUME NEW data, NEW v, IsChain(data, v)
    PROVE  /\ Len(v) \in Nat /\ Len(data) \in Nat \ {0}
           /\ \A p \in 0..(Len(v) - 1) : Block(p) \in 1..Len(data)
<1>1. Len(v) \in Nat /\ Len(data) = Blocks(Len(v))
  BY DEF IsChain
<1>2. CASE Len(v) = 0
  BY <1>1, <1>2 DEF Blocks
<1>3. CASE Len(v) # 0
  <2>1. Len(v) - 1 \in Nat /\ Len(data) = Block(Len(v) - 1)
    BY <1>1, <1>3 DEF Blocks
  <2>2. Len(data) \in Nat \ {0}
    BY <2>1, Places
  <2>3. ASSUME NEW p \in 0..(Len(v) - 1) PROVE Block(p) \in 1..Len(data)
    <3>1. PICK m \in Nat : m = Len(v) - 1
      BY <2>1
    <3>2. p \in Nat /\ (p = m \/ p < m)
      BY <3>1
    <3>3. Block(p) \in Nat \ {0} /\ Block(m) \in Nat \ {0}
      BY <3>2, Places
    <3>4. Block(p) <= Block(m)
      <4>1. CASE p = m
        BY <3>3, <4>1
      <4>2. CASE p < m
        <5>1. Block(p) < Block(m) \/ Block(p) = Block(m)
          BY <3>2, <4>2, Places
        <5>2. QED
          BY <3>3, <5>1
      <4>3. QED
        BY <3>2, <4>1, <4>2
    <3>5. QED
      BY <2>1, <3>1, <3>3, <3>4
  <2>4. QED
    BY <1>1, <2>2, <2>3
<1>4. QED
  BY <1>2, <1>3

\* The next element goes into the last block, or into a new one.
LEMMA ChainGrows ==
    ASSUME NEW data, NEW v, IsChain(data, v), NEW x \in Things
    PROVE  LET n == Len(v)
           IN  IF n > 0 /\ Cell(n) = 0
               THEN IsChain(Append(data, [EmptyBlock EXCEPT ![0] = x]), Append(v, x))
               ELSE IsChain([data EXCEPT ![Len(data)][Cell(n)] = x], Append(v, x))
<1> DEFINE n == Len(v)
           w == Append(v, x)
           last == Len(data)
<1>1. /\ n \in Nat /\ last \in Nat \ {0} /\ last = Blocks(n)
      /\ data \in Seq(CellBlocks) /\ v \in Seq(Things)
      /\ \A p \in 0..(n - 1) : Block(p) \in 1..last /\ data[Block(p)][Cell(p)] = v[p + 1]
  BY ChainFacts DEF IsChain
<1>2. /\ w \in Seq(Things) /\ Len(w) = n + 1 /\ w[n + 1] = x
      /\ \A p \in 0..(n - 1) : w[p + 1] = v[p + 1]
  BY <1>1
<1>3. /\ Cell(n) \in 0..(MAXT - 1) /\ Block(n) \in Nat \ {0} /\ Blocks(n + 1) = Block(n)
      /\ MAXT \in Nat \ {0}
  BY <1>1, Places, CollectionAssumption DEF Blocks
<1>4. \A p \in 0..(n - 1) : /\ Cell(p) \in 0..(MAXT - 1)
                            /\ Block(p) < Block(n) \/ (Block(p) = Block(n) /\ Cell(p) < Cell(n))
  <2> HIDE DEF n
  <2> TAKE p \in 0..(n - 1)
  <2>1. p \in Nat /\ p < n
    BY <1>1
  <2>2. QED
    BY <1>1, <2>1, Places
<1> HIDE DEF w, n
<1>5. CASE n > 0 /\ Cell(n) = 0
  <2> DEFINE block == [EmptyBlock EXCEPT ![0] = x]
             new == Append(data, block)
  <2>1. block \in CellBlocks /\ block[0] = x
    BY <1>3 DEF EmptyBlock, CellBlocks
  <2> HIDE DEF block
  <2>2. /\ new \in Seq(CellBlocks) /\ Len(new) = last + 1 /\ new[last + 1] = block
        /\ \A b \in 1..last : new[b] = data[b]
    BY <1>1, <2>1
  <2>3. Block(n) = last + 1
    <3>1. n - 1 \in Nat /\ last = Block(n - 1) /\ n - 1 + 1 = n
      BY <1>1, <1>5 DEF Blocks
    <3>2. IF Cell(n - 1) = MAXT - 1 THEN Cell(n) = 0 /\ Block(n) = Block(n - 1) + 1
          ELSE Cell(n) = Cell(n - 1) + 1 /\ Block(n) = Block(n - 1)
      BY <3>1, Places
    <3>3. Cell(n - 1) \in 0..(MAXT - 1)
      BY <3>1, Places
    <3>4. QED
      BY <1>5, <3>1, <3>2, <3>3
  <2> HIDE DEF new
  <2>4. ASSUME NEW p \in 0..n PROVE new[Block(p)][Cell(p)] = w[p + 1]
    <3>1. CASE p = n
      BY <1>2, <1>5, <2>1, <2>2, <2>3, <3>1
    <3>2. CASE p # n
      <4>1. p \in 0..(n - 1)
        BY <1>1, <3>2
      <4>2. QED
        BY <1>1, <1>2, <2>2, <4>1
    <3>3. QED
      BY <3>1, <3>2
  <2>5. IsChain(new, w)
    BY <1>1, <1>2, <1>3, <2>2, <2>3, <2>4 DEF IsChain
  <2>6. QED
    BY <1>5, <2>5 DEF new, block, n, w
<1>6. CASE ~(n > 0 /\ Cell(n) = 0)
  <2> DEFINE new == [data EXCEPT ![last][Cell(n)] = x]
  <2>1. Block(n) = last
    <3>1. CASE n = 0
      BY <1>1, <3>1, Places DEF Blocks
    <3>2. CASE n # 0
      <4>1. n - 1 \in Nat /\ last = Block(n - 1) /\ n - 1 + 1 = n
        BY <1>1, <3>2 DEF Blocks
      <4>2. IF Cell(n - 1) = MAXT - 1 THEN Cell(n) = 0 /\ Block(n) = Block(n - 1) + 1
            ELSE Cell(n) = Cell(n - 1) + 1 /\ Block(n) = Block(n - 1)
        BY <4>1, Places
      <4>3. QED
        BY <1>1, <1>6, <3>2, <4>1, <4>2
    <3>3. QED
      BY <3>1, <3>2
  <2>2. /\ new \in Seq(CellBlocks) /\ Len(new) = last
        /\ new[last] = [data[last] EXCEPT ![Cell(n)] = x]
        /\ \A b \in 1..last : b # last => new[b] = data[b]
    <3>1. last \in 1..last /\ data[last] \in CellBlocks
      BY <1>1
    <3>2. [data[last] EXCEPT ![Cell(n)] = x] \in CellBlocks
      BY <1>3, <3>1 DEF CellBlocks
    <3>3. QED
      BY <1>1, <3>1, <3>2
  <2>3. data[last] \in CellBlocks
    BY <1>1
  <2> HIDE DEF new
  <2>4. ASSUME NEW p \in 0..n PROVE new[Block(p)][Cell(p)] = w[p + 1]
    <3>1. CASE p = n
      BY <1>2, <1>3, <2>1, <2>2, <2>3, <3>1 DEF CellBlocks
    <3>2. CASE p # n
      <4>1. p \in 0..(n - 1)
        BY <1>1, <3>2
      <4>2. CASE Block(p) = last
        <5>1. Cell(p) \in 0..(MAXT - 1) /\ Cell(p) # Cell(n)
          <6>1. Cell(p) \in 0..(MAXT - 1) /\ (Block(p) < Block(n) \/ Cell(p) < Cell(n))
            BY <1>4, <4>1
          <6>2. ~(Block(p) < Block(n)) /\ ~(Cell(n) < Cell(n))
            BY <1>3, <2>1, <4>2
          <6>3. QED
            BY <6>1, <6>2
        <5>2. new[last][Cell(p)] = data[last][Cell(p)]
          BY <2>2, <2>3, <5>1 DEF CellBlocks
        <5>3. QED
          BY <1>1, <1>2, <4>1, <4>2, <5>2
      <4>3. CASE Block(p) # last
        BY <1>1, <1>2, <2>2, <4>1, <4>3
      <4>4. QED
        BY <4>2, <4>3
    <3>3. QED
      BY <3>1, <3>2
  <2>5. IsChain(new, w)
    BY <1>1, <1>2, <1>3, <2>1, <2>2, <2>4 DEF IsChain
  <2>6. QED
    BY <1>6, <2>5 DEF new, n, w
<1>7. QED
  BY <1>5, <1>6 DEF n

-----------------------------------------------------------------------------
\* The loop of a copy, with its own count of the cells of the last block.
IsCopy(a, v) ==
    /\ a = [data |-> a.data, cn |-> IF Len(v) = 0 THEN 0 ELSE Cell(Len(v) - 1) + 1]
    /\ IsChain(a.data, v)

LEMMA CopyGrows ==
    ASSUME NEW a, NEW v, IsCopy(a, v), NEW x \in Things
    PROVE  IsCopy(CopyElement(a, x), Append(v, x))
<1> DEFINE n == Len(v)
           w == Append(v, x)
           data == a.data
           b == CopyElement(a, x)
<1>1. /\ n \in Nat /\ MAXT \in Nat \ {0} /\ v \in Seq(Things)
      /\ IsChain(data, v) /\ data \in Seq(CellBlocks) /\ Len(data) \in Nat \ {0}
  BY ChainFacts, CollectionAssumption DEF IsCopy, IsChain
<1>2. a.cn = IF n = 0 THEN 0 ELSE Cell(n - 1) + 1
  BY DEF IsCopy
<1>3. Len(w) = n + 1 /\ n + 1 - 1 = n
  BY <1>1
<1> HIDE DEF n
<1>4. CASE n > 0 /\ Cell(n - 1) = MAXT - 1
  <2>1. PICK p \in Nat : p = n - 1 /\ p + 1 = n
    BY <1>1, <1>4
  <2>2. Cell(n) = 0 /\ a.cn = MAXT
    <3>1. Cell(p) = MAXT - 1
      BY <1>4, <2>1
    <3>2. Cell(p + 1) = 0
      BY <3>1, Places
    <3>3. a.cn = MAXT - 1 + 1
      BY <1>1, <1>2, <1>4
    <3>4. QED
      BY <1>1, <2>1, <3>2, <3>3
  <2>3. a.cn >= MAXT
    BY <1>1, <2>2
  <2> DEFINE block == [EmptyBlock EXCEPT ![0] = x]
             longer == Append(data, EmptyBlock)
             new == [longer EXCEPT ![Len(longer)][0] = x]
  <2>4. b = [data |-> new, cn |-> 1]
    BY <2>3 DEF CopyElement
  <2>5. new = Append(data, block)
    <3>1. EmptyBlock \in CellBlocks
      BY DEF EmptyBlock, CellBlocks
    <3> HIDE DEF block
    <3>2. /\ longer \in Seq(CellBlocks) /\ Len(longer) = Len(data) + 1
          /\ longer[Len(data) + 1] = EmptyBlock
          /\ \A i \in 1..Len(data) : longer[i] = data[i]
      BY <1>1, <3>1
    <3> HIDE DEF longer
    <3>3. new = [i \in 1..(Len(data) + 1) |-> IF i = Len(data) + 1 THEN block ELSE data[i]]
      <4>1. /\ DOMAIN longer = 1..(Len(data) + 1)
            /\ [longer[Len(longer)] EXCEPT ![0] = x] = block
        BY <1>1, <3>2 DEF block
      <4>2. new = [i \in DOMAIN longer |-> IF i = Len(longer) THEN block ELSE longer[i]]
        <5>1. new = [longer EXCEPT ![Len(longer)] = block]
          BY <4>1
        <5>2. QED
          BY <5>1
      <4> HIDE DEF new
      <4>3. QED
        BY <1>1, <3>2, <4>1, <4>2
    <3>4. Append(data, block) = [i \in 1..(Len(data) + 1) |->
                                    IF i = Len(data) + 1 THEN block ELSE data[i]]
      BY <1>1
    <3>5. QED
      BY <3>3, <3>4
  <2>6. IsChain(new, w)
    <3>1. IsChain(Append(data, block), w)
      BY <1>1, <1>4, <2>2, ChainGrows DEF n
    <3> HIDE DEF new, block, w
    <3>2. QED
      BY <2>5, <3>1
  <2> HIDE DEF new, b, w
  <2>7. QED
    <3>1. IsCopy(b, w)
      BY <1>1, <1>3, <2>2, <2>4, <2>6 DEF IsCopy
    <3>2. QED
      BY <3>1 DEF b, w
<1>5. CASE ~(n > 0 /\ Cell(n - 1) = MAXT - 1)
  <2>1. a.cn = Cell(n) /\ Cell(n) \in 0..(MAXT - 1) /\ ~(n > 0 /\ Cell(n) = 0)
    <3>1. CASE n = 0
      BY <1>1, <1>2, <3>1, Places
    <3>2. CASE n # 0
      <4>1. PICK p \in Nat : p = n - 1 /\ p + 1 = n
        BY <1>1, <3>2
      <4>2. Cell(n) = Cell(p) + 1 /\ Cell(p) \in 0..(MAXT - 1) /\ Cell(n) \in 0..(MAXT - 1)
        BY <1>1, <1>5, <3>2, <4>1, Places
      <4>3. QED
        BY <1>1, <1>2, <3>2, <4>1, <4>2
    <3>3. QED
      BY <3>1, <3>2
  <2>2. ~(a.cn >= MAXT)
    BY <1>1, <2>1
  <2> DEFINE new == [data EXCEPT ![Len(data)][Cell(n)] = x]
  <2>3. b = [data |-> new, cn |-> Cell(n) + 1]
    BY <2>1, <2>2 DEF CopyElement
  <2>4. IsChain(new, w)
    BY <1>1, <2>1, ChainGrows DEF n
  <2> HIDE DEF new, b, w
  <2>5. IsCopy(b, w)
    BY <1>1, <1>3, <2>3, <2>4 DEF IsCopy
  <2>6. QED
    BY <2>5 DEF b, w
<1>6. QED
  BY <1>4, <1>5

LEMMA PlusGrows ==
    ASSUME NEW c, NEW v, IsList(c, v), NEW x \in Things
    PROVE  IsList(Plus1(c, x), Append(v, x))
<1> DEFINE n == Len(v)
           w == Append(v, x)
<1>1. n \in Nat /\ IsChain(c.data, v) /\ c.count = n /\ v \in Seq(Things) /\ Len(w) = n + 1
  BY ChainFacts DEF IsList, IsChain
<1>2. CASE n > 0 /\ Cell(n) = 0
  <2>1. IsChain(Append(c.data, [EmptyBlock EXCEPT ![0] = x]), w)
    BY <1>1, <1>2, ChainGrows
  <2>2. QED
    BY <1>1, <1>2, <2>1 DEF Plus1, IsList, Cell
<1>3. CASE ~(n > 0 /\ Cell(n) = 0)
  <2>1. IsChain([c.data EXCEPT ![Len(c.data)][Cell(n)] = x], w)
    BY <1>1, <1>3, ChainGrows
  <2>2. QED
    BY <1>1, <1>3, <2>1 DEF Plus1, IsList, Cell
<1>4. QED
  BY <1>2, <1>3

LEMMA EmptyIsList == IsList(EmptyCollection, <<>>) /\ IsCopy([data |-> <<EmptyBlock>>, cn |-> 0], <<>>)
BY CollectionAssumption DEF IsList, IsCopy, IsChain, EmptyCollection, EmptyBlock, CellBlocks, Blocks

LEMMA ListFacts ==
    ASSUME NEW c, NEW v, IsList(c, v)
    PROVE  /\ c.count = Len(v) /\ Len(v) \in Nat /\ v \in Seq(Things) /\ IsChain(c.data, v)
           /\ \A p \in 0..(Len(v) - 1) : GetElement(c, p) = v[p + 1] /\ v[p + 1] \in Things
<1>1. c.count = Len(v) /\ Len(v) \in Nat /\ v \in Seq(Things) /\ IsChain(c.data, v)
  BY ChainFacts DEF IsList, IsChain
<1>2. ASSUME NEW p \in 0..(Len(v) - 1)
      PROVE  GetElement(c, p) = v[p + 1] /\ v[p + 1] \in Things
  <2>1. p + 1 \in 1..Len(v)
    BY <1>1
  <2>2. QED
    BY <1>1, <2>1 DEF IsChain, GetElement, Block, Cell
<1>3. QED
  BY <1>1, <1>2

LEMMA SubSeqGrows ==
    ASSUME NEW R, NEW v \in Seq(R)
    PROVE  /\ SubSeq(v, 1, 0) = <<>> /\ SubSeq(v, 1, Len(v)) = v
           /\ \A n \in 1..Len(v) : SubSeq(v, 1, n) = Append(SubSeq(v, 1, n - 1), v[n])
<1>1. Len(v) \in Nat
  OBVIOUS
<1>2. ASSUME NEW n \in 1..Len(v)
      PROVE  SubSeq(v, 1, n) = Append(SubSeq(v, 1, n - 1), v[n])
  <2>1. /\ SubSeq(v, 1, n) = [i \in 1..n |-> v[i]]
        /\ SubSeq(v, 1, n - 1) = [i \in 1..(n - 1) |-> v[i]]
        /\ n - 1 \in 0..Len(v)
    BY <1>1
  <2>2. Len(SubSeq(v, 1, n - 1)) = n - 1
    BY <1>1, <2>1
  <2>3. Append(SubSeq(v, 1, n - 1), v[n]) = [i \in 1..n |-> v[i]]
    BY <1>1, <2>1, <2>2
  <2>4. QED
    BY <2>1, <2>3
<1>3. QED
  BY <1>1, <1>2

LEMMA CopyIsList ==
    ASSUME NEW c, NEW v, IsList(c, v)
    PROVE  IsList(CopyOf(c), v)
<1> DEFINE K == c.count
           base == [data |-> <<EmptyBlock>>, cn |-> 0]
           copy[n \in 0..K] ==
               IF n = 0 THEN base ELSE CopyElement(copy[n - 1], GetElement(c, n - 1))
           pre(n) == SubSeq(v, 1, n)
           U == [data : Seq(CellBlocks), cn : 0..MAXT]
           S == [n \in 0..K |-> {a \in U : IsCopy(a, pre(n))}]
           step == [e \in (1..K) \X U |-> CopyElement(e[2], GetElement(c, e[1] - 1))]
<1>1. /\ K = Len(v) /\ K \in Nat /\ v \in Seq(Things) /\ MAXT \in Nat \ {0}
      /\ \A n \in 1..K : GetElement(c, n - 1) = v[n] /\ v[n] \in Things
  <2>1. ASSUME NEW n \in 1..Len(v) PROVE GetElement(c, n - 1) = v[n] /\ v[n] \in Things
    <3>1. PICK p \in 0..(Len(v) - 1) : p = n - 1 /\ p + 1 = n
      BY ListFacts
    <3>2. QED
      BY <3>1, ListFacts
  <2>2. QED
    BY <2>1, ListFacts, CollectionAssumption
<1>2. ASSUME NEW a, NEW w, IsCopy(a, w) PROVE a \in U
  <2>1. Len(w) \in Nat /\ a.data \in Seq(CellBlocks)
    BY <1>2 DEF IsCopy, IsChain
  <2>2. (IF Len(w) = 0 THEN 0 ELSE Cell(Len(w) - 1) + 1) \in 0..MAXT
    <3>1. CASE Len(w) = 0
      BY <1>1, <3>1
    <3>2. CASE Len(w) # 0
      <4>1. Len(w) - 1 \in Nat
        BY <2>1, <3>2
      <4>2. Cell(Len(w) - 1) \in 0..(MAXT - 1)
        BY <4>1, Places
      <4>3. QED
        BY <1>1, <3>2, <4>2
    <3>3. QED
      BY <3>1, <3>2
  <2>3. QED
    BY <1>2, <2>1, <2>2 DEF IsCopy
<1>3. /\ pre(0) = <<>> /\ pre(K) = v
      /\ \A n \in 1..K : pre(n) = Append(pre(n - 1), v[n])
  BY <1>1, SubSeqGrows
<1>4. base \in S[0]
  <2>1. IsCopy(base, pre(0))
    BY <1>3, EmptyIsList
  <2> HIDE DEF base, pre, U
  <2>2. QED
    BY <1>1, <1>2, <2>1
<1> HIDE DEF base, pre
<1>5. ASSUME NEW n \in 1..K, NEW x \in S[n - 1]
      PROVE  CopyElement(x, GetElement(c, n - 1)) \in S[n] /\ x \in U
  <2>1. n - 1 \in 0..K /\ n \in 0..K
    BY <1>1
  <2> HIDE DEF U, K
  <2>2. x \in U /\ IsCopy(x, pre(n - 1))
    BY <1>5, <2>1
  <2>3. IsCopy(CopyElement(x, v[n]), pre(n))
    <3>1. IsCopy(CopyElement(x, v[n]), Append(pre(n - 1), v[n]))
      BY <1>1, <2>2, CopyGrows
    <3>2. QED
      BY <1>3, <3>1
  <2>4. QED
    BY <1>1, <1>2, <2>1, <2>2, <2>3
<1>6. ASSUME NEW n \in 1..K, NEW x \in U
      PROVE  step[<<n, x>>] = CopyElement(x, GetElement(c, n - 1))
  BY <1>6
<1> HIDE DEF S, step, U, K
<1>7. PICK f : Runs(f, K, base, step) /\ \A n \in 0..K : f[n] \in S[n]
  <2>1. \A n \in 1..K : \A x \in S[n - 1] : step[<<n, x>>] \in S[n]
    BY <1>5, <1>6
  <2>2. QED
    BY <1>1, <1>4, <2>1, LoopRuns
<1>8. f = [n \in 0..K |-> IF n = 0 THEN base ELSE CopyElement(f[n - 1], GetElement(c, n - 1))]
  <2>1. ASSUME NEW n \in 0..K, n # 0
        PROVE  step[<<n, f[n - 1]>>] = CopyElement(f[n - 1], GetElement(c, n - 1))
    <3>1. n \in 1..K /\ n - 1 \in 0..K
      BY <1>1, <2>1
    <3>2. f[n - 1] \in U
      BY <1>5, <1>7, <3>1
    <3>3. QED
      BY <1>6, <3>1, <3>2
  <2>2. QED
    BY <1>7, <2>1 DEF Runs
<1>9. copy = [n \in 0..K |->
                 IF n = 0 THEN base ELSE CopyElement(copy[n - 1], GetElement(c, n - 1))]
  BY <1>8 DEF copy
<1> HIDE DEF copy
<1>10. copy[K] \in S[K]
  <2> DEFINE T == {n \in 0..K : copy[n] \in S[n]}
  <2>1. 0 \in T
    BY <1>1, <1>4, <1>9
  <2>2. ASSUME NEW n \in 1..K, n - 1 \in T PROVE n \in T
    <3>1. copy[n] = CopyElement(copy[n - 1], GetElement(c, n - 1))
      BY <1>1, <1>9
    <3>2. copy[n - 1] \in S[n - 1] /\ n \in 0..K
      BY <1>1, <2>2
    <3>3. CopyElement(copy[n - 1], GetElement(c, n - 1)) \in S[n]
      BY <1>5, <3>2
    <3>4. QED
      BY <3>1, <3>2, <3>3
  <2> HIDE DEF T
  <2>3. \A n \in 0..K : n \in T
    BY <1>1, <2>1, <2>2, Reached
  <2>4. QED
    BY <1>1, <2>3 DEF T
<1>11. IsChain(copy[K].data, v)
  BY <1>1, <1>3, <1>10 DEF S, IsCopy
<1>12. CopyOf(c) = [count |-> K, data |-> copy[K].data]
  BY DEF CopyOf, copy, K, base
<1>13. QED
  BY <1>1, <1>11, <1>12 DEF IsList

-----------------------------------------------------------------------------
LEMMA FindIs ==
    ASSUME NEW c, NEW v, IsList(c, v), NEW thing \in Things
    PROVE  /\ Find(c, thing) \in 0..Len(v)
           /\ Find(c, thing) = Len(v) \/ v[Find(c, thing) + 1] = thing
           /\ \A q \in 0..(Find(c, thing) - 1) : v[q + 1] # thing
<1> DEFINE n == Len(v)
           T == {p \in 0..n : p = n \/ GetElement(c, p) = thing}
           good(p) == /\ p = n \/ GetElement(c, p) = thing
                      /\ \A q \in 0..(p - 1) : GetElement(c, q) # thing
<1>1. /\ c.count = n /\ n \in Nat
      /\ \A p \in 0..(n - 1) : GetElement(c, p) = v[p + 1]
  BY ListFacts
<1> HIDE DEF n
<1>2. PICK p \in T : \A y \in T : p <= y
  <2>1. T \subseteq Nat /\ n \in T
    BY <1>1
  <2> HIDE DEF T
  <2>2. QED
    BY <2>1, LeastNumber
<1>3. p \in 0..n /\ good(p)
  <2>1. p \in 0..n /\ (p = n \/ GetElement(c, p) = thing)
    BY <1>2
  <2>2. ASSUME NEW q \in 0..(p - 1) PROVE GetElement(c, q) # thing
    <3>1. q \in 0..n /\ ~(p <= q)
      BY <1>1, <2>1
    <3>2. QED
      BY <1>2, <3>1
  <2>3. QED
    BY <2>1, <2>2
<1>4. Find(c, thing) = CHOOSE x \in 0..n : good(x)
  BY <1>1 DEF Find
<1>5. Find(c, thing) \in 0..n /\ good(Find(c, thing))
  <2> DEFINE found == CHOOSE x \in 0..n : good(x)
  <2> HIDE DEF good
  <2>1. found \in 0..n /\ good(found)
    BY <1>3
  <2>2. QED
    BY <1>4, <2>1
<1>6. ASSUME NEW q \in 0..n, q # n PROVE GetElement(c, q) = v[q + 1]
  BY <1>1, <1>6
<1>7. ASSUME NEW q \in 0..(Find(c, thing) - 1) PROVE v[q + 1] # thing
  <2>1. q \in 0..n /\ q # n
    BY <1>1, <1>5
  <2>2. QED
    BY <1>5, <1>6, <2>1
<1>8. QED
  BY <1>5, <1>6, <1>7 DEF n

\* The first place of a thing in a list is where find says.
LEMMA FirstPlace ==
    ASSUME NEW c, NEW v, IsList(c, v), NEW thing \in Things
    PROVE  IF Contains(v, thing)
           THEN Find(c, thing) + 1 = SelectInSeq(v, LAMBDA t : t = thing)
           ELSE Find(c, thing) = Len(v)
<1> DEFINE n == Len(v)
           p == Find(c, thing)
           I == {i \in 1..n : v[i] = thing}
<1>1. /\ n \in Nat /\ p \in 0..n /\ (p = n \/ v[p + 1] = thing)
      /\ \A q \in 0..(p - 1) : v[q + 1] # thing
  BY FindIs, ListFacts
<1> HIDE DEF p
<1>2. ASSUME NEW i \in I PROVE p < i
  <2>1. i \in 1..n /\ v[i] = thing /\ i - 1 + 1 = i
    BY <1>1
  <2>2. ~(i - 1 \in 0..(p - 1))
    BY <1>1, <2>1
  <2>3. QED
    BY <1>1, <2>1, <2>2
<1>3. CASE Contains(v, thing)
  <2>1. I # {}
    BY <1>3 DEF Contains
  <2>2. p + 1 \in I
    BY <1>1, <1>2, <2>1
  <2>3. SelectInSeq(v, LAMBDA t : t = thing) = CHOOSE x \in I : \A y \in I : x =< y
    BY <2>1 DEF SelectInSeq, Min
  <2>4. \A y \in I : p + 1 =< y
    BY <1>1, <1>2
  <2>5. ASSUME NEW x \in I, \A y \in I : x =< y PROVE x = p + 1
    <3>1. x =< p + 1 /\ p + 1 =< x /\ x \in Nat
      BY <2>2, <2>4, <2>5
    <3>2. QED
      BY <1>1, <3>1
  <2>6. (CHOOSE x \in I : \A y \in I : x =< y) = p + 1
    <3> HIDE DEF I
    <3>1. QED
      BY <2>2, <2>4, <2>5
  <2>7. QED
    BY <1>3, <2>3, <2>6 DEF p
<1>4. CASE ~Contains(v, thing)
  <2>1. p = n
    <3>1. p # n => p + 1 \in 1..n
      BY <1>1
    <3>2. QED
      BY <1>1, <1>4, <3>1 DEF Contains
  <2>2. QED
    BY <1>4, <2>1 DEF p
<1>5. QED
  BY <1>3, <1>4

\* The first n elements of a list without the one at a position.
Without(v, n, pos) ==
    [i \in 1..(IF n <= pos THEN n ELSE n - 1) |-> IF i <= pos THEN v[i] ELSE v[i + 1]]

LEMMA WithoutGrows ==
    ASSUME NEW v \in Seq(Things), NEW pos \in 0..(Len(v) - 1), NEW n \in 1..Len(v)
    PROVE  IF n - 1 = pos THEN Without(v, n, pos) = Without(v, n - 1, pos)
           ELSE Without(v, n, pos) = Append(Without(v, n - 1, pos), v[n])
<1>1. Len(v) \in Nat
  OBVIOUS
<1>2. CASE n - 1 = pos
  BY <1>1, <1>2 DEF Without
<1>3. CASE n - 1 # pos
  <2> DEFINE m == IF n <= pos THEN n ELSE n - 1
             body == [i \in 1..(m - 1) |-> IF i <= pos THEN v[i] ELSE v[i + 1]]
  <2>1. /\ m \in Nat \ {0} /\ (IF m <= pos THEN m = n ELSE m + 1 = n)
        /\ (IF n - 1 <= pos THEN n - 1 ELSE n - 1 - 1) = m - 1
    BY <1>1, <1>3
  <2>2. Without(v, n, pos) = [i \in 1..m |-> IF i <= pos THEN v[i] ELSE v[i + 1]]
    BY DEF Without
  <2>3. Without(v, n - 1, pos) = body
    BY <2>1 DEF Without
  <2>4. Len(body) = m - 1
    BY <2>1
  <2> HIDE DEF m
  <2>5. Append(body, v[n]) = [i \in 1..m |-> IF i = m THEN v[n] ELSE body[i]]
    BY <2>1, <2>4
  <2>6. Append(body, v[n]) = [i \in 1..m |-> IF i <= pos THEN v[i] ELSE v[i + 1]]
    BY <1>1, <2>1, <2>5
  <2>7. QED
    BY <1>3, <2>2, <2>3, <2>6
<1>4. QED
  BY <1>2, <1>3

LEMMA WithoutIs ==
    ASSUME NEW v \in Seq(Things), NEW pos \in 0..(Len(v) - 1)
    PROVE  Without(v, 0, pos) = <<>> /\ Without(v, Len(v), pos) = RemoveAt(v, pos + 1)
<1> DEFINE n == Len(v)
<1>1. n \in Nat /\ pos \in 0..(n - 1)
  OBVIOUS
<1>2. Without(v, 0, pos) = <<>>
  BY DEF Without
<1>3. Without(v, n, pos) = [i \in 1..(n - 1) |-> IF i <= pos THEN v[i] ELSE v[i + 1]]
  BY <1>1 DEF Without
<1> DEFINE a == SubSeq(v, 1, pos)
           b == SubSeq(v, pos + 2, n)
<1>4. a = [i \in 1..pos |-> v[i]] /\ Len(a) = pos /\ a \in Seq(Things)
  BY <1>1
<1>5. b = [i \in 1..(n - pos - 1) |-> v[i + pos + 1]] /\ Len(b) = n - pos - 1 /\ b \in Seq(Things)
  BY <1>1
<1> HIDE DEF a, b, n
<1>6. a \o b = [i \in 1..(n - 1) |-> IF i <= pos THEN a[i] ELSE b[i - pos]]
  BY <1>1, <1>4, <1>5
<1>7. a \o b = [i \in 1..(n - 1) |-> IF i <= pos THEN v[i] ELSE v[i + 1]]
  BY <1>1, <1>4, <1>5, <1>6
<1>8. RemoveAt(v, pos + 1) = a \o b
  <2>1. RemoveAt(v, pos + 1) = SubSeq(v, 1, (pos + 1) - 1) \o SubSeq(v, pos + 1 + 1, n)
    BY Zenon DEF RemoveAt, n
  <2>2. (pos + 1) - 1 = pos /\ pos + 1 + 1 = pos + 2
    BY <1>1
  <2>3. QED
    BY <2>1, <2>2, Zenon DEF a, b
<1>9. QED
  BY <1>2, <1>3, <1>7, <1>8 DEF n

LEMMA RemoveIsList ==
    ASSUME NEW c, NEW v, IsList(c, v), NEW thing \in Things
    PROVE  IsList(RemoveFrom(c, thing), RemoveFirst(v, thing))
<1> DEFINE K == c.count
           pos == Find(c, thing)
           others[n \in 0..K] ==
               IF n = 0 THEN EmptyCollection
               ELSE IF n - 1 = pos THEN others[n - 1]
               ELSE Plus1(others[n - 1], GetElement(c, n - 1))
           rest(n) == Without(v, n, pos)
           next(n, d) == IF n - 1 = pos THEN d ELSE Plus1(d, GetElement(c, n - 1))
           U == [count : Nat, data : Seq(CellBlocks)]
           S == [n \in 0..K |-> {d \in U : IsList(d, rest(n))}]
           step == [e \in (1..K) \X U |-> next(e[1], e[2])]
<1>1. /\ K = Len(v) /\ K \in Nat /\ v \in Seq(Things) /\ pos \in 0..K
      /\ pos = K \/ v[pos + 1] = thing
      /\ \A q \in 0..(pos - 1) : v[q + 1] # thing
      /\ \A n \in 1..K : GetElement(c, n - 1) = v[n] /\ v[n] \in Things
  <2>1. ASSUME NEW n \in 1..Len(v) PROVE GetElement(c, n - 1) = v[n] /\ v[n] \in Things
    <3>1. PICK p \in 0..(Len(v) - 1) : p = n - 1 /\ p + 1 = n
      BY ListFacts
    <3>2. QED
      BY <3>1, ListFacts
  <2>2. QED
    BY <2>1, ListFacts, FindIs
<1>2. CASE pos = K
  <2>1. RemoveFrom(c, thing) = c
    BY <1>2 DEF RemoveFrom
  <2>2. ~Contains(v, thing)
    <3>1. SUFFICES ASSUME NEW i \in 1..Len(v), v[i] = thing PROVE FALSE
      BY DEF Contains
    <3>2. i - 1 \in 0..(pos - 1) /\ i - 1 + 1 = i
      BY <1>1, <1>2
    <3>3. QED
      BY <1>1, <3>1, <3>2
  <2>3. RemoveFirst(v, thing) = v
    BY <2>2 DEF RemoveFirst, Contains
  <2>4. QED
    BY <2>1, <2>3
<1>3. CASE pos # K
  <2>1. pos \in 0..(Len(v) - 1)
    BY <1>1, <1>3
  <2>2. rest(0) = <<>> /\ rest(K) = RemoveFirst(v, thing)
    <3>1. pos + 1 \in 1..Len(v) /\ v[pos + 1] = thing
      BY <1>1, <1>3
    <3>2. Contains(v, thing)
      BY <3>1 DEF Contains
    <3>3. SelectInSeq(v, LAMBDA t : t = thing) = pos + 1
      BY <3>2, FirstPlace
    <3>4. RemoveFirst(v, thing) = RemoveAt(v, pos + 1)
      BY <3>2, <3>3 DEF RemoveFirst, Contains
    <3>5. QED
      BY <1>1, <2>1, <3>4, WithoutIs
  <2>3. ASSUME NEW d, NEW w, IsList(d, w) PROVE d \in U
    BY <2>3, ListFacts DEF IsList, IsChain
  <2>4. EmptyCollection \in S[0]
    <3> HIDE DEF U, rest
    <3>1. QED
      BY <1>1, <2>2, <2>3, EmptyIsList
  <2>5. ASSUME NEW n \in 1..K, NEW d \in S[n - 1] PROVE next(n, d) \in S[n] /\ d \in U
    <3>1. n - 1 \in 0..K /\ n \in 0..K
      BY <1>1
    <3>2. IF n - 1 = pos THEN rest(n) = rest(n - 1) ELSE rest(n) = Append(rest(n - 1), v[n])
      BY <1>1, <2>1, WithoutGrows
    <3> HIDE DEF U, K, rest
    <3>3. d \in U /\ IsList(d, rest(n - 1))
      BY <2>5, <3>1
    <3>4. IsList(Plus1(d, v[n]), Append(rest(n - 1), v[n]))
      BY <1>1, <3>3, PlusGrows
    <3>5. IsList(next(n, d), rest(n))
      BY <1>1, <3>2, <3>3, <3>4
    <3>6. QED
      BY <2>3, <3>1, <3>3, <3>5
  <2>6. ASSUME NEW n \in 1..K, NEW d \in U PROVE step[<<n, d>>] = next(n, d)
    BY <2>6
  <2> HIDE DEF S, step, U, K, rest, pos
  <2>7. PICK f : Runs(f, K, EmptyCollection, step) /\ \A n \in 0..K : f[n] \in S[n]
    <3>1. \A n \in 1..K : \A d \in S[n - 1] : step[<<n, d>>] \in S[n]
      BY <2>5, <2>6
    <3>2. QED
      BY <1>1, <2>4, <3>1, LoopRuns
  <2>8. f = [n \in 0..K |-> IF n = 0 THEN EmptyCollection ELSE next(n, f[n - 1])]
    <3>1. ASSUME NEW n \in 0..K, n # 0 PROVE step[<<n, f[n - 1]>>] = next(n, f[n - 1])
      <4>1. n \in 1..K /\ n - 1 \in 0..K
        BY <1>1, <3>1
      <4>2. f[n - 1] \in U
        BY <2>5, <2>7, <4>1
      <4>3. QED
        BY <2>6, <4>1, <4>2
    <3>2. QED
      BY <2>7, <3>1 DEF Runs
  <2>9. others = [n \in 0..K |-> IF n = 0 THEN EmptyCollection ELSE next(n, others[n - 1])]
    BY <2>8 DEF others
  <2> HIDE DEF others
  <2>10. others[K] \in S[K]
    <3> DEFINE T == {n \in 0..K : others[n] \in S[n]}
    <3>1. 0 \in T
      BY <1>1, <2>4, <2>9
    <3>2. ASSUME NEW n \in 1..K, n - 1 \in T PROVE n \in T
      <4>1. others[n] = next(n, others[n - 1])
        BY <1>1, <2>9
      <4>2. others[n - 1] \in S[n - 1] /\ n \in 0..K
        BY <1>1, <3>2
      <4>3. next(n, others[n - 1]) \in S[n]
        BY <2>5, <4>2
      <4>4. QED
        BY <4>1, <4>2, <4>3
    <3> HIDE DEF T
    <3>3. \A n \in 0..K : n \in T
      BY <1>1, <3>1, <3>2, Reached
    <3>4. QED
      BY <1>1, <3>3 DEF T
  <2>11. IsList(others[K], RemoveFirst(v, thing))
    BY <1>1, <2>2, <2>10 DEF S
  <2>12. RemoveFrom(c, thing) = CopyOf(others[K])
    BY <1>3 DEF RemoveFrom, others, K, pos
  <2>13. QED
    BY <2>11, <2>12, CopyIsList
<1>4. QED
  BY <1>2, <1>3

\* set_element changes one place of the list.
LEMMA SetIsList ==
    ASSUME NEW c, NEW v, IsList(c, v), NEW p \in 0..(Len(v) - 1), NEW thing \in Things
    PROVE  IsList([c EXCEPT !.data[(p \div MAXT) + 1][p % MAXT] = thing],
                  [v EXCEPT ![p + 1] = thing])
<1> DEFINE n == Len(v)
           w == [v EXCEPT ![p + 1] = thing]
           data == c.data
           new == [data EXCEPT ![Block(p)][Cell(p)] = thing]
<1>1. /\ n \in Nat /\ v \in Seq(Things) /\ data \in Seq(CellBlocks) /\ c.count = n
      /\ Len(data) = Blocks(n) /\ Len(data) \in Nat
      /\ \A q \in 0..(n - 1) : Block(q) \in 1..Len(data) /\ data[Block(q)][Cell(q)] = v[q + 1]
  <2>1. IsChain(data, v) /\ c.count = n
    BY ListFacts
  <2>2. QED
    BY <2>1, ChainFacts DEF IsChain
<1>2. p \in Nat /\ p \in 0..(n - 1) /\ p + 1 \in 1..n
  BY <1>1
<1>3. w \in Seq(Things) /\ Len(w) = n /\ \A q \in 0..(n - 1) : w[q + 1] = IF q = p THEN thing ELSE v[q + 1]
  BY <1>1, <1>2
<1>4. /\ Block(p) \in 1..Len(data) /\ Cell(p) \in 0..(MAXT - 1)
      /\ data[Block(p)] \in CellBlocks
  <2> HIDE DEF n
  <2>1. Block(p) \in 1..Len(data)
    BY <1>1, <1>2
  <2>2. Cell(p) \in 0..(MAXT - 1)
    BY <1>2, Places
  <2>3. QED
    BY <1>1, <2>1, <2>2
<1> DEFINE block == [data[Block(p)] EXCEPT ![Cell(p)] = thing]
<1>5. /\ block \in CellBlocks /\ block[Cell(p)] = thing
      /\ \A i \in 0..(MAXT - 1) : i # Cell(p) => block[i] = data[Block(p)][i]
  BY <1>4 DEF CellBlocks
<1> HIDE DEF block, n, w
<1>6. new = [data EXCEPT ![Block(p)] = block]
  BY DEF block
<1>7. /\ new \in Seq(CellBlocks) /\ Len(new) = Len(data) /\ new[Block(p)] = block
      /\ \A b \in 1..Len(data) : b # Block(p) => new[b] = data[b]
  BY <1>1, <1>4, <1>5, <1>6
<1> HIDE DEF new
<1>8. ASSUME NEW q \in 0..(n - 1) PROVE new[Block(q)][Cell(q)] = w[q + 1]
  <2>1. CASE q = p
    BY <1>3, <1>5, <1>7, <2>1
  <2>2. CASE q # p
    <3>1. q \in Nat /\ (q < p \/ p < q)
      BY <1>1, <1>2, <2>2
    <3>2. /\ Block(q) \in Nat /\ Block(p) \in Nat
          /\ Cell(q) \in 0..(MAXT - 1) /\ Cell(p) \in 0..(MAXT - 1)
      BY <1>2, <3>1, Places
    <3>3. Block(q) # Block(p) \/ Cell(q) # Cell(p)
      <4>1. CASE q < p
        <5>1. Block(q) < Block(p) \/ (Block(q) = Block(p) /\ Cell(q) < Cell(p))
          BY <1>2, <3>1, <4>1, Places
        <5>2. QED
          BY <3>2, <5>1
      <4>2. CASE p < q
        <5>1. Block(p) < Block(q) \/ (Block(p) = Block(q) /\ Cell(p) < Cell(q))
          BY <1>2, <3>1, <4>2, Places
        <5>2. QED
          BY <3>2, <5>1
      <4>3. QED
        BY <3>1, <4>1, <4>2
    <3>4. new[Block(q)][Cell(q)] = data[Block(q)][Cell(q)]
      BY <1>1, <1>5, <1>7, <3>2, <3>3
    <3>5. QED
      BY <1>1, <1>3, <2>2, <3>4
  <2>3. QED
    BY <2>1, <2>2
<1>9. IsChain(new, w)
  BY <1>1, <1>3, <1>7, <1>8 DEF IsChain
<1>10. c = [count |-> n, data |-> data]
  BY DEF IsList, n
<1>11. [c EXCEPT !.data[(p \div MAXT) + 1][p % MAXT] = thing] = [count |-> n, data |-> new]
  <2>1. ASSUME NEW d PROVE [c EXCEPT !.data = d] = [count |-> n, data |-> d]
    BY <1>10
  <2>2. QED
    BY <2>1, Zenon DEF new, Block, Cell
<1>12. QED
  BY <1>3, <1>9, <1>11 DEF IsList, w

-----------------------------------------------------------------------------
\* Both collections hold their list, and the cells of their blocks are of the type.
CollectionInv ==
    /\ coll \in [Holders -> [count : Nat, data : Seq(CellBlocks)]]
    /\ added \in [Holders -> Seq(Things)]
    /\ \A h \in Holders : IsList(coll[h], added[h])

LEMMA CollectionStarts == CollectionInit => CollectionInv
BY EmptyIsList, CollectionAssumption
DEF CollectionInit, CollectionInv, EmptyCollection, EmptyBlock, CellBlocks

LEMMA CollectionStep ==
    ASSUME CollectionInv, NEW h \in Holders, NEW c, NEW v, IsList(c, v),
           coll' = [coll EXCEPT ![h] = c], added' = [added EXCEPT ![h] = v]
    PROVE  CollectionInv'
<1>1. v \in Seq(Things) /\ c \in [count : Nat, data : Seq(CellBlocks)]
  BY ListFacts DEF IsList, IsChain
<1>2. coll' \in [Holders -> [count : Nat, data : Seq(CellBlocks)]]
  BY <1>1 DEF CollectionInv
<1>3. added' \in [Holders -> Seq(Things)]
  BY <1>1 DEF CollectionInv
<1>4. ASSUME NEW g \in Holders PROVE IsList(coll'[g], added'[g])
  BY DEF CollectionInv
<1>5. QED
  BY <1>2, <1>3, <1>4 DEF CollectionInv, IsList, IsChain

LEMMA CollectionGoesOn == CollectionInv /\ [CollectionNext]_collVars => CollectionInv'
<1> SUFFICES ASSUME CollectionInv, [CollectionNext]_collVars PROVE CollectionInv'
  OBVIOUS
<1>1. \A h \in Holders : IsList(coll[h], added[h])
  BY DEF CollectionInv
<1>2. ASSUME NEW h \in Holders, NEW thing \in Things, Put(h, thing) PROVE CollectionInv'
  <2>1. IsList(Plus1(coll[h], thing), Append(added[h], thing))
    BY <1>1, PlusGrows
  <2>2. QED
    BY <1>2, <2>1, CollectionStep DEF Put
<1>3. ASSUME NEW h \in Holders, NEW thing \in Things, TakeOut(h, thing) PROVE CollectionInv'
  <2>1. IsList(RemoveFrom(coll[h], thing), RemoveFirst(added[h], thing))
    BY <1>1, RemoveIsList
  <2>2. QED
    BY <1>3, <2>1, CollectionStep DEF TakeOut
<1>4. ASSUME NEW h \in Holders, NEW g \in Holders, Assign(h, g) PROVE CollectionInv'
  <2>1. IsList(CopyOf(coll[g]), added[g])
    BY <1>1, CopyIsList
  <2>2. QED
    BY <1>4, <2>1, CollectionStep DEF Assign
<1>5. ASSUME NEW h \in Holders, NEW p \in 0..(coll[h].count - 1), NEW thing \in Things,
             SetElement(h, p, thing)
      PROVE  CollectionInv'
  <2> DEFINE c == [coll[h] EXCEPT !.data[(p \div MAXT) + 1][p % MAXT] = thing]
             v == [added[h] EXCEPT ![p + 1] = thing]
  <2>1. IsList(coll[h], added[h]) /\ coll[h].count = Len(added[h])
    BY <1>1, ListFacts
  <2>2. IsList(c, v)
    BY <2>1, SetIsList
  <2>3. coll' = [coll EXCEPT ![h] = c] /\ added' = [added EXCEPT ![h] = v]
    BY <1>5, Zenon DEF SetElement
  <2> HIDE DEF c, v
  <2>4. QED
    BY <2>2, <2>3, CollectionStep
<1>6. ASSUME NEW h \in Holders, ClearCollection(h) PROVE CollectionInv'
  BY <1>6, EmptyIsList, CollectionStep DEF ClearCollection
<1>7. CASE UNCHANGED collVars
  BY <1>7 DEF collVars, CollectionInv, IsList, IsChain
<1>8. QED
  BY <1>2, <1>3, <1>4, <1>5, <1>6, <1>7 DEF CollectionNext

LEMMA CollectionAnswers == CollectionInv => CollectionIsList
<1> SUFFICES ASSUME CollectionInv, NEW h \in Holders
             PROVE  LET c == coll[h]
                    IN  /\ c.count = Len(added[h])
                        /\ \A p \in 0..(c.count - 1) : GetElement(c, p) = added[h][p + 1]
                        /\ Len(c.data) = IF c.count = 0 THEN 1 ELSE (c.count + MAXT - 1) \div MAXT
                        /\ \A thing \in Things :
                              IF Contains(added[h], thing)
                              THEN Find(c, thing) + 1 = SelectInSeq(added[h], LAMBDA t : t = thing)
                              ELSE Find(c, thing) = c.count
  BY DEF CollectionIsList
<1>1. IsList(coll[h], added[h])
  BY DEF CollectionInv
<1>2. /\ coll[h].count = Len(added[h]) /\ Len(added[h]) \in Nat
      /\ \A p \in 0..(Len(added[h]) - 1) : GetElement(coll[h], p) = added[h][p + 1]
      /\ IsChain(coll[h].data, added[h])
  BY <1>1, ListFacts
<1>3. Len(coll[h].data) = IF coll[h].count = 0 THEN 1 ELSE (coll[h].count + MAXT - 1) \div MAXT
  BY <1>2, Places DEF IsChain
<1>4. ASSUME NEW thing \in Things
      PROVE  IF Contains(added[h], thing)
             THEN Find(coll[h], thing) + 1 = SelectInSeq(added[h], LAMBDA t : t = thing)
             ELSE Find(coll[h], thing) = coll[h].count
  BY <1>1, <1>2, FirstPlace
<1>5. QED
  BY <1>2, <1>3, <1>4

\* A collection is the list of what its caller put into it, however long it grows and
\* whatever the size of a block: operator +=, remove, the copies, set_element and clear.
THEOREM CollectionsAreLists == CollectionSpec => []CollectionIsList
<1>1. CollectionInit => CollectionInv
  BY CollectionStarts
<1>2. CollectionInv /\ [CollectionNext]_collVars => CollectionInv'
  BY CollectionGoesOn
<1>3. CollectionInv => CollectionIsList
  BY CollectionAnswers
<1>4. QED
  BY <1>1, <1>2, <1>3, PTL DEF CollectionSpec

-----------------------------------------------------------------------------
Labels == Texts \cup {Dashes}
Lines == [1..Columns -> Labels]
Cells == [text : Labels, color : {"black", "orange", "red"}, background : {"none", "red"}]
Rows == [1..Columns -> Cells]
DashLine == Repeated(Dashes, Columns)

\* No row of the table lacks a cell, and its texts are those of the lines.
Shows(t, lines) ==
    /\ t \in Seq(Rows) /\ lines \in Seq(Lines) /\ Len(t) = Len(lines)
    /\ \A i \in 1..Len(lines), j \in 1..Columns : t[i][j].text = lines[i][j]

LEMMA DashLineIs == DashLine \in Lines /\ \A j \in 1..Columns : DashLine[j] = Dashes
BY TableAssumption DEF DashLine, Repeated, Lines, Labels

LEMMA RowAdded ==
    ASSUME NEW t, NEW lines, Shows(t, lines)
    PROVE  Shows(AddInitRow(t), Append(lines, DashLine))
<1> DEFINE row == [j \in 1..Columns |-> NewItem(Dashes)]
           u == Append(t, row)
           m == Append(lines, DashLine)
<1>1. t \in Seq(Rows) /\ lines \in Seq(Lines) /\ Len(t) \in Nat /\ Len(t) = Len(lines)
  BY DEF Shows
<1>2. row \in Rows /\ \A j \in 1..Columns : row[j].text = Dashes
  BY DEF Rows, Cells, NewItem, Labels
<1>3. AddInitRow(t) = u
  BY TableAssumption DEF AddInitRow, AddRowContent, Repeated
<1> HIDE DEF row
<1>4. /\ u \in Seq(Rows) /\ Len(u) = Len(t) + 1 /\ u[Len(t) + 1] = row
      /\ \A i \in 1..Len(t) : u[i] = t[i]
  BY <1>1, <1>2
<1>5. /\ m \in Seq(Lines) /\ Len(m) = Len(t) + 1 /\ m[Len(t) + 1] = DashLine
      /\ \A i \in 1..Len(t) : m[i] = lines[i]
  BY <1>1, DashLineIs
<1> HIDE DEF u, m
<1>6. ASSUME NEW i \in 1..Len(m), NEW j \in 1..Columns PROVE u[i][j].text = m[i][j]
  <2>1. CASE i = Len(t) + 1
    BY <1>2, <1>4, <1>5, <2>1, DashLineIs
  <2>2. CASE i # Len(t) + 1
    <3>1. i \in 1..Len(t)
      BY <1>1, <1>5, <2>2
    <3>2. QED
      BY <1>1, <1>4, <1>5, <3>1 DEF Shows
  <2>3. QED
    BY <2>1, <2>2
<1>7. Shows(u, m)
  BY <1>4, <1>5, <1>6 DEF Shows
<1>8. QED
  BY <1>3, <1>7 DEF m

LEMMA PaddedIs ==
    ASSUME NEW lines \in Seq(Lines), NEW k \in Nat
    PROVE  /\ Padded(lines, k) \in Seq(Lines)
           /\ Len(Padded(lines, k)) = IF Len(lines) < k THEN k ELSE Len(lines)
           /\ \A i \in 1..Len(Padded(lines, k)) :
                 Padded(lines, k)[i] = IF i <= Len(lines) THEN lines[i] ELSE DashLine
           /\ k <= Len(lines) => Padded(lines, k) = lines
<1> DEFINE m == IF Len(lines) < k THEN k ELSE Len(lines)
           s == [i \in 1..m |-> IF i <= Len(lines) THEN lines[i] ELSE DashLine]
<1>1. Padded(lines, k) = s /\ m \in Nat /\ Len(lines) \in Nat
  BY DEF Padded, DashLine
<1>2. \A i \in 1..m : (IF i <= Len(lines) THEN lines[i] ELSE DashLine) \in Lines
  BY <1>1, DashLineIs
<1>3. s \in Seq(Lines) /\ Len(s) = m
  BY <1>1, <1>2
<1>4. k <= Len(lines) => s = lines
  BY <1>1
<1>5. QED
  BY <1>1, <1>3, <1>4

LEMMA PaddedGrows ==
    ASSUME NEW lines \in Seq(Lines), NEW k \in Nat, k >= Len(lines)
    PROVE  Padded(lines, k + 1) = Append(Padded(lines, k), DashLine)
<1>1. Len(lines) \in Nat
  OBVIOUS
<1>2. Padded(lines, k) = [i \in 1..k |-> IF i <= Len(lines) THEN lines[i] ELSE DashLine]
  BY <1>1 DEF Padded, DashLine
<1>3. Padded(lines, k + 1) = [i \in 1..(k + 1) |-> IF i <= Len(lines) THEN lines[i] ELSE DashLine]
  BY <1>1 DEF Padded, DashLine
<1>4. Len(Padded(lines, k)) = k
  BY <1>2
<1>5. Append(Padded(lines, k), DashLine) =
          [i \in 1..(k + 1) |-> IF i = k + 1 THEN DashLine ELSE Padded(lines, k)[i]]
  BY <1>2, <1>4
<1>6. QED
  BY <1>1, <1>2, <1>3, <1>5

LEMMA RowsAdded ==
    ASSUME NEW t, NEW lines, Shows(t, lines), NEW line \in Nat
    PROVE  Shows(AddTableRows(t, line), Padded(lines, line))
<1> DEFINE after[n \in 0..line] == IF n <= Len(t) THEN t ELSE AddInitRow(after[n - 1])
           U == Seq(Rows)
           next(n, u) == IF n <= Len(t) THEN t ELSE AddInitRow(u)
           S == [n \in 0..line |-> {u \in U : Shows(u, Padded(lines, n))}]
           step == [e \in (1..line) \X U |-> next(e[1], e[2])]
<1>1. lines \in Seq(Lines) /\ Len(t) \in Nat /\ Len(lines) = Len(t) /\ t \in U
  BY DEF Shows
<1>2. ASSUME NEW u, NEW m, Shows(u, m) PROVE u \in U
  BY <1>2 DEF Shows
<1>3. ASSUME NEW n \in 0..line, n <= Len(t) PROVE t \in S[n]
  BY <1>1, <1>3, PaddedIs
<1>4. ASSUME NEW n \in 1..line, NEW u \in S[n - 1] PROVE next(n, u) \in S[n] /\ u \in U
  <2>1. n - 1 \in 0..line /\ n \in 0..line /\ n - 1 \in Nat /\ (n - 1) + 1 = n
    OBVIOUS
  <2>2. u \in U /\ Shows(u, Padded(lines, n - 1))
    BY <2>1
  <2>3. CASE n <= Len(t)
    BY <1>3, <2>1, <2>2, <2>3
  <2>4. CASE ~(n <= Len(t))
    <3>1. Padded(lines, n) = Append(Padded(lines, n - 1), DashLine)
      BY <1>1, <2>1, <2>4, PaddedGrows
    <3>2. Shows(AddInitRow(u), Padded(lines, n))
      BY <2>2, <3>1, RowAdded
    <3> HIDE DEF U
    <3>3. QED
      BY <1>2, <2>1, <2>2, <2>4, <3>2
  <2>5. QED
    BY <2>3, <2>4
<1>5. ASSUME NEW n \in 1..line, NEW u \in U PROVE step[<<n, u>>] = next(n, u)
  BY <1>5
<1> HIDE DEF S, step, U
<1>6. PICK f : Runs(f, line, t, step) /\ \A n \in 0..line : f[n] \in S[n]
  <2>1. \A n \in 1..line : \A u \in S[n - 1] : step[<<n, u>>] \in S[n]
    BY <1>4, <1>5
  <2>2. t \in S[0]
    BY <1>1, <1>3
  <2>3. QED
    BY <2>1, <2>2, LoopRuns
<1>7. f = [n \in 0..line |-> IF n <= Len(t) THEN t ELSE AddInitRow(f[n - 1])]
  <2>1. ASSUME NEW n \in 0..line, n # 0 PROVE step[<<n, f[n - 1]>>] = next(n, f[n - 1])
    <3>1. n \in 1..line /\ n - 1 \in 0..line
      BY <2>1
    <3>2. f[n - 1] \in U
      BY <1>4, <1>6, <3>1
    <3>3. QED
      BY <1>5, <3>1, <3>2
  <2>2. QED
    BY <1>1, <1>6, <2>1 DEF Runs
<1>8. after = [n \in 0..line |-> IF n <= Len(t) THEN t ELSE AddInitRow(after[n - 1])]
  BY <1>7 DEF after
<1> HIDE DEF after
<1>9. after[line] \in S[line]
  <2> DEFINE T == {n \in 0..line : after[n] \in S[n]}
  <2>1. 0 \in T
    BY <1>1, <1>3, <1>8
  <2>2. ASSUME NEW n \in 1..line, n - 1 \in T PROVE n \in T
    <3>1. after[n] = next(n, after[n - 1]) /\ n \in 0..line
      BY <1>8
    <3>2. after[n - 1] \in S[n - 1]
      BY <2>2
    <3>3. next(n, after[n - 1]) \in S[n]
      BY <1>4, <3>2
    <3>4. QED
      BY <3>1, <3>3
  <2> HIDE DEF T
  <2>3. \A n \in 0..line : n \in T
    BY <2>1, <2>2, Reached
  <2>4. QED
    BY <2>3 DEF T
<1>10. AddTableRows(t, line) = after[line]
  BY DEF AddTableRows, after
<1>11. QED
  BY <1>9, <1>10 DEF S

OneWritten(lines, id, column, label) ==
    [lines EXCEPT ![id + 1] = [j \in 1..Columns |-> IF j = column + 1 THEN label ELSE @[j]]]

\* One cell is written, in a row that is there or is added.
LEMMA ItemSet ==
    ASSUME NEW t, NEW lines, Shows(t, lines), NEW id \in Nat, NEW column \in 0..(Columns - 1),
           NEW str \in Labels
    PROVE  Shows(SetTableItem(t, id, column, str),
                 OneWritten(Padded(lines, id + 1), id, column, Label(str)))
<1> DEFINE u == AddTableRows(t, id + 1)
           p == Padded(lines, id + 1)
           label == IF str = Empty THEN Dashes ELSE str
           w == [u EXCEPT ![id + 1][column + 1].text = label]
           line == [j \in 1..Columns |-> IF j = column + 1 THEN label ELSE p[id + 1][j]]
           q == [p EXCEPT ![id + 1] = line]
<1>1. SetTableItem(t, id, column, str) = w
  BY DEF SetTableItem
<1>2. OneWritten(p, id, column, Label(str)) = q
  BY DEF Label, OneWritten
<1>3. id + 1 \in Nat /\ Shows(u, p) /\ column + 1 \in 1..Columns /\ label \in Labels
  BY RowsAdded, TableAssumption DEF Labels
<1>4. /\ u \in Seq(Rows) /\ p \in Seq(Lines) /\ Len(u) = Len(p) /\ Len(u) \in Nat
      /\ \A i \in 1..Len(p), j \in 1..Columns : u[i][j].text = p[i][j]
  BY <1>3 DEF Shows
<1>5. id + 1 \in 1..Len(p)
  <2>1. lines \in Seq(Lines) /\ Len(lines) \in Nat
    BY DEF Shows
  <2>2. Len(p) = IF Len(lines) < id + 1 THEN id + 1 ELSE Len(lines)
    BY <1>3, <2>1, PaddedIs
  <2>3. QED
    BY <2>1, <2>2
<1> HIDE DEF u, p, label
<1> DEFINE cell == [u[id + 1][column + 1] EXCEPT !.text = label]
           row == [u[id + 1] EXCEPT ![column + 1] = cell]
<1>6. u[id + 1] \in Rows /\ u[id + 1][column + 1] \in Cells
  <2>1. u[id + 1] \in Rows
    BY <1>4, <1>5
  <2>2. QED
    BY <1>3, <2>1 DEF Rows
<1>7. cell \in Cells /\ cell.text = label
  BY <1>3, <1>6 DEF Cells
<1> HIDE DEF cell
<1>8. /\ row \in Rows /\ row[column + 1] = cell
      /\ \A j \in 1..Columns : j # column + 1 => row[j] = u[id + 1][j]
  BY <1>3, <1>6, <1>7 DEF Rows
<1>9. w = [u EXCEPT ![id + 1] = row]
  BY DEF cell
<1> HIDE DEF row, w
<1>10. /\ w \in Seq(Rows) /\ Len(w) = Len(p) /\ w[id + 1] = row
       /\ \A i \in 1..Len(p) : i # id + 1 => w[i] = u[i]
  BY <1>4, <1>5, <1>8, <1>9
<1>11. line \in Lines
  <2>1. p[id + 1] \in Lines
    BY <1>4, <1>5
  <2>2. QED
    BY <1>3, <2>1 DEF Lines
<1>12. /\ q \in Seq(Lines) /\ Len(q) = Len(p) /\ q[id + 1] = line
       /\ \A i \in 1..Len(p) : i # id + 1 => q[i] = p[i]
  <2> HIDE DEF line
  <2>1. QED
    BY <1>4, <1>5, <1>11
<1>13. ASSUME NEW j \in 1..Columns PROVE row[j].text = line[j]
  <2>1. CASE j = column + 1
    BY <1>7, <1>8, <2>1
  <2>2. CASE j # column + 1
    BY <1>4, <1>5, <1>8, <2>2
  <2>3. QED
    BY <2>1, <2>2
<1> HIDE DEF q, line
<1>14. ASSUME NEW i \in 1..Len(q), NEW j \in 1..Columns PROVE w[i][j].text = q[i][j]
  <2>1. CASE i = id + 1
    BY <1>10, <1>12, <1>13, <2>1
  <2>2. CASE i # id + 1
    BY <1>4, <1>10, <1>12, <2>2
  <2>3. QED
    BY <2>1, <2>2
<1>15. Shows(w, q)
  BY <1>10, <1>12, <1>14 DEF Shows
<1>16. QED
  BY <1>1, <1>2, <1>15 DEF p

\* The lines after the first n texts of a list are written.
Part(lines, id, col, list, n) ==
    [Padded(lines, id + 1) EXCEPT
        ![id + 1] = [j \in 1..Columns |->
                        IF j \in (col + 1)..(col + n) THEN Label(list[j - col]) ELSE @[j]]]

LEMMA PartGrows ==
    ASSUME NEW lines \in Seq(Lines), NEW id \in Nat, NEW col \in Nat, NEW list \in Seq(Labels),
           col + Len(list) <= Columns
    PROVE  /\ \A n \in 0..Len(list) : /\ Part(lines, id, col, list, n) \in Seq(Lines)
                                      /\ Len(Part(lines, id, col, list, n)) >= id + 1
           /\ Part(lines, id, col, list, 0) = Padded(lines, id + 1)
           /\ \A n \in 1..Len(list) :
                 Part(lines, id, col, list, n) =
                     OneWritten(Part(lines, id, col, list, n - 1), id, col + (n - 1), Label(list[n]))
<1> DEFINE p == Padded(lines, id + 1)
           k == Len(p)
           lineOf(n) == [j \in 1..Columns |->
                            IF j \in (col + 1)..(col + n) THEN Label(list[j - col])
                            ELSE p[id + 1][j]]
           part(n) == [p EXCEPT ![id + 1] = lineOf(n)]
<1>1. p \in Seq(Lines) /\ k \in Nat /\ id + 1 \in 1..k
  <2>1. lines \in Seq(Lines) /\ Len(lines) \in Nat /\ id + 1 \in Nat
    OBVIOUS
  <2>2. p \in Seq(Lines) /\ k = IF Len(lines) < id + 1 THEN id + 1 ELSE Len(lines)
    BY <2>1, PaddedIs
  <2>3. QED
    BY <2>1, <2>2
<1>2. \A n \in 0..Len(list) : Part(lines, id, col, list, n) = part(n)
  BY DEF Part
<1> HIDE DEF p
<1>3. p[id + 1] \in Lines /\ Len(list) \in Nat /\ Columns \in Nat
  BY <1>1, TableAssumption
<1>4. ASSUME NEW n \in 0..Len(list) PROVE lineOf(n) \in Lines
  <2>1. ASSUME NEW j \in 1..Columns, j \in (col + 1)..(col + n) PROVE Label(list[j - col]) \in Labels
    <3>1. j - col \in 1..Len(list)
      BY <1>3, <2>1
    <3>2. list[j - col] \in Labels
      BY <3>1
    <3>3. QED
      BY <3>2, TableAssumption DEF Label, Labels
  <2>2. ASSUME NEW j \in 1..Columns PROVE p[id + 1][j] \in Labels
    BY <1>3 DEF Lines
  <2>3. QED
    BY <2>1, <2>2 DEF Lines
<1>5. ASSUME NEW n \in 0..Len(list)
      PROVE  part(n) \in Seq(Lines) /\ Len(part(n)) = k /\ part(n)[id + 1] = lineOf(n)
             /\ \A l \in Lines : [part(n) EXCEPT ![id + 1] = l] = [p EXCEPT ![id + 1] = l]
  <2>1. lineOf(n) \in Lines
    BY <1>4
  <2> HIDE DEF lineOf
  <2>2. QED
    BY <1>1, <2>1
<1>6. part(0) = p
  <2>1. lineOf(0) = p[id + 1]
    <3>1. \A j \in 1..Columns : j \notin (col + 1)..(col + 0)
      BY <1>3
    <3>2. p[id + 1] = [j \in 1..Columns |-> p[id + 1][j]]
      BY <1>3 DEF Lines
    <3>3. QED
      BY <3>1, <3>2
  <2> HIDE DEF lineOf
  <2>2. QED
    BY <1>1, <2>1
<1>7. ASSUME NEW n \in 1..Len(list)
      PROVE  part(n) = [part(n - 1) EXCEPT
                           ![id + 1] = [j \in 1..Columns |->
                                           IF j = (col + (n - 1)) + 1 THEN Label(list[n]) ELSE @[j]]]
  <2> DEFINE l == [j \in 1..Columns |->
                      IF j = (col + (n - 1)) + 1 THEN Label(list[n]) ELSE lineOf(n - 1)[j]]
  <2>1. n - 1 \in 0..Len(list) /\ n \in 0..Len(list)
    BY <1>3
  <2>2. l = lineOf(n)
    <3>1. ASSUME NEW j \in 1..Columns PROVE l[j] = lineOf(n)[j]
      <4>1. CASE j = col + n
        <5>1. j - col = n /\ j \in (col + 1)..(col + n) /\ j = (col + (n - 1)) + 1
          BY <4>1
        <5>2. QED
          BY <5>1
      <4>2. CASE j # col + n
        <5>1. j # (col + (n - 1)) + 1 /\ (j \in (col + 1)..(col + n) <=> j \in (col + 1)..(col + (n - 1)))
          BY <4>2
        <5>2. QED
          BY <5>1
      <4>3. QED
        BY <4>1, <4>2
    <3>2. l = [j \in 1..Columns |-> l[j]] /\ lineOf(n) = [j \in 1..Columns |-> lineOf(n)[j]]
      OBVIOUS
    <3> HIDE DEF l, lineOf
    <3>3. QED
      BY <3>1, <3>2
  <2>3. lineOf(n) \in Lines
    BY <1>4, <2>1
  <2>4. [part(n - 1) EXCEPT ![id + 1] = l] = part(n)
    <3> HIDE DEF l, lineOf, part
    <3>1. [part(n - 1) EXCEPT ![id + 1] = lineOf(n)] = [p EXCEPT ![id + 1] = lineOf(n)]
      BY <1>5, <2>1, <2>3
    <3>2. QED
      BY <2>2, <3>1 DEF part
  <2>5. part(n - 1)[id + 1] = lineOf(n - 1)
    BY <1>5, <2>1
  <2> HIDE DEF part, lineOf
  <2>6. QED
    BY <2>4, <2>5
<1> HIDE DEF part
<1>8. ASSUME NEW n \in 1..Len(list)
      PROVE  n \in 0..Len(list) /\ n - 1 \in 0..Len(list)
  BY <1>3
<1>9. 0 \in 0..Len(list) /\ k >= id + 1
  BY <1>1, <1>3
<1>10. ASSUME NEW n \in 0..Len(list)
       PROVE  /\ Part(lines, id, col, list, n) \in Seq(Lines)
              /\ Len(Part(lines, id, col, list, n)) >= id + 1
  <2>1. part(n) \in Seq(Lines) /\ Len(part(n)) = k
    BY <1>5
  <2>2. Part(lines, id, col, list, n) = part(n)
    BY <1>2
  <2> HIDE DEF k
  <2>3. QED
    BY <1>9, <2>1, <2>2
<1>11. Part(lines, id, col, list, 0) = Padded(lines, id + 1)
  BY <1>2, <1>6, <1>9 DEF p
<1>12. ASSUME NEW n \in 1..Len(list)
       PROVE  Part(lines, id, col, list, n) =
                  OneWritten(Part(lines, id, col, list, n - 1), id, col + (n - 1), Label(list[n]))
  <2>1. /\ Part(lines, id, col, list, n) = part(n)
        /\ Part(lines, id, col, list, n - 1) = part(n - 1)
    BY <1>2, <1>8
  <2>2. QED
    BY <1>7, <2>1, Zenon DEF OneWritten
<1>13. QED
  BY <1>10, <1>11, <1>12

LEMMA PartWhole ==
    ASSUME NEW lines, NEW id, NEW col, NEW list
    PROVE  Part(lines, id, col, list, Len(list)) = Written(lines, id, col, list)
BY DEF Part, Written

\* A list is written into a row, one item after the other.
LEMMA RowSet ==
    ASSUME NEW t, NEW lines, Shows(t, lines), NEW id \in Nat, NEW col \in Nat,
           NEW list \in Seq(Labels), Len(list) # 0, col + Len(list) <= Columns
    PROVE  Shows(SetTableRow(t, id, col, list), Written(lines, id, col, list))
<1> DEFINE K == Len(list)
           after[n \in 0..K] ==
               IF n = 0 THEN t ELSE SetTableItem(after[n - 1], id, col + (n - 1), list[n])
           U == Seq(Rows)
           part(n) == Part(lines, id, col, list, n)
           next(n, u) == SetTableItem(u, id, col + (n - 1), list[n])
           good(n, u) == \E m : /\ Shows(u, m) /\ Padded(m, id + 1) = part(n)
                                /\ n # 0 => m = part(n)
           S == [n \in 0..K |-> {u \in U : good(n, u)}]
           step == [e \in (1..K) \X U |-> next(e[1], e[2])]
<1>1. K \in Nat /\ K # 0 /\ lines \in Seq(Lines) /\ t \in U
  BY DEF Shows
<1>2. t \in S[0]
  <2>1. part(0) = Padded(lines, id + 1)
    BY <1>1, PartGrows
  <2> HIDE DEF part, U
  <2>2. good(0, t)
    BY <2>1
  <2> HIDE DEF good
  <2>3. QED
    BY <1>1, <2>2
<1>3. ASSUME NEW n \in 1..K, NEW u \in S[n - 1] PROVE next(n, u) \in S[n] /\ u \in U
  <2>1. n - 1 \in 0..K /\ n \in 0..K /\ n # 0 /\ col + (n - 1) \in 0..(Columns - 1)
    BY <1>1, TableAssumption
  <2>2. u \in U /\ good(n - 1, u)
    BY <2>1
  <2>3. PICK m : Shows(u, m) /\ Padded(m, id + 1) = part(n - 1)
    BY <2>2
  <2>4. list[n] \in Labels
    OBVIOUS
  <2>5. part(n) = OneWritten(part(n - 1), id, col + (n - 1), Label(list[n]))
    BY <1>1, PartGrows
  <2> HIDE DEF part
  <2>6. Shows(next(n, u), part(n))
    <3>1. Shows(next(n, u), OneWritten(Padded(m, id + 1), id, col + (n - 1), Label(list[n])))
      <4>1. PICK column \in 0..(Columns - 1) : column = col + (n - 1)
        BY <2>1
      <4>2. Shows(SetTableItem(u, id, column, list[n]),
                  OneWritten(Padded(m, id + 1), id, column, Label(list[n])))
        BY <2>3, <2>4, ItemSet
      <4>3. QED
        BY <4>1, <4>2, Zenon
    <3>2. QED
      BY <2>3, <2>5, <3>1, Zenon
  <2>7. Padded(part(n), id + 1) = part(n)
    <3>1. part(n) \in Seq(Lines) /\ Len(part(n)) >= id + 1
      BY <1>1, <2>1, PartGrows DEF part
    <3>2. id + 1 \in Nat /\ id + 1 <= Len(part(n))
      BY <3>1
    <3>3. QED
      BY <3>1, <3>2, PaddedIs
  <2> HIDE DEF next
  <2>8. good(n, next(n, u)) /\ next(n, u) \in U
    BY <2>6, <2>7 DEF Shows
  <2> HIDE DEF good, U
  <2>9. QED
    BY <2>1, <2>2, <2>8
<1>4. ASSUME NEW n \in 1..K, NEW u \in U PROVE step[<<n, u>>] = next(n, u)
  BY <1>4
<1> HIDE DEF S, step, U, K
<1>5. PICK f : Runs(f, K, t, step) /\ \A n \in 0..K : f[n] \in S[n]
  <2>1. \A n \in 1..K : \A u \in S[n - 1] : step[<<n, u>>] \in S[n]
    BY <1>3, <1>4
  <2>2. QED
    BY <1>1, <1>2, <2>1, LoopRuns
<1>6. f = [n \in 0..K |-> IF n = 0 THEN t ELSE next(n, f[n - 1])]
  <2>1. ASSUME NEW n \in 0..K, n # 0 PROVE step[<<n, f[n - 1]>>] = next(n, f[n - 1])
    <3>1. n \in 1..K /\ n - 1 \in 0..K
      BY <1>1, <2>1
    <3>2. f[n - 1] \in U
      BY <1>3, <1>5, <3>1
    <3>3. QED
      BY <1>4, <3>1, <3>2
  <2> HIDE DEF next
  <2>2. QED
    BY <1>5, <2>1 DEF Runs
<1>7. after = [n \in 0..K |-> IF n = 0 THEN t ELSE next(n, after[n - 1])]
  BY <1>6 DEF after
<1> HIDE DEF after, next
<1>8. after[K] \in S[K]
  <2> DEFINE T == {n \in 0..K : after[n] \in S[n]}
  <2>1. 0 \in T
    BY <1>1, <1>2, <1>7
  <2>2. ASSUME NEW n \in 1..K, n - 1 \in T PROVE n \in T
    <3>1. after[n] = next(n, after[n - 1]) /\ n \in 0..K
      BY <1>1, <1>7
    <3>2. after[n - 1] \in S[n - 1]
      BY <2>2
    <3>3. next(n, after[n - 1]) \in S[n]
      BY <1>3, <3>2
    <3>4. QED
      BY <3>1, <3>3
  <2> HIDE DEF T
  <2>3. \A n \in 0..K : n \in T
    BY <1>1, <2>1, <2>2, Reached
  <2>4. QED
    BY <1>1, <2>3 DEF T
<1>9. K \in 0..K /\ good(K, after[K])
  <2> HIDE DEF good
  <2>1. QED
    BY <1>1, <1>8 DEF S
<1>10. Shows(after[K], part(K))
  BY <1>1, <1>9
<1>11. SetTableRow(t, id, col, list) = after[K]
  BY DEF SetTableRow, after, K, next
<1>12. QED
  BY <1>10, <1>11, PartWhole DEF K

-----------------------------------------------------------------------------
LEMMA SubSeqIs ==
    ASSUME NEW s \in Seq(Lines), NEW k \in 0..Len(s)
    PROVE  /\ SubSeq(s, 1, k) \in Seq(Lines) /\ Len(SubSeq(s, 1, k)) = k
           /\ \A i \in 1..k : SubSeq(s, 1, k)[i] = s[i]
OBVIOUS

LEMMA RemoveAtIs ==
    ASSUME NEW R, NEW s \in Seq(R), NEW i \in 1..Len(s)
    PROVE  /\ RemoveAt(s, i) \in Seq(R) /\ Len(RemoveAt(s, i)) = Len(s) - 1
           /\ \A j \in 1..(Len(s) - 1) : RemoveAt(s, i)[j] = IF j < i THEN s[j] ELSE s[j + 1]
<1> DEFINE n == Len(s)
           a == SubSeq(s, 1, i - 1)
           b == SubSeq(s, i + 1, n)
<1>1. n \in Nat /\ i \in 1..n
  OBVIOUS
<1>2. a \in Seq(R) /\ Len(a) = i - 1 /\ \A j \in 1..(i - 1) : a[j] = s[j]
  BY <1>1
<1>3. b \in Seq(R) /\ Len(b) = n - i /\ \A j \in 1..(n - i) : b[j] = s[i + j]
  BY <1>1
<1>4. RemoveAt(s, i) = a \o b
  BY Zenon DEF RemoveAt
<1> HIDE DEF a, b, n
<1>5. /\ a \o b \in Seq(R) /\ Len(a \o b) = n - 1
      /\ \A j \in 1..(n - 1) : (a \o b)[j] = IF j <= i - 1 THEN a[j] ELSE b[j - (i - 1)]
  BY <1>1, <1>2, <1>3
<1>6. \A j \in 1..(n - 1) : (a \o b)[j] = IF j < i THEN s[j] ELSE s[j + 1]
  BY <1>1, <1>2, <1>3, <1>5
<1>7. QED
  BY <1>4, <1>5, <1>6 DEF n

\* The rows behind the last one that stays are cut off.
LEMMA RowsCut ==
    ASSUME NEW t, NEW lines, Shows(t, lines), NEW line \in 0..Len(lines)
    PROVE  Shows(DelTableRows(t, line), SubSeq(lines, 1, line))
<1> DEFINE passes == Len(t) - line
           after[n \in 0..passes] == IF n = 0 THEN t ELSE RemoveAt(after[n - 1], line + 1)
           U == Seq(Rows)
           next(u) == RemoveAt(u, line + 1)
           good(n, u) == /\ u \in Seq(Rows) /\ Len(u) = Len(t) - n
                         /\ \A i \in 1..line : u[i] = t[i]
           S == [n \in 0..passes |-> {u \in U : good(n, u)}]
           step == [e \in (1..passes) \X U |-> next(e[2])]
<1>1. /\ passes \in Nat /\ Len(t) \in Nat /\ line \in Nat /\ t \in U /\ Len(lines) = Len(t)
      /\ lines \in Seq(Lines) /\ passes = Len(t) - line
  BY DEF Shows
<1>2. t \in S[0]
  BY <1>1
<1>3. ASSUME NEW n \in 1..passes, NEW u \in S[n - 1] PROVE next(u) \in S[n] /\ u \in U
  <2>1. n - 1 \in 0..passes /\ n \in 0..passes
    BY <1>1
  <2>2. u \in U /\ good(n - 1, u)
    BY <2>1
  <2>3. line + 1 \in 1..Len(u) /\ Len(u) - 1 = Len(t) - n
    BY <1>1, <2>2
  <2>4. /\ next(u) \in U /\ Len(next(u)) = Len(t) - n
        /\ \A j \in 1..(Len(t) - n) : next(u)[j] = IF j < line + 1 THEN u[j] ELSE u[j + 1]
    BY <2>2, <2>3, RemoveAtIs
  <2> HIDE DEF next
  <2>5. good(n, next(u))
    <3>1. ASSUME NEW i \in 1..line PROVE next(u)[i] = t[i]
      <4>1. i \in 1..(Len(t) - n) /\ i < line + 1
        BY <1>1
      <4>2. QED
        BY <2>2, <2>4, <4>1
    <3>2. QED
      BY <2>4, <3>1
  <2> HIDE DEF good, U
  <2>6. QED
    BY <2>1, <2>2, <2>4, <2>5
<1>4. ASSUME NEW n \in 1..passes, NEW u \in U PROVE step[<<n, u>>] = next(u)
  BY <1>4
<1> HIDE DEF S, step, U, passes
<1>5. PICK f : Runs(f, passes, t, step) /\ \A n \in 0..passes : f[n] \in S[n]
  <2>1. \A n \in 1..passes : \A u \in S[n - 1] : step[<<n, u>>] \in S[n]
    BY <1>3, <1>4
  <2>2. QED
    BY <1>1, <1>2, <2>1, LoopRuns
<1>6. f = [n \in 0..passes |-> IF n = 0 THEN t ELSE next(f[n - 1])]
  <2>1. ASSUME NEW n \in 0..passes, n # 0 PROVE step[<<n, f[n - 1]>>] = next(f[n - 1])
    <3>1. n \in 1..passes /\ n - 1 \in 0..passes
      BY <1>1, <2>1
    <3>2. f[n - 1] \in U
      BY <1>3, <1>5, <3>1
    <3>3. QED
      BY <1>4, <3>1, <3>2
  <2> HIDE DEF next
  <2>2. QED
    BY <1>5, <2>1 DEF Runs
<1>7. after = [n \in 0..passes |-> IF n = 0 THEN t ELSE next(after[n - 1])]
  BY <1>6 DEF after
<1> HIDE DEF after, next
<1>8. after[passes] \in S[passes]
  <2> DEFINE T == {n \in 0..passes : after[n] \in S[n]}
  <2>1. 0 \in T
    BY <1>1, <1>2, <1>7
  <2>2. ASSUME NEW n \in 1..passes, n - 1 \in T PROVE n \in T
    <3>1. after[n] = next(after[n - 1]) /\ n \in 0..passes
      <4>1. n \in 0..passes /\ n # 0
        BY <1>1
      <4>2. QED
        BY <1>7, <4>1
    <3>2. after[n - 1] \in S[n - 1]
      BY <2>2
    <3>3. next(after[n - 1]) \in S[n]
      BY <1>3, <3>2
    <3>4. QED
      BY <3>1, <3>3
  <2> HIDE DEF T
  <2>3. \A n \in 0..passes : n \in T
    BY <1>1, <2>1, <2>2, Reached
  <2>4. QED
    BY <1>1, <2>3 DEF T
<1> DEFINE u == after[passes]
           m == SubSeq(lines, 1, line)
<1>9. u \in Seq(Rows) /\ Len(u) = line /\ \A i \in 1..line : u[i] = t[i]
  BY <1>1, <1>8 DEF S
<1>10. m \in Seq(Lines) /\ Len(m) = line /\ \A i \in 1..line : m[i] = lines[i]
  BY <1>1, SubSeqIs
<1> HIDE DEF m
<1>11. Shows(u, m)
  <2>1. ASSUME NEW i \in 1..line, NEW j \in 1..Columns PROVE u[i][j].text = m[i][j]
    <3>1. i \in 1..Len(lines)
      BY <1>1
    <3>2. QED
      BY <1>9, <1>10, <3>1 DEF Shows
  <2>2. QED
    BY <1>9, <1>10, <2>1 DEF Shows
<1>12. DelTableRows(t, line) = IF passes > 0 THEN u ELSE t
  BY DEF DelTableRows, after, passes, next
<1>13. passes = 0 => u = t
  BY <1>1, <1>7
<1>14. QED
  BY <1>1, <1>11, <1>12, <1>13 DEF m

-----------------------------------------------------------------------------
LEMMA ShowsSame ==
    ASSUME NEW t, NEW lines, Shows(t, lines), NEW m \in Seq(Lines), Len(m) = Len(lines),
           \A i \in 1..Len(m), j \in 1..Columns : m[i][j] = lines[i][j]
    PROVE  Shows(t, m)
BY DEF Shows

\* What is in the lines w, that are the lines p but for the texts that were written.
WrittenAs(w, p, lines, id, col, list) ==
    /\ w \in Seq(Lines) /\ p \in Seq(Lines) /\ Len(w) = Len(p)
    /\ Len(p) = (IF Len(lines) < id + 1 THEN id + 1 ELSE Len(lines))
    /\ id + 1 \in 1..Len(p)
    /\ \A i \in 1..Len(p) : p[i] = IF i <= Len(lines) THEN lines[i] ELSE DashLine
    /\ \A i \in 1..Len(p) : i # id + 1 => w[i] = p[i]
    /\ \A j \in 1..Columns :
          w[id + 1][j] = IF j \in (col + 1)..(col + Len(list)) THEN Label(list[j - col])
                         ELSE p[id + 1][j]

LEMMA WrittenIs ==
    ASSUME NEW lines \in Seq(Lines), NEW id \in Nat, NEW col \in Nat, NEW list \in Seq(Labels),
           col + Len(list) <= Columns
    PROVE  WrittenAs(Written(lines, id, col, list), Padded(lines, id + 1), lines, id, col, list)
<1> DEFINE w == Written(lines, id, col, list)
           p == Padded(lines, id + 1)
           line == [j \in 1..Columns |->
                       IF j \in (col + 1)..(col + Len(list)) THEN Label(list[j - col])
                       ELSE p[id + 1][j]]
<1>1. /\ Len(lines) \in Nat /\ Len(list) \in Nat
      /\ p \in Seq(Lines) /\ Len(p) = (IF Len(lines) < id + 1 THEN id + 1 ELSE Len(lines))
      /\ \A i \in 1..Len(p) : p[i] = IF i <= Len(lines) THEN lines[i] ELSE DashLine
  BY PaddedIs
<1>2. id + 1 \in 1..Len(p) /\ Len(p) \in Nat
  <2> HIDE DEF p
  <2>1. QED
    BY <1>1
<1>3. w = [p EXCEPT ![id + 1] = line]
  BY DEF Written
<1>4. w \in Seq(Lines)
  <2>1. Part(lines, id, col, list, Len(list)) \in Seq(Lines)
    BY <1>1, PartGrows
  <2>2. QED
    BY <2>1, PartWhole
<1>5. \A j \in 1..Columns :
         line[j] = IF j \in (col + 1)..(col + Len(list)) THEN Label(list[j - col])
                   ELSE p[id + 1][j]
  OBVIOUS
<1> HIDE DEF p, line, w
<1>6. Len(w) = Len(p) /\ w[id + 1] = line /\ \A i \in 1..Len(p) : i # id + 1 => w[i] = p[i]
  BY <1>1, <1>2, <1>3, <1>4
<1>7. QED
  BY <1>1, <1>2, <1>4, <1>5, <1>6 DEF w, p, WrittenAs

LEMMA DashesList ==
    ASSUME NEW n \in Nat
    PROVE  /\ Repeated(Dashes, n) \in Seq(Labels) /\ Len(Repeated(Dashes, n)) = n
           /\ \A j \in 1..n : Label(Repeated(Dashes, n)[j]) = Dashes
BY DEF Repeated, Labels, Label

LEMMA RowCleared ==
    ASSUME NEW t, NEW lines, Shows(t, lines), NEW id \in Nat
    PROVE  Shows(ClearRow(t, id), Written(lines, id, 0, Repeated(Dashes, Columns)))
<1>1. Columns \in Nat /\ Columns # 0
  BY TableAssumption
<1> DEFINE list == Repeated(Dashes, Columns)
<1>2. list \in Seq(Labels) /\ Len(list) # 0 /\ 0 + Len(list) <= Columns
  BY <1>1, DashesList
<1> HIDE DEF list
<1>3. Shows(SetTableRow(t, id, 0, list), Written(lines, id, 0, list))
  BY <1>2, RowSet
<1>4. QED
  BY <1>3 DEF ClearRow, list

\* The first n of the lines are cleared.
Cleared(lines, n) == [i \in 1..Len(lines) |-> IF i <= n THEN DashLine ELSE lines[i]]

LEMMA ClearedIs ==
    ASSUME NEW lines \in Seq(Lines), NEW n \in Nat
    PROVE  Cleared(lines, n) \in Seq(Lines) /\ Len(Cleared(lines, n)) = Len(lines)
           /\ \A i \in 1..Len(lines) : Cleared(lines, n)[i] = IF i <= n THEN DashLine ELSE lines[i]
<1>1. Len(lines) \in Nat
  OBVIOUS
<1>2. \A i \in 1..Len(lines) : (IF i <= n THEN DashLine ELSE lines[i]) \in Lines
  BY DashLineIs
<1>3. QED
  BY <1>1, <1>2 DEF Cleared

LEMMA OneMoreCleared ==
    ASSUME NEW t, NEW lines \in Seq(Lines), NEW n \in 1..Len(lines), Shows(t, Cleared(lines, n - 1))
    PROVE  Shows(ClearRow(t, n - 1), Cleared(lines, n))
<1> DEFINE m == Cleared(lines, n - 1)
           list == Repeated(Dashes, Columns)
           id == n - 1
           w == Written(m, id, 0, list)
           p == Padded(m, id + 1)
           c == Cleared(lines, n)
<1>1. id \in Nat /\ Columns \in Nat /\ n \in Nat /\ id + 1 = n /\ Len(lines) \in Nat
  BY TableAssumption
<1>2. /\ m \in Seq(Lines) /\ Len(m) = Len(lines)
      /\ \A i \in 1..Len(lines) : m[i] = IF i <= n - 1 THEN DashLine ELSE lines[i]
  BY <1>1, ClearedIs
<1>3. /\ c \in Seq(Lines) /\ Len(c) = Len(lines)
      /\ \A i \in 1..Len(lines) : c[i] = IF i <= n THEN DashLine ELSE lines[i]
  BY <1>1, ClearedIs
<1>4. /\ list \in Seq(Labels) /\ Len(list) = Columns
      /\ \A j \in 1..Columns : Label(list[j]) = Dashes
  BY <1>1, DashesList
<1> HIDE DEF m, c, list
<1>5. Shows(ClearRow(t, id), w)
  BY <1>1, RowCleared DEF m, list
<1>6. /\ w \in Seq(Lines) /\ Len(w) = Len(p)
      /\ Len(p) = (IF Len(m) < id + 1 THEN id + 1 ELSE Len(m))
      /\ \A i \in 1..Len(p) : p[i] = IF i <= Len(m) THEN m[i] ELSE DashLine
      /\ \A i \in 1..Len(p) : i # id + 1 => w[i] = p[i]
      /\ \A j \in 1..Columns :
            w[id + 1][j] = IF j \in (0 + 1)..(0 + Len(list)) THEN Label(list[j - 0])
                           ELSE p[id + 1][j]
  <2>1. id \in Nat /\ 0 + Len(list) <= Columns /\ 0 \in Nat
    BY <1>1, <1>4
  <2> HIDE DEF id
  <2>2. WrittenAs(w, p, m, id, 0, list)
    BY <1>2, <1>4, <2>1, WrittenIs
  <2> HIDE DEF w, p
  <2>3. QED
    BY <2>2 DEF WrittenAs
<1> HIDE DEF w, p, id
<1>7. Len(p) = Len(lines) /\ Len(w) = Len(lines)
  BY <1>1, <1>2, <1>6
<1>8. ASSUME NEW i \in 1..Len(c), NEW j \in 1..Columns PROVE c[i][j] = w[i][j]
  <2>1. CASE i = n
    <3>1. j \in (0 + 1)..(0 + Len(list)) /\ j - 0 = j
      BY <1>1, <1>4
    <3>2. w[n][j] = Dashes
      BY <1>1, <1>4, <1>6, <3>1
    <3>3. QED
      BY <1>1, <1>3, <2>1, <3>2, DashLineIs
  <2>2. CASE i # n
    BY <1>1, <1>2, <1>3, <1>6, <1>7, <2>2
  <2>3. QED
    BY <2>1, <2>2
<1>9. QED
  BY <1>3, <1>5, <1>7, <1>8, ShowsSame DEF c, id

LEMMA TableCleared ==
    ASSUME NEW t, NEW lines, Shows(t, lines)
    PROVE  Shows(ClearTable(t), Repeated(DashLine, Len(lines)))
<1> DEFINE K == Len(t)
           after[n \in 0..K] == IF n = 0 THEN t ELSE ClearRow(after[n - 1], n - 1)
           U == Seq(Rows)
           next(n, u) == ClearRow(u, n - 1)
           S == [n \in 0..K |-> {u \in U : Shows(u, Cleared(lines, n))}]
           step == [e \in (1..K) \X U |-> next(e[1], e[2])]
<1>1. K \in Nat /\ lines \in Seq(Lines) /\ t \in U /\ Len(lines) = K
  BY DEF Shows
<1>2. t \in S[0]
  <2>1. 0 \in Nat /\ \A i \in 1..Len(lines) : ~(i <= 0)
    BY <1>1
  <2>2. Shows(t, Cleared(lines, 0))
    BY <1>1, <2>1, ClearedIs, ShowsSame
  <2> HIDE DEF U
  <2>3. QED
    BY <1>1, <2>2
<1>3. ASSUME NEW n \in 1..K, NEW u \in S[n - 1] PROVE next(n, u) \in S[n] /\ u \in U
  <2>1. n - 1 \in 0..K /\ n \in 0..K
    BY <1>1
  <2>2. u \in U /\ Shows(u, Cleared(lines, n - 1))
    BY <2>1
  <2>3. Shows(next(n, u), Cleared(lines, n))
    BY <1>1, <2>2, OneMoreCleared
  <2> HIDE DEF next
  <2>4. next(n, u) \in U
    BY <2>3 DEF Shows
  <2> HIDE DEF U
  <2>5. QED
    BY <2>1, <2>2, <2>3, <2>4
<1>4. ASSUME NEW n \in 1..K, NEW u \in U PROVE step[<<n, u>>] = next(n, u)
  BY <1>4
<1> HIDE DEF S, step, U, K
<1>5. PICK f : Runs(f, K, t, step) /\ \A n \in 0..K : f[n] \in S[n]
  <2>1. \A n \in 1..K : \A u \in S[n - 1] : step[<<n, u>>] \in S[n]
    BY <1>3, <1>4
  <2>2. QED
    BY <1>1, <1>2, <2>1, LoopRuns
<1>6. f = [n \in 0..K |-> IF n = 0 THEN t ELSE next(n, f[n - 1])]
  <2>1. ASSUME NEW n \in 0..K, n # 0 PROVE step[<<n, f[n - 1]>>] = next(n, f[n - 1])
    <3>1. n \in 1..K /\ n - 1 \in 0..K
      BY <1>1, <2>1
    <3>2. f[n - 1] \in U
      BY <1>3, <1>5, <3>1
    <3>3. QED
      BY <1>4, <3>1, <3>2
  <2> HIDE DEF next
  <2>2. QED
    BY <1>5, <2>1 DEF Runs
<1>7. after = [n \in 0..K |-> IF n = 0 THEN t ELSE next(n, after[n - 1])]
  BY <1>6 DEF after
<1> HIDE DEF after, next
<1>8. after[K] \in S[K]
  <2> DEFINE T == {n \in 0..K : after[n] \in S[n]}
  <2>1. 0 \in T
    BY <1>1, <1>2, <1>7
  <2>2. ASSUME NEW n \in 1..K, n - 1 \in T PROVE n \in T
    <3>1. after[n] = next(n, after[n - 1]) /\ n \in 0..K
      <4>1. n \in 0..K /\ n # 0
        BY <1>1
      <4>2. QED
        BY <1>7, <4>1
    <3>2. after[n - 1] \in S[n - 1]
      BY <2>2
    <3>3. next(n, after[n - 1]) \in S[n]
      BY <1>3, <3>2
    <3>4. QED
      BY <3>1, <3>3
  <2> HIDE DEF T
  <2>3. \A n \in 0..K : n \in T
    BY <1>1, <2>1, <2>2, Reached
  <2>4. QED
    BY <1>1, <2>3 DEF T
<1>9. Shows(after[K], Cleared(lines, K))
  BY <1>1, <1>8 DEF S
<1>10. Cleared(lines, K) = Repeated(DashLine, K)
  BY <1>1 DEF Cleared, Repeated
<1>11. ClearTable(t) = after[K]
  BY DEF ClearTable, after, K, next
<1>12. QED
  BY <1>1, <1>9, <1>10, <1>11

-----------------------------------------------------------------------------
\* The colours leave the texts as they are.
LEMMA Coloured ==
    ASSUME NEW t, NEW lines, Shows(t, lines), NEW id \in 0..(Len(t) - 1), NEW row \in Rows,
           \A j \in 1..Columns : row[j].text = t[id + 1][j].text,
           NEW u, u = [t EXCEPT ![id + 1] = row]
    PROVE  Shows(u, lines)
<1>1. t \in Seq(Rows) /\ Len(t) \in Nat /\ Len(t) = Len(lines) /\ id + 1 \in 1..Len(t)
  BY DEF Shows
<1>2. /\ u \in Seq(Rows) /\ Len(u) = Len(t) /\ u[id + 1] = row
      /\ \A i \in 1..Len(t) : i # id + 1 => u[i] = t[i]
  BY <1>1
<1>3. ASSUME NEW i \in 1..Len(lines), NEW j \in 1..Columns PROVE u[i][j].text = lines[i][j]
  <2>1. t[i][j].text = lines[i][j]
    BY DEF Shows
  <2>2. CASE i = id + 1
    BY <1>2, <2>1, <2>2
  <2>3. CASE i # id + 1
    BY <1>1, <1>2, <2>1, <2>3
  <2>4. QED
    BY <2>2, <2>3
<1>4. QED
  BY <1>1, <1>2, <1>3 DEF Shows

LEMMA BackgroundSet ==
    ASSUME NEW t, NEW lines, Shows(t, lines), NEW id \in 0..(Len(t) - 1)
    PROVE  Shows(SetBackgroundColor(t, id), lines)
<1> DEFINE row == [j \in 1..Columns |-> [t[id + 1][j] EXCEPT !.background = "red"]]
<1>1. t[id + 1] \in Rows
  <2>1. t \in Seq(Rows) /\ id + 1 \in 1..Len(t)
    BY DEF Shows
  <2>2. QED
    BY <2>1
<1>2. ASSUME NEW j \in 1..Columns
      PROVE  row[j] \in Cells /\ row[j].text = t[id + 1][j].text
  <2>1. t[id + 1][j] \in Cells
    BY <1>1 DEF Rows
  <2>2. QED
    BY <2>1 DEF Cells
<1>3. row \in Rows
  BY <1>2 DEF Rows
<1>4. SetBackgroundColor(t, id) = [t EXCEPT ![id + 1] = row]
  BY DEF SetBackgroundColor
<1> HIDE DEF row
<1>5. QED
  BY <1>2, <1>3, <1>4, Coloured

LEMMA ItemColoured ==
    ASSUME NEW t, NEW lines, Shows(t, lines), NEW id \in Nat, NEW column \in 0..(Columns - 1),
           NEW alarm \in 0..3
    PROVE  Shows(SetItemColor(t, id, column, alarm), Padded(lines, id + 1))
<1> DEFINE u == AddTableRows(t, id + 1)
           p == Padded(lines, id + 1)
           colour == <<"black", "orange", "red">>[alarm + 1]
           cell == [u[id + 1][column + 1] EXCEPT !.color = colour]
           row == [u[id + 1] EXCEPT ![column + 1] = cell]
<1>1. Shows(u, p) /\ column + 1 \in 1..Columns
  BY RowsAdded, TableAssumption
<1>2. id \in 0..(Len(u) - 1) /\ u \in Seq(Rows) /\ Len(u) \in Nat
  <2>1. lines \in Seq(Lines) /\ Len(lines) \in Nat
    BY DEF Shows
  <2>2. Len(p) = IF Len(lines) < id + 1 THEN id + 1 ELSE Len(lines)
    BY <2>1, PaddedIs
  <2>3. Len(u) = Len(p) /\ u \in Seq(Rows)
    BY <1>1 DEF Shows
  <2> HIDE DEF u, p
  <2>4. QED
    BY <2>1, <2>2, <2>3
<1> HIDE DEF u, p
<1>3. CASE alarm \in 0..2
  <2>1. colour \in {"black", "orange", "red"}
    BY <1>3
  <2> HIDE DEF colour
  <2>2. u[id + 1] \in Rows
    BY <1>2
  <2>3. u[id + 1][column + 1] \in Cells
    BY <1>1, <2>2 DEF Rows
  <2>4. cell \in Cells /\ cell.text = u[id + 1][column + 1].text
    BY <2>1, <2>3 DEF Cells
  <2> HIDE DEF cell
  <2>5. row \in Rows /\ \A j \in 1..Columns : row[j].text = u[id + 1][j].text
    BY <1>1, <2>2, <2>4 DEF Rows
  <2>6. SetItemColor(t, id, column, alarm) = [u EXCEPT ![id + 1] = row]
    BY <1>3 DEF SetItemColor, u, row, cell, colour
  <2> HIDE DEF row
  <2>7. QED
    BY <1>1, <1>2, <2>5, <2>6, Coloured DEF p
<1>4. CASE alarm \notin 0..2
  BY <1>1, <1>4 DEF SetItemColor, u, p
<1>5. QED
  BY <1>3, <1>4

LEMMA RowAppended ==
    ASSUME NEW t, NEW lines, Shows(t, lines), NEW list \in Seq(Labels), Len(list) = Columns,
           NEW c \in BOOLEAN
    PROVE  Shows(AppendTableRow(t, list, c), Append(lines, [j \in 1..Columns |-> Label(list[j])]))
<1> DEFINE id == Len(t)
           line == [j \in 1..Columns |-> Label(list[j])]
           m == Append(lines, line)
           w == Written(lines, id, 0, list)
           p == Padded(lines, id + 1)
           u == SetTableRow(t, id, 0, list)
<1>1. /\ id \in Nat /\ lines \in Seq(Lines) /\ Len(lines) = id
      /\ Columns \in Nat /\ Columns # 0 /\ 0 + Len(list) <= Columns /\ Len(list) # 0
  BY TableAssumption DEF Shows
<1> HIDE DEF id
<1>2. Shows(u, w)
  BY <1>1, RowSet
<1>3. /\ w \in Seq(Lines) /\ Len(w) = Len(p)
      /\ Len(p) = (IF Len(lines) < id + 1 THEN id + 1 ELSE Len(lines))
      /\ \A i \in 1..Len(p) : p[i] = IF i <= Len(lines) THEN lines[i] ELSE DashLine
      /\ \A i \in 1..Len(p) : i # id + 1 => w[i] = p[i]
      /\ \A j \in 1..Columns :
            w[id + 1][j] = IF j \in (0 + 1)..(0 + Len(list)) THEN Label(list[j - 0])
                           ELSE p[id + 1][j]
  <2>1. WrittenAs(w, p, lines, id, 0, list)
    BY <1>1, WrittenIs
  <2> HIDE DEF w, p
  <2>2. QED
    BY <2>1 DEF WrittenAs
<1>4. line \in Lines
  <2>1. ASSUME NEW j \in 1..Columns PROVE Label(list[j]) \in Labels
    BY TableAssumption DEF Label, Labels
  <2>2. QED
    BY <2>1 DEF Lines
<1>5. \A j \in 1..Columns : line[j] = Label(list[j])
  OBVIOUS
<1> HIDE DEF line, w, p
<1>6. /\ m \in Seq(Lines) /\ Len(m) = id + 1 /\ m[id + 1] = line
      /\ \A i \in 1..id : m[i] = lines[i]
  BY <1>1, <1>4
<1> HIDE DEF m
<1>7. Len(p) = id + 1
  BY <1>1, <1>3
<1>8. ASSUME NEW i \in 1..Len(m), NEW j \in 1..Columns PROVE m[i][j] = w[i][j]
  <2>1. CASE i = id + 1
    <3>1. j \in (0 + 1)..(0 + Len(list)) /\ j - 0 = j
      BY <1>1
    <3>2. QED
      BY <1>3, <1>5, <1>6, <2>1, <3>1
  <2>2. CASE i # id + 1
    BY <1>1, <1>3, <1>6, <1>7, <2>2
  <2>3. QED
    BY <2>1, <2>2
<1>9. Shows(u, m)
  BY <1>2, <1>3, <1>6, <1>7, <1>8, ShowsSame
<1>10. c => Shows(SetBackgroundColor(u, id), m)
  <2>1. id \in 0..(Len(u) - 1)
    BY <1>1, <1>6, <1>9 DEF Shows
  <2>2. QED
    BY <1>9, <2>1, BackgroundSet
<1>11. AppendTableRow(t, list, c) = IF c THEN SetBackgroundColor(u, id) ELSE u
  BY DEF AppendTableRow, id
<1>12. QED
  BY <1>9, <1>10, <1>11 DEF m, line

LEMMA TableResized ==
    ASSUME NEW t, NEW lines, Shows(t, lines), NEW line \in Nat
    PROVE  Shows(CheckTableRow(t, line), SubSeq(Padded(lines, line), 1, line))
<1> DEFINE p == Padded(lines, line)
           u == AddTableRows(t, line)
<1>1. lines \in Seq(Lines) /\ Len(lines) \in Nat /\ Len(lines) = Len(t)
  BY DEF Shows
<1>2. Shows(u, p)
  BY RowsAdded
<1>3. Len(p) = (IF Len(lines) < line THEN line ELSE Len(lines)) /\ p \in Seq(Lines)
      /\ (line <= Len(lines) => p = lines)
  BY <1>1, PaddedIs
<1> HIDE DEF p, u
<1>4. CASE Len(t) # line
  <2>1. line \in 0..Len(p)
    BY <1>1, <1>3
  <2>2. Shows(DelTableRows(u, line), SubSeq(p, 1, line))
    BY <1>2, <2>1, RowsCut
  <2>3. QED
    BY <1>4, <2>2 DEF CheckTableRow, u, p
<1>5. CASE Len(t) = line
  <2>1. SubSeq(p, 1, line) = lines
    BY <1>1, <1>3, <1>5, SubSeqGrows
  <2>2. QED
    BY <1>5, <2>1 DEF CheckTableRow, p
<1>6. QED
  BY <1>4, <1>5

-----------------------------------------------------------------------------
\* The table shows what the calls asked for.
TableInv == Shows(table, shown)

LEMMA TableStarts == TableInit => TableInv
<1> SUFFICES ASSUME TableInit PROVE TableInv
  OBVIOUS
<1>1. Shows(<<>>, <<>>)
  BY DEF Shows
<1>2. Shows(AddTableRows(<<>>, 1), Padded(<<>>, 1))
  BY <1>1, RowsAdded
<1>3. Padded(<<>>, 1) = <<DashLine>>
  BY DEF Padded, DashLine
<1>4. QED
  BY <1>2, <1>3 DEF TableInit, TableInv, InitTableWid, DashLine

LEMMA TextsAreLabels ==
    ASSUME NEW n \in Nat, NEW list \in [1..n -> Texts]
    PROVE  list \in Seq(Labels) /\ Len(list) = n
BY DEF Labels

LEMMA TableStep == TableInv /\ [TableNext]_tableVars => TableInv'
<1> SUFFICES ASSUME TableInv, [TableNext]_tableVars PROVE TableInv'
  OBVIOUS
<1>1. Shows(table, shown) /\ Columns \in Nat /\ Columns # 0 /\ MaxRows \in Nat
  BY TableAssumption DEF TableInv
<1>2. ASSUME NEW id \in 0..(MaxRows - 1), NEW col \in 0..(Columns - 1), NEW n \in 1..(Columns - col),
             NEW list \in [1..n -> Texts], FillRow(id, col, list)
      PROVE  TableInv'
  <2>1. id \in Nat /\ col \in Nat /\ n \in Nat /\ n # 0 /\ col + n <= Columns
    BY <1>1
  <2>2. list \in Seq(Labels) /\ Len(list) = n
    BY <2>1, TextsAreLabels
  <2>3. Shows(SetTableRow(table, id, col, list), Written(shown, id, col, list))
    BY <1>1, <2>1, <2>2, RowSet
  <2>4. QED
    BY <1>2, <2>3 DEF FillRow, TableInv
<1>3. ASSUME NEW id \in 0..(MaxRows - 1), NEW number \in Texts, BlankRow(id, number)
      PROVE  TableInv'
  <2>1. id \in Nat
    BY <1>1
  <2>2. Shows(ClearRow(table, id), Written(shown, id, 0, Repeated(Dashes, Columns)))
    BY <1>1, <2>1, RowCleared
  <2>3. <<number>> \in Seq(Labels) /\ Len(<<number>>) = 1
    BY DEF Labels
  <2>4. Shows(SetTableRow(ClearRow(table, id), id, 0, <<number>>),
              Written(Written(shown, id, 0, Repeated(Dashes, Columns)), id, 0, <<number>>))
    <3>1. 0 \in Nat /\ Len(<<number>>) # 0 /\ 0 + Len(<<number>>) <= Columns
      BY <1>1, <2>3
    <3>2. QED
      BY <2>1, <2>2, <2>3, <3>1, RowSet
  <2>5. QED
    BY <1>3, <2>4 DEF BlankRow, TableInv
<1>4. ASSUME NEW list \in [1..Columns -> Texts], NEW c \in BOOLEAN, AddRow(list, c)
      PROVE  TableInv'
  <2>1. list \in Seq(Labels) /\ Len(list) = Columns
    BY <1>1, TextsAreLabels
  <2>2. QED
    BY <1>1, <1>4, <2>1, RowAppended DEF AddRow, TableInv
<1>5. ASSUME NEW line \in 0..MaxRows, Resize(line) PROVE TableInv'
  BY <1>1, <1>5, TableResized DEF Resize, TableInv
<1>6. CASE Wipe
  BY <1>1, <1>6, TableCleared DEF Wipe, TableInv, DashLine
<1>7. CASE Drop
  BY <1>7 DEF Drop, TableInv, Shows
<1>8. ASSUME NEW id \in 0..(MaxRows - 1), NEW column \in 0..(Columns - 1), NEW alarm \in 0..3,
             ColorItem(id, column, alarm)
      PROVE  TableInv'
  <2>1. id \in Nat
    BY <1>1
  <2>2. QED
    BY <1>1, <1>8, <2>1, ItemColoured DEF ColorItem, TableInv
<1>9. CASE UNCHANGED tableVars
  BY <1>9 DEF tableVars, TableInv, Shows
<1>10. QED
  BY <1>2, <1>3, <1>4, <1>5, <1>6, <1>7, <1>8, <1>9 DEF TableNext

LEMMA ShowsFits == TableInv => TableFits
<1> SUFFICES ASSUME TableInv PROVE TableFits
  OBVIOUS
<1> DEFINE K == Len(table)
           texts(i) == [j \in 1..Columns |-> table[i][j].text]
           body == [i \in 1..K |-> <<i>> \o texts(i)]
<1>1. /\ table \in Seq(Rows) /\ shown \in Seq(Lines) /\ Len(shown) = K /\ K \in Nat
      /\ Columns \in Nat
      /\ \A i \in 1..K, j \in 1..Columns : table[i][j].text = shown[i][j]
  BY TableAssumption DEF TableInv, Shows
<1>2. ASSUME NEW i \in 1..K PROVE Len(table[i]) = Columns /\ texts(i) = shown[i]
  <2>1. table[i] \in Rows /\ shown[i] \in Lines
    BY <1>1
  <2>2. Len(table[i]) = Columns
    BY <1>1, <2>1 DEF Rows
  <2>3. shown[i] = [j \in 1..Columns |-> shown[i][j]]
    BY <2>1 DEF Lines
  <2>4. QED
    BY <1>1, <2>2, <2>3
<1>3. [i \in 1..K |-> [j \in 1..Len(table[i]) |-> table[i][j].text]] = shown
  <2> DEFINE all == [i \in 1..K |-> [j \in 1..Len(table[i]) |-> table[i][j].text]]
  <2>1. ASSUME NEW i \in 1..K PROVE all[i] = shown[i]
    <3>1. all[i] = texts(i)
      BY <1>2
    <3>2. QED
      BY <1>2, <3>1
  <2>2. all = [i \in 1..K |-> all[i]]
    OBVIOUS
  <2> HIDE DEF all
  <2>3. all = shown
    BY <1>1, <2>1, <2>2
  <2>4. QED
    BY <2>3 DEF all
<1>4. GetList(table) = <<"header">> \o body
  BY DEF GetList
<1>5. Len(body) = K /\ \A i \in 1..K : body[i] = <<i>> \o shown[i]
  <2>1. ASSUME NEW i \in 1..K PROVE body[i] = <<i>> \o shown[i]
    <3>1. body[i] = <<i>> \o texts(i)
      OBVIOUS
    <3> HIDE DEF texts
    <3>2. QED
      BY <1>2, <3>1
  <2>2. Len(body) = K
    <3> HIDE DEF texts
    <3>1. QED
      BY <1>1
  <2>3. QED
    BY <2>1, <2>2
<1> HIDE DEF body
<1>6. /\ Len(GetList(table)) = K + 1
      /\ \A i \in 1..K : GetList(table)[i + 1] = body[i]
  BY <1>1, <1>4, <1>5
<1>7. QED
  BY <1>1, <1>2, <1>3, <1>5, <1>6 DEF TableFits

\* Whatever calls write, append, clear, cut and colour in any order, no cell of the table
\* is missing and it shows what was asked for, for any numbers of columns and rows.
THEOREM TableShowsAsked == TableSpec => []TableFits
<1>1. TableInit => TableInv
  BY TableStarts
<1>2. TableInv /\ [TableNext]_tableVars => TableInv'
  BY TableStep
<1>3. TableInv => TableFits
  BY ShowsFits
<1>4. QED
  BY <1>1, <1>2, <1>3, PTL DEF TableSpec
=============================================================================
