----------------------------- MODULE Collection -----------------------------
(***************************************************************************)
(* SnmpCollection of the SNMP library: elements in a chain of blocks.  The *)
(* chain is the sequence of its blocks, the first is part of the object.   *)
(* A cell that was never set or whose element is deleted is Dangling.      *)
(***************************************************************************)
EXTENDS Integers, Sequences, SequencesExt

CONSTANTS
    MAXT,      \* cells of a block
    Things,    \* the elements
    Dangling,  \* what no cell that is in use holds
    MaxCount   \* bound: elements of a collection

ASSUME CollectionAssumption ==
    /\ MAXT \in Nat \ {0} /\ MaxCount \in Nat
    /\ Dangling \notin Things

Holders == {"c", "d"}

VARIABLES
    coll,      \* the two collections of a caller: count and data
    added      \* what the caller has put into each of them
collVars == <<coll, added>>

EmptyBlock == [cell \in 0..(MAXT - 1) |-> Dangling]
EmptyCollection == [count |-> 0, data |-> <<EmptyBlock>>]

-----------------------------------------------------------------------------
\* get_element for a position in use.
GetElement(c, p) == c.data[(p \div MAXT) + 1][p % MAXT]

\* Faulty: the first element is taken for one that finds its block full.
PlusInNew(c, thing) ==
    [count |-> c.count + 1,
     data  |-> IF c.count % MAXT = 0
               THEN Append(c.data, [EmptyBlock EXCEPT ![0] = thing])
               ELSE [c.data EXCEPT ![Len(c.data)][c.count % MAXT] = thing]]

\* operator +=: into the last block, or a new one when it is full.
Plus1(c, thing) ==
    [count |-> c.count + 1,
     data  |-> IF c.count > 0 /\ c.count % MAXT = 0
               THEN Append(c.data, [EmptyBlock EXCEPT ![0] = thing])
               ELSE [c.data EXCEPT ![Len(c.data)][c.count % MAXT] = thing]]

\* The loop of the copy constructor and of operator =, with its own cn.
CopyElement(copy, thing) ==
    LET full == copy.cn >= MAXT
        data == IF full THEN Append(copy.data, EmptyBlock) ELSE copy.data
        cn == IF full THEN 0 ELSE copy.cn
    IN  [data |-> [data EXCEPT ![Len(data)][cn] = thing], cn |-> cn + 1]
CopyOf(c) ==
    LET copy[n \in 0..c.count] ==
            IF n = 0 THEN [data |-> <<EmptyBlock>>, cn |-> 0]
            ELSE CopyElement(copy[n - 1], GetElement(c, n - 1))
    IN  [count |-> c.count, data |-> copy[c.count].data]

\* find: the first position that holds the thing, or count.
Find(c, thing) ==
    CHOOSE p \in 0..c.count :
        /\ p = c.count \/ GetElement(c, p) = thing
        /\ \A q \in 0..(p - 1) : GetElement(c, q) # thing

\* remove: the others are added to a new collection, which is assigned.
RemoveFrom(c, thing) ==
    LET pos == Find(c, thing)
        others[n \in 0..c.count] ==
            IF n = 0 THEN EmptyCollection
            ELSE IF n - 1 = pos THEN others[n - 1]
            ELSE Plus1(others[n - 1], GetElement(c, n - 1))
    IN  IF pos = c.count THEN c ELSE CopyOf(others[c.count])

-----------------------------------------------------------------------------
CollectionInit ==
    /\ coll = [h \in Holders |-> EmptyCollection]
    /\ added = [h \in Holders |-> <<>>]

Put(h, thing) ==
    /\ coll[h].count < MaxCount
    /\ coll' = [coll EXCEPT ![h] = Plus1(@, thing)]
    /\ added' = [added EXCEPT ![h] = Append(@, thing)]

\* operator =; the copy constructor does the same to a new object.
Assign(h, g) ==
    /\ h # g
    /\ coll' = [coll EXCEPT ![h] = CopyOf(coll[g])]
    /\ added' = [added EXCEPT ![h] = added[g]]

\* set_element at a position in use.
SetElement(h, p, thing) ==
    /\ coll' = [coll EXCEPT ![h].data[(p \div MAXT) + 1][p % MAXT] = thing]
    /\ added' = [added EXCEPT ![h][p + 1] = thing]

TakeOut(h, thing) ==
    /\ coll' = [coll EXCEPT ![h] = RemoveFrom(@, thing)]
    /\ added' = [added EXCEPT ![h] = RemoveFirst(@, thing)]

\* clear: the first block stays, with dangling cells.
ClearCollection(h) ==
    /\ coll' = [coll EXCEPT ![h] = EmptyCollection]
    /\ added' = [added EXCEPT ![h] = <<>>]

CollectionNext ==
    \E h \in Holders :
        \/ \E thing \in Things : Put(h, thing) \/ TakeOut(h, thing)
        \/ \E g \in Holders : Assign(h, g)
        \/ \E p \in 0..(coll[h].count - 1), thing \in Things : SetElement(h, p, thing)
        \/ ClearCollection(h)

CollectionSpec == CollectionInit /\ [][CollectionNext]_collVars

-----------------------------------------------------------------------------
\* A collection is the list of what was put into it, whatever blocks it takes: each
\* position is found, no other cell is in use, the chain is as long as it must be,
\* and find gives the first position.
CollectionIsList ==
    \A h \in Holders :
        LET c == coll[h]
        IN  /\ c.count = Len(added[h])
            /\ \A p \in 0..(c.count - 1) : GetElement(c, p) = added[h][p + 1]
            /\ Len(c.data) = IF c.count = 0 THEN 1 ELSE (c.count + MAXT - 1) \div MAXT
            /\ \A thing \in Things :
                  IF Contains(added[h], thing)
                  THEN Find(c, thing) + 1 = SelectInSeq(added[h], LAMBDA t : t = thing)
                  ELSE Find(c, thing) = c.count
=============================================================================
