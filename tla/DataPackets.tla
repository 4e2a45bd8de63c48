----------------------------- MODULE DataPackets -----------------------------
(***************************************************************************)
(* DataPackets and sDataPacket (common/datapacket): one record per outlet  *)
(* with the counters of the test.  The worker thread writes the records    *)
(* field by field, the display reads them; there is no lock.  The counters *)
(* are unsigned, UintMax is the largest one.                               *)
(***************************************************************************)
EXTENDS Naturals

CONSTANTS
    Outlets,   \* the SNMP_SIZE = ARRAY_SIZE outlets
    UintMax,   \* largest value of a uint
    Values     \* device values the test tells apart; 0 is "no load current"

ASSUME DataAssumption ==
    /\ UintMax \in Nat \ {0}
    /\ Values \subseteq Nat /\ 0 \in Values

VARIABLE packets   \* the sDataPacket of each outlet

Actions == {"open", "close"}

Packet == [en : BOOLEAN, action : Actions,
           all : 0..UintMax, ok : 0..UintMax, err : 0..UintMax, value : Values]

\* The zeroed record; action 0 is "close".
ZeroPacket == [en |-> FALSE, action |-> "close",
               all |-> 0, ok |-> 0, err |-> 0, value |-> 0]

\* n++ on a uint.
Inc(n) == IF n = UintMax THEN 0 ELSE n + 1

\* clears(), then init() copies the enable flags from the configuration.
ClearAll(enabled) ==
    packets' = [x \in Outlets |-> [ZeroPacket EXCEPT !.en = x \in enabled]]

\* The head of openFun and closeFun.
Begun(p, action) == [p EXCEPT !.all = Inc(@), !.action = action]
BeginTrial(x, action) == packets' = [packets EXCEPT ![x] = Begun(@, action)]

\* One attempt stored its reading and more attempts follow.
Retry(x, v) == packets' = [packets EXCEPT ![x] = [@ EXCEPT !.value = v]]

\* A faulty Count without the else: a failure is counted in both columns.
CountBoth(p, success) == IF success THEN [p EXCEPT !.ok = Inc(@)]
                                    ELSE [p EXCEPT !.ok = Inc(@), !.err = Inc(@)]

\* How a trial is counted.
Count(p, success) == IF success THEN [p EXCEPT !.ok = Inc(@)]
                                ELSE [p EXCEPT !.err = Inc(@)]

\* The last attempt stored its reading, the trial is counted as ok or err.
EndTrial(x, v, success) ==
    packets' = [packets EXCEPT ![x] = Count([@ EXCEPT !.value = v], success)]
==============================================================================
