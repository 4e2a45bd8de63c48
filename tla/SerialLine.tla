----------------------------- MODULE SerialLine -----------------------------
(***************************************************************************)
(* SerialPort together with the line it feeds, and the proof obligation    *)
(* that the two behave as the one-frame slot of CommandSlot.               *)
(***************************************************************************)
EXTENDS SerialPort

\* The last frame on the line, the parity of their number and that of the calls of write.
VARIABLE wire

lineVars == <<portVars, wire>>

LineInit == PortInit /\ wire = [frame |-> NoFrame, parity |-> 0, calls |-> 0]

Called == wire' = [wire EXCEPT !.calls = 1 - @]

\* write() puts what mWriteArray holds now on the line.
LineSend ==
    /\ TickSend
    /\ wire' = [wire EXCEPT !.frame = mWriteArray, !.parity = 1 - @]

LineNext == LineSend \/ (PortWrite /\ Called) \/ (PortQuiet /\ UNCHANGED wire)

LineSpec == LineInit /\ [][LineNext]_lineVars

FairLineSpec == LineSpec /\ PortFairness

-----------------------------------------------------------------------------
\* What the line still owes is the frame of mWriteArray while it is unsent; between
\* write() and clear() of timeoutDone a frame is being sent.
Slot == INSTANCE CommandSlot WITH
            slot <- IF fresh THEN mWriteArray ELSE NoFrame,
            sending <- handler = "sent"

\* timeoutDone and write() implement the slot: no frame is duplicated, invented or
\* sent after a newer one, and none is wiped but by a newer one, by a send that fails
\* or between write() and clear() of timeoutDone; not by open(), close(), a tick with
\* the port closed, recv() or the reading of a loop test.
SlotSpecHolds == Slot!SlotSpec
=============================================================================
