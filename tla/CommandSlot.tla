---------------------------- MODULE CommandSlot ----------------------------
(***************************************************************************)
(* What SerialPort promises to the thread that writes commands: a slot for *)
(* one frame in front of a serial line.  The newest frame wins, a frame    *)
(* leaves the slot at most once, and the line carries only frames that     *)
(* were put.  A frame is lost when a newer one replaces it, when the line  *)
(* refuses it, or when it was put while another one was being sent, and in *)
(* no other way.                                                           *)
(***************************************************************************)
EXTENDS Naturals

CONSTANTS
    Frames,   \* the byte arrays a caller may write
    NoFrame   \* the empty byte array

VARIABLES
    slot,     \* the frame that waits for the line, or NoFrame
    sending,  \* the line has been handed a frame and the slot is not cleared yet
    wire      \* both ends: the last frame the line carried, the parity of their number
              \* and that of the number of calls that put one

SlotInit ==
    /\ slot = NoFrame /\ sending = FALSE
    /\ wire = [frame |-> NoFrame, parity |-> 0, calls |-> 0]

Put(f) ==
    /\ slot' = f /\ UNCHANGED sending
    /\ wire' = [wire EXCEPT !.calls = 1 - @]

Deliver ==
    /\ ~sending /\ slot # NoFrame
    /\ wire' = [wire EXCEPT !.frame = slot, !.parity = 1 - @]
    /\ slot' = NoFrame /\ sending' = TRUE

Refuse ==
    /\ ~sending /\ slot # NoFrame
    /\ slot' = NoFrame /\ sending' = TRUE /\ UNCHANGED wire

\* The slot is cleared, with what was put since the send began.
Cleared ==
    /\ sending
    /\ slot' = NoFrame /\ sending' = FALSE /\ UNCHANGED wire

SlotNext == (\E f \in Frames \cup {NoFrame} : Put(f)) \/ Deliver \/ Refuse \/ Cleared

SlotSpec == SlotInit /\ [][SlotNext]_<<slot, sending, wire>>
============================================================================
