-------------------------- MODULE SerialPortProofs --------------------------
(***************************************************************************)
(* Safety of SerialPort for any ports, frames and answers.  The port with  *)
(* its line implements the one-frame slot; the dialog and the label agree  *)
(* with the port, and the port behind the dialog is that slot still.       *)
(***************************************************************************)
EXTENDS SerialWid, TLAPS

PortInv == PortTypeOK /\ PendingUnsent

\* The constructor and initCfg leave well-typed fields and an empty buffer.
LEMMA PortInitInv == PortInit => PortInv
BY PortAssumption DEF PortInit, PortInv, PortTypeOK, PendingUnsent, Handlers

\* open(), close(), write(array), each step of timeoutDone and of loopTest keep
\* the fields well typed and never leave a frame in mWriteArray that was already
\* handed to the line, except between write() and clear() of timeoutDone.
LEMMA PortStepInv == ASSUME PortInv, [PortNext]_portVars PROVE PortInv'
<1> USE PortAssumption DEF PortInv, PortTypeOK, PendingUnsent, Handlers
<1>1. ASSUME NEW p \in Ports, NEW ok \in BOOLEAN, Open(p, ok) PROVE PortInv'
  BY <1>1 DEF Open
<1>2. CASE Close
  BY <1>2 DEF Close
<1>3. ASSUME NEW f \in Frames \cup {NoFrame}, Write(f) PROVE PortInv'
  BY <1>3 DEF Write
<1>4. CASE TickClosed \/ UNCHANGED portVars
  BY <1>4 DEF TickClosed, portVars
<1>5. CASE TickRecv
  BY <1>5 DEF TickRecv
<1>6. CASE TickCheck
  BY <1>6 DEF TickCheck
<1>7. CASE TickSend
  BY <1>7 DEF TickSend
<1>8. CASE TickSendFails
  BY <1>8 DEF TickSendFails
<1>9. CASE TickSendEmpty
  BY <1>9 DEF TickSendEmpty
<1>10. CASE TickClear
  BY <1>10 DEF TickClear
<1>11. CASE LoopTest
  BY <1>11 DEF LoopTest
<1>12. CASE LoopRead
  BY <1>12 DEF LoopRead
<1>13. CASE LoopEnd
  BY <1>13 DEF LoopEnd
<1>14. QED
  BY <1>1, <1>2, <1>3, <1>4, <1>5, <1>6, <1>7, <1>8, <1>9, <1>10, <1>11, <1>12,
     <1>13 DEF PortNext, PortWrite, PortQuiet

\* In every state of SerialPort the fields are well typed, an open port has its
\* QSerialPort, and outside the send handler of timeoutDone the buffer holds no
\* frame that was on the line.
THEOREM PortSafety == PortSpec => [](PortTypeOK /\ PendingUnsent)
<1>1. PortInit => PortInv
  BY PortInitInv
<1>2. PortInv /\ [PortNext]_portVars => PortInv'
  BY PortStepInv
<1>3. PortInv => PortTypeOK /\ PendingUnsent
  BY DEF PortInv
<1>4. QED
  BY <1>1, <1>2, <1>3, PTL DEF PortSpec

-----------------------------------------------------------------------------
Wires == [frame : Frames \cup {NoFrame}, parity : {0, 1}, calls : {0, 1}]
LineInv == PortInv /\ wire \in Wires

\* Each step of timeoutDone, write(array) and loopTest leaves the line in order.
LEMMA LineStepInv == ASSUME LineInv, [LineNext]_lineVars PROVE LineInv'
<1>1. PortInv'
  <2>1. [PortNext]_portVars
    BY DEF LineNext, LineSend, PortNext, lineVars
  <2>2. QED
    BY <2>1, PortStepInv DEF LineInv
<1>2. wire' \in Wires
  <2>0. wire \in Wires /\ mWriteArray \in Frames \cup {NoFrame}
    BY DEF LineInv, PortInv, PortTypeOK
  <2>1. CASE LineSend
    <3>1. wire' = [wire EXCEPT !.frame = mWriteArray, !.parity = 1 - @]
      BY <2>1 DEF LineSend
    <3>2. 1 - wire.parity \in {0, 1}
      BY <2>0 DEF Wires
    <3>3. QED
      BY <2>0, <3>1, <3>2 DEF Wires
  <2>2. CASE Called
    <3>1. 1 - wire.calls \in {0, 1}
      BY <2>0 DEF Wires
    <3>2. QED
      BY <2>0, <2>2, <3>1 DEF Called, Wires
  <2>3. CASE UNCHANGED wire
    BY <2>0, <2>3
  <2>4. QED
    BY <2>1, <2>2, <2>3 DEF LineNext, lineVars
<1>3. QED
  BY <1>1, <1>2 DEF LineInv

\* The constructed port is an empty slot in front of a silent line.
LEMMA LineInitSlot == LineInit => Slot!SlotInit
BY DEF LineInit, PortInit, Slot!SlotInit

\* Each step of the port is a step of the slot: the send of timeoutDone delivers
\* what the slot holds, a failed send is a refusal, write(array) and the loop test put
\* a frame, clear() ends the send, and all else is invisible.
LEMMA LineStepSlot ==
    ASSUME LineInv, [LineNext]_lineVars
    PROVE  [Slot!SlotNext]_<<IF fresh THEN mWriteArray ELSE NoFrame, handler = "sent", wire>>
<1> DEFINE slot == IF fresh THEN mWriteArray ELSE NoFrame
<1> USE DEF LineInv, PortInv, PortTypeOK, PendingUnsent
<1>1. CASE LineSend
  <2>1. fresh /\ mWriteArray # NoFrame /\ ~fresh'
    BY <1>1 DEF LineSend, TickSend
  <2>2. Slot!Deliver
    BY <1>1, <2>1 DEF LineSend, TickSend, Slot!Deliver
  <2>3. QED
    BY <2>2 DEF Slot!SlotNext
<1>2. CASE PortWrite /\ Called
  <2>1. ASSUME NEW f \in Frames \cup {NoFrame}, Write(f) PROVE Slot!Put(f)
    BY <1>2, <2>1 DEF Write, Called, Slot!Put
  <2>2. CASE LoopTest
    <3>1. Slot!Put(Pattern) /\ Pattern \in Frames
      BY <1>2, <2>2, PortAssumption DEF LoopTest, Called, Slot!Put
    <3>2. QED
      BY <3>1 DEF Slot!SlotNext
  <2>3. QED
    BY <1>2, <2>1, <2>2 DEF PortWrite, Slot!SlotNext
<1>3. CASE PortQuiet /\ UNCHANGED wire
  <2>1. CASE TickSendFails \/ TickClear
    <3>1. CASE TickSendFails
      BY <1>3, <3>1 DEF TickSendFails, Slot!Refuse, Slot!SlotNext
    <3>2. CASE TickClear
      BY <1>3, <3>2 DEF TickClear, Slot!Cleared, Slot!SlotNext
    <3>3. QED
      BY <2>1, <3>1, <3>2
  <2>2. CASE \/ \E p \in Ports, ok \in BOOLEAN : Open(p, ok)
             \/ Close \/ TickClosed \/ TickRecv \/ TickCheck \/ TickSendEmpty
             \/ LoopRead \/ LoopEnd
    <3>1. UNCHANGED <<fresh, mWriteArray>> /\ (handler = "sent") = (handler' = "sent")
      BY <2>2 DEF Open, Close, TickClosed, TickRecv, TickCheck, TickSendEmpty,
                  LoopRead, LoopEnd, portVars
    <3>2. QED
      BY <1>3, <3>1
  <2>3. QED
    BY <1>3, <2>1, <2>2 DEF PortQuiet, Slot!SlotNext
<1>4. CASE UNCHANGED lineVars
  BY <1>4 DEF lineVars, portVars
<1>5. QED
  BY <1>1, <1>2, <1>3, <1>4 DEF LineNext

\* SerialPort keeps the promise of CommandSlot: whatever the threads write and
\* the user does, a frame is on the line at most once, newest first, only frames that
\* were written are, and none is wiped but in the three ways that the slot names.
THEOREM LineImplementsSlot == LineSpec => SlotSpecHolds
<1>1. LineInit => LineInv
  BY PortInitInv DEF LineInit, LineInv, Wires
<1>2. LineInv /\ [LineNext]_lineVars => LineInv'
  BY LineStepInv
<1>3. LineInit => Slot!SlotInit
  BY LineInitSlot
<1>4. LineInv /\ [LineNext]_lineVars
        => [Slot!SlotNext]_<<IF fresh THEN mWriteArray ELSE NoFrame, handler = "sent", wire>>
  BY LineStepSlot
<1>5. QED
  BY <1>1, <1>2, <1>3, <1>4, PTL DEF LineSpec, SlotSpecHolds, Slot!SlotSpec

-----------------------------------------------------------------------------
\* Between the two halves of serialPortChanged the port is closed and nothing else
\* of the GUI thread runs; the list is only disabled by a successful open.
WidInv ==
    /\ shown \in BOOLEAN /\ comOn \in BOOLEAN /\ changing \in BOOLEAN
    /\ comBox \in Ports \cup {NoPort}
    /\ changing => shown /\ comOn /\ ~isOpen /\ comBox \in Ports
    /\ stateLab = "none" => comOn
    /\ DialogShowsPort

LEMMA WidInitInv == WidInit => LineInv /\ WidInv
<1>1. WidInit => LineInv
  BY PortInitInv DEF WidInit, LineInit, LineInv, Wires
<1>2. WidInit => WidInv
  BY DEF WidInit, WidInv, DialogShowsPort
<1>3. QED
  BY <1>1, <1>2

\* The dialog reaches the port through open(), close() and loopTest() only.
LEMMA WidStepIsLineStep ==
    ASSUME WidInv, [WidNext]_widLineVars PROVE [LineNext]_lineVars
<1> USE DEF LineNext, PortWrite, PortQuiet
<1>1. ASSUME NEW p \in Ports, PickPort(p) PROVE LineNext
  BY <1>1 DEF PickPort
<1>2. CASE ChangePort
  <2>1. comBox \in Ports
    BY <1>2 DEF ChangePort, WidInv
  <2>2. QED
    BY <1>2, <2>1 DEF ChangePort
<1>3. CASE ButtonOpens
  <2>1. comBox \in Ports
    BY <1>3 DEF ButtonOpens, WidInv
  <2>2. QED
    BY <1>3, <2>1 DEF ButtonOpens
<1>4. CASE ButtonCloses \/ ButtonLoops
  BY <1>4 DEF ButtonCloses, ButtonLoops
<1>5. CASE UpdateList \/ DialogBegins \/ DialogEnds \/ UNCHANGED widLineVars
  BY <1>5 DEF UpdateList, DialogBegins, DialogEnds, widLineVars
<1>6. CASE Tick
  BY <1>6 DEF Tick
<1>7. CASE Writer
  BY <1>7 DEF Writer
<1>8. QED
  BY <1>1, <1>2, <1>3, <1>4, <1>5, <1>6, <1>7 DEF WidNext, Dialog

\* After open() the texts and the list say what became of it; a success ends the
\* dialog and the label of the main window follows.
LEMMA OutcomeShown ==
    ASSUME WidInv, NEW p \in Ports, NEW ok \in BOOLEAN, comOn,
           Open(p, ok), ShowOutcome(p, ok), shown, changing' = FALSE, comBox' \in Ports
    PROVE  WidInv'
<1> USE DEF WidInv, DialogShowsPort, LabelOf
<1>1. CASE ok
  <2>1. /\ isOpen' = TRUE /\ mSerial' = p /\ stateLab' = "opened" /\ workBtn' = "close"
        /\ comOn' = FALSE /\ shown' = FALSE /\ label' = p
    BY <1>1 DEF Open, ShowOutcome
  <2>2. QED
    BY <2>1
<1>2. CASE ~ok
  <2>1. /\ isOpen' = FALSE /\ stateLab' = "failed" /\ workBtn' = "open"
        /\ comOn' = TRUE /\ shown' = TRUE
    BY <1>2 DEF Open, ShowOutcome
  <2>2. QED
    BY <2>1
<1>3. QED
  BY <1>1, <1>2

\* Every handler leaves the dialog and the label in agreement with the port.
LEMMA WidStep == ASSUME WidInv, [WidNext]_widLineVars PROVE WidInv'
<1> USE DEF WidInv, DialogShowsPort, LabelOf
<1>1. ASSUME NEW p \in Ports, PickPort(p) PROVE WidInv'
  <2>1. CASE Close
    BY <1>1, <2>1 DEF PickPort, Close, Open
  <2>2. ASSUME NEW ok \in BOOLEAN, Open(p, ok), ShowOutcome(p, ok), UNCHANGED changing
        PROVE  WidInv'
    <3>1. comOn /\ shown /\ comBox' \in Ports /\ changing' = FALSE
      BY <1>1, <2>2 DEF PickPort
    <3>2. QED
      BY <2>2, <3>1, OutcomeShown
  <2>3. QED
    BY <1>1, <2>1, <2>2 DEF PickPort
<1>2. CASE ChangePort
  BY <1>2, OutcomeShown DEF ChangePort
<1>3. CASE ButtonOpens
  <2>1. PICK ok \in BOOLEAN : Open(comBox, ok) /\ ShowOutcome(comBox, ok)
    BY <1>3 DEF ButtonOpens
  <2>2. comOn /\ shown /\ comBox \in Ports /\ comBox' \in Ports /\ changing' = FALSE
    BY <1>3, <2>1 DEF ButtonOpens, Open
  <2>3. QED
    BY <2>1, <2>2, OutcomeShown
<1>4. CASE ButtonCloses
  BY <1>4 DEF ButtonCloses, Close
<1>5. CASE ButtonLoops
  BY <1>5 DEF ButtonLoops, LoopTest, widVars
<1>6. CASE UpdateList
  <2>1. comBox' \in Ports \cup {NoPort}
    BY <1>6 DEF UpdateList, Listed
  <2>2. QED
    BY <1>6, <2>1 DEF UpdateList, lineVars, portVars
<1>7. CASE DialogBegins \/ DialogEnds
  <2>1. /\ UNCHANGED <<isOpen, mSerial, stateLab, workBtn, comBox, comOn, changing>>
        /\ shown' \in BOOLEAN /\ (changing => shown')
        /\ (~shown' => label' = LabelOf(isOpen, mSerial))
    BY <1>7 DEF DialogBegins, DialogEnds, lineVars, portVars
  <2>2. QED
    BY <2>1
<1>8. CASE Tick
  <2>1. UNCHANGED <<isOpen, mSerial>>
    BY <1>8 DEF Tick, LineSend, TickSend, TickClosed, TickRecv, TickCheck,
       TickSendFails, TickSendEmpty, TickClear, LoopRead, LoopEnd, portVars
  <2>2. QED
    BY <1>8, <2>1 DEF Tick, widVars
<1>9. CASE Writer
  BY <1>9 DEF Writer, Write, widVars
<1>10. CASE UNCHANGED widLineVars
  BY <1>10 DEF widLineVars, widVars, lineVars, portVars
<1>11. QED
  BY <1>1, <1>2, <1>3, <1>4, <1>5, <1>6, <1>7, <1>8, <1>9, <1>10 DEF WidNext, Dialog

LEMMA WidInvariance == WidSpec => [](LineInv /\ WidInv)
<1>1. WidInit => LineInv /\ WidInv
  BY WidInitInv
<1>2. LineInv /\ WidInv /\ [WidNext]_widLineVars => (LineInv /\ WidInv)'
  BY WidStepIsLineStep, LineStepInv, WidStep
<1>3. QED
  BY <1>1, <1>2, PTL DEF WidSpec

\* When the buttons of the main window can be used its label shows the port that is
\* open, and from its first button on the dialog agrees with the port.
THEOREM DialogTruthful == WidSpec => []DialogShowsPort
<1>1. WidInv => DialogShowsPort
  BY DEF WidInv
<1>2. QED
  BY <1>1, WidInvariance, PTL

\* Behind the dialog an open port has its QSerialPort, and no frame that was on the
\* line waits in the buffer.
THEOREM DialogKeepsPort == WidSpec => [](PortTypeOK /\ PendingUnsent)
<1>1. LineInv => PortTypeOK /\ PendingUnsent
  BY DEF LineInv, PortInv
<1>2. QED
  BY <1>1, WidInvariance, PTL

\* Whatever the user does in the dialog and the thread writes, the line carries
\* each frame at most once, newest first, and no handler of the dialog wipes one.
THEOREM DialogImplementsSlot == WidSpec => SlotSpecHolds
<1>1. WidInit => LineInit
  BY DEF WidInit
<1>2. WidInv /\ [WidNext]_widLineVars => [LineNext]_lineVars
  BY WidStepIsLineStep
<1>3. WidSpec => LineSpec
  BY <1>1, <1>2, WidInvariance, PTL DEF WidSpec, LineSpec
<1>4. QED
  BY <1>3, LineImplementsSlot
=============================================================================
