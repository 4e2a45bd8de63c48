----------------------------- MODULE SerialWid -----------------------------
(***************************************************************************)
(* The serial dialog (SerialPortWid in SerialPortDlg) and the label of the *)
(* main window, on top of SerialPort and its line.  The dialog is modal: a *)
(* successful open or the user ends it, and then MainWindow::initSerial    *)
(* runs.  Its handlers run in the GUI thread, between two of them the      *)
(* timer of SerialPort, at any time the thread that writes commands.       *)
(***************************************************************************)
EXTENDS SerialLine

VARIABLES
    shown,       \* MainWindow is inside mSerial->exec()
    stateLab,    \* the state the dialog shows; "none" is the "----" of its form
    workBtn,     \* what the button of the dialog offers to do
    comBox,      \* the port its list shows; NoPort: the list is empty
    comOn,       \* whether the list is enabled
    changing,    \* serialPortChanged has closed the port and opens it next
    label        \* the port the main window calls open, or NoPort

widVars == <<shown, stateLab, workBtn, comBox, comOn, changing, label>>
widLineVars == <<lineVars, widVars>>

\* initSerial: what the label says.
LabelOf(open, name) == IF open THEN name ELSE NoPort

\* initSerialPort: the ports there are now, an open one that is there is shown.
Listed(ports) == IF isOpen /\ mSerial \in ports THEN {mSerial}
                 ELSE IF ports = {} THEN {NoPort} ELSE ports

\* The dialog is built before initCfg opens the saved port and calls initSerial.
WidInit ==
    /\ LineInit
    /\ shown = FALSE /\ stateLab = "none" /\ workBtn = "open"
    /\ comBox \in Ports \cup {NoPort} /\ comOn = TRUE
    /\ changing = FALSE
    /\ label = LabelOf(isOpen, mSerial)

-----------------------------------------------------------------------------
\* Faulty: the list stays enabled while a port is open.
ShowOutcomeListOn(p, ok) ==
    IF ok
      THEN /\ stateLab' = "opened" /\ workBtn' = "close"
           /\ shown' = FALSE /\ label' = LabelOf(TRUE, p) /\ UNCHANGED comOn
      ELSE /\ stateLab' = "failed" /\ workBtn' = "open"
           /\ UNCHANGED <<comOn, shown, label>>

\* The texts after open(); a success ends exec(), and initSerial runs.
ShowOutcome(p, ok) ==
    IF ok
      THEN /\ stateLab' = "opened" /\ workBtn' = "close" /\ comOn' = FALSE
           /\ shown' = FALSE /\ label' = LabelOf(TRUE, p)
      ELSE /\ stateLab' = "failed" /\ workBtn' = "open"
           /\ UNCHANGED <<comOn, shown, label>>

\* The user picks another port of the list: serialPortChanged closes the open
\* port first, if there is one.
PickPort(p) ==
    /\ shown /\ ~changing /\ comOn /\ comBox # NoPort /\ p # comBox
    /\ comBox' = p
    /\ \/ Close /\ changing' = TRUE
          /\ UNCHANGED <<shown, stateLab, workBtn, comOn, label>>
       \/ \E ok \in BOOLEAN : Open(p, ok) /\ ShowOutcome(p, ok)
          /\ UNCHANGED changing
    /\ UNCHANGED wire

\* serialPortChanged goes on with open().
ChangePort ==
    /\ changing /\ changing' = FALSE
    /\ \E ok \in BOOLEAN : Open(comBox, ok) /\ ShowOutcome(comBox, ok)
    /\ UNCHANGED <<wire, comBox>>

\* openSerialSlot closes an open port, whatever its button says.
ButtonCloses ==
    /\ shown /\ ~changing /\ Close
    /\ stateLab' = "closed" /\ workBtn' = "open" /\ comOn' = TRUE
    /\ UNCHANGED <<wire, shown, comBox, changing, label>>

\* openSerialSlot with the port closed; an empty list gives a message box only.
ButtonOpens ==
    /\ shown /\ ~changing /\ comBox # NoPort
    /\ \E ok \in BOOLEAN : Open(comBox, ok) /\ ShowOutcome(comBox, ok)
    /\ UNCHANGED <<wire, comBox, changing>>

\* updateBtnSlot, with the signal of the list cut.
UpdateList ==
    /\ shown /\ ~changing /\ handler = "idle"
    /\ \E ports \in SUBSET Ports : comBox' \in Listed(ports)
    /\ UNCHANGED <<lineVars, shown, stateLab, workBtn, comOn, changing, label>>

\* on_loopBtn_clicked: only with the port open.
ButtonLoops == shown /\ ~changing /\ LoopTest /\ Called /\ UNCHANGED widVars

\* on_comBtn_clicked; exec() ends when the user closes the dialog.
DialogBegins ==
    /\ ~shown /\ handler = "idle" /\ shown' = TRUE
    /\ UNCHANGED <<lineVars, stateLab, workBtn, comBox, comOn, changing, label>>
DialogEnds ==
    /\ shown /\ ~changing /\ handler = "idle" /\ shown' = FALSE
    /\ label' = LabelOf(isOpen, mSerial)
    /\ UNCHANGED <<lineVars, stateLab, workBtn, comBox, comOn, changing>>

Dialog ==
    \/ \E p \in Ports : PickPort(p)
    \/ ChangePort \/ ButtonCloses \/ ButtonOpens \/ ButtonLoops
    \/ UpdateList \/ DialogBegins \/ DialogEnds

-----------------------------------------------------------------------------
\* The timer and the rest of a loop test.
Tick ==
    /\ \/ LineSend
       \/ /\ \/ TickClosed \/ TickRecv \/ TickCheck \/ TickSendFails
             \/ TickSendEmpty \/ TickClear
             \/ LoopRead \/ LoopEnd
          /\ UNCHANGED wire
    /\ ~changing /\ UNCHANGED widVars

\* The thread that writes commands.
Writer ==
    /\ \E f \in Frames \cup {NoFrame} : Write(f)
    /\ Called /\ UNCHANGED widVars

WidNext == Dialog \/ Tick \/ Writer

\* A handler that has begun runs to its end, and the event loop serves the timer
\* again and again, whatever the user does.
HandlerEnds == \/ ChangePort
               \/ handler # "idle" /\ Tick

WidSpec ==
    /\ WidInit /\ [][WidNext]_widLineVars
    /\ WF_widLineVars(HandlerEnds) /\ SF_widLineVars(TickCheck /\ Tick)
-----------------------------------------------------------------------------
\* The main window never shows a port that is not open, nor hides one that is,
\* when its buttons can be used; and from its first button on the dialog agrees
\* with the port.  Only the port that initCfg opened is shown as "----", with a
\* button that offers to open it and closes it.
DialogShowsPort ==
    /\ ~shown => label = LabelOf(isOpen, mSerial)
    /\ stateLab # "none" /\ ~changing =>
          /\ (workBtn = "close") = isOpen
          /\ (stateLab = "opened") = isOpen
          /\ comOn = ~isOpen
=============================================================================
