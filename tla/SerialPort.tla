----------------------------- MODULE SerialPort -----------------------------
(***************************************************************************)
(* SerialPort (common/serialport/serialport.cpp): a serial port owned by   *)
(* the GUI thread.  A 100 ms timer (timeoutDone) moves the one-frame       *)
(* buffer mWriteArray to the line and appends what arrives to mSerialData. *)
(* write(array) only replaces mWriteArray; it takes no lock and is called  *)
(* from the worker thread as well, so it interleaves with the steps of     *)
(* timeoutDone.  Bytes are abstracted: a byte array is a member of Frames  *)
(* or NoFrame (empty), received data is the set of frames it answers.      *)
(***************************************************************************)
EXTENDS Naturals

CONSTANTS
    Ports,     \* serial port names
    NoPort,    \* the name when no QSerialPort was ever made
    Frames,    \* non-empty byte arrays
    NoFrame,   \* the empty byte array
    Pattern,   \* the 255 bytes of the loop test
    Answers    \* the frames for which bytes come back on the line

ASSUME PortAssumption ==
    /\ NoPort \notin Ports
    /\ NoFrame \notin Frames
    /\ Pattern \in Frames
    /\ Answers \subseteq Frames

VARIABLES
    isOpen, mWriteArray, mSerialData,   \* fields of SerialPort
    mSerial,      \* the port name of the QSerialPort object
    handler,      \* where the GUI thread stands in timeoutDone or loopTest
    line,         \* answers in the driver's buffer, not yet read
    recvArray,    \* the array loopTest reads into
    loopResult,   \* what the last loopTest reported
    fresh         \* history: the frame in mWriteArray was never on the line

portVars == <<isOpen, mWriteArray, mSerialData, mSerial, handler, line,
              recvArray, loopResult, fresh>>

Handlers == {"idle", "checked", "sent", "loop"}

\* The types of the variables, and open() never leaves an open port without a
\* QSerialPort behind it (write() and recv() dereference mSerial when isOpen).
PortTypeOK ==
    /\ isOpen \in BOOLEAN
    /\ mWriteArray \in Frames \cup {NoFrame}
    /\ mSerialData \subseteq Frames
    /\ mSerial \in Ports \cup {NoPort}
    /\ isOpen => mSerial # NoPort
    /\ handler \in Handlers
    /\ line \subseteq Frames
    /\ recvArray \subseteq Frames
    /\ loopResult \in {"none", "ok", "err"}
    /\ fresh \in BOOLEAN

\* The constructor; MainWindow::initCfg then tries to open the saved port, and
\* a failed open already leaves the new QSerialPort in mSerial.
PortInit ==
    /\ mSerial \in Ports \cup {NoPort}
    /\ isOpen \in BOOLEAN
    /\ isOpen => mSerial # NoPort
    /\ mWriteArray = NoFrame /\ mSerialData = {}
    /\ handler = "idle" /\ line = {}
    /\ recvArray = {} /\ loopResult = "none"
    /\ fresh = FALSE

-----------------------------------------------------------------------------
(* Faulty variants of the actions below; no specification uses them.       *)

\* open() forgets to keep the new QSerialPort.
OpenWithoutPort(p, ok) ==
    /\ handler = "idle" /\ ~isOpen
    /\ isOpen' = ok
    /\ UNCHANGED <<mSerial, mWriteArray, mSerialData, handler, line, recvArray,
                   loopResult, fresh>>

\* timeoutDone waits until the received data was read.
TickCheckHalfDuplex ==
    /\ handler = "idle" /\ isOpen /\ mWriteArray # NoFrame /\ mSerialData = {}
    /\ handler' = "checked"
    /\ UNCHANGED <<isOpen, mWriteArray, mSerialData, mSerial, line, recvArray,
                   loopResult, fresh>>

\* timeoutDone forgets mWriteArray.clear().
TickClearKeepsFrame ==
    /\ handler = "sent" /\ handler' = "idle"
    /\ fresh' = FALSE /\ mSerialData' = {}
    /\ UNCHANGED <<isOpen, mWriteArray, mSerial, line, recvArray, loopResult>>

\* The clear() stands behind the braces of if(isOpen).
TickClosedClears ==
    /\ handler = "idle" /\ ~isOpen
    /\ mWriteArray' = NoFrame /\ fresh' = FALSE /\ mSerialData' = {}
    /\ UNCHANGED <<isOpen, mSerial, handler, line, recvArray, loopResult>>

-----------------------------------------------------------------------------
\* open(name): mSerial is replaced whether or not the device can be opened.
\* The two buffers keep what they held.
Open(p, ok) ==
    /\ handler = "idle" /\ ~isOpen
    /\ mSerial' = p /\ isOpen' = ok
    /\ UNCHANGED <<mWriteArray, mSerialData, handler, line, recvArray,
                   loopResult, fresh>>

\* close(): the driver's buffer goes with the port, the two arrays stay.
Close ==
    /\ handler = "idle" /\ isOpen
    /\ isOpen' = FALSE /\ line' = {}
    /\ UNCHANGED <<mWriteArray, mSerialData, mSerial, handler, recvArray,
                   loopResult, fresh>>

\* write(array), without the lock: whatever waited in the buffer is gone.
Write(f) ==
    /\ mWriteArray' = f /\ fresh' = (f # NoFrame)
    /\ UNCHANGED <<isOpen, mSerialData, mSerial, handler, line, recvArray,
                   loopResult>>

\* timeoutDone: the port is closed, nothing is done.
TickClosed ==
    /\ handler = "idle" /\ ~isOpen
    /\ UNCHANGED portVars

\* timeoutDone: the buffer is empty, recv() appends what has arrived.
TickRecv ==
    /\ handler = "idle" /\ isOpen /\ mWriteArray = NoFrame
    /\ \E got \in SUBSET line :
          mSerialData' = mSerialData \cup got /\ line' = line \ got
    /\ UNCHANGED <<isOpen, mWriteArray, mSerial, handler, recvArray,
                   loopResult, fresh>>

\* timeoutDone: mWriteArray.size() is positive, write() comes next.
TickCheck ==
    /\ handler = "idle" /\ isOpen /\ mWriteArray # NoFrame
    /\ handler' = "checked"
    /\ UNCHANGED <<isOpen, mWriteArray, mSerialData, mSerial, line, recvArray,
                   loopResult, fresh>>

\* write() puts what the buffer holds now on the line; the device may answer.
TickSend ==
    /\ handler = "checked" /\ mWriteArray # NoFrame
    /\ handler' = "sent"
    /\ line' = line \cup ({mWriteArray} \cap Answers)
    /\ fresh' = FALSE
    /\ UNCHANGED <<isOpen, mWriteArray, mSerialData, mSerial, recvArray,
                   loopResult>>

\* QSerialPort::write returns -1: also not zero, so the frame is dropped next.
TickSendFails ==
    /\ handler = "checked" /\ mWriteArray # NoFrame
    /\ handler' = "sent" /\ fresh' = FALSE
    /\ UNCHANGED <<isOpen, mWriteArray, mSerialData, mSerial, line, recvArray,
                   loopResult>>

\* An empty array was written since TickCheck: write() returns 0.
TickSendEmpty ==
    /\ handler = "checked" /\ mWriteArray = NoFrame
    /\ handler' = "idle"
    /\ UNCHANGED <<isOpen, mWriteArray, mSerialData, mSerial, line, recvArray,
                   loopResult, fresh>>

\* Both arrays are cleared, whatever mWriteArray holds by now.
TickClear ==
    /\ handler = "sent" /\ handler' = "idle"
    /\ mWriteArray' = NoFrame /\ fresh' = FALSE /\ mSerialData' = {}
    /\ UNCHANGED <<isOpen, mSerial, line, recvArray, loopResult>>

\* on_loopBtn_clicked, loopTest, transmit: the pattern goes to the buffer and
\* read() keeps the GUI thread, so that no timeoutDone runs until it returns.
LoopTest ==
    /\ handler = "idle" /\ isOpen
    /\ handler' = "loop" /\ recvArray' = {}
    /\ mWriteArray' = Pattern /\ fresh' = TRUE
    /\ UNCHANGED <<isOpen, mSerialData, mSerial, line, loopResult>>

\* One pass of read() that found bytes: with msecs = 1 the loop runs again.
LoopRead ==
    /\ handler = "loop" /\ mSerialData # {}
    /\ recvArray' = recvArray \cup mSerialData /\ mSerialData' = {}
    /\ UNCHANGED <<isOpen, mWriteArray, mSerial, handler, line, loopResult, fresh>>

\* A pass that found none ends read(); loopTest returns its length as a bool.  More
\* than SERIAL_LEN bytes count as none.
LoopEnd ==
    /\ handler = "loop" /\ mSerialData = {}
    /\ handler' = "idle"
    /\ \/ recvArray # {} /\ loopResult' = "ok"
       \/ loopResult' = "err"
    /\ UNCHANGED <<isOpen, mWriteArray, mSerialData, mSerial, line, recvArray, fresh>>

-----------------------------------------------------------------------------
\* The calls of write(array), the loop test's own among them.
PortWrite == (\E f \in Frames \cup {NoFrame} : Write(f)) \/ LoopTest

\* The other steps that put nothing on the line.
PortQuiet ==
    \/ \E p \in Ports, ok \in BOOLEAN : Open(p, ok)
    \/ Close
    \/ TickClosed \/ TickRecv
    \/ TickCheck \/ TickSendFails \/ TickSendEmpty \/ TickClear
    \/ LoopRead \/ LoopEnd

PortNext == PortWrite \/ PortQuiet \/ TickSend

PortSpec == PortInit /\ [][PortNext]_portVars

\* The event loop serves the timer between user events, even when the user
\* never stops: a loop test ends in a message box that runs the event loop.
\* A handler that has begun runs to its end.
PortFairness ==
    /\ SF_portVars(TickCheck)
    /\ WF_portVars(TickSend \/ TickSendFails \/ TickSendEmpty)
    /\ WF_portVars(TickClear)
    /\ WF_portVars(LoopRead \/ LoopEnd)
-----------------------------------------------------------------------------
\* timeoutDone never puts the same frame on the line twice: outside the send
\* handler a frame in mWriteArray was never on the line, and nothing is marked
\* as unsent in an empty buffer.
PendingUnsent ==
    /\ fresh => mWriteArray # NoFrame
    /\ handler # "sent" /\ mWriteArray # NoFrame => fresh

\* With the port open a waiting frame leaves the buffer (timeoutDone sends it,
\* drops it or finds it overwritten by nothing), or the port is closed.
PendingLeaves == (fresh /\ isOpen) ~> (~fresh \/ ~isOpen)

\* serialport.cpp:245: transmit is a half-duplex exchange, what it returns is
\* what came back for the array it sent.  So a loop test that reports success
\* does not leave its own pattern still waiting to be sent.
LoopTestSound ==
    [][handler = "loop" /\ handler' = "idle" /\ loopResult' = "ok"
          => mWriteArray # Pattern]_portVars
=============================================================================
