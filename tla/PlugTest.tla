------------------------------ MODULE PlugTest ------------------------------
(***************************************************************************)
(* The program: MainWindow (mainwindow.cpp) and the serial dialog drive    *)
(* SerialPort and PlugThread from the GUI thread, the 100 ms timer feeds   *)
(* the line, and the worker thread runs the test.  The GUI thread serves   *)
(* one handler at a time; the worker interleaves with all of its steps.    *)
(***************************************************************************)
EXTENDS PlugThread

CONSTANTS
    UserOps,      \* the operations the user performs
    UiContents,   \* what the widgets of the main window may hold
    SavedItems,   \* the configurations the file may hold at start-up
    LineOk        \* QSerialPort::write never fails

AllUserOps == {"start", "over", "open", "close", "loop"}

ASSUME WindowAssumption ==
    /\ UserOps \subseteq AllUserOps
    /\ UiContents \subseteq [ipOk : BOOLEAN, longText : SUBSET Actions, item : Config]
    /\ SavedItems \subseteq Config
    /\ LineOk \in BOOLEAN

VARIABLE boxesOn   \* groupBox_1 and groupBox_2 accept input

testVars == <<vars, boxesOn>>

ThreadTypeOK ==
    /\ isRun \in BOOLEAN /\ mItem \in Config /\ mValues \in Leftovers
    /\ pc \in PCs /\ op \in Actions
    /\ k \in 0..RTUCMD_SIZE /\ i \in 0..SNMP_SIZE /\ try \in 1..Tries
    /\ pc \in Loop \ {"while", "for"} => k \in Channels
    /\ pc = "try" => i \in Outlets
    /\ ret \in BOOLEAN /\ asleep \in BOOLEAN /\ ticked \in BOOLEAN
    /\ plug \in [Channels -> Actions]
    /\ lateOpens \in Nat
    /\ boxesOn \in BOOLEAN

\* The types of the variables; the loop variables of plugthread.cpp stay in the
\* bounds of the arrays wherever they index one.
TypeOK == PortTypeOK /\ packets \in [Outlets -> Packet] /\ ThreadTypeOK

\* The constructors and initCfg, which opens the saved port if it can.
Init ==
    /\ PortInit
    /\ ThreadInit /\ mItem \in SavedItems
    /\ boxesOn = TRUE

-----------------------------------------------------------------------------
\* The IP address is well formed, both commands of channel 0 have 10 characters
\* or more (ten blanks pass, and give no byte).
InputCheck(ui) == ui.ipOk /\ ui.longText = Actions

\* While groupBox_1 and groupBox_2 are disabled they hold what was saved last.
Reachable(ui) ==
    boxesOn \/ /\ InputCheck(ui)
               /\ ui.item.snmpEn = mItem.snmpEn
               /\ \A a \in Actions :
                     (0 \in ui.item.cmd[a]) = (0 \in mItem.cmd[a])

\* on_startBtn_clicked: saveCfg writes the record the worker is reading.
Start(ui) ==
    /\ "start" \in UserOps /\ handler = "idle"
    /\ Reachable(ui) /\ InputCheck(ui)
    /\ mItem' = ui.item /\ StartThread /\ boxesOn' = FALSE
    /\ UNCHANGED <<portVars, packets, plug>>

\* on_overBtn_clicked
Over ==
    /\ "over" \in UserOps /\ handler = "idle"
    /\ QuitThread /\ boxesOn' = TRUE
    /\ UNCHANGED <<portVars, packets, plug>>

\* The serial dialog: openSerialSlot, serialPortChanged, on_loopBtn_clicked.
SerialDialog ==
    /\ \/ "open" \in UserOps /\ \E p \in Ports, ok \in BOOLEAN : Open(p, ok)
       \/ "close" \in UserOps /\ Close
       \/ "loop" \in UserOps /\ LoopTest
       \/ LoopRead
       \/ LoopEnd
    /\ UNCHANGED <<packets, threadVars, plug, boxesOn>>

\* The steps that end a timeoutDone.
TickEnds ==
    /\ TickClosed \/ TickRecv \/ TickSendEmpty \/ TickClear
    /\ ticked' = TRUE
    /\ UNCHANGED <<packets, isRun, mItem, mValues, pc, op, k, i, try, ret, asleep,
                   lateOpens, plug, boxesOn>>

TickBegins ==
    /\ TickCheck \/ (~LineOk /\ TickSendFails)
    /\ UNCHANGED <<packets, threadVars, plug, boxesOn>>

\* The relay box obeys a command it receives and ignores the test pattern.
Deliver ==
    /\ TickSend
    /\ plug' = [c \in Channels |->
                  IF \E a \in Actions : mWriteArray = Cmd(a, c)
                    THEN CHOOSE a \in Actions : mWriteArray = Cmd(a, c)
                    ELSE plug[c]]
    /\ UNCHANGED <<packets, threadVars, boxesOn>>

Timer == TickEnds \/ TickBegins \/ Deliver

WorkerStep == Worker /\ UNCHANGED boxesOn

Next ==
    \/ \E ui \in UiContents : Start(ui)
    \/ Over
    \/ SerialDialog
    \/ Timer
    \/ WorkerStep

Spec == Init /\ [][Next]_testVars

\* The operating system schedules the worker, a handler of the GUI thread runs to
\* its end, and the event loop gets to the timer again and again.
Fairness ==
    /\ WF_testVars(WorkerStep)
    /\ SF_testVars(Timer)
    /\ WF_testVars(SerialDialog /\ handler = "loop")

FairSpec == Spec /\ Fairness
-----------------------------------------------------------------------------
\* isRun is true only inside the loop of run().  So startThread() acts whenever
\* the thread is off, and the delays of init() and of the final loop are void.
RunFlagInLoop == isRun => pc \in Loop

\* Every trial that was begun is counted exactly once, as ok or as err, modulo
\* the width of the counters: openFun and closeFun of plugthread.cpp.
InTrial(x) == IF pc = "try" /\ i = x THEN 1 ELSE 0

CountersConsistent ==
    \A x \in Outlets :
        LET p == packets[x]
            counted == p.ok + p.err + InTrial(x)
        IN  p.all = counted \/ p.all + UintMax + 1 = counted

\* After the user pressed the end button the worker writes at most one more open
\* command: run() looks at isRun only between the open and the close phase.
AtMostOneLateOpen == lateOpens <= 1

\* With the thread off no open command waits in the buffer, to be sent to
\* whatever port is opened next: the final loop of run() leaves a close command
\* or nothing.
NoOpenPendingAtRest ==
    pc = "off" => \A c \in Channels : mWriteArray # Cmd("open", c)

\* What openFun and closeFun sample is taken with the plug in the position the
\* phase commanded, while the test is running, the port is open and the command
\* had bytes.
SamplesCommandedPlug ==
    isOpen /\ isRun /\ ret /\ pc \in {"scan", "try", "check"} => plug[k] = op

\* Once isRun is false inside the loop, run() returns: no delay, trial or loop
\* of the worker goes on for ever.
StopEnds == (pc \in Loop /\ ~isRun) ~> (pc = "off")

\* A channel that stays enabled while the test runs on is tested again and again:
\* no round of run() leaves it out for ever.
EveryChannelTested ==
    \A c \in Channels :
        <>[](isRun /\ c \in mItem.rtuCmdEn)
            => []<>(pc = "issue" /\ op = "open" /\ k = c)

-----------------------------------------------------------------------------
\* serialport.cpp:150 says that write(array) writes the data.  Then a frame the
\* worker passed to it is not replaced while the open port still owes it.
AcceptedFrameIsWritten ==
    [][fresh /\ isOpen /\ handler = "idle" /\ handler' = "idle"
          => fresh' /\ mWriteArray' = mWriteArray]_testVars

\* mainwindow.ui labels the button of on_overBtn_clicked "end": pressing it while
\* the thread is alive ends the test, unless the test is started again.
OverEndsTest == (boxesOn /\ pc # "off") ~> (pc = "off" \/ ~boxesOn)

\* displaywid.cpp:12 shows ok as the number of successes: a close phase counts
\* one only when the plug of its channel is withdrawn.
CloseSuccessIsReal ==
    [][\A x \in Outlets :
          packets'[x].ok # packets[x].ok /\ pc = "try" /\ op = "close"
             => plug[k] = "close"]_testVars
=============================================================================
