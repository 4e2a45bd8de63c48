--------------------------- MODULE PlugTestProofs ---------------------------
(***************************************************************************)
(* Safety of the whole program, for any number of channels, outlets and    *)
(* tries, any counter width and any configurations; and of the program     *)
(* with its display and its end, which is the same program.                *)
(***************************************************************************)
EXTENDS Window, SerialPortProofs, SequenceTheorems

\* An open command after isRun went to false is the last one: the worker is on
\* its way out of the loop and cannot reach another open phase.
LateOpenInv ==
    /\ lateOpens \in {0, 1}
    /\ lateOpens = 1 =>
          /\ ~isRun
          /\ \/ pc \in {"wait", "settle", "scan", "try", "check"} /\ op = "open"
             \/ pc \in PCs \ Loop
             \/ pc = "while"

\* From the first close command of the final loop to the end of the next init()
\* the buffer holds no open command.
RestInv ==
    pc \in {"off", "init", "initClose", "initSleep"} \/ (pc = "final" /\ k > 0)
        => \A c \in Channels : mWriteArray # Cmd("open", c)

\* The sleep(1) of a delay ends before the worker goes on.
SleepInv == asleep => pc \in {"initSleep", "wait", "settle", "try"}

IInv == /\ PortInv /\ packets \in [Outlets -> Packet] /\ ThreadTypeOK /\ SleepInv
        /\ RunFlagInLoop /\ CountersConsistent /\ LateOpenInv /\ RestInv

-----------------------------------------------------------------------------
\* The constructors establish all of it.
LEMMA InitInv == Init => IInv
<1> SUFFICES ASSUME Init PROVE IInv
  OBVIOUS
<1>1. PortInv
  BY PortInitInv DEF Init
<1>2. packets \in [Outlets -> Packet]
  BY DataAssumption DEF Init, ThreadInit, Packet, ZeroPacket, Actions
<1>3. ThreadTypeOK
  <2>1. pc \in PCs /\ pc \notin Loop /\ op \in Actions
    BY DEF Init, ThreadInit, PCs, Loop, Actions
  <2>2. k \in 0..RTUCMD_SIZE /\ i \in 0..SNMP_SIZE /\ try \in 1..Tries
    BY ThreadAssumption DEF Init, ThreadInit
  <2>3. QED
    BY <2>1, <2>2 DEF Init, ThreadInit, ThreadTypeOK, Loop
<1>4. SleepInv /\ RunFlagInLoop /\ LateOpenInv
  BY DEF Init, ThreadInit, SleepInv, RunFlagInLoop, LateOpenInv, PCs, Loop
<1>5. CountersConsistent
  BY DEF Init, ThreadInit, CountersConsistent, InTrial, ZeroPacket
<1>6. RestInv
  BY PortAssumption, ThreadAssumption DEF Init, PortInit, RestInv, Actions
<1>7. QED
  BY <1>1, <1>2, <1>3, <1>4, <1>5, <1>6 DEF IInv

\* Whatever the window, the timer and the worker do, SerialPort sees its own
\* operations only: rtuOpenCmd and rtuCloseCmd write a frame or the empty array.
LEMMA StepIsPortStep == ASSUME ThreadTypeOK, [Next]_testVars PROVE [PortNext]_portVars
<1>1. ASSUME NEW a \in Actions, NEW c \in Channels, RtuCmd(a, c)
      PROVE  PortNext
  <2>1. Cmd(a, c) \in Frames
    BY ThreadAssumption
  <2>2. QED
    BY <1>1, <2>1 DEF RtuCmd, PortNext, PortWrite, PortQuiet
<1>2. CASE \E ui \in UiContents : Start(ui)
  BY <1>2 DEF Start
<1>3. CASE Over
  BY <1>3 DEF Over
<1>4. CASE SerialDialog
  BY <1>4 DEF SerialDialog, PortNext, PortWrite, PortQuiet
<1>5. CASE Timer
  BY <1>5 DEF Timer, TickEnds, TickBegins, Deliver, PortNext, PortWrite, PortQuiet
<1>6. CASE WorkerStep
  <2>1. CASE InitClose \/ FinalClose
    <3>1. k \in Channels /\ "close" \in Actions
      BY <2>1, ThreadAssumption DEF InitClose, FinalClose, Actions, Channels,
         ThreadTypeOK
    <3>2. QED
      BY <1>1, <2>1, <3>1 DEF InitClose, FinalClose
  <2>2. CASE Issue
    BY <1>1, <2>2 DEF Issue, ThreadTypeOK, Loop
  <2>3. CASE ~(InitClose \/ FinalClose \/ Issue)
    <3>1. UNCHANGED portVars
      BY <1>6, <2>3 DEF WorkerStep, Worker, InitPackets, InitSleep, RunBegins, While,
         ForEnd, ForSkip, ForOpen, Sleep, WaitDone, SettleDone, ScanSkip, ScanTrial,
         ScanEnd, TryAgain, TryEnd, Check, RunEnds
    <3>2. QED
      BY <3>1
  <2>4. QED
    BY <2>1, <2>2, <2>3
<1>7. CASE UNCHANGED testVars
  BY <1>7 DEF testVars, vars
<1>8. QED
  BY <1>2, <1>3, <1>4, <1>5, <1>6, <1>7 DEF Next

-----------------------------------------------------------------------------
\* Every attempt of openFun and closeFun stores a value of the record's type.
LEMMA ReadingIsValue == ASSUME NEW a \in Actions, mValues \in Leftovers
                        PROVE  Reading(a) \subseteq Values
BY DataAssumption, ThreadAssumption DEF Reading, Actions

\* n++ on a uint stays a uint.
LEMMA IncIsUint == ASSUME NEW n \in 0..UintMax PROVE Inc(n) \in 0..UintMax
BY DataAssumption DEF Inc

\* What the trials do to one record keeps its type.
LEMMA RecordSteps ==
    ASSUME NEW p \in Packet, NEW a \in Actions, NEW v \in Values, NEW s
    PROVE  /\ Begun(p, a) \in Packet
           /\ [p EXCEPT !.value = v] \in Packet
           /\ Count([p EXCEPT !.value = v], s) \in Packet
BY IncIsUint DEF Packet, Begun, Count

\* The zeroed record has the type, whatever its enable flag.
LEMMA ZeroRecord == ASSUME NEW b \in BOOLEAN
                    PROVE  [ZeroPacket EXCEPT !.en = b] \in Packet
BY DataAssumption DEF ZeroPacket, Packet, Actions

\* The records keep their types.
LEMMA PacketsStep ==
    ASSUME packets \in [Outlets -> Packet], ThreadTypeOK, [Next]_testVars
    PROVE  packets' \in [Outlets -> Packet]
<1>1. CASE UNCHANGED packets
  BY <1>1
<1>2. CASE InitPackets
  <2>1. \A x \in Outlets : (x \in mItem.snmpEn) \in BOOLEAN
    OBVIOUS
  <2>2. \A x \in Outlets : [ZeroPacket EXCEPT !.en = x \in mItem.snmpEn] \in Packet
    BY <2>1, ZeroRecord
  <2>3. packets' = [x \in Outlets |-> [ZeroPacket EXCEPT !.en = x \in mItem.snmpEn]]
    BY <1>2 DEF InitPackets, ClearAll
  <2>4. QED
    BY <2>2, <2>3
<1>3. CASE ScanTrial
  <2>1. i \in Outlets /\ op \in Actions
    BY <1>3, ThreadAssumption DEF ScanTrial, ThreadTypeOK, Config
  <2>2. packets[i] \in Packet /\ 0 \in Values
    BY <2>1, DataAssumption
  <2>3. QED
    BY <1>3, <2>1, <2>2, RecordSteps DEF ScanTrial, BeginTrial
<1>4. CASE TryAgain
  <2>1. PICK v \in Reading(op) : Retry(i, v)
    BY <1>4 DEF TryAgain
  <2>2. v \in Values /\ op \in Actions
    BY ReadingIsValue DEF ThreadTypeOK
  <2>3. QED
    BY <2>1, <2>2, RecordSteps DEF Retry
<1>5. CASE TryEnd
  <2>1. PICK v \in Reading(op) : EndTrial(i, v, Success(op, v))
    BY <1>5 DEF TryEnd
  <2>2. v \in Values /\ op \in Actions
    BY ReadingIsValue DEF ThreadTypeOK
  <2>3. QED
    BY <2>1, <2>2, RecordSteps DEF EndTrial
<1>6. QED
  BY <1>1, <1>2, <1>3, <1>4, <1>5 DEF Next, Start, Over, SerialDialog, Timer,
     TickEnds, TickBegins, Deliver, WorkerStep, Worker, InitClose, InitSleep,
     RunBegins, While, ForEnd, ForSkip, ForOpen, Issue, Sleep, WaitDone, SettleDone,
     ScanSkip, ScanEnd, Check, FinalClose, RunEnds, testVars, vars

\* The variables of the thread keep their types, and k and i index no array out
\* of its bounds.
LEMMA ThreadTypeStep == ASSUME ThreadTypeOK, [Next]_testVars PROVE ThreadTypeOK'
<1> USE ThreadAssumption DEF ThreadTypeOK, PCs, Loop, Channels, Actions
<1>1. ASSUME NEW ui \in UiContents, Start(ui) PROVE ThreadTypeOK'
  BY <1>1, WindowAssumption DEF Start, StartThread
<1>2. CASE Over
  BY <1>2 DEF Over, QuitThread
<1>3. CASE SerialDialog \/ TickBegins
  BY <1>3 DEF SerialDialog, TickBegins, threadVars
<1>4. CASE TickEnds
  BY <1>4 DEF TickEnds
<1>5. CASE Deliver
  BY <1>5 DEF Deliver, threadVars
<1>6. CASE WorkerStep
  <2>1. boxesOn' \in BOOLEAN /\ plug' = plug
    BY <1>6 DEF WorkerStep, Worker, InitPackets, InitClose, InitSleep, RunBegins,
       While, ForEnd, ForSkip, ForOpen, Issue, Sleep, WaitDone, SettleDone, ScanSkip,
       ScanTrial, ScanEnd, TryAgain, TryEnd, Check, FinalClose, RunEnds
  <2>2. CASE InitPackets
    BY <2>1, <2>2 DEF InitPackets
  <2>3. CASE InitClose
    BY <2>1, <2>3 DEF InitClose, RtuCmd, HasBytes
  <2>4. CASE InitSleep
    BY <2>1, <2>4 DEF InitSleep
  <2>5. CASE RunBegins
    BY <2>1, <2>5 DEF RunBegins
  <2>6. CASE While
    BY <2>1, <2>6 DEF While
  <2>7. CASE ForEnd
    BY <2>1, <2>7 DEF ForEnd
  <2>8. CASE ForSkip
    BY <2>1, <2>8 DEF ForSkip
  <2>9. CASE ForOpen
    BY <2>1, <2>9 DEF ForOpen
  <2>10. CASE Issue
    BY <2>1, <2>10 DEF Issue, RtuCmd, HasBytes
  <2>11. CASE Sleep
    BY <2>1, <2>11 DEF Sleep
  <2>12. CASE WaitDone
    BY <2>1, <2>12 DEF WaitDone, DelayDone, Rested
  <2>13. CASE SettleDone
    <3>1. i' \in 0..SNMP_SIZE
      BY <2>13 DEF SettleDone
    <3>2. asleep' = FALSE
      BY <2>13 DEF SettleDone, DelayDone
    <3>3. QED
      BY <2>1, <2>13, <3>1, <3>2 DEF SettleDone
  <2>14. CASE ScanSkip
    BY <2>1, <2>14 DEF ScanSkip
  <2>15. CASE ScanTrial
    BY <2>1, <2>15 DEF ScanTrial
  <2>16. CASE ScanEnd
    BY <2>1, <2>16 DEF ScanEnd
  <2>17. CASE TryAgain
    <3>1. try' \in 1..Tries
      BY <2>17 DEF TryAgain
    <3>2. asleep' = FALSE
      BY <2>17 DEF TryAgain, DelayDone
    <3>3. QED
      BY <2>1, <2>17, <3>1, <3>2 DEF TryAgain
  <2>18. CASE TryEnd
    <3>1. i' \in 0..SNMP_SIZE
      BY <2>18 DEF TryEnd
    <3>2. asleep' = FALSE
      BY <2>18 DEF TryEnd, DelayDone
    <3>3. QED
      BY <2>1, <2>18, <3>1, <3>2 DEF TryEnd
  <2>19. CASE Check
    BY <2>1, <2>19 DEF Check
  <2>20. CASE FinalClose
    BY <2>1, <2>20 DEF FinalClose, RtuCmd, HasBytes
  <2>21. CASE RunEnds
    BY <2>1, <2>21 DEF RunEnds
  <2>22. QED
    BY <1>6, <2>2, <2>3, <2>4, <2>5, <2>6, <2>7, <2>8, <2>9, <2>10, <2>11, <2>12, <2>13, <2>14, <2>15, <2>16, <2>17, <2>18, <2>19, <2>20, <2>21 DEF WorkerStep, Worker
<1>7. CASE UNCHANGED testVars
  BY <1>7 DEF testVars, vars, threadVars
<1>8. QED
  BY <1>1, <1>2, <1>3, <1>4, <1>5, <1>6, <1>7 DEF Next, Timer

-----------------------------------------------------------------------------
\* isRun: run() sets it on entering the loop and leaves the loop only after it
\* has read it as false; startThread() does not touch a thread that is alive.
LEMMA RunFlagStep == ASSUME RunFlagInLoop, [Next]_testVars PROVE RunFlagInLoop'
<1> USE DEF RunFlagInLoop, Loop
<1>1. ASSUME NEW ui \in UiContents, Start(ui) PROVE RunFlagInLoop'
  BY <1>1 DEF Start, StartThread
<1>2. CASE Over
  BY <1>2 DEF Over, QuitThread
<1>3. CASE SerialDialog \/ Timer \/ UNCHANGED testVars
  BY <1>3 DEF SerialDialog, Timer, TickEnds, TickBegins, Deliver, testVars, vars,
     threadVars
<1>4. CASE WorkerStep
  <2>1. CASE InitPackets \/ InitClose \/ InitSleep \/ RunBegins \/ While
    BY <2>1 DEF InitPackets, InitClose, InitSleep, RunBegins, While
  <2>2. CASE ForEnd \/ ForSkip \/ ForOpen \/ Issue \/ Sleep \/ WaitDone \/ SettleDone
    BY <2>2 DEF ForEnd, ForSkip, ForOpen, Issue, Sleep, WaitDone, SettleDone
  <2>3. CASE ScanSkip \/ ScanTrial \/ ScanEnd \/ TryAgain \/ TryEnd \/ Check
    BY <2>3 DEF ScanSkip, ScanTrial, ScanEnd, TryAgain, TryEnd, Check
  <2>4. CASE FinalClose \/ RunEnds
    BY <2>4 DEF FinalClose, RunEnds
  <2>5. QED
    BY <1>4, <2>1, <2>2, <2>3, <2>4 DEF WorkerStep, Worker
<1>5. QED
  BY <1>1, <1>2, <1>3, <1>4 DEF Next

\* Every action that leaves a delay has seen its sleep(1) end.
LEMMA SleepStep == ASSUME SleepInv, [Next]_testVars PROVE SleepInv'
<1> USE DEF SleepInv
<1>1. CASE (\E ui \in UiContents : Start(ui)) \/ Over \/ UNCHANGED testVars
  BY <1>1 DEF Start, StartThread, Over, QuitThread, testVars, vars, threadVars
<1>2. CASE SerialDialog \/ Timer
  BY <1>2 DEF SerialDialog, Timer, TickEnds, TickBegins, Deliver, threadVars
<1>3. CASE WorkerStep
  BY <1>3 DEF WorkerStep, Worker, InitPackets, InitClose, InitSleep, RunBegins, While,
     ForEnd, ForSkip, ForOpen, Issue, Sleep, WaitDone, SettleDone, DelayDone, ScanSkip,
     ScanTrial, ScanEnd, TryAgain, TryEnd, Check, FinalClose, RunEnds
<1>4. QED
  BY <1>1, <1>2, <1>3 DEF Next

\* At most one open command after isRun went to false: the check of run() takes
\* the worker out of the loop over the channels before it can open another one.
LEMMA LateOpenStep ==
    ASSUME LateOpenInv, RunFlagInLoop, ThreadTypeOK, [Next]_testVars
    PROVE  LateOpenInv'
<1> USE DEF LateOpenInv, PCs, Loop
<1>1. ASSUME NEW ui \in UiContents, Start(ui) PROVE LateOpenInv'
  BY <1>1 DEF Start, StartThread
<1>2. CASE Over
  BY <1>2 DEF Over, QuitThread
<1>3. CASE SerialDialog \/ Timer \/ UNCHANGED testVars
  BY <1>3 DEF SerialDialog, Timer, TickEnds, TickBegins, Deliver, testVars, vars,
     threadVars
<1>4. CASE WorkerStep
  <2>1. CASE InitPackets \/ InitClose \/ InitSleep \/ RunBegins \/ While
    BY <2>1 DEF InitPackets, InitClose, InitSleep, RunBegins, While
  <2>2. CASE ForEnd \/ ForSkip \/ ForOpen \/ Sleep \/ WaitDone \/ SettleDone
    BY <2>2 DEF ForEnd, ForSkip, ForOpen, Sleep, WaitDone, SettleDone
  <2>3. CASE Issue
    BY <2>3 DEF Issue
  <2>4. CASE ScanSkip \/ ScanTrial \/ ScanEnd
    BY <2>4 DEF ScanSkip, ScanTrial, ScanEnd
  <2>5. CASE TryAgain \/ TryEnd \/ Check
    BY <2>5 DEF TryAgain, TryEnd, Check
  <2>6. CASE FinalClose \/ RunEnds
    BY <2>6 DEF FinalClose, RunEnds
  <2>7. QED
    BY <1>4, <2>1, <2>2, <2>3, <2>4, <2>5, <2>6 DEF WorkerStep, Worker
<1>5. QED
  BY <1>1, <1>2, <1>3, <1>4 DEF Next

-----------------------------------------------------------------------------
\* The commands are told apart by their bytes, from each other, from the pattern
\* of the loop test and from the empty array.
LEMMA CommandsDiffer ==
    ASSUME NEW c \in Channels, NEW d \in Channels
    PROVE  /\ Cmd("close", d) # Cmd("open", c)
           /\ NoFrame # Cmd("open", c) /\ Pattern # Cmd("open", c)
<1>1. "open" \in Actions /\ "close" \in Actions /\ "open" # "close"
  BY DEF Actions
<1>2. QED
  BY <1>1, PortAssumption, ThreadAssumption

NoOpenPending == \A c \in Channels : mWriteArray # Cmd("open", c)

\* A close command of init() or of the final loop replaces what was pending.
LEMMA CloseClears ==
    ASSUME NEW d \in Channels, RtuCmd("close", d) PROVE NoOpenPending'
BY CommandsDiffer DEF RtuCmd, Write, NoOpenPending

\* No open command is pending from the first close command of the final loop to
\* the end of the next init(): in between only the loop test writes, its pattern.
LEMMA RestStep ==
    ASSUME RestInv, ThreadTypeOK, [Next]_testVars PROVE RestInv'
<1> DEFINE Rest == \/ pc \in {"off", "init", "initClose", "initSleep"}
                   \/ pc = "final" /\ k > 0
<1> SUFFICES ASSUME Rest' PROVE NoOpenPending'
  BY DEF RestInv, NoOpenPending
<1>0. Rest => NoOpenPending
  BY DEF RestInv, NoOpenPending
<1>1. CASE (\E ui \in UiContents : Start(ui)) \/ Over \/ UNCHANGED testVars
  BY <1>0, <1>1 DEF Start, StartThread, Over, QuitThread, portVars, testVars, vars,
     threadVars, NoOpenPending
<1>2. CASE SerialDialog \/ Timer
  <2>1. Rest /\ NoOpenPending
    BY <1>0, <1>2 DEF SerialDialog, Timer, TickEnds, TickBegins, Deliver, threadVars
  <2>2. mWriteArray' \in {mWriteArray, NoFrame, Pattern}
    BY <1>2 DEF SerialDialog, Timer, TickEnds, TickBegins, Deliver, Open, Close,
       LoopTest, LoopRead, LoopEnd, TickClosed, TickRecv, TickCheck, TickSend,
       TickSendFails, TickSendEmpty, TickClear, portVars
  <2>3. QED
    BY <2>1, <2>2, CommandsDiffer DEF NoOpenPending
<1>3. CASE InitClose \/ FinalClose
  <2>1. k \in Channels
    BY <1>3, ThreadAssumption DEF InitClose, FinalClose, Channels, ThreadTypeOK
  <2>2. QED
    BY <1>3, <2>1, CloseClears DEF InitClose, FinalClose
<1>4. CASE InitPackets \/ InitSleep \/ RunEnds
  <2>1. Rest /\ UNCHANGED mWriteArray
    BY <1>4, ThreadAssumption DEF InitPackets, InitSleep, RunEnds, portVars
  <2>2. QED
    BY <1>0, <2>1 DEF NoOpenPending
<1>5. CASE WorkerStep /\ ~(InitClose \/ FinalClose \/ InitPackets \/ InitSleep \/ RunEnds)
  <2>1. ~Rest'
    BY <1>5 DEF WorkerStep, Worker, RunBegins, While, ForEnd, ForSkip, ForOpen,
       Issue, Sleep, WaitDone, SettleDone, ScanSkip, ScanTrial, ScanEnd, TryAgain,
       TryEnd, Check
  <2>2. QED
    BY <2>1
<1>6. QED
  BY <1>1, <1>2, <1>3, <1>4, <1>5 DEF Next

-----------------------------------------------------------------------------
\* The books of one record: every begun trial is counted, except the open one.
Balanced(p, t) == LET counted == p.ok + p.err + t
                  IN  p.all = counted \/ p.all + UintMax + 1 = counted

\* Beginning a trial opens one, storing a reading changes no counter, ending a
\* trial closes it, also when a counter wraps.
LEMMA BooksBalance ==
    ASSUME NEW p \in Packet, NEW a, NEW v, NEW s
    PROVE  /\ Balanced(p, 0) => Balanced(Begun(p, a), 1)
           /\ Balanced(p, 1) => Balanced([p EXCEPT !.value = v], 1)
           /\ Balanced(p, 1) => Balanced(Count([p EXCEPT !.value = v], s), 0)
<1> USE DataAssumption DEF Packet, Balanced
<1>1. Balanced(p, 0) => Balanced(Begun(p, a), 1)
  BY DEF Begun, Inc
<1>2. Balanced(p, 1) => Balanced([p EXCEPT !.value = v], 1)
  OBVIOUS
<1>3. Balanced(p, 1) => Balanced(Count([p EXCEPT !.value = v], s), 0)
  <2>1. CASE s
    BY <2>1 DEF Count, Inc
  <2>2. CASE ~s
    BY <2>2 DEF Count, Inc
  <2>3. QED
    BY <2>1, <2>2
<1>4. QED
  BY <1>1, <1>2, <1>3

\* Only openFun and closeFun touch the counters, one outlet at a time, and
\* clears() runs while no trial is open.
LEMMA CountersStep ==
    ASSUME CountersConsistent, packets \in [Outlets -> Packet], ThreadTypeOK,
           [Next]_testVars
    PROVE  CountersConsistent'
<1>0. \A x \in Outlets : Balanced(packets[x], InTrial(x))
  BY DEF CountersConsistent, Balanced
<1> SUFFICES ASSUME NEW x \in Outlets
             PROVE  Balanced(packets'[x], InTrial(x)')
  BY DEF CountersConsistent, Balanced
<1>1. packets[x] \in Packet /\ Balanced(packets[x], InTrial(x))
  BY <1>0
<1>2. CASE InitPackets
  <2>1. packets'[x] = [ZeroPacket EXCEPT !.en = x \in mItem.snmpEn] /\ pc' # "try"
    BY <1>2 DEF InitPackets, ClearAll
  <2>2. QED
    BY <2>1 DEF ZeroPacket, Balanced, InTrial
<1>3. CASE ScanTrial
  <2>1. InTrial(x) = 0
    BY <1>3 DEF ScanTrial, InTrial
  <2>2. CASE x = i
    <3>1. packets'[x] = Begun(packets[x], op) /\ InTrial(x)' = 1
      BY <1>3, <2>2 DEF ScanTrial, BeginTrial, InTrial
    <3>2. QED
      BY <1>1, <2>1, <3>1, BooksBalance
  <2>3. CASE x # i
    <3>1. packets'[x] = packets[x] /\ InTrial(x)' = 0
      BY <1>3, <2>3 DEF ScanTrial, BeginTrial, InTrial
    <3>2. QED
      BY <1>1, <2>1, <3>1
  <2>4. QED
    BY <2>2, <2>3
<1>4. CASE TryAgain
  <2>1. PICK v \in Reading(op) : Retry(i, v)
    BY <1>4 DEF TryAgain
  <2>2. InTrial(x)' = InTrial(x) /\ (x = i => InTrial(x) = 1)
    BY <1>4 DEF TryAgain, InTrial
  <2>3. CASE x = i
    BY <1>1, <2>1, <2>2, <2>3, BooksBalance DEF Retry
  <2>4. CASE x # i
    BY <1>1, <2>1, <2>2, <2>4 DEF Retry
  <2>5. QED
    BY <2>3, <2>4
<1>5. CASE TryEnd
  <2>1. PICK v \in Reading(op) : EndTrial(i, v, Success(op, v))
    BY <1>5 DEF TryEnd
  <2>2. InTrial(x)' = 0 /\ InTrial(x) = IF x = i THEN 1 ELSE 0
    BY <1>5 DEF TryEnd, InTrial
  <2>3. CASE x = i
    BY <1>1, <2>1, <2>2, <2>3, BooksBalance DEF EndTrial
  <2>4. CASE x # i
    BY <1>1, <2>1, <2>2, <2>4 DEF EndTrial
  <2>5. QED
    BY <2>3, <2>4
<1>6. CASE ~(InitPackets \/ ScanTrial \/ TryAgain \/ TryEnd)
  <2>1. packets' = packets
    BY <1>6 DEF Next, Start, Over, SerialDialog, Timer, TickEnds, TickBegins,
       Deliver, WorkerStep, Worker, InitClose, InitSleep, RunBegins, While, ForEnd,
       ForSkip, ForOpen, Issue, Sleep, WaitDone, SettleDone, ScanSkip, ScanEnd,
       Check, FinalClose, RunEnds, testVars, vars
  <2>2. (pc' = "try" <=> pc = "try") /\ (pc = "try" => i' = i)
    <3>1. CASE WorkerStep
      BY <1>6, <3>1 DEF WorkerStep, Worker, InitClose, InitSleep, RunBegins, While,
         ForEnd, ForSkip, ForOpen, Issue, Sleep, WaitDone, SettleDone, ScanSkip,
         ScanEnd, Check, FinalClose, RunEnds
    <3>2. CASE \E ui \in UiContents : Start(ui)
      BY <3>2 DEF Start, StartThread
    <3>3. CASE Over \/ SerialDialog \/ Timer \/ UNCHANGED testVars
      BY <3>3 DEF Over, QuitThread, SerialDialog, Timer, TickEnds, TickBegins,
         Deliver, testVars, vars, threadVars
    <3>4. QED
      BY <3>1, <3>2, <3>3 DEF Next
  <2>3. InTrial(x)' = InTrial(x)
    BY <2>2 DEF InTrial
  <2>4. QED
    BY <1>1, <2>1, <2>3
<1>7. QED
  BY <1>2, <1>3, <1>4, <1>5, <1>6

-----------------------------------------------------------------------------
\* The invariant is inductive.
LEMMA StepInv == ASSUME IInv, [Next]_testVars PROVE IInv'
<1> USE DEF IInv
<1>1. PortInv'
  BY StepIsPortStep, PortStepInv
<1>2. (packets \in [Outlets -> Packet])' /\ ThreadTypeOK'
  BY PacketsStep, ThreadTypeStep
<1>3. SleepInv' /\ RunFlagInLoop' /\ CountersConsistent' /\ LateOpenInv' /\ RestInv'
  BY SleepStep, RunFlagStep, CountersStep, LateOpenStep, RestStep
<1>4. QED
  BY <1>1, <1>2, <1>3

\* All of it holds in every state of the program.
THEOREM Invariance == Spec => []IInv
<1>1. Init => IInv
  BY InitInv
<1>2. IInv /\ [Next]_testVars => IInv'
  BY StepInv
<1>3. QED
  BY <1>1, <1>2, PTL DEF Spec

\* Type correctness of the whole program: no index of plugthread.cpp leaves its
\* array, no open port lacks its QSerialPort.
THEOREM TypeCorrect == Spec => []TypeOK
<1>1. IInv => TypeOK
  BY DEF IInv, TypeOK, PortInv
<1>2. QED
  BY <1>1, Invariance, PTL

\* isRun is true only inside the loop of run().
THEOREM RunFlag == Spec => []RunFlagInLoop
<1>1. IInv => RunFlagInLoop
  BY DEF IInv
<1>2. QED
  BY <1>1, Invariance, PTL

\* Every trial is counted exactly once, for counters of any width.
THEOREM Counters == Spec => []CountersConsistent
<1>1. IInv => CountersConsistent
  BY DEF IInv
<1>2. QED
  BY <1>1, Invariance, PTL

\* At most one open command follows the press of the end button.
THEOREM LateOpens == Spec => []AtMostOneLateOpen
<1>1. IInv => AtMostOneLateOpen
  BY DEF IInv, LateOpenInv, AtMostOneLateOpen
<1>2. QED
  BY <1>1, Invariance, PTL

\* With the thread off no open command waits in the buffer.
THEOREM NothingOpenPending == Spec => []NoOpenPendingAtRest
<1>1. IInv => NoOpenPendingAtRest
  BY DEF IInv, RestInv, NoOpenPendingAtRest
<1>2. QED
  BY <1>1, Invariance, PTL
-----------------------------------------------------------------------------
\* What the proof of SamplesCommandedPlug assumes: a sleep(1) of the worker spans
\* a timeoutDone, QSerialPort::write does not fail, and the user leaves the
\* serial dialog alone.  The findings show what is lost without each of them.
PlainUse == Timely /\ LineOk /\ UserOps \subseteq {"start", "over"}

\* The buffer is empty and timeoutDone is not under way.
Clean == handler = "idle" /\ mWriteArray = NoFrame

Sampling == {"settle", "scan", "try", "check"}

\* On its way the command of the phase waits, is on the line, or was obeyed; the
\* sleep of delay() is not over before the last of these.
CommandOnItsWay ==
    \/ /\ mWriteArray = Cmd(op, k) /\ ~(asleep /\ ticked)
       /\ handler \in {"idle", "checked"} \/ (handler = "sent" /\ plug[k] = op)
    \/ Clean /\ plug[k] = op

\* init() sleeps until its last close command has left.  From then on a command
\* finds the buffer empty, and the worker waits until it was obeyed.
CycleInv ==
    /\ isOpen /\ pc = "initSleep" /\ ticked => Clean
    /\ isOpen /\ isRun =>
          /\ pc \in {"while", "for", "issue"} \cup Sampling => Clean
          /\ pc = "wait" => ret /\ CommandOnItsWay
          /\ pc \in Sampling /\ ret => plug[k] = op

LEMMA CycleInit == Init => CycleInv
BY DEF Init, ThreadInit, CycleInv

\* The buttons of the main window touch neither the buffer nor the phase; the
\* end button only takes isRun away.
LEMMA CycleUser ==
    ASSUME CycleInv, (\E ui \in UiContents : Start(ui)) \/ Over PROVE CycleInv'
<1> USE DEF CycleInv, Clean, CommandOnItsWay, Sampling, portVars
<1>1. ASSUME NEW ui \in UiContents, Start(ui) PROVE CycleInv'
  BY <1>1 DEF Start, StartThread
<1>2. CASE Over
  BY <1>2 DEF Over, QuitThread
<1>3. QED
  BY <1>1, <1>2

\* A step of timeoutDone: it takes a waiting command to the line, where the relay
\* box obeys it, and only ends the tick with the buffer empty.
LEMMA CycleTimer ==
    ASSUME PlainUse, PortTypeOK, ThreadTypeOK, RunFlagInLoop, CycleInv, Timer
    PROVE  CycleInv'
<1> USE DEF CycleInv, Clean, CommandOnItsWay, Sampling, PlainUse
<1>1. CASE TickEnds
  <2>1. UNCHANGED <<isRun, pc, op, k, ret, asleep, plug, isOpen>> /\ ticked'
    BY <1>1 DEF TickEnds, TickClosed, TickRecv, TickSendEmpty, TickClear, portVars
  <2>2. isOpen => Clean'
    BY <1>1 DEF TickEnds, TickClosed, TickRecv, TickSendEmpty, TickClear
  <2>3. ASSUME isOpen, isRun, pc = "wait" PROVE plug[k] = op
    <3>1. op \in Actions /\ k \in Channels
      BY <2>3 DEF ThreadTypeOK, Loop
    <3>2. Cmd(op, k) # NoFrame
      BY <3>1, ThreadAssumption, PortAssumption
    <3>3. QED
      BY <1>1, <2>3, <3>2 DEF TickEnds, TickClosed, TickRecv, TickSendEmpty, TickClear
  <2>4. QED
    BY <2>1, <2>2, <2>3
<1>2. CASE TickBegins
  <2>1. TickCheck /\ UNCHANGED <<threadVars, plug>>
    BY <1>2 DEF TickBegins
  <2>2. ~Clean /\ UNCHANGED <<isOpen, mWriteArray>> /\ handler' = "checked"
    BY <2>1 DEF TickCheck
  <2>3. QED
    BY <2>1, <2>2 DEF threadVars, TickCheck
<1>3. CASE Deliver
  <2>1. ~Clean /\ UNCHANGED <<isOpen, mWriteArray>> /\ handler = "checked"
        /\ handler' = "sent" /\ UNCHANGED threadVars
    BY <1>3 DEF Deliver, TickSend
  <2>2. ASSUME isOpen, isRun, pc = "wait" PROVE plug'[k] = op
    <3>1. op \in Actions /\ k \in Channels /\ mWriteArray = Cmd(op, k)
      BY <2>1, <2>2 DEF ThreadTypeOK, Loop
    <3>2. \A a \in Actions : mWriteArray = Cmd(a, k) => a = op
      BY <3>1, ThreadAssumption
    <3>3. (CHOOSE a \in Actions : mWriteArray = Cmd(a, k)) = op
      BY <3>1, <3>2
    <3>4. QED
      BY <1>3, <3>1, <3>3 DEF Deliver
  <2>3. QED
    BY <2>1, <2>2 DEF threadVars
<1>4. QED
  BY <1>1, <1>2, <1>3 DEF Timer


\* The worker: it writes a command into the empty buffer, it waits as long as
\* isRun is true, and it samples only after that.
LEMMA CycleWorker ==
    ASSUME PlainUse, ThreadTypeOK, RunFlagInLoop, SleepInv, CycleInv, WorkerStep
    PROVE  CycleInv'
<1> USE DEF CycleInv, Clean, CommandOnItsWay, Sampling, PlainUse, RunFlagInLoop,
       SleepInv, Loop
<1>1. CASE InitPackets \/ RunEnds
  BY <1>1 DEF InitPackets, RunEnds, portVars
<1>2. CASE InitClose \/ FinalClose
  BY <1>2 DEF InitClose, FinalClose, RtuCmd, Write
<1>3. CASE InitSleep
  BY <1>3 DEF InitSleep, portVars
<1>4. CASE RunBegins
  BY <1>4 DEF RunBegins, Rested, portVars
<1>5. CASE While \/ ForEnd \/ ForSkip \/ ForOpen
  BY <1>5 DEF While, ForEnd, ForSkip, ForOpen, portVars
<1>6. CASE Issue
  <2>1. UNCHANGED <<isOpen, isRun, handler, asleep, ticked, plug, op, k>> /\ ~asleep
    BY <1>6 DEF Issue, RtuCmd, Write
  <2>2. CASE HasBytes(op, k)
    BY <1>6, <2>1, <2>2 DEF Issue, RtuCmd, Write
  <2>3. CASE ~HasBytes(op, k)
    BY <1>6, <2>1, <2>3 DEF Issue, RtuCmd, Write
  <2>4. QED
    BY <2>2, <2>3
<1>7. CASE Sleep
  BY <1>7 DEF Sleep, portVars
<1>8. CASE WaitDone
  BY <1>8 DEF WaitDone, DelayDone, Rested, portVars
<1>9. CASE SettleDone \/ TryAgain \/ TryEnd
  BY <1>9 DEF SettleDone, TryAgain, TryEnd, DelayDone, portVars
<1>10. CASE ScanSkip \/ ScanTrial \/ ScanEnd
  BY <1>10 DEF ScanSkip, ScanTrial, ScanEnd, portVars
<1>11. CASE Check
  BY <1>11 DEF Check, portVars
<1>12. QED
  BY <1>1, <1>2, <1>3, <1>4, <1>5, <1>6, <1>7, <1>8, <1>9, <1>10, <1>11
     DEF WorkerStep, Worker

\* The dialog is left alone, and a loop test that nobody began does not end.
LEMMA CycleStep ==
    ASSUME PlainUse, IInv, CycleInv, handler # "loop", [Next]_testVars
    PROVE  CycleInv' /\ handler' # "loop"
<1> USE DEF PlainUse, IInv, PortInv
<1>1. CASE (\E ui \in UiContents : Start(ui)) \/ Over
  BY <1>1, CycleUser DEF Start, Over, portVars
<1>2. CASE SerialDialog
  BY <1>2 DEF SerialDialog, LoopRead, LoopEnd
<1>3. CASE Timer
  BY <1>3, CycleTimer DEF Timer, TickEnds, TickBegins, Deliver, TickClosed, TickRecv,
     TickSendEmpty, TickClear, TickCheck, TickSend, portVars
<1>4. CASE WorkerStep
  <2>1. handler' = handler
    BY <1>4 DEF WorkerStep, Worker, InitPackets, InitClose, InitSleep, RunBegins,
       While, ForEnd, ForSkip, ForOpen, Issue, Sleep, WaitDone, SettleDone, ScanSkip,
       ScanTrial, ScanEnd, TryAgain, TryEnd, Check, FinalClose, RunEnds, RtuCmd,
       Write, portVars
  <2>2. QED
    BY <1>4, <2>1, CycleWorker
<1>5. CASE UNCHANGED testVars
  BY <1>5 DEF testVars, vars, threadVars, portVars, CycleInv, Clean, CommandOnItsWay,
     Sampling
<1>6. QED
  BY <1>1, <1>2, <1>3, <1>4, <1>5 DEF Next

\* With the port open and the test running, openFun and closeFun read the device
\* only while the plug is where the last command with bytes sent it.
THEOREM Samples ==
    ASSUME PlainUse PROVE Spec => []SamplesCommandedPlug
<1>1. Init => CycleInv /\ handler # "loop"
  BY CycleInit DEF Init, PortInit
<1>2. IInv /\ (CycleInv /\ handler # "loop") /\ [Next]_testVars
         => (CycleInv /\ handler # "loop")'
  BY CycleStep
<1>3. CycleInv => SamplesCommandedPlug
  BY DEF CycleInv, Sampling, SamplesCommandedPlug
<1>4. QED
  BY <1>1, <1>2, <1>3, Invariance, PTL DEF Spec

-----------------------------------------------------------------------------
(* The program with its display and its end is the program of PlugTest, so *)
(* that what holds there holds here; and the table, which is read without  *)
(* a lock, shows tallies.                                                  *)

\* The user may press the end button and close the port: what the destructors of
\* the main window do is what these two do.
EndIsUse == {"over", "close"} \subseteq UserOps

\* The end of the program begins and goes on outside of every handler.
LifeInv ==
    life # "up" => gui = "free" /\ handler = "idle"

LEMMA LifeInit == WindowInit => LifeInv
BY DEF WindowInit, LifeInv

\* The GUI thread enters a handler only while the program is up; no step of the
\* worker moves the GUI thread.
LEMMA LifeStep == ASSUME LifeInv, [WindowNext]_windowVars PROVE LifeInv'
<1> USE DEF LifeInv
<1>1. CASE Buttons \/ PortTimer
  BY <1>1 DEF Buttons, PortTimer
<1>2. CASE WorkerGoesOn
  <2>1. handler' = handler
    BY <1>2 DEF WorkerGoesOn, WorkerStep, Worker, InitPackets, InitClose, InitSleep,
       RunBegins, While, ForEnd, ForSkip, ForOpen, Issue, Sleep, WaitDone, SettleDone,
       ScanSkip, ScanTrial, ScanEnd, TryAgain, TryEnd, Check, FinalClose, RunEnds,
       RtuCmd, Write, portVars
  <2>2. QED
    BY <1>2, <2>1 DEF WorkerGoesOn
<1>3. CASE RefreshBegins \/ RefreshGoesOn
  BY <1>3 DEF RefreshBegins, Free, RefreshGoesOn, RowOff, RowOn, ReadCell, SetRow
<1>4. CASE CloseWindow
  BY <1>4 DEF CloseWindow, Free, testVars, vars, portVars
<1>5. CASE Ending
  BY <1>5 DEF Ending, PortFreed, ThreadWaits, ProgramEnds, Close, testVars, vars,
     portVars
<1>6. CASE TimePasses \/ WriteCrashes \/ UNCHANGED windowVars
  BY <1>6 DEF TimePasses, TickClosed, WriteCrashes, windowVars, testVars, vars, portVars
<1>7. QED
  BY <1>1, <1>2, <1>3, <1>4, <1>5, <1>6 DEF WindowNext

\* The display reads only.  The destructors press the end button and close the
\* port, once each, whatever the state of the worker.
LEMMA StepIsTestStep ==
    ASSUME EndIsUse, LifeInv, [WindowNext]_windowVars PROVE [Next]_testVars
<1> USE DEF EndIsUse
<1>1. CASE Buttons \/ PortTimer \/ WorkerGoesOn
  BY <1>1 DEF Buttons, PortTimer, WorkerGoesOn, Next
<1>2. CASE RefreshBegins \/ RefreshGoesOn \/ CloseWindow
  BY <1>2 DEF RefreshBegins, RefreshGoesOn, RowOff, RowOn, ReadCell, SetRow, CloseWindow
<1>3. CASE PortFreed
  <2>1. CASE Close
    BY <1>3, <2>1 DEF PortFreed, Next, SerialDialog
  <2>2. CASE UNCHANGED portVars
    BY <1>3, <2>2 DEF PortFreed, testVars, vars
  <2>3. QED
    BY <1>3, <2>1, <2>2 DEF PortFreed
<1>4. CASE ThreadWaits
  <2>1. Over
    BY <1>4 DEF ThreadWaits, LifeInv, Over
  <2>2. QED
    BY <2>1 DEF Next
<1>5. CASE TimePasses
  BY <1>5 DEF TimePasses, TickEnds, Timer, Next
<1>6. CASE ProgramEnds \/ WriteCrashes \/ UNCHANGED windowVars
  BY <1>6 DEF ProgramEnds, WriteCrashes, windowVars
<1>7. QED
  BY <1>1, <1>2, <1>3, <1>4, <1>5, <1>6 DEF WindowNext, Ending

\* Whatever the windows do is a behaviour of PlugTest.
THEOREM Windows == ASSUME EndIsUse PROVE WindowSpec => WindowIsTest
<1>1. WindowInit => LifeInv /\ Init
  BY LifeInit DEF WindowInit
<1>2. LifeInv /\ [WindowNext]_windowVars => LifeInv'
  BY LifeStep
<1>3. LifeInv /\ [WindowNext]_windowVars => [Next]_testVars
  BY StepIsTestStep
<1>4. QED
  BY <1>1, <1>2, <1>3, PTL DEF WindowSpec, WindowIsTest

\* What holds of the program without its windows holds of it with them.
LEMMA WindowsKeep == ASSUME EndIsUse PROVE WindowSpec => []IInv
<1>1. WindowIsTest => []IInv
  BY Invariance DEF WindowIsTest, Spec
<1>2. QED
  BY <1>1, Windows, PTL

-----------------------------------------------------------------------------
\* updateData: the row it is at, and how much of the record it has read.
TableInv ==
    /\ gui \in {"free", "row", "cells"}
    /\ gui # "free" => row \in Outlets
    /\ gui # "cells" => list = <<>>
    /\ list \in Seq(0..UintMax) /\ Len(list) <= 2
    /\ rows \in [Outlets -> [shown : BOOLEAN, all : 0..UintMax, ok : 0..UintMax,
                             err : 0..UintMax]]

\* The trials of the row's outlet that can still be counted without another
\* timeoutDone of SerialPort.  With isRun true, the one whose sleep is over.
\* Otherwise, what is left of this phase and, if that is a close phase with a
\* channel to follow, the open phase of the next channel.
NextOpens == IF k + 1 < RTUCMD_SIZE THEN 1 ELSE 0
Left ==
    IF isRun THEN IF pc = "try" /\ i = row /\ asleep /\ ticked THEN 1 ELSE 0
    ELSE IF pc = "for" THEN IF k < RTUCMD_SIZE THEN 1 ELSE 0
    ELSE IF pc \in {"issue", "wait", "settle", "scan", "try"}
      THEN (IF pc \in {"scan", "try"} /\ i > row THEN 0 ELSE 1)
           + (IF op = "close" THEN NextOpens ELSE 0)
    ELSE 0

\* Until the loop begins no trial is counted.
Most == IF pc \in {"init", "initClose", "initSleep"} THEN 0 ELSE Surplus

\* What the row is going to show if no more trials are counted.
Reads == [all |-> list[1],
          ok |-> IF Len(list) = 2 THEN list[2] ELSE packets[row].ok,
          err |-> packets[row].err]

\* Once the trials are read, the results exceed them by what was counted since,
\* less the trial that was under way, and what can be counted yet is bounded.
TallyInv ==
    gui = "cells" /\ list # <<>> /\ ~cleared =>
        \E d \in -1..2 : Tally(Reads, d) /\ d + Left <= Most

\* When the trials are read only the trial under way is not yet a result.
LEMMA TrialsRead ==
    ASSUME IInv, row \in Outlets
    PROVE  \E d \in -1..0 : Tally(packets[row], d) /\ d + Left <= Most
<1> DEFINE p == packets[row]
<1>1. p \in Packet /\ (p.all = p.ok + p.err + InTrial(row)
                       \/ p.all + UintMax + 1 = p.ok + p.err + InTrial(row))
  BY DEF IInv, CountersConsistent
<1>2. InTrial(row) \in 0..1 /\ Tally(p, -InTrial(row))
  BY <1>1, DataAssumption DEF InTrial, Tally, Packet
<1>3. Left <= Most + InTrial(row)
  <2>1. k \in Nat /\ i \in Nat /\ row \in Nat /\ RTUCMD_SIZE \in Nat \ {0} /\ isRun \in BOOLEAN
        /\ (pc \in Loop \ {"while", "for"} => k < RTUCMD_SIZE)
    BY ThreadAssumption DEF IInv, ThreadTypeOK, Channels
  <2>2. CASE isRun
    BY <2>1, <2>2 DEF Left, Most, Surplus, InTrial, IInv, RunFlagInLoop, Loop
  <2>3. CASE ~isRun
    BY <2>1, <2>3 DEF Left, Most, Surplus, InTrial, NextOpens, Loop
  <2>4. QED
    BY <2>2, <2>3, <2>1
<1>4. Left \in Int /\ Most \in Int
  BY DEF Left, Most, Surplus, NextOpens
<1>5. QED
  BY <1>2, <1>3, <1>4

\* A result more, in either column, also when the column wraps.
LEMMA OneMore ==
    ASSUME NEW a \in 0..UintMax, NEW o \in 0..UintMax, NEW e \in 0..UintMax,
           NEW d \in -1..1, Tally([all |-> a, ok |-> o, err |-> e], d)
    PROVE  /\ Tally([all |-> a, ok |-> Inc(o), err |-> e], d + 1)
           /\ Tally([all |-> a, ok |-> o, err |-> Inc(e)], d + 1)
BY DataAssumption DEF Tally, Inc

\* The worker never takes isRun away, and it reaches its end from the loop only.
LEMMA MostStays == ASSUME WorkerStep, pc # "init" PROVE Most' >= Most
<1> USE DEF Most, Surplus
<1>1. CASE InitPackets \/ InitClose \/ InitSleep \/ RunBegins \/ While
  BY <1>1 DEF InitPackets, InitClose, InitSleep, RunBegins, While
<1>2. CASE ForEnd \/ ForSkip \/ ForOpen \/ Issue \/ Sleep \/ WaitDone \/ SettleDone
  BY <1>2 DEF ForEnd, ForSkip, ForOpen, Issue, Sleep, WaitDone, SettleDone
<1>3. CASE ScanSkip \/ ScanTrial \/ ScanEnd \/ TryAgain \/ TryEnd \/ Check
  BY <1>3 DEF ScanSkip, ScanTrial, ScanEnd, TryAgain, TryEnd, Check
<1>4. CASE FinalClose \/ RunEnds
  BY <1>4 DEF FinalClose, RunEnds
<1>5. QED
  BY <1>1, <1>2, <1>3, <1>4 DEF WorkerStep, Worker

\* A step of the worker that counts no trial of the row does not bring more trials
\* within reach, one that counts it uses up one of them.
LEMMA LeftFalls ==
    ASSUME Timely, IInv, WorkerStep, pc # "init", row \in Outlets, row' = row
    PROVE  /\ Left' <= Left
           /\ TryEnd /\ i = row => Left' + 1 <= Left
<1> USE DEF Left, NextOpens
<1>0. /\ k \in Nat /\ i \in Nat /\ row \in Nat /\ RTUCMD_SIZE \in Nat \ {0}
      /\ isRun \in BOOLEAN /\ op \in {"open", "close"}
      /\ row < SNMP_SIZE /\ (pc = "try" => i < SNMP_SIZE)
      /\ (pc \in Loop \ {"while", "for"} => k < RTUCMD_SIZE)
      /\ (isRun => pc \in Loop)
      /\ (asleep => pc \in {"initSleep", "wait", "settle", "try"})
  BY ThreadAssumption DEF IInv, ThreadTypeOK, Channels, RunFlagInLoop, SleepInv, Actions
<1>1. CASE InitPackets \/ InitClose \/ InitSleep \/ FinalClose \/ RunEnds
  BY <1>0, <1>1 DEF InitPackets, InitClose, InitSleep, FinalClose, RunEnds, TryEnd, Loop
<1>2. CASE RunBegins \/ While \/ ForEnd
  BY <1>0, <1>2 DEF RunBegins, While, ForEnd, TryEnd, Loop
<1>3. CASE ForSkip \/ ForOpen
  BY <1>0, <1>3 DEF ForSkip, ForOpen, TryEnd, Loop
<1>4. CASE Issue
  BY <1>0, <1>4 DEF Issue, TryEnd, Loop
<1>5. CASE Sleep \/ WaitDone \/ SettleDone
  BY <1>0, <1>5 DEF Sleep, WaitDone, SettleDone, DelayDone, TryEnd, Loop
<1>6. CASE ScanSkip \/ ScanTrial
  BY <1>0, <1>6 DEF ScanSkip, ScanTrial, TryEnd, Loop
<1>7. CASE ScanEnd
  BY <1>0, <1>7 DEF ScanEnd, TryEnd, Loop
<1>8. CASE TryAgain
  BY <1>0, <1>8 DEF TryAgain, DelayDone, TryEnd, Loop
<1>9. CASE TryEnd
  <2>1. isRun => asleep /\ ticked
    BY <1>9 DEF TryEnd, DelayDone, Rested
  <2>2. pc = "try" /\ pc' = "scan" /\ i' = i + 1 /\ UNCHANGED <<isRun, op, k>>
    BY <1>9 DEF TryEnd
  <2>3. QED
    BY <1>0, <1>9, <2>1, <2>2
<1>10. CASE Check
  BY <1>0, <1>10 DEF Check, TryEnd, Loop
<1>11. QED
  BY <1>1, <1>2, <1>3, <1>4, <1>5, <1>6, <1>7, <1>8, <1>9, <1>10 DEF WorkerStep, Worker

\* The end of a trial raises one result of its outlet by one; nothing else but
\* clears() touches the results.
LEMMA ResultsRise ==
    ASSUME IInv, WorkerStep, pc # "init", row \in Outlets
    PROVE  LET p == packets[row]
               q == packets'[row]
           IN  IF TryEnd /\ i = row
                 THEN \/ q.ok = Inc(p.ok) /\ q.err = p.err
                      \/ q.ok = p.ok /\ q.err = Inc(p.err)
                 ELSE q.ok = p.ok /\ q.err = p.err
<1>0. packets \in [Outlets -> Packet]
  BY DEF IInv
<1>1. CASE TryEnd
  <2>1. PICK v \in Reading(op) : EndTrial(i, v, Success(op, v))
    BY <1>1 DEF TryEnd
  <2>2. CASE i = row
    <3>1. packets'[row] = Count([packets[row] EXCEPT !.value = v], Success(op, v))
      BY <1>0, <2>1, <2>2 DEF EndTrial
    <3>2. packets[row] \in Packet
      BY <1>0
    <3>3. QED
      BY <1>1, <2>2, <3>1, <3>2 DEF Count, Packet
  <2>3. CASE i # row
    BY <1>0, <2>1, <2>3 DEF EndTrial
  <2>4. QED
    BY <2>2, <2>3
<1>2. CASE ~TryEnd
  <2>1. CASE ScanTrial
    BY <1>0, <1>2, <2>1 DEF ScanTrial, BeginTrial, Begun, Packet
  <2>2. CASE TryAgain
    BY <1>0, <1>2, <2>2 DEF TryAgain, Retry, Packet
  <2>3. CASE ~ScanTrial /\ ~TryAgain
    <3>1. packets' = packets
      BY <1>2, <2>3 DEF WorkerStep, Worker, InitPackets, InitClose, InitSleep,
         RunBegins, While, ForEnd, ForSkip, ForOpen, Issue, Sleep, WaitDone,
         SettleDone, ScanSkip, ScanEnd, Check, FinalClose, RunEnds
    <3>2. QED
      BY <1>2, <3>1
  <2>4. QED
    BY <2>1, <2>2, <2>3
<1>3. QED
  BY <1>1, <1>2

-----------------------------------------------------------------------------
LEMMA TableInit == WindowInit => TableInv /\ TallyInv
BY DataAssumption DEF WindowInit, TableInv, TallyInv, NoRow

\* What updateData has read are counters.
LEMMA ListHolds ==
    ASSUME TableInv
    PROVE  /\ Len(list) \in 0..2
           /\ list # <<>> => Len(list) \in 1..2 /\ list[1] \in 0..UintMax
           /\ Len(list) = 2 => list[2] \in 0..UintMax
<1>1. list \in Seq(0..UintMax)
  BY DEF TableInv
<1>2. Len(list) <= 2 /\ Len(list) \in Nat
  BY LenProperties DEF TableInv
<1>3. ASSUME list # <<>> PROVE Len(list) \in 1..2
  <2>1. \A seq \in Seq(0..UintMax) : seq # <<>> => Len(seq) \in Nat \ {0}
    BY EmptySeq
  <2>2. Len(list) \in Nat \ {0}
    BY <1>1, <1>3, <2>1, Zenon
  <2>3. ASSUME NEW n \in Nat \ {0}, n <= 2 PROVE n \in 1..2
    BY <2>3
  <2>4. QED
    BY <1>2, <2>2, <2>3
<1>4. ASSUME NEW n \in 1..Len(list) PROVE list[n] \in 0..UintMax
  BY <1>1, ElementOfSeq
<1>5. QED
  BY <1>2, <1>3, <1>4

\* The handlers of the display stay in the table and read what is in the records.
LEMMA TableStep ==
    ASSUME IInv, LifeInv, TableInv, [WindowNext]_windowVars PROVE TableInv'
<1> USE DEF TableInv
<1>0. /\ \A x \in Outlets : packets[x].all \in 0..UintMax /\ packets[x].ok \in 0..UintMax
                            /\ packets[x].err \in 0..UintMax
      /\ NoRow \in [shown : BOOLEAN, all : 0..UintMax, ok : 0..UintMax, err : 0..UintMax]
      /\ 0 \in Outlets /\ (row \in Outlets /\ row + 1 < SNMP_SIZE => row + 1 \in Outlets)
  <2>1. 0 \in Outlets /\ (row \in Outlets /\ row + 1 < SNMP_SIZE => row + 1 \in Outlets)
    BY ThreadAssumption, DisplayAssumption
  <2>2. NoRow \in [shown : BOOLEAN, all : 0..UintMax, ok : 0..UintMax, err : 0..UintMax]
    BY DataAssumption DEF NoRow
  <2>3. QED
    BY <2>1, <2>2 DEF IInv, Packet
<1>1. CASE Buttons \/ PortTimer \/ WorkerGoesOn
  BY <1>1 DEF Buttons, PortTimer, WorkerGoesOn, tableVars
<1>2. CASE RefreshBegins
  BY <1>0, <1>2 DEF RefreshBegins, Free
<1>3. CASE RowOff
  BY <1>0, <1>3 DEF RowOff, NextRow
<1>4. CASE RowOn
  BY <1>4 DEF RowOn, tableVars
<1>5. CASE ReadCell
  <2>1. row \in Outlets
    BY <1>5 DEF ReadCell
  <2>2. PICK n \in 0..UintMax : list' = Append(list, n)
    BY <1>0, <1>5, <2>1 DEF ReadCell
  <2>3. list' \in Seq(0..UintMax) /\ Len(list') <= 2
    BY <1>5, <2>2 DEF ReadCell
  <2>4. QED
    BY <1>5, <2>3 DEF ReadCell
<1>6. CASE SetRow
  <2>1. row \in Outlets /\ list[1] \in 0..UintMax /\ list[2] \in 0..UintMax
    <3>1. /\ list # <<>> => Len(list) \in 1..2 /\ list[1] \in 0..UintMax
          /\ Len(list) = 2 => list[2] \in 0..UintMax
      BY ListHolds
    <3>2. gui = "cells" /\ Len(list) = 2
      BY <1>6 DEF SetRow
    <3>3. list # <<>>
      <4>1. CASE list = <<>>
        <5>1. Len(list) = 0
          BY <4>1
        <5>2. QED
          BY <3>2, <5>1
      <4>2. QED
        BY <4>1
    <3>4. QED
      BY <3>1, <3>2, <3>3
  <2>2. rows' \in [Outlets -> [shown : BOOLEAN, all : 0..UintMax, ok : 0..UintMax,
                               err : 0..UintMax]]
    BY <1>0, <1>6, <2>1 DEF SetRow
  <2>3. list' = <<>> /\ list' \in Seq(0..UintMax) /\ Len(list') <= 2
    BY <1>6 DEF SetRow
  <2>4. QED
    BY <1>0, <1>6, <2>1, <2>2, <2>3 DEF SetRow, NextRow
<1>7. CASE CloseWindow
  BY <1>0, <1>7 DEF CloseWindow
<1>8. CASE Ending \/ TimePasses \/ WriteCrashes \/ UNCHANGED windowVars
  BY <1>8 DEF Ending, PortFreed, ThreadWaits, ProgramEnds, TimePasses, WriteCrashes,
     tableVars, windowVars
<1>9. QED
  BY <1>1, <1>2, <1>3, <1>4, <1>5, <1>6, <1>7, <1>8 DEF WindowNext, RefreshGoesOn

\* The bound of TallyInv under a step of the worker.
LEMMA Closer ==
    ASSUME NEW d \in -1..2, NEW l \in Int, NEW m \in Int, NEW l1 \in Nat, NEW m1 \in Int,
           d + l <= m, m <= 2, l1 <= l, m1 >= m
    PROVE  /\ d + l1 <= m1
           /\ l1 + 1 <= l => d \in -1..1 /\ d + 1 \in -1..2 /\ (d + 1) + l1 <= m1
OBVIOUS

\* The worker counts while the record is read: the row gets closer to what bounds it.
LEMMA TallyWorker ==
    ASSUME Timely, IInv, TableInv, TallyInv, WorkerGoesOn PROVE TallyInv'
<1> SUFFICES ASSUME gui = "cells", list # <<>>, ~cleared, pc # "init"
             PROVE  \E d \in -1..2 : Tally(Reads', d) /\ d + Left' <= Most'
  BY DEF TallyInv, WorkerGoesOn, Tally
<1>1. row \in Outlets /\ WorkerStep /\ row' = row /\ list' = list
  BY DEF TableInv, WorkerGoesOn
<1>2. PICK d \in -1..2 : Tally(Reads, d) /\ d + Left <= Most
  BY DEF TallyInv
<1>3. Most' >= Most /\ Left' <= Left /\ (TryEnd /\ i = row => Left' + 1 <= Left)
  BY <1>1, MostStays, LeftFalls
<1>4. /\ d + Left' <= Most'
      /\ Left' + 1 <= Left => d \in -1..1 /\ d + 1 \in -1..2 /\ (d + 1) + Left' <= Most'
  <2>1. Left \in Int /\ Left' \in Nat /\ Most \in Int /\ Most <= 2 /\ Most' \in Int
    BY DEF Left, NextOpens, Most, Surplus
  <2> HIDE DEF Left, Most
  <2>2. QED
    BY <1>2, <1>3, <2>1, Closer
<1> DEFINE a == list[1]
           p == packets[row]
           q == packets'[row]
<1>5. /\ a \in 0..UintMax /\ (Len(list) = 2 => list[2] \in 0..UintMax)
      /\ p.ok \in 0..UintMax /\ p.err \in 0..UintMax
  <2>1. list[1] \in 0..UintMax /\ (Len(list) = 2 => list[2] \in 0..UintMax)
    BY ListHolds
  <2>2. p \in Packet
    BY <1>1 DEF IInv
  <2>3. QED
    BY <2>1, <2>2 DEF Packet
<1>6. Reads' = [all |-> a, ok |-> IF Len(list) = 2 THEN list[2] ELSE q.ok, err |-> q.err]
  BY <1>1 DEF Reads
<1>7. CASE TryEnd /\ i = row
  <2>1. d \in -1..1 /\ d + 1 \in -1..2 /\ (d + 1) + Left' <= Most'
    BY <1>3, <1>4, <1>7
  <2>2. \/ q.ok = Inc(p.ok) /\ q.err = p.err
        \/ q.ok = p.ok /\ q.err = Inc(p.err)
    BY <1>1, <1>7, ResultsRise
  <2>3. CASE Len(list) = 2 /\ q.ok = Inc(p.ok) /\ q.err = p.err
    <3>1. Reads' = Reads /\ d + Left' <= Most'
      BY <1>4, <1>6, <2>3 DEF Reads
    <3>2. QED
      BY <1>2, <3>1
  <2>4. CASE Len(list) # 2 /\ q.ok = Inc(p.ok) /\ q.err = p.err
    <3>1. Reads = [all |-> a, ok |-> p.ok, err |-> p.err]
          /\ Reads' = [all |-> a, ok |-> Inc(p.ok), err |-> p.err]
      BY <1>6, <2>4 DEF Reads
    <3>2. Tally(Reads', d + 1)
      BY <1>2, <1>5, <2>1, <3>1, OneMore
    <3>3. QED
      BY <2>1, <3>2
  <2>5. CASE q.ok = p.ok /\ q.err = Inc(p.err)
    <3>1. PICK o \in 0..UintMax :
             /\ Reads = [all |-> a, ok |-> o, err |-> p.err]
             /\ Reads' = [all |-> a, ok |-> o, err |-> Inc(p.err)]
      BY <1>5, <1>6, <2>5 DEF Reads
    <3>2. Tally(Reads', d + 1)
      BY <1>2, <1>5, <2>1, <3>1, OneMore
    <3>3. QED
      BY <2>1, <3>2
  <2>6. QED
    BY <2>2, <2>3, <2>4, <2>5
<1>8. CASE ~(TryEnd /\ i = row)
  <2>1. q.ok = p.ok /\ q.err = p.err
    BY <1>1, <1>8, ResultsRise
  <2>2. Reads' = Reads
    BY <1>6, <2>1 DEF Reads
  <2>3. QED
    BY <1>2, <1>4, <2>2
<1>9. QED
  BY <1>7, <1>8

\* updateData reads the trials first, and the two results while the worker goes on;
\* nothing but the worker runs meanwhile.
LEMMA TallyStep ==
    ASSUME Timely, IInv, LifeInv, TableInv, TallyInv, [WindowNext]_windowVars
    PROVE  TallyInv'
<1>1. CASE WorkerGoesOn
  BY <1>1, TallyWorker
<1>2. CASE ReadCell
  <2>1. row \in Outlets /\ UNCHANGED <<packets, row, isRun, pc, op, k, i, asleep, ticked>>
        /\ UNCHANGED cleared
    BY <1>2 DEF ReadCell, TableInv, testVars, vars, threadVars
  <2>2. Left' = Left /\ Most' = Most
    BY <2>1 DEF Left, NextOpens, Most, Surplus
  <2>3. CASE list = <<>>
    <3>1. list' = <<packets[row].all>>
      BY <1>2, <2>3 DEF ReadCell
    <3>2. Reads' = [all |-> packets[row].all, ok |-> packets[row].ok,
                    err |-> packets[row].err]
      BY <2>1, <3>1 DEF Reads
    <3>3. PICK d \in -1..0 : Tally(packets[row], d) /\ d + Left <= Most
      BY <2>1, TrialsRead
    <3>4. Tally(Reads', d)
      BY <3>2, <3>3 DEF Tally
    <3>5. QED
      BY <2>2, <3>3, <3>4 DEF TallyInv, Tally
  <2>4. CASE list # <<>>
    <3>1. list' = Append(list, packets[row].ok) /\ Len(list) = 1
      <4>1. Len(list) < 2 /\ Len(list) # 0 /\ Len(list) \in Nat
        BY <1>2, <2>4, ListHolds DEF ReadCell
      <4>2. QED
        BY <1>2, <2>4, <4>1 DEF ReadCell
    <3>2. list'[1] = list[1] /\ list'[2] = packets[row].ok /\ Len(list') = 2
      <4>1. list \in Seq(0..UintMax) /\ packets[row].ok \in 0..UintMax
        BY <2>1 DEF TableInv, IInv, Packet
      <4>2. /\ Len(Append(list, packets[row].ok)) = Len(list) + 1
            /\ \A n \in 1..Len(list) : Append(list, packets[row].ok)[n] = list[n]
            /\ Append(list, packets[row].ok)[Len(list) + 1] = packets[row].ok
        BY <4>1, AppendProperties
      <4>3. QED
        BY <3>1, <4>2
    <3>3. Reads' = Reads
      BY <2>1, <3>1, <3>2 DEF Reads
    <3>4. QED
      BY <1>2, <2>1, <2>2, <2>4, <3>3 DEF TallyInv, Tally, ReadCell
  <2>5. QED
    BY <2>3, <2>4
<1>3. CASE RefreshBegins \/ RowOff \/ SetRow
  BY <1>3 DEF RefreshBegins, RowOff, SetRow, NextRow, TallyInv
<1>4. CASE RowOn
  BY <1>4 DEF RowOn, tableVars, TableInv, TallyInv
<1>5. CASE Buttons \/ PortTimer \/ CloseWindow \/ Ending \/ TimePasses \/ WriteCrashes
  BY <1>5 DEF Buttons, PortTimer, CloseWindow, Free, Ending, PortFreed, ThreadWaits,
     ProgramEnds, TimePasses, WriteCrashes, LifeInv, TallyInv
<1>6. CASE UNCHANGED windowVars
  <2>1. Left' = Left /\ Most' = Most /\ Reads' = Reads
        /\ UNCHANGED <<gui, list, cleared>>
    BY <1>6 DEF windowVars, tableVars, testVars, vars, threadVars, Left, NextOpens,
       Most, Surplus, Reads
  <2>2. QED
    BY <2>1 DEF TallyInv, Tally
<1>7. QED
  BY <1>1, <1>2, <1>3, <1>4, <1>5, <1>6 DEF WindowNext, RefreshGoesOn

\* A row that is set shows what was read.
LEMMA RowIsTally ==
    ASSUME TableInv, TallyInv, IInv, [WindowNext]_windowVars, NEW x \in Outlets,
           rows' # rows, row = x, rows'[x].shown, ~cleared
    PROVE  \E d \in -1 .. Surplus : Tally(rows'[x], d)
<1>1. SetRow
  BY DEF WindowNext, Buttons, PortTimer, WorkerGoesOn, RefreshBegins, RefreshGoesOn,
     RowOff, RowOn, ReadCell, CloseWindow, Ending, PortFreed, ThreadWaits, ProgramEnds,
     TimePasses, WriteCrashes, windowVars, tableVars, NoRow, TableInv
<1>2. gui = "cells" /\ Len(list) = 2 /\ list # <<>>
  BY <1>1 DEF SetRow
<1>3. rows'[x] = [shown |-> TRUE, all |-> list[1], ok |-> list[2], err |-> packets[x].err]
  BY <1>1 DEF SetRow, TableInv
<1>4. PICK d \in -1..2 : Tally(Reads, d) /\ d + Left <= Most
  BY <1>2 DEF TallyInv
<1>5. d \in -1 .. Surplus
  BY <1>4 DEF Left, NextOpens, Most, Surplus
<1>6. Tally(rows'[x], d)
  BY <1>2, <1>3, <1>4 DEF Tally, Reads
<1>7. QED
  BY <1>5, <1>6

\* The table is read without a lock and still shows tallies: the results of a row
\* lack the trial under way at most, and exceed the trials only after the end button.
THEOREM Tallies == ASSUME EndIsUse, Timely PROVE WindowSpec => RowTallies
<1>1. WindowInit => LifeInv /\ TableInv /\ TallyInv
  BY LifeInit, TableInit
<1>2. IInv /\ (LifeInv /\ TableInv /\ TallyInv) /\ [WindowNext]_windowVars
         => (LifeInv /\ TableInv /\ TallyInv)'
  BY LifeStep, TableStep, TallyStep
<1>3. IInv /\ (LifeInv /\ TableInv /\ TallyInv) /\ [WindowNext]_windowVars
         => [\A x \in Outlets :
                rows' # rows /\ row = x /\ rows'[x].shown /\ ~cleared =>
                    \E d \in -1 .. Surplus : Tally(rows'[x], d)]_windowVars
  BY RowIsTally
<1>4. QED
  BY <1>1, <1>2, <1>3, WindowsKeep, PTL DEF WindowSpec, RowTallies
=============================================================================
