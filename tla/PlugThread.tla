----------------------------- MODULE PlugThread -----------------------------
(***************************************************************************)
(* PlugThread (plugthread.cpp): the worker thread.  It clears the counters,*)
(* withdraws every channel, and then repeats for every enabled channel:    *)
(* write the open command, wait, sample every enabled outlet, write the    *)
(* close command, wait, sample again.  It shares isRun, the configuration  *)
(* record mItem and the buffer of SerialPort with the GUI thread, without  *)
(* any lock.                                                               *)
(*                                                                         *)
(* Time is abstracted: a sleep(1) lasts until the 100 ms timer of the GUI  *)
(* thread has fired (Timely), or ends at any moment (otherwise).           *)
(***************************************************************************)
EXTENDS SerialPort, DataPackets

CONSTANTS
    RTUCMD_SIZE,   \* number of channels (4 in the code)
    SNMP_SIZE,     \* number of outlets (3 in the code)
    Tries,         \* attempts per trial (5 in the code)
    Cmd(_, _),     \* Cmd(op, k): the bytes of a non-empty command text
    Timely,        \* a sleep(1) spans a complete timeoutDone
    Leftovers      \* what uninitialized memory may hold, as a double

Channels == 0 .. RTUCMD_SIZE - 1

ASSUME ThreadAssumption ==
    /\ RTUCMD_SIZE \in Nat \ {0} /\ SNMP_SIZE \in Nat /\ Tries \in Nat \ {0}
    /\ Outlets = 0 .. SNMP_SIZE - 1
    /\ \A op \in Actions, c \in Channels : Cmd(op, c) \in Frames \ {Pattern}
    /\ \A o1, o2 \in Actions, c1, c2 \in Channels :
          Cmd(o1, c1) = Cmd(o2, c2) => o1 = o2 /\ c1 = c2
    /\ Timely \in BOOLEAN
    /\ Leftovers \subseteq {"negative", "zero", "positive"}

VARIABLES
    isRun,      \* PlugThread::isRun, written by both threads
    mItem,      \* the shared configuration record
    mValues,    \* SnmpThread::mValues, never assigned: what the memory held
    pc,         \* where run() stands
    op, k, i,   \* command phase and loop variables of run()
    try,        \* loop variable of openFun and closeFun, from 1
    ret,        \* whether the last rtu command had bytes (ret > 0)
    asleep,     \* inside the sleep(1) of delay()
    ticked,     \* a complete timeoutDone ran since that sleep began
    plug,       \* the plug of each channel, as the relay box left it (external)
    lateOpens   \* history: open commands written since isRun went to false

threadVars == <<isRun, mItem, mValues, pc, op, k, i, try, ret, asleep, ticked,
                lateOpens>>
vars == <<portVars, packets, threadVars, plug>>

\* A configuration: enabled channels and outlets, channels whose command text
\* gives at least one byte.
Config == [rtuCmdEn : SUBSET Channels, snmpEn : SUBSET Outlets,
           cmd : [Actions -> SUBSET Channels]]

PCs == {"off", "init", "initClose", "initSleep", "while", "for", "issue", "wait",
        "settle", "scan", "try", "check", "final"}

\* The control points at which isRun may be true.
Loop == {"while", "for", "issue", "wait", "settle", "scan", "try", "check"}

ThreadInit ==
    /\ isRun = FALSE /\ mItem \in Config
    /\ mValues \in Leftovers
    /\ pc = "off" /\ op = "close" /\ k = 0 /\ i = 0 /\ try = 1
    /\ ret = FALSE /\ asleep = FALSE /\ ticked = FALSE
    /\ plug \in [Channels -> Actions]
    /\ lateOpens = 0
    /\ packets = [x \in Outlets |-> ZeroPacket]

-----------------------------------------------------------------------------
\* startThread(), called by the GUI thread; QThread::start() does nothing while
\* run() has not returned.
StartThread ==
    /\ pc' = IF ~isRun /\ pc = "off" THEN "init" ELSE pc
    /\ UNCHANGED <<isRun, mValues, op, k, i, try, ret, asleep, ticked, lateOpens>>

\* quitThread(), called by the GUI thread.
QuitThread ==
    /\ isRun' = FALSE
    /\ UNCHANGED <<mItem, mValues, pc, op, k, i, try, ret, asleep, ticked,
                   lateOpens>>

\* rtuOpenCmd(c), rtuCloseCmd(c) up to the delay.
HasBytes(a, c) == c \in mItem.cmd[a]
RtuCmd(a, c) ==
    /\ Write(IF HasBytes(a, c) THEN Cmd(a, c) ELSE NoFrame)
    /\ ret' = HasBytes(a, c)

-----------------------------------------------------------------------------
Rested == Timely => ticked

(* Faulty variants of the definitions below; no specification uses them.   *)

\* run() sets isRun before it calls init().
InitPacketsRunning ==
    /\ pc = "init" /\ pc' = "initClose"
    /\ ClearAll(mItem.snmpEn) /\ k' = 0 /\ isRun' = TRUE
    /\ UNCHANGED <<portVars, mItem, mValues, op, i, try, ret, asleep, ticked,
                   lateOpens, plug>>

\* run() without the final loop.
WhileWithoutFinal ==
    /\ pc = "while" /\ k' = 0
    /\ pc' = IF isRun THEN "for" ELSE "off"
    /\ UNCHANGED <<portVars, packets, isRun, mItem, mValues, op, i, try, ret,
                   asleep, ticked, lateOpens, plug>>

\* i <= SNMP_SIZE in the loop over the outlets.
ScanSkipTooFar ==
    /\ pc = "scan" /\ i <= SNMP_SIZE /\ i \notin mItem.snmpEn
    /\ i' = i + 1
    /\ UNCHANGED <<portVars, packets, isRun, mItem, mValues, pc, op, k, try, ret,
                   asleep, ticked, lateOpens, plug>>

\* delay() waits for the start of the test where it should give up.
DelayDoneInverted ==
    /\ ~asleep /\ isRun
    /\ asleep' = FALSE

\* run() without the check between the open and the close phase.
CheckDropped ==
    /\ pc = "check" /\ pc' = "issue" /\ op' = "close"
    /\ UNCHANGED <<portVars, packets, isRun, mItem, mValues, k, i, try, ret,
                   asleep, ticked, lateOpens, plug>>

\* The check leaves the loop while the test is running.
CheckInverted ==
    /\ pc = "check"
    /\ IF ~isRun THEN pc' = "issue" /\ op' = "close"
                 ELSE pc' = "while" /\ op' = op
    /\ UNCHANGED <<portVars, packets, isRun, mItem, mValues, k, i, try, ret,
                   asleep, ticked, lateOpens, plug>>

-----------------------------------------------------------------------------
\* init(): clears() and the enable flags.
InitPackets ==
    /\ pc = "init" /\ pc' = "initClose"
    /\ ClearAll(mItem.snmpEn) /\ k' = 0
    /\ UNCHANGED <<portVars, isRun, mItem, mValues, op, i, try, ret, asleep,
                   ticked, lateOpens, plug>>

\* init(): rtuCloseCmd(k).  Its delay(3) returns at once: isRun is still false.
InitClose ==
    /\ pc = "initClose" /\ k < RTUCMD_SIZE
    /\ RtuCmd("close", k) /\ k' = k + 1
    /\ UNCHANGED <<packets, isRun, mItem, mValues, pc, op, i, try, asleep, ticked,
                   lateOpens, plug>>

\* init(): sleep(2), whatever isRun is.
InitSleep ==
    /\ pc = "initClose" /\ k = RTUCMD_SIZE
    /\ pc' = "initSleep" /\ asleep' = TRUE /\ ticked' = FALSE
    /\ UNCHANGED <<portVars, packets, isRun, mItem, mValues, op, k, i, try, ret,
                   lateOpens, plug>>

\* init() returns and run() sets isRun.
RunBegins ==
    /\ pc = "initSleep" /\ Rested
    /\ pc' = "while" /\ isRun' = TRUE /\ asleep' = FALSE /\ lateOpens' = 0
    /\ UNCHANGED <<portVars, packets, mItem, mValues, op, k, i, try, ret, ticked,
                   plug>>

\* while(isRun): another round, or the final loop.
While ==
    /\ pc = "while" /\ k' = 0
    /\ pc' = IF isRun THEN "for" ELSE "final"
    /\ UNCHANGED <<portVars, packets, isRun, mItem, mValues, op, i, try, ret,
                   asleep, ticked, lateOpens, plug>>

\* The for loop over the channels ends.
ForEnd ==
    /\ pc = "for" /\ k = RTUCMD_SIZE /\ pc' = "while"
    /\ UNCHANGED <<portVars, packets, isRun, mItem, mValues, op, k, i, try, ret,
                   asleep, ticked, lateOpens, plug>>

\* Channel k is not enabled.
ForSkip ==
    /\ pc = "for" /\ k < RTUCMD_SIZE /\ k \notin mItem.rtuCmdEn
    /\ k' = k + 1
    /\ UNCHANGED <<portVars, packets, isRun, mItem, mValues, pc, op, i, try, ret,
                   asleep, ticked, lateOpens, plug>>

\* Channel k is enabled: its open phase begins.  isRun is not looked at.
ForOpen ==
    /\ pc = "for" /\ k < RTUCMD_SIZE /\ k \in mItem.rtuCmdEn
    /\ op' = "open" /\ pc' = "issue"
    /\ UNCHANGED <<portVars, packets, isRun, mItem, mValues, k, i, try, ret,
                   asleep, ticked, lateOpens, plug>>

\* The rtu command of the phase; delay(3) only follows a command with bytes.
Issue ==
    /\ pc = "issue" /\ RtuCmd(op, k)
    /\ pc' = IF HasBytes(op, k) THEN "wait" ELSE "settle"
    /\ lateOpens' = IF op = "open" /\ ~isRun THEN lateOpens + 1 ELSE lateOpens
    /\ UNCHANGED <<packets, isRun, mItem, mValues, op, k, i, try, asleep, ticked,
                   plug>>

-----------------------------------------------------------------------------
\* delay(n): while isRun is true it sleeps; once it is false, it returns when
\* the sleep(1) it is in ends, or at once.  n seconds are one sleep here.
Sleep ==
    /\ pc \in {"wait", "settle", "try"} /\ isRun /\ ~asleep
    /\ asleep' = TRUE /\ ticked' = FALSE
    /\ UNCHANGED <<portVars, packets, isRun, mItem, mValues, pc, op, k, i, try,
                   ret, lateOpens, plug>>

DelayDone ==
    /\ IF asleep THEN Rested ELSE ~isRun
    /\ asleep' = FALSE

\* delay(3) of the rtu command is over.
WaitDone ==
    /\ pc = "wait" /\ DelayDone /\ pc' = "settle"
    /\ UNCHANGED <<portVars, packets, isRun, mItem, mValues, op, k, i, try, ret,
                   ticked, lateOpens, plug>>

\* delay(mItem->delay) is over.
SettleDone ==
    /\ pc = "settle" /\ DelayDone /\ pc' = "scan" /\ i' = 0
    /\ UNCHANGED <<portVars, packets, isRun, mItem, mValues, op, k, try, ret,
                   ticked, lateOpens, plug>>

\* Outlet i is not enabled.
ScanSkip ==
    /\ pc = "scan" /\ i < SNMP_SIZE /\ i \notin mItem.snmpEn
    /\ i' = i + 1
    /\ UNCHANGED <<portVars, packets, isRun, mItem, mValues, pc, op, k, try, ret,
                   asleep, ticked, lateOpens, plug>>

\* openFun(i) or closeFun(i) begins.
ScanTrial ==
    /\ pc = "scan" /\ i < SNMP_SIZE /\ i \in mItem.snmpEn
    /\ BeginTrial(i, op) /\ try' = 1 /\ pc' = "try"
    /\ UNCHANGED <<portVars, isRun, mItem, mValues, op, k, i, ret, asleep, ticked,
                   lateOpens, plug>>

\* All outlets were sampled: the check of isRun, or the next channel.
ScanEnd ==
    /\ pc = "scan" /\ i = SNMP_SIZE
    /\ IF op = "open" THEN pc' = "check" /\ k' = k
                      ELSE pc' = "for" /\ k' = k + 1
    /\ UNCHANGED <<portVars, packets, isRun, mItem, mValues, op, i, try, ret,
                   asleep, ticked, lateOpens, plug>>

\* openFun asks the device over SNMP, any failure reads 0.  closeFun reads
\* mValues; a negative double has no defined conversion to uint.
Reading(a) ==
    CASE a = "open"                           -> Values
      [] a = "close" /\ mValues = "zero"      -> {0}
      [] a = "close" /\ mValues = "positive"  -> Values \ {0}
      [] a = "close" /\ mValues = "negative"  -> Values

Success(a, v) == IF a = "open" THEN v > 0 ELSE v = 0

\* An attempt that fails and is not the last one.
TryAgain ==
    /\ pc = "try" /\ DelayDone /\ try < Tries /\ try' = try + 1
    /\ \E v \in Reading(op) : ~Success(op, v) /\ Retry(i, v)
    /\ UNCHANGED <<portVars, isRun, mItem, mValues, pc, op, k, i, ret, ticked,
                   lateOpens, plug>>

\* The attempt that ends the trial: a success, or the last failure.
TryEnd ==
    /\ pc = "try" /\ DelayDone
    /\ \E v \in Reading(op) :
          /\ Success(op, v) \/ try = Tries
          /\ EndTrial(i, v, Success(op, v))
    /\ pc' = "scan" /\ i' = i + 1
    /\ UNCHANGED <<portVars, isRun, mItem, mValues, op, k, try, ret, ticked,
                   lateOpens, plug>>

\* if(!isRun) break; otherwise the close phase begins.
Check ==
    /\ pc = "check"
    /\ IF isRun THEN pc' = "issue" /\ op' = "close"
                ELSE pc' = "while" /\ op' = op
    /\ UNCHANGED <<portVars, packets, isRun, mItem, mValues, k, i, try, ret,
                   asleep, ticked, lateOpens, plug>>

\* After the loop: rtuCloseCmd(k).  Its delay(3) returns at once, as in init().
FinalClose ==
    /\ pc = "final" /\ k < RTUCMD_SIZE
    /\ RtuCmd("close", k) /\ k' = k + 1
    /\ UNCHANGED <<packets, isRun, mItem, mValues, pc, op, i, try, asleep, ticked,
                   lateOpens, plug>>

\* run() returns.
RunEnds ==
    /\ pc = "final" /\ k = RTUCMD_SIZE /\ pc' = "off"
    /\ UNCHANGED <<portVars, packets, isRun, mItem, mValues, op, k, i, try, ret,
                   asleep, ticked, lateOpens, plug>>

Worker ==
    \/ InitPackets \/ InitClose \/ InitSleep \/ RunBegins \/ While
    \/ ForEnd \/ ForSkip \/ ForOpen \/ Issue \/ Sleep \/ WaitDone \/ SettleDone
    \/ ScanSkip \/ ScanTrial \/ ScanEnd \/ TryAgain \/ TryEnd \/ Check
    \/ FinalClose \/ RunEnds
=============================================================================
