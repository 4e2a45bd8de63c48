------------------------------- MODULE Window -------------------------------
(***************************************************************************)
(* The table of DisplayWid and the end of the program, around PlugTest.    *)
(* Every second the GUI thread reads the records of the worker and shows   *)
(* them; the worker goes on between any two of its steps.  When the user   *)
(* closes the main window, its destructor frees the SerialPort first and   *)
(* waits for the worker last.                                              *)
(***************************************************************************)
EXTENDS PlugTest, Integers, Sequences

\* The loop of timeoutDone has a first row.
ASSUME DisplayAssumption == SNMP_SIZE > 0

VARIABLES
    gui,         \* where the GUI thread stands in a handler of this module
    row,         \* the outlet updateData is at
    list,        \* what updateData has read of its record: all, then ok
    rows,        \* the table: what each row shows
    cleared,     \* history: init() cleared the records since this refresh began
    life         \* how far the end of the program has got

tableVars == <<row, list, rows, cleared>>
windowVars == <<testVars, gui, tableVars, life>>

NoRow == [shown |-> FALSE, all |-> 0, ok |-> 0, err |-> 0]

WindowInit ==
    /\ Init
    /\ gui = "free" /\ row = 0 /\ list = <<>>
    /\ rows = [x \in Outlets |-> NoRow] /\ cleared = FALSE
    /\ life = "up"

\* The event loop can begin a handler.
Free == life = "up" /\ gui = "free" /\ handler = "idle"

-----------------------------------------------------------------------------
(* Faulty variants of the definitions below; no specification uses them.   *)

\* The timer of DisplayWid only runs while the test does.
RefreshWhileRunning ==
    /\ Free /\ isRun /\ gui' = "row" /\ row' = 0
    /\ UNCHANGED <<testVars, list, rows, cleared, life>>

\* The destructor waits without asking run() to return.
ThreadWaitsOnly ==
    /\ life = "freed" /\ life' = "waiting"
    /\ UNCHANGED <<testVars, gui, tableVars>>

\* The destructor terminates the thread.
ThreadTerminated ==
    /\ life = "freed" /\ life' = "waiting"
    /\ isRun' = FALSE /\ pc' = "off"
    /\ UNCHANGED <<portVars, packets, mItem, mValues, op, k, i, try, ret, asleep,
                   ticked, lateOpens, plug, boxesOn, gui, tableVars>>

-----------------------------------------------------------------------------
\* The buttons of the main window and of the serial dialog.
Buttons ==
    /\ life = "up" /\ gui = "free"
    /\ Over \/ SerialDialog \/ (\E ui \in UiContents : Start(ui))
    /\ UNCHANGED <<gui, tableVars, life>>

\* The timer of SerialPort, every 100 ms.
PortTimer ==
    /\ life = "up" /\ gui = "free" /\ Timer
    /\ UNCHANGED <<gui, tableVars, life>>

\* The worker; init() clears the records, also in the middle of a refresh.
WorkerGoesOn ==
    /\ life \notin {"gone", "crashed"} /\ WorkerStep
    /\ cleared' = (cleared \/ (pc = "init" /\ gui # "free"))
    /\ UNCHANGED <<gui, row, list, rows, life>>

\* The timer of DisplayWid, every second: timeoutDone begins.
RefreshBegins ==
    /\ Free /\ gui' = "row" /\ row' = 0
    /\ UNCHANGED <<testVars, list, rows, cleared, life>>

NextRow ==
    IF row + 1 < SNMP_SIZE
      THEN gui' = "row" /\ row' = row + 1 /\ UNCHANGED cleared
      ELSE gui' = "free" /\ row' = 0 /\ cleared' = FALSE

\* updateData: the outlet is not sampled, its row is cleared.
RowOff ==
    /\ gui = "row" /\ ~packets[row].en
    /\ rows' = [rows EXCEPT ![row] = NoRow] /\ NextRow
    /\ UNCHANGED <<testVars, list, life>>

RowOn ==
    /\ gui = "row" /\ packets[row].en
    /\ gui' = "cells"
    /\ UNCHANGED <<testVars, tableVars, life>>

\* updateData: the counters are read one after the other.
ReadCell ==
    /\ gui = "cells" /\ Len(list) < 2
    /\ list' = Append(list, IF list = <<>> THEN packets[row].all ELSE packets[row].ok)
    /\ UNCHANGED <<testVars, gui, row, rows, cleared, life>>

\* The last one is read and the row is set.
SetRow ==
    /\ gui = "cells" /\ Len(list) = 2
    /\ rows' = [rows EXCEPT ![row] = [shown |-> TRUE, all |-> list[1], ok |-> list[2],
                                      err |-> packets[row].err]]
    /\ list' = <<>> /\ NextRow
    /\ UNCHANGED <<testVars, life>>

RefreshGoesOn == RowOff \/ RowOn \/ ReadCell \/ SetRow

-----------------------------------------------------------------------------
\* The user closes the main window: exec() of the application returns, the table
\* goes with the central widget.
CloseWindow ==
    /\ Free /\ life' = "closing"
    /\ rows' = [x \in Outlets |-> NoRow]
    /\ UNCHANGED <<testVars, gui, row, list, cleared>>

\* The dialog is destroyed, and with it the SerialPort that the worker uses.
PortFreed ==
    /\ life = "closing" /\ life' = "freed"
    /\ Close \/ (~isOpen /\ UNCHANGED portVars)
    /\ UNCHANGED <<packets, threadVars, plug, boxesOn, gui, tableVars>>

\* ~PlugThread: isRun = false; wait() begins.  (There are no boxes any more.)
ThreadWaits ==
    /\ life = "freed" /\ life' = "waiting"
    /\ QuitThread /\ boxesOn' = TRUE
    /\ UNCHANGED <<portVars, packets, plug, gui, tableVars>>

\* wait() returns, main() returns.
ProgramEnds ==
    /\ life = "waiting" /\ pc = "off" /\ life' = "gone"
    /\ UNCHANGED <<testVars, gui, tableVars>>

\* Without an event loop the seconds still pass.
TimePasses ==
    /\ life \in {"freed", "waiting"} /\ TickClosed /\ ticked' = TRUE
    /\ UNCHANGED <<packets, isRun, mItem, mValues, pc, op, k, i, try, ret, asleep,
                   lateOpens, plug, boxesOn, gui, tableVars, life>>

\* The next step of the worker calls write() of the SerialPort.
Writes == \/ pc = "issue"
          \/ pc \in {"initClose", "final"} /\ k < RTUCMD_SIZE

\* A call of the freed object either does what it always did or ends the program.
WriteCrashes ==
    /\ life \in {"freed", "waiting"} /\ Writes /\ life' = "crashed"
    /\ UNCHANGED <<testVars, gui, tableVars>>

Ending == PortFreed \/ ThreadWaits \/ ProgramEnds

WindowNext ==
    \/ Buttons \/ PortTimer \/ WorkerGoesOn
    \/ RefreshBegins \/ RefreshGoesOn
    \/ CloseWindow \/ Ending \/ TimePasses \/ WriteCrashes

\* A handler of the GUI thread and the destructors run to their end.
HandlerGoesOn == RefreshGoesOn \/ Ending \/ (Buttons /\ handler = "loop")

\* As in PlugTest; the second timer is served as well.
WindowFairness ==
    /\ WF_windowVars(WorkerGoesOn) /\ WF_windowVars(HandlerGoesOn)
    /\ SF_windowVars(PortTimer) /\ SF_windowVars(RefreshBegins)
    /\ WF_windowVars(TimePasses)

WindowSpec == WindowInit /\ [][WindowNext]_windowVars /\ WindowFairness
-----------------------------------------------------------------------------
\* The results of a row exceed its trials by d, modulo the width of the counters.
Tally(r, d) == \E w \in {-(UintMax + 1), 0, UintMax + 1} : r.ok + r.err = r.all + d + w

\* The trials that can be counted while updateData reads the record of their outlet.
\* While the test runs no trial begins and ends within a handler of the GUI thread.
\* After the end button the delays are void: what is left of a close phase can pass,
\* and the open phase of the next channel.
Surplus == IF isRun THEN 0 ELSE IF RTUCMD_SIZE = 1 THEN 1 ELSE 2

\* updateData reads a record while the worker counts.  What a row shows differs from
\* a tally (every trial is a success or a failure) by the trial under way when the
\* trials were read, or by the few that were counted before the failures were read,
\* unless init() cleared the record meanwhile.
RowTallies ==
    [][\A x \in Outlets :
          rows' # rows /\ row = x /\ rows'[x].shown /\ ~cleared =>
              \E d \in -1 .. Surplus : Tally(rows'[x], d)]_windowVars

\* Once the test is over for good the table shows what it counted.
FinalCountsShown ==
    \A x \in Outlets :
        <>[](pc = "off" /\ life = "up") =>
            <>[](LET p == packets[x] IN
                 rows[x] = IF p.en THEN [shown |-> TRUE, all |-> p.all, ok |-> p.ok,
                                         err |-> p.err]
                                   ELSE NoRow)

\* The destructor of the thread waits for run(): a window that is closed at any
\* moment but during init() ends the program, also in the middle of a trial.
CloseEnds ==
    (life = "freed" /\ pc \notin {"init", "initClose", "initSleep"})
        ~> (life \in {"gone", "crashed"})

\* Whatever the windows do is a behaviour of PlugTest: its invariants hold here.
WindowIsTest == Init /\ [][Next]_testVars
=============================================================================
