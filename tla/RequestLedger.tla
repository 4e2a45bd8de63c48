--------------------------- MODULE RequestLedger ---------------------------
(***************************************************************************)
(* What a Session promises to the caller of requestValues, requestSubValues*)
(* and setValue: accepted requests wait in a bounded queue, are served one *)
(* at a time in the order in which they came, and each of them is reported *)
(* exactly once, as answered or as failed.  A request that finds the queue *)
(* full is refused and never reported.                                     *)
(***************************************************************************)
EXTENDS Naturals, Sequences

CONSTANTS
    Jobs,         \* the requests a caller may make
    NoJob,        \* not a request
    QueueLimit    \* requests that may wait

VARIABLES
    waiting,   \* accepted requests that wait, the oldest first
    serving,   \* the request in service, or NoJob
    report     \* the last report and the parity of the number of reports

ledgerVars == <<waiting, serving, report>>

LedgerInit ==
    /\ waiting = <<>> /\ serving = NoJob
    /\ report = [job |-> NoJob, parity |-> 0]

Accept(j) ==
    /\ Len(waiting) < QueueLimit
    /\ waiting' = Append(waiting, j)
    /\ UNCHANGED <<serving, report>>

Take ==
    /\ serving = NoJob /\ waiting # <<>>
    /\ serving' = Head(waiting) /\ waiting' = Tail(waiting)
    /\ UNCHANGED report

Settle ==
    /\ serving # NoJob /\ serving' = NoJob
    /\ report' = [job |-> serving, parity |-> 1 - report.parity]
    /\ UNCHANGED waiting

\* A request that cannot even be sent is taken and reported at once.
TakeAndSettle ==
    /\ serving = NoJob /\ waiting # <<>>
    /\ waiting' = Tail(waiting)
    /\ report' = [job |-> Head(waiting), parity |-> 1 - report.parity]
    /\ UNCHANGED serving

LedgerNext == (\E j \in Jobs : Accept(j)) \/ Take \/ Settle \/ TakeAndSettle

LedgerSpec == LedgerInit /\ [][LedgerNext]_ledgerVars

\* Requests do not stay in the ledger for ever.
LedgerServes == WF_ledgerVars(Take \/ Settle \/ TakeAndSettle)
=============================================================================
