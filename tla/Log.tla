-------------------------------- MODULE Log --------------------------------
(***************************************************************************)
(* The log of the SNMP library (snmp_pp/log.h): any thread logs an entry   *)
(* with LOG_BEGIN, some LOG and LOG_END, through the one DefaultLog.       *)
(*                                                                         *)
(* The log is asked without the mutex whether an entry is needed, and its  *)
(* filter may be set at any time; from LOG_BEGIN to LOG_END the mutex is   *)
(* held.  An item stands for itself and takes one of LogSize places; what  *)
(* an entry and a log do with it is not in the repository.  The items of   *)
(* an entry are not logged from within an item.                            *)
(***************************************************************************)
EXTENDS Integers, Sequences, SequencesExt

CONSTANTS
    LogThreads,   \* the threads, also the names they log with
    LogTypes,     \* the types of their entries
    LogFilters,   \* the filters a log may have, a level for each class
    NoLog, NoEntry, Nobody,
    LogSize,      \* the places of an entry (MAX_LOG_SIZE)
    MaxItems,     \* bound: items of an entry
    MaxLogged     \* bound: entries in the log

LOG_TYPES == 6
ERROR_LOG == 16

ASSUME LogAssumption ==
    /\ LogTypes \cup {ERROR_LOG + 1} \subseteq ERROR_LOG..(16 * LOG_TYPES + 15)
    /\ LogFilters \subseteq [1..LOG_TYPES -> 0..15 \cup {255}] /\ LogFilters # {}
    /\ NoLog \notin LogFilters /\ Nobody \notin LogThreads
    /\ NoEntry \notin [name : LogThreads, type : LogTypes, count : Nat,
                       items : Seq(LogThreads \X Nat)]
    /\ LogSize \in Nat /\ MaxItems \in Nat /\ MaxLogged \in Nat

VARIABLES
    instance,    \* the filter of the DefaultLog, or NoLog
    entry,       \* the entry that is written, or NoEntry
    logMutex,    \* who holds the mutex
    logPc,       \* where each thread stands
    logType,     \* the type of the entry of each thread
    logged       \* the entries of the log

logVars == <<instance, entry, logMutex, logPc, logType, logged>>

LogInit ==
    /\ instance = NoLog /\ entry = NoEntry /\ logMutex = Nobody
    /\ logPc = [t \in LogThreads |-> "idle"]
    /\ logType = [t \in LogThreads |-> ERROR_LOG]
    /\ logged = <<>>

\* LogEntry and LogEntryImpl: the class and the level of a type, an entry with what
\* a derived class keeps of it, an empty one, what is left in it, one item more.
GetClass(type) == type - (type % 16)
GetLevel(type) == type % 16
NewEntry(name, type, items) == [name |-> name, type |-> type, count |-> 0, items |-> items]
LogEntryImpl(name, type) == NewEntry(name, type, <<>>)
BytesLeft(e) == LogSize - Len(e.items)
AddItem(e, item) ==
    [e EXCEPT !.count = @ + 1,
              !.items = IF BytesLeft(e) > 0 THEN Append(@, item) ELSE @]

\* AgentLog::log_needed
LogNeeded(filter, type) ==
    LET level == filter[GetClass(type) \div 16]
    IN  level # 255 /\ GetLevel(type) <= level

\* DefaultLog: create_log_entry keeps an entry that there is, log_entry makes one.
CreateLogEntry(name, type) == IF entry = NoEntry THEN LogEntryImpl(name, type) ELSE entry
LogEntry == CreateLogEntry("main", ERROR_LOG + 1)
DeleteLogEntry == entry' = NoEntry
LogLock(t) == logMutex = Nobody /\ logMutex' = t
LogUnlock(t) == logMutex = t /\ logMutex' = Nobody

\* DefaultLog::init, before any logging takes place.
InitLog ==
    /\ \A t \in LogThreads : logPc[t] = "idle"
    /\ logged = <<>>
    /\ instance' \in LogFilters
    /\ UNCHANGED <<entry, logMutex, logPc, logType, logged>>

\* DefaultLog::log makes a log when there is none.
DefaultLogLog == IF instance = NoLog THEN instance' \in LogFilters ELSE UNCHANGED instance

\* AgentLog::set_filter takes no mutex: the answer a thread got may be out of date when
\* it goes on.
SetFilter(type, level) ==
    /\ instance # NoLog
    /\ instance' = [instance EXCEPT ![GetClass(type) \div 16] = level]
    /\ UNCHANGED <<entry, logMutex, logPc, logType, logged>>

\* LOG_BEGIN up to its lock.
AskLog(t) ==
    /\ logPc[t] = "idle" /\ Len(logged) < MaxLogged
    /\ DefaultLogLog
    /\ \E type \in LogTypes :
          IF LogNeeded(instance', type)
            THEN /\ logPc' = [logPc EXCEPT ![t] = "needed"]
                 /\ logType' = [logType EXCEPT ![t] = type]
            ELSE UNCHANGED <<logPc, logType>>
    /\ UNCHANGED <<entry, logMutex, logged>>

\* Faulty: LOG_BEGIN goes on while another thread holds the mutex.
BeginUnlocked(t) ==
    /\ logPc[t] = "needed" /\ logPc' = [logPc EXCEPT ![t] = "begun"]
    /\ entry' = CreateLogEntry(t, logType[t])
    /\ logMutex' = t
    /\ UNCHANGED <<instance, logType, logged>>

\* The rest of LOG_BEGIN.
BeginLog(t) ==
    /\ logPc[t] = "needed" /\ logPc' = [logPc EXCEPT ![t] = "begun"]
    /\ LogLock(t)
    /\ entry' = CreateLogEntry(t, logType[t])
    /\ UNCHANGED <<instance, logType, logged>>

\* LOG; the items of a thread are told apart by their places.
LogItem(t) ==
    /\ logPc[t] = "begun" /\ LogEntry.count < MaxItems
    /\ entry' = AddItem(LogEntry, <<t, LogEntry.count + 1>>)
    /\ UNCHANGED <<instance, logMutex, logPc, logType, logged>>

\* LOG_END
EndLog(t) ==
    /\ logPc[t] = "begun" /\ logPc' = [logPc EXCEPT ![t] = "idle"]
    /\ logged' = Append(logged, LogEntry)
    /\ DeleteLogEntry
    /\ LogUnlock(t)
    /\ UNCHANGED <<instance, logType>>

LogNext ==
    \/ InitLog
    \/ \E type \in LogTypes, filter \in LogFilters :
          SetFilter(type, filter[GetClass(type) \div 16])
    \/ \E t \in LogThreads : AskLog(t) \/ BeginLog(t) \/ LogItem(t) \/ EndLog(t)

\* The log on its own.
LogSpec == LogInit /\ [][LogNext]_logVars

-----------------------------------------------------------------------------
\* Whatever the threads log at the same time, and whenever the filter is changed, an
\* entry of the log is what one thread wrote: it bears its name and holds its items, in
\* order, without one of another, the first ones when they did not all fit.  The entry
\* that is written is the one that its thread asked for, also when it would not be
\* needed any more: LOG_END does not ask again, or the mutex would never be given back,
\* and log_entry never has to make up an entry of its own.
LogEntriesWhole ==
    /\ \A e \in ToSet(logged) :
          /\ e.name \in LogThreads
          /\ Len(e.items) = IF e.count < LogSize THEN e.count ELSE LogSize
          /\ \A n \in 1..Len(e.items) : e.items[n] = <<e.name, n>>
    /\ \A t \in LogThreads :
          logPc[t] = "begun" =>
              /\ logMutex = t /\ entry # NoEntry
              /\ entry.name = t /\ entry.type = logType[t]
=============================================================================
