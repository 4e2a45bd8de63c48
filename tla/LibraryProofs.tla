--------------------------- MODULE LibraryProofs ---------------------------
(***************************************************************************)
(* The SNMP library.  Its log: what the threads log at the same time is    *)
(* not mixed, for any threads, types, filters and sizes.  Its client,      *)
(* called from any threads: no call is lost, repeated or overtaken by one  *)
(* of the same caller.  The objects that a request is made of: they stay   *)
(* sound whatever is put into them, for any calls, identifiers, numbers.   *)
(***************************************************************************)
EXTENDS ValuesProofs, Log, Client

\* An entry as it is written.
LogEntries == [name : LogThreads, type : LogTypes, count : Nat,
               items : Seq(LogThreads \X Nat)]

\* What one thread wrote: its first items, as many as fit.
Whole(e) ==
    /\ e \in LogEntries
    /\ Len(e.items) = IF e.count < LogSize THEN e.count ELSE LogSize
    /\ \A n \in 1..Len(e.items) : e.items[n] = <<e.name, n>>

\* There is an entry exactly while a thread holds the mutex, and it is that thread's.
LogInv ==
    /\ logPc \in [LogThreads -> {"idle", "needed", "begun"}]
    /\ logType \in [LogThreads -> LogTypes \cup {ERROR_LOG}]
    /\ logged \in Seq(LogEntries)
    /\ \A t \in LogThreads :
          logPc[t] # "idle" => logType[t] \in LogTypes
    /\ \A t \in LogThreads : logPc[t] = "begun" <=> logMutex = t
    /\ logMutex = Nobody => entry = NoEntry
    /\ logMutex # Nobody =>
          /\ logMutex \in LogThreads /\ Whole(entry)
          /\ entry.name = logMutex /\ entry.type = logType[logMutex]
    /\ \A n \in 1..Len(logged) : Whole(logged[n])

LEMMA LogInitInv == LogInit => LogInv
<1> SUFFICES ASSUME LogInit PROVE LogInv
  OBVIOUS
<1>1. logged \in Seq(LogEntries) /\ Len(logged) = 0
  BY EmptySeq DEF LogInit
<1>2. QED
  BY <1>1, LogAssumption DEF LogInit, LogInv

\* LOG_BEGIN makes an empty entry, LOG adds one item behind the ones that are there,
\* or only counts it.
LEMMA EntryBegins ==
    ASSUME NEW t \in LogThreads, NEW type \in LogTypes
    PROVE  Whole(LogEntryImpl(t, type))
<1>1. <<>> \in Seq(LogThreads \X Nat) /\ Len(<<>>) = 0
  BY EmptySeq
<1>2. LogSize \in Nat
  BY LogAssumption
<1>3. QED
  BY <1>1, <1>2 DEF Whole, LogEntries, LogEntryImpl, NewEntry

LEMMA EntryGrows ==
    ASSUME NEW e, Whole(e)
    PROVE  LET f == AddItem(e, <<e.name, e.count + 1>>)
           IN  Whole(f) /\ f.name = e.name /\ f.type = e.type
<1> DEFINE item == <<e.name, e.count + 1>>
           f == AddItem(e, item)
<1>1. /\ e \in LogEntries /\ e.items \in Seq(LogThreads \X Nat) /\ e.count \in Nat
      /\ item \in LogThreads \X Nat /\ Len(e.items) \in Nat /\ LogSize \in Nat
  BY LenProperties, LogAssumption DEF Whole, LogEntries
<1>2. CASE BytesLeft(e) > 0
  <2>1. f = [e EXCEPT !.count = @ + 1, !.items = Append(e.items, item)]
    BY <1>2 DEF AddItem
  <2>2. /\ Append(e.items, item) \in Seq(LogThreads \X Nat)
        /\ Len(Append(e.items, item)) = Len(e.items) + 1
        /\ \A n \in 1..Len(e.items) : Append(e.items, item)[n] = e.items[n]
        /\ Append(e.items, item)[Len(e.items) + 1] = item
    BY <1>1, AppendProperties
  <2>3. Len(e.items) = e.count /\ e.count < LogSize
    BY <1>1, <1>2 DEF Whole, BytesLeft
  <2>4. /\ f \in LogEntries /\ f.name = e.name /\ f.type = e.type
        /\ f.count = e.count + 1 /\ f.items = Append(e.items, item)
    BY <1>1, <2>1, <2>2 DEF LogEntries
  <2>5. ASSUME NEW n \in 1..Len(f.items) PROVE f.items[n] = <<f.name, n>>
    <3>1. n \in 1..Len(e.items) \/ n = e.count + 1
      <4> HIDE DEF f, item
      <4> QED
        BY <1>1, <2>2, <2>3, <2>4
    <3>2. CASE n \in 1..Len(e.items)
      <4>1. f.items[n] = e.items[n] /\ e.items[n] = <<e.name, n>>
        BY <2>2, <2>4, <3>2 DEF Whole
      <4>2. QED
        BY <2>4, <4>1
    <3>3. CASE n = e.count + 1
      <4>1. f.items[n] = item
        BY <2>2, <2>3, <2>4, <3>3
      <4>2. QED
        BY <2>4, <3>3, <4>1
    <3>4. QED
      BY <3>1, <3>2, <3>3
  <2>6. Len(f.items) = IF f.count < LogSize THEN f.count ELSE LogSize
    BY <1>1, <2>2, <2>3, <2>4
  <2>7. QED
    BY <2>4, <2>5, <2>6 DEF Whole
<1>3. CASE ~(BytesLeft(e) > 0)
  <2>1. /\ f \in LogEntries /\ f.name = e.name /\ f.type = e.type
        /\ f.count = e.count + 1 /\ f.items = e.items
    BY <1>1, <1>3 DEF AddItem, LogEntries
  <2>2. Len(f.items) = IF f.count < LogSize THEN f.count ELSE LogSize
    BY <1>1, <1>3, <2>1 DEF Whole, BytesLeft
  <2>3. QED
    BY <2>1, <2>2 DEF Whole
<1>4. QED
  BY <1>2, <1>3

\* Every step keeps the entry with the one who holds the mutex.
LEMMA LogStep == ASSUME LogInv, [LogNext]_logVars PROVE LogInv'
<1> USE DEF LogInv
<1>1. CASE InitLog \/ \E type, level : SetFilter(type, level)
  BY <1>1 DEF InitLog, SetFilter
<1>2. ASSUME NEW t \in LogThreads, AskLog(t) PROVE LogInv'
  <2>1. PICK type \in LogTypes :
          IF LogNeeded(instance', type)
            THEN /\ logPc' = [logPc EXCEPT ![t] = "needed"]
                 /\ logType' = [logType EXCEPT ![t] = type]
            ELSE UNCHANGED <<logPc, logType>>
    BY <1>2 DEF AskLog
  <2>2. logPc[t] = "idle" /\ logMutex # t /\ UNCHANGED <<entry, logMutex, logged>>
    BY <1>2 DEF AskLog
  <2>3. QED
    BY <2>1, <2>2
<1>3. ASSUME NEW t \in LogThreads, BeginLog(t) PROVE LogInv'
  <2>1. /\ logMutex = Nobody /\ logMutex' = t /\ entry' = LogEntryImpl(t, logType[t])
        /\ t # Nobody /\ UNCHANGED <<logType, logged>>
        /\ logPc[t] = "needed" /\ logPc' = [logPc EXCEPT ![t] = "begun"]
    BY <1>3, LogAssumption DEF BeginLog, LogLock, CreateLogEntry
  <2>2. Whole(entry') /\ entry'.name = t /\ entry'.type = logType[t]
    BY <2>1, EntryBegins DEF LogEntryImpl, NewEntry
  <2>3. \A u \in LogThreads : logPc'[u] = "begun" <=> logMutex' = u
    <3>1. \A u \in LogThreads : logPc[u] # "begun"
      BY <2>1, LogAssumption
    <3>2. QED
      BY <2>1, <3>1
  <2>4. \A u \in LogThreads : logPc'[u] # "idle" => logType'[u] \in LogTypes
    BY <2>1
  <2>5. logPc' \in [LogThreads -> {"idle", "needed", "begun"}]
    BY <2>1
  <2>6. QED
    BY <2>1, <2>2, <2>3, <2>4, <2>5
<1>4. ASSUME NEW t \in LogThreads, LogItem(t) PROVE LogInv'
  <2>1. /\ logMutex = t /\ t # Nobody /\ Whole(entry) /\ entry.name = t /\ entry # NoEntry
    BY <1>4, LogAssumption DEF LogItem, Whole, LogEntries
  <2>2. entry' = AddItem(entry, <<entry.name, entry.count + 1>>)
    BY <1>4, <2>1 DEF LogItem, LogEntry, CreateLogEntry
  <2>3. UNCHANGED <<logMutex, logPc, logType, logged>>
    BY <1>4 DEF LogItem
  <2>4. Whole(entry') /\ entry'.name = t /\ entry'.type = entry.type
    BY <2>1, <2>2, EntryGrows
  <2>5. QED
    BY <2>1, <2>3, <2>4
<1>5. ASSUME NEW t \in LogThreads, EndLog(t) PROVE LogInv'
  <2>1. /\ logMutex = t /\ t # Nobody /\ Whole(entry) /\ entry # NoEntry
    BY <1>5, LogAssumption DEF EndLog, Whole, LogEntries
  <2>2. /\ logged' = Append(logged, entry) /\ entry' = NoEntry /\ logMutex' = Nobody
        /\ logPc' = [logPc EXCEPT ![t] = "idle"] /\ UNCHANGED logType
    BY <1>5, <2>1 DEF EndLog, LogEntry, CreateLogEntry, DeleteLogEntry, LogUnlock
  <2>3. /\ logged' \in Seq(LogEntries) /\ Len(logged') = Len(logged) + 1
        /\ \A n \in 1..Len(logged) : logged'[n] = logged[n]
        /\ logged'[Len(logged) + 1] = entry /\ Len(logged) \in Nat
    BY <2>1, <2>2, AppendProperties, LenProperties DEF Whole
  <2>4. \A n \in 1..Len(logged') : Whole(logged'[n])
    BY <2>1, <2>3
  <2>5. QED
    BY <2>1, <2>2, <2>3, <2>4, LogAssumption
<1>6. CASE UNCHANGED logVars
  BY <1>6 DEF logVars
<1>7. QED
  BY <1>1, <1>2, <1>3, <1>4, <1>5, <1>6 DEF LogNext

\* Whatever the threads log at the same time, an entry of the log is what one thread
\* wrote.
THEOREM LogWhole == LogSpec => []LogEntriesWhole
<1>1. LogInit => LogInv
  BY LogInitInv
<1>2. LogInv /\ [LogNext]_logVars => LogInv'
  BY LogStep
<1>3. LogInv => LogEntriesWhole
  <2> SUFFICES ASSUME LogInv PROVE LogEntriesWhole
    OBVIOUS
  <2>1. ASSUME NEW e \in ToSet(logged)
        PROVE  /\ e.name \in LogThreads
               /\ Len(e.items) = IF e.count < LogSize THEN e.count ELSE LogSize
               /\ \A n \in 1..Len(e.items) : e.items[n] = <<e.name, n>>
    <3>1. PICK n \in 1..Len(logged) : e = logged[n]
      BY LenProperties DEF LogInv, ToSet
    <3>2. Whole(e)
      BY <3>1 DEF LogInv
    <3>3. QED
      BY <3>2 DEF Whole, LogEntries
  <2>2. ASSUME NEW t \in LogThreads, logPc[t] = "begun"
        PROVE  logMutex = t /\ entry # NoEntry /\ entry.name = t /\ entry.type = logType[t]
    <3>1. logMutex = t /\ t # Nobody
      BY <2>2, LogAssumption DEF LogInv
    <3>2. Whole(entry) /\ entry.name = t /\ entry.type = logType[t]
      BY <3>1 DEF LogInv
    <3>3. QED
      BY <3>1, <3>2, LogAssumption DEF Whole, LogEntries
  <2>3. QED
    BY <2>1, <2>2 DEF LogEntriesWhole
<1>4. QED
  BY <1>1, <1>2, <1>3, PTL DEF LogSpec

-----------------------------------------------------------------------------
\* The calls of the setters of the client.
Calls == {c \in [thread : OtherThreads \cup {ClientThread}, setter : Setters,
                 value : Addresses \cup {NoAddress} \cup Communities \cup Timeouts,
                 place : Nat] : c.value \in Values(c.setter)}

\* The calls in a line are some calls in another order, that of the callers.
Reorders(line, calls) ==
    /\ line \in Seq(Calls) /\ Len(line) = Len(calls)
    /\ \A i \in 1..Len(line) :
          line[i].place \in 1..Len(calls) /\ line[i] = calls[line[i].place]
    /\ \A n \in 1..Len(calls) : \E i \in 1..Len(line) : line[i] = calls[n]
    /\ InCallersOrder(line)

ClientInv ==
    /\ called \in Seq(Calls) /\ applied \in Seq(Calls) /\ posted \in Seq(Calls)
    /\ \A n \in 1..Len(called) : called[n].place = n
    /\ Reorders(applied \o posted, called)
    /\ \A i \in 1..Len(posted) : posted[i].thread # ClientThread
    /\ IsLastSaid(applied, m_agent_address, "setAgentAddress", NoAddress)
    /\ IsLastSaid(applied, m_community, "setCommunity", DefaultCommunity)
    /\ IsLastSaid(applied, interval, "setReponseTimeout", DefaultTimeout)

LEMMA ClientInitInv == ClientInit => ClientInv
<1> SUFFICES ASSUME ClientInit PROVE ClientInv
  OBVIOUS
<1>1. <<>> \in Seq(Calls) /\ Len(<<>>) = 0 /\ <<>> \o <<>> = <<>>
  BY EmptySeq, ConcatEmptySeq
<1>2. Reorders(<<>>, <<>>)
  BY <1>1 DEF Reorders, InCallersOrder
<1>3. QED
  BY <1>1, <1>2 DEF ClientInit, ClientInv, IsLastSaid, None

\* A call that is made may take a place before ones that other threads made.
LEMMA CallEnters ==
    ASSUME NEW calls \in Seq(Calls), NEW p \in Seq(Calls), NEW q \in Seq(Calls),
           NEW call \in Calls, call.place = Len(calls) + 1,
           \A n \in 1..Len(calls) : calls[n].place = n,
           Reorders(p \o q, calls),
           \A i \in 1..Len(q) : q[i].thread # call.thread
    PROVE  Reorders(Append(p, call) \o q, Append(calls, call))
<1> DEFINE line == p \o q
           new == Append(p, call) \o q
           k == Len(p)
           n == Len(line)
           more == Append(calls, call)
<1>1. /\ k \in Nat /\ Len(q) \in Nat /\ n \in Nat /\ n = k + Len(q) /\ Len(calls) = n
      /\ line \in Seq(Calls)
      /\ \A i \in 1..n : line[i] = IF i <= k THEN p[i] ELSE q[i - k]
  BY ConcatProperties, LenProperties DEF Reorders
<1>2. /\ Append(p, call) \in Seq(Calls) /\ Len(Append(p, call)) = k + 1
      /\ \A i \in 1..k : Append(p, call)[i] = p[i]
      /\ Append(p, call)[k + 1] = call
  BY <1>1, AppendProperties
<1>3. /\ new \in Seq(Calls) /\ Len(new) = n + 1
      /\ \A i \in 1..Len(new) :
            new[i] = IF i <= k + 1 THEN Append(p, call)[i] ELSE q[i - (k + 1)]
  BY <1>1, <1>2, ConcatProperties
<1>4. /\ more \in Seq(Calls) /\ Len(more) = n + 1
      /\ \A i \in 1..n : more[i] = calls[i]
      /\ more[n + 1] = call
  BY <1>1, AppendProperties
<1>5. /\ \A i \in 1..k : new[i] = line[i]
      /\ new[k + 1] = call
      /\ \A i \in k + 2..n + 1 : new[i] = line[i - 1] /\ line[i - 1].thread # call.thread
  <2>1. ASSUME NEW i \in 1..k PROVE new[i] = line[i]
    BY <1>1, <1>2, <1>3
  <2>2. new[k + 1] = call
    BY <1>1, <1>2, <1>3
  <2>3. ASSUME NEW i \in k + 2..n + 1
        PROVE  new[i] = line[i - 1] /\ line[i - 1].thread # call.thread
    <3>1. i \in 1..n + 1 /\ ~(i <= k + 1) /\ i - 1 \in 1..n /\ ~(i - 1 <= k)
          /\ i - (k + 1) = (i - 1) - k /\ (i - 1) - k \in 1..Len(q)
      BY <1>1
    <3>2. new[i] = q[i - (k + 1)] /\ line[i - 1] = q[(i - 1) - k]
      BY <1>1, <1>3, <3>1
    <3>3. QED
      BY <3>1, <3>2
  <2>4. QED
    BY <2>1, <2>2, <2>3
<1> HIDE DEF line, new, k, n, more
<1>6. ASSUME NEW i \in 1..Len(new)
      PROVE  new[i].place \in 1..Len(more) /\ new[i] = more[new[i].place]
  <2>1. i \in 1..k \/ i = k + 1 \/ (i \in k + 2..n + 1 /\ i - 1 \in 1..n)
    BY <1>1, <1>3
  <2>2. \A m \in 1..n : line[m].place \in 1..n /\ line[m] = calls[line[m].place]
    BY <1>1 DEF Reorders, line
  <2>3. CASE i \in 1..k
    <3>1. i \in 1..n /\ new[i] = line[i]
      BY <1>1, <1>5, <2>3
    <3>2. line[i].place \in 1..n /\ line[i] = calls[line[i].place]
      BY <2>2, <3>1
    <3>3. more[line[i].place] = calls[line[i].place] /\ line[i].place \in 1..Len(more)
      BY <1>1, <1>4, <3>2
    <3>4. QED
      BY <3>1, <3>2, <3>3
  <2>4. CASE i = k + 1
    BY <1>1, <1>4, <1>5, <2>4
  <2>5. CASE i \in k + 2..n + 1 /\ i - 1 \in 1..n
    BY <1>1, <1>4, <1>5, <2>2, <2>5
  <2>6. QED
    BY <2>1, <2>3, <2>4, <2>5
<1>7. ASSUME NEW m \in 1..Len(more) PROVE \E i \in 1..Len(new) : new[i] = more[m]
  <2>1. CASE m = n + 1
    <3>1. k + 1 \in 1..Len(new) /\ new[k + 1] = more[m]
      BY <1>1, <1>3, <1>4, <1>5, <2>1
    <3>2. QED
      BY <3>1
  <2>2. CASE m \in 1..n
    <3>1. PICK j \in 1..n : line[j] = calls[m]
      BY <1>1, <2>2 DEF Reorders, line
    <3>2. CASE j <= k
      BY <1>1, <1>3, <1>4, <1>5, <2>2, <3>1, <3>2
    <3>3. CASE j > k
      <4>1. j + 1 \in k + 2..n + 1 /\ j + 1 \in 1..Len(new) /\ (j + 1) - 1 = j
        BY <1>1, <1>3, <3>3
      <4>2. QED
        BY <1>4, <1>5, <2>2, <3>1, <4>1
    <3>4. QED
      BY <1>1, <3>2, <3>3
  <2>3. QED
    BY <1>1, <1>4, <2>1, <2>2
<1>8. ASSUME NEW i \in 1..Len(new), NEW j \in 1..Len(new), i < j,
             new[i].thread = new[j].thread
      PROVE  new[i].place < new[j].place
  <2>1. \A a, b \in 1..n : a < b /\ line[a].thread = line[b].thread
                            => line[a].place < line[b].place
    BY <1>1 DEF Reorders, InCallersOrder, line
  <2>2. \A a \in 1..n : line[a].place \in 1..n
    BY <1>1 DEF Reorders, line
  <2>3. CASE j <= k
    <3>1. i \in 1..k /\ j \in 1..k /\ i \in 1..n /\ j \in 1..n
      BY <1>1, <1>3, <1>8, <2>3
    <3>2. new[i] = line[i] /\ new[j] = line[j]
      BY <1>5, <3>1
    <3>3. QED
      BY <1>8, <2>1, <3>1, <3>2
  <2>4. CASE j = k + 1
    <3>1. i \in 1..k /\ i \in 1..n
      BY <1>1, <1>3, <1>8, <2>4
    <3>2. QED
      BY <1>1, <1>5, <2>2, <2>4, <3>1
  <2>5. CASE j > k + 1
    <3>1. j \in k + 2..n + 1 /\ j - 1 \in 1..n /\ new[j] = line[j - 1]
      BY <1>1, <1>3, <1>5, <2>5
    <3>2. i # k + 1
      BY <1>5, <1>8, <3>1
    <3>3. CASE i <= k
      <4>1. i \in 1..k /\ i \in 1..n /\ i < j - 1
        BY <1>1, <1>3, <3>1, <3>3
      <4>2. new[i] = line[i]
        BY <1>5, <4>1
      <4>3. QED
        BY <1>8, <2>1, <3>1, <4>1, <4>2
    <3>4. CASE i > k + 1
      <4>1. i \in k + 2..n + 1 /\ i - 1 \in 1..n /\ new[i] = line[i - 1] /\ i - 1 < j - 1
        BY <1>1, <1>3, <1>5, <1>8, <3>4
      <4>2. QED
        BY <1>8, <2>1, <3>1, <4>1
    <3>5. QED
      BY <1>1, <1>3, <3>2, <3>3, <3>4
  <2>6. QED
    BY <1>1, <1>3, <2>3, <2>4, <2>5
<1>9. Reorders(new, more)
  BY <1>3, <1>4, <1>6, <1>7, <1>8 DEF Reorders, InCallersOrder
<1>10. QED
  BY <1>9 DEF new, more

\* A setting that takes what a call says is what the last call said, then too.
LEMMA SettingFollows ==
    ASSUME NEW calls \in Seq(Calls), NEW call \in Calls, NEW before, NEW after,
           NEW setter, NEW default, IsLastSaid(calls, before, setter, default),
           after = IF Says(call, setter) THEN call.value ELSE before
    PROVE  IsLastSaid(Append(calls, call), after, setter, default)
<1> DEFINE more == Append(calls, call)
           n == Len(calls)
<1>1. /\ n \in Nat /\ Len(more) = n + 1 /\ more[n + 1] = call
      /\ \A i \in 1..n : more[i] = calls[i]
  BY AppendProperties, LenProperties
<1> HIDE DEF more, n
<1>2. CASE Says(call, setter)
  <2>1. /\ n + 1 \in 1..Len(more) /\ Says(more[n + 1], setter)
        /\ after = more[n + 1].value
        /\ \A j \in n + 1 + 1..Len(more) : ~Says(more[j], setter)
    BY <1>1, <1>2
  <2>2. IsLastSaid(more, after, setter, default)
    BY <2>1 DEF IsLastSaid
  <2>3. QED
    BY <2>2 DEF more
<1>3. CASE ~Says(call, setter)
  <2>1. after = before /\ ~Says(more[n + 1], setter)
    BY <1>1, <1>3
  <2>2. CASE (\A i \in 1..n : ~Says(calls[i], setter)) /\ before = default
    <3>1. \A i \in 1..Len(more) : i = n + 1 \/ i \in 1..n
      BY <1>1
    <3>2. \A i \in 1..Len(more) : ~Says(more[i], setter)
      BY <1>1, <2>1, <2>2, <3>1
    <3>3. IsLastSaid(more, after, setter, default)
      BY <2>1, <2>2, <3>2 DEF IsLastSaid
    <3>4. QED
      BY <3>3 DEF more
  <2>3. ASSUME NEW i \in 1..n, Says(calls[i], setter), before = calls[i].value,
               \A j \in i + 1..n : ~Says(calls[j], setter)
        PROVE  IsLastSaid(more, after, setter, default)
    <3>1. i \in 1..Len(more) /\ Says(more[i], setter) /\ after = more[i].value
      BY <1>1, <2>1, <2>3
    <3>2. ASSUME NEW j \in i + 1..Len(more) PROVE ~Says(more[j], setter)
      <4>1. j = n + 1 \/ (j \in 1..n /\ j \in i + 1..n)
        BY <1>1
      <4>2. QED
        BY <1>1, <2>1, <2>3, <4>1
    <3>3. QED
      BY <3>1, <3>2 DEF IsLastSaid
  <2>4. QED
    BY <2>2, <2>3 DEF IsLastSaid, more, n
<1>4. QED
  BY <1>2, <1>3

\* A call that is carried out.
LEMMA Applies ==
    ASSUME ClientInv, NEW call \in Calls, Apply(call)
    PROVE  /\ applied' = Append(applied, call) /\ applied' \in Seq(Calls)
           /\ IsLastSaid(applied', m_agent_address', "setAgentAddress", NoAddress)
           /\ IsLastSaid(applied', m_community', "setCommunity", DefaultCommunity)
           /\ IsLastSaid(applied', interval', "setReponseTimeout", DefaultTimeout)
<1>1. applied \in Seq(Calls) /\ applied' = Append(applied, call) /\ applied' \in Seq(Calls)
  BY AppendProperties DEF ClientInv, Apply
<1>2. /\ m_agent_address' = IF Says(call, "setAgentAddress") THEN call.value ELSE m_agent_address
      /\ m_community' = IF Says(call, "setCommunity") THEN call.value ELSE m_community
      /\ interval' = IF Says(call, "setReponseTimeout") THEN call.value ELSE interval
  BY ClientAssumption
     DEF Apply, SetAddress, SetCommunity, SetResponseTimeout, Says, Calls, Setters, Values
<1>3. QED
  BY <1>1, <1>2, SettingFollows DEF ClientInv

LEMMA ClientStep == ASSUME ClientInv, [ClientNext]_clientVars PROVE ClientInv'
<1>1. ASSUME NEW thread \in OtherThreads \cup {ClientThread}, NEW setter \in Setters,
             NEW value \in Values(setter), CallSetter(thread, setter, value)
      PROVE  ClientInv'
  <2> DEFINE call == [thread |-> thread, setter |-> setter, value |-> value,
                      place |-> Len(called) + 1]
  <2>1. /\ called \in Seq(Calls) /\ applied \in Seq(Calls) /\ posted \in Seq(Calls)
        /\ Len(called) \in Nat /\ Len(posted) \in Nat
    BY LenProperties DEF ClientInv
  <2>2. call \in Calls
    BY <2>1 DEF Calls, Setters, Values
  <2>3. /\ called' = Append(called, call) /\ UNCHANGED <<works, datagram>>
        /\ IF thread = ClientThread THEN Apply(call) /\ UNCHANGED posted
           ELSE InQObjectThread(call)
    BY <1>1 DEF CallSetter
  <2>4. call.place = Len(called) + 1 /\ call.thread = thread
    OBVIOUS
  <2> HIDE DEF call
  <2>5. called' \in Seq(Calls) /\ \A n \in 1..Len(called') : called'[n].place = n
    <3>1. /\ called' \in Seq(Calls) /\ Len(called') = Len(called) + 1
          /\ \A n \in 1..Len(called) : called'[n] = called[n]
          /\ called'[Len(called) + 1] = call
      BY <2>1, <2>2, <2>3, AppendProperties
    <3>2. \A n \in 1..Len(called') : n \in 1..Len(called) \/ n = Len(called) + 1
      BY <2>1, <3>1
    <3>3. QED
      BY <2>4, <3>1, <3>2 DEF ClientInv
  <2>6. CASE thread = ClientThread
    <3>1. Apply(call) /\ posted' = posted
      BY <2>3, <2>6
    <3>2. \A i \in 1..Len(posted) : posted[i].thread # call.thread
      BY <2>4, <2>6 DEF ClientInv
    <3>3. Reorders(Append(applied, call) \o posted, Append(called, call))
      BY <2>1, <2>2, <2>4, <3>2, CallEnters DEF ClientInv
    <3>4. /\ applied' = Append(applied, call) /\ applied' \in Seq(Calls)
          /\ IsLastSaid(applied, m_agent_address, "setAgentAddress", NoAddress)'
          /\ IsLastSaid(applied, m_community, "setCommunity", DefaultCommunity)'
          /\ IsLastSaid(applied, interval, "setReponseTimeout", DefaultTimeout)'
      BY <2>2, <3>1, Applies
    <3>5. Reorders(applied \o posted, called)'
      BY <2>3, <3>1, <3>3, <3>4
    <3>6. QED
      BY <2>1, <2>3, <2>5, <3>1, <3>4, <3>5 DEF ClientInv
  <2>7. CASE thread # ClientThread
    <3>1. /\ posted' = Append(posted, call)
          /\ UNCHANGED <<m_agent_address, m_community, interval, applied>>
      BY <2>3, <2>7 DEF InQObjectThread
    <3>2. /\ posted' \in Seq(Calls) /\ Len(posted') = Len(posted) + 1
          /\ \A i \in 1..Len(posted) : posted'[i] = posted[i]
          /\ posted'[Len(posted) + 1] = call
      BY <2>1, <2>2, <3>1, AppendProperties
    <3>3. \A i \in 1..Len(posted') : posted'[i].thread # ClientThread
      <4>1. \A i \in 1..Len(posted') : i \in 1..Len(posted) \/ i = Len(posted) + 1
        BY <2>1, <3>2
      <4>2. QED
        BY <2>4, <2>7, <3>2, <4>1 DEF ClientInv
    <3>4. Reorders(applied \o posted, called)'
      <4>1. /\ <<>> \in Seq(Calls) /\ Len(<<>>) = 0 /\ applied \o posted \in Seq(Calls)
        BY <2>1, EmptySeq, ConcatProperties
      <4>2. (applied \o posted) \o <<>> = applied \o posted
        BY <4>1, ConcatEmptySeq
      <4>3. Append(applied \o posted, call) \in Seq(Calls)
        BY <2>2, <4>1, AppendProperties
      <4>4. Reorders(Append(applied \o posted, call) \o <<>>, Append(called, call))
        <5>1. \A i \in 1..Len(<<>>) : <<>>[i].thread # call.thread
          BY <4>1
        <5>2. /\ Reorders((applied \o posted) \o <<>>, called)
              /\ \A n \in 1..Len(called) : called[n].place = n
          BY <4>2 DEF ClientInv
        <5> DEFINE line == applied \o posted
        <5>3. line \in Seq(Calls) /\ Reorders(line \o <<>>, called)
          BY <4>1, <5>2
        <5> HIDE DEF line
        <5>4. Reorders(Append(line, call) \o <<>>, Append(called, call))
          BY <2>1, <2>2, <2>4, <4>1, <5>1, <5>2, <5>3, CallEnters
        <5>5. QED
          BY <5>4 DEF line
      <4>5. Append(applied \o posted, call) \o <<>> = Append(applied \o posted, call)
        BY <4>3, ConcatEmptySeq
      <4>6. applied \o Append(posted, call) = Append(applied \o posted, call)
        BY <2>1, <2>2, ConcatAssociative, AppendIsConcat, ConcatProperties
      <4>7. QED
        BY <2>3, <3>1, <4>4, <4>5, <4>6
    <3>5. QED
      BY <2>1, <2>3, <2>5, <3>1, <3>2, <3>3, <3>4 DEF ClientInv
  <2>8. QED
    BY <2>6, <2>7
<1>2. ASSUME Deliver PROVE ClientInv'
  <2>1. /\ called \in Seq(Calls) /\ applied \in Seq(Calls) /\ posted \in Seq(Calls)
        /\ posted # <<>> /\ posted' = Tail(posted) /\ Apply(Head(posted))
        /\ UNCHANGED <<works, datagram, called>>
    BY <1>2 DEF ClientInv, Deliver
  <2>2. /\ Head(posted) \in Calls /\ Tail(posted) \in Seq(Calls)
        /\ Len(Tail(posted)) = Len(posted) - 1 /\ Len(posted) \in Nat
        /\ \A i \in 1..Len(Tail(posted)) : Tail(posted)[i] = posted[i + 1]
    BY <2>1, HeadTailProperties, LenProperties
  <2>3. \A i \in 1..Len(posted') : posted'[i].thread # ClientThread
    <3>1. \A i \in 1..Len(posted') : i + 1 \in 1..Len(posted) /\ posted'[i] = posted[i + 1]
      BY <2>1, <2>2
    <3>2. QED
      BY <3>1 DEF ClientInv
  <2>4. /\ applied' = Append(applied, Head(posted)) /\ applied' \in Seq(Calls)
        /\ IsLastSaid(applied, m_agent_address, "setAgentAddress", NoAddress)'
        /\ IsLastSaid(applied, m_community, "setCommunity", DefaultCommunity)'
        /\ IsLastSaid(applied, interval, "setReponseTimeout", DefaultTimeout)'
    BY <2>1, <2>2, Applies
  <2>5. applied' \o posted' = applied \o posted
    <3>1. applied' = applied \o <<Head(posted)>> /\ <<Head(posted)>> \in Seq(Calls)
      BY <2>1, <2>2, <2>4, AppendIsConcat
    <3>2. posted = <<Head(posted)>> \o Tail(posted)
      BY <2>1, HeadTailProperties
    <3>3. QED
      BY <2>1, <2>2, <3>1, <3>2, ConcatAssociative
  <2>6. QED
    BY <2>1, <2>2, <2>3, <2>4, <2>5 DEF ClientInv
<1>3. ASSUME NEW job \in WorkJobs, Request(job) PROVE ClientInv'
  BY <1>3 DEF Request, ClientInv
<1>4. ASSUME NEW thread \in OtherThreads, RequestElsewhere(thread) PROVE ClientInv'
  BY <1>4 DEF RequestElsewhere, clientVars, ClientInv
<1>5. CASE WorkEnds
  BY <1>5 DEF WorkEnds, ClientInv
<1>6. CASE UNCHANGED clientVars
  BY <1>6 DEF clientVars, ClientInv
<1>7. QED
  BY <1>1, <1>2, <1>3, <1>4, <1>5, <1>6 DEF ClientNext

\* Whoever calls the setters, every call is carried out once and in the order of its
\* caller, and the settings follow.
THEOREM CallsKept == ClientSpec => []CallsCarriedOut
<1>1. ClientInit => ClientInv
  BY ClientInitInv
<1>2. ClientInv /\ [ClientNext]_clientVars => ClientInv'
  BY ClientStep
<1>3. ASSUME ClientInv PROVE CallsCarriedOut
  <2> DEFINE line == applied \o posted
  <2>1. /\ line \in Seq(Calls) /\ Len(line) = Len(called) /\ InCallersOrder(line)
        /\ called \in Seq(Calls) /\ posted \in Seq(Calls)
    BY <1>3 DEF ClientInv, Reorders
  <2>2. ToSet(line) = ToSet(called)
    <3>1. /\ \A i \in 1..Len(line) : \E n \in 1..Len(called) : line[i] = called[n]
          /\ \A n \in 1..Len(called) : \E i \in 1..Len(line) : line[i] = called[n]
      BY <1>3 DEF ClientInv, Reorders
    <3>2. /\ ToSet(line) = {line[i] : i \in 1..Len(line)}
          /\ ToSet(called) = {called[i] : i \in 1..Len(called)}
      BY <2>1, LenProperties DEF ToSet
    <3> HIDE DEF line
    <3>3. QED
      BY <3>1, <3>2
  <2>3. \A call \in ToSet(posted) : call.thread # ClientThread
    BY <1>3, <2>1, LenProperties DEF ClientInv, ToSet
  <2>4. QED
    BY <1>3, <2>1, <2>2, <2>3 DEF CallsCarriedOut, ClientInv
<1>4. QED
  BY <1>1, <1>2, <1>3, PTL DEF ClientSpec

-----------------------------------------------------------------------------
\* The objects of a request.
LEMMA NoValueIsNone == \A o \in Objects : o # NoValue
BY DEF Objects, Classes, Numbers, Derived, Strings, NoValue

\* A value that ValuesInv would accept is sound, and so is what is shown of it.
LEMMA GoodIsSound == ASSUME NEW o, Good(o) PROVE Sound(o)
<1>1. o.class \in Classes /\ Syntax(o) = sNMP_SYNTAX[o.class]
  BY Syntaxes DEF Good, Objects
<1>2. QED
  BY <1>1 DEF Sound, Good, Fits

LEMMA PrintedKeeps ==
    ASSUME NEW o, Good(o)
    PROVE  Good(Printed(o)) /\ Printed(o).class = o.class
<1>1. Good(Printed(o))
  BY PrintedIsGood
<1>2. Printed(o) = (IF o.changed THEN FormatOutput(o) ELSE o)
  BY DEF Printed, IpPrintable, UdpPrintable
<1>3. QED
  BY <1>1, <1>2 DEF FormatOutput, Good, Objects

-----------------------------------------------------------------------------
\* A variable holds an identifier, and a value or an exception.
Oids == {o \in Objects : IsOid(o)}
GoodOnes == {o \in Objects : Good(o)}
Vbs ==
    {vb \in [iv_vb_oid : Oids, iv_vb_value : {NoValue} \cup GoodOnes, exception_status : Int] :
        vb.iv_vb_value = NoValue \/ vb.exception_status = 0}

LEMMA VbIsSound == ASSUME NEW vb \in Vbs PROVE SoundVb(vb)
BY GoodIsSound DEF SoundVb, Vbs, Oids, GoodOnes, IsOid, SNMP_CLASS_SUCCESS

LEMMA NewVb == ASSUME NEW oid, IsOid(oid) PROVE Vb(oid) \in Vbs
BY OidFacts DEF Vb, Vbs, Oids, SNMP_CLASS_SUCCESS

\* What is done to a variable.
LEMMA VbChanged ==
    ASSUME NEW vb \in Vbs
    PROVE  /\ FreeVb(vb) \in Vbs /\ ClearVb(vb) \in Vbs /\ VbPrintableOid(vb) \in Vbs
           /\ \A oid : IsOid(oid) => SetVbOid(vb, oid) \in Vbs
           /\ \A status \in Int : SetVbException(vb, status) \in Vbs
           /\ \A value : Good(value) => [FreeVb(vb) EXCEPT !.iv_vb_value = value] \in Vbs
<1> DEFINE free == FreeVb(vb)
           id == vb.iv_vb_oid
<1>1. /\ free \in Vbs /\ free.iv_vb_oid = id /\ free.iv_vb_value = NoValue
      /\ free.exception_status = 0 /\ IsOid(id)
  <2> DEFINE w == [vb EXCEPT !.iv_vb_value = NoValue]
             Record == [iv_vb_oid : Oids, iv_vb_value : {NoValue} \cup GoodOnes,
                        exception_status : Int]
  <2>1. vb \in Record
    BY DEF Vbs
  <2>2. w \in Record /\ w.iv_vb_oid = id /\ w.iv_vb_value = NoValue
    BY <2>1
  <2>3. free = [w EXCEPT !.exception_status = 0]
    BY DEF FreeVb, SNMP_CLASS_SUCCESS
  <2> HIDE DEF w, free
  <2>4. /\ free \in Record /\ free.iv_vb_oid = id /\ free.iv_vb_value = NoValue
        /\ free.exception_status = 0
    BY <2>2, <2>3
  <2>5. IsOid(id)
    BY <2>1 DEF Oids
  <2>6. QED
    BY <2>4, <2>5 DEF Vbs
<1>2. ASSUME NEW w \in Vbs, NEW oid, IsOid(oid) PROVE [w EXCEPT !.iv_vb_oid = oid] \in Vbs
  BY <1>2, OidFacts DEF Vbs, Oids
<1>3. ClearVb(vb) = [free EXCEPT !.iv_vb_oid = OidClear(id)] /\ IsOid(OidClear(id))
  BY <1>1, OidEmptied DEF ClearVb
<1>4. VbPrintableOid(vb) = [vb EXCEPT !.iv_vb_oid = Printed(id)] /\ IsOid(Printed(id))
  BY <1>1, PrintedKeeps DEF VbPrintableOid, IsOid
<1>5. \A oid : IsOid(oid) =>
         /\ SetVbOid(vb, oid) = [vb EXCEPT !.iv_vb_oid = OidAssign(id, oid)]
         /\ IsOid(OidAssign(id, oid))
  BY <1>1, OidAssigned DEF SetVbOid
<1>6. ASSUME NEW status \in Int PROVE SetVbException(vb, status) \in Vbs
  <2> HIDE DEF free
  <2>1. [free EXCEPT !.exception_status = status] \in Vbs
    BY <1>1 DEF Vbs
  <2>2. QED
    BY <2>1 DEF SetVbException, free
<1>7. ASSUME NEW value, Good(value) PROVE [free EXCEPT !.iv_vb_value = value] \in Vbs
  <2> HIDE DEF free
  <2>1. value \in GoodOnes
    BY <1>7 DEF Good, GoodOnes
  <2>2. QED
    BY <1>1, <2>1 DEF Vbs
<1> HIDE DEF free, id
<1>8. QED
  BY <1>1, <1>2, <1>3, <1>4, <1>5, <1>6, <1>7 DEF free

\* What is read of a variable.
LEMMA VbGiven ==
    ASSUME NEW vb \in Vbs
    PROVE  /\ IsOid(GetVbOid(vb, Oid(<<>>)))
           /\ CloneVbValue(vb) # NoValue => Good(CloneVbValue(vb))
<1>1. IsOid(vb.iv_vb_oid) /\ IsOid(Oid(<<>>))
  BY ShortOids DEF Vbs, Oids, IsOid, Oid, Object
<1>2. vb.iv_vb_value # NoValue => Good(vb.iv_vb_value)
  BY DEF Vbs, GoodOnes
<1>3. QED
  BY <1>1, <1>2, OidAssigned, ClonedIsGood DEF GetVbOid, CloneVbValue

-----------------------------------------------------------------------------
\* An address of any family, or none.
AddressObjects == {o \in Objects : IsAddress(o)}
GenAddresses ==
    {gen \in [address : {NoValue} \cup AddressObjects, valid_flag : BOOLEAN] :
        gen.valid_flag => gen.address # NoValue}

LEMMA GenIsSound == ASSUME NEW gen \in GenAddresses PROVE SoundGen(gen)
<1> DEFINE a == gen.address
<1>1. CASE a = NoValue
  BY <1>1 DEF SoundGen, GenAddresses, GenType, GenSyntax, GenLength, GenAsn1Length
<1>2. CASE a # NoValue
  <2>1. Good(a) /\ a.class \in {"IpAddress", "UdpAddress"} /\ a.value[1] \in {4, 6, 7}
    BY <1>2, AddressFacts DEF GenAddresses, AddressObjects, IsAddress, Families
  <2>2. Sound(a)
    BY <2>1, GoodIsSound
  <2>3. GenSyntax(gen) \in {4, 64}
    BY <1>2, <2>1 DEF GenSyntax, Syntax, IpSyntax, UdpSyntax
  <2>4. IpLength(a) \in {4, 16, 20} /\ UdpLength(a) \in {6, 18, 22}
    BY <2>1 DEF IpLength, UdpLength
  <2>5. GenLength(gen) \in Nat \ {0} /\ GenAsn1Length(gen) = GenLength(gen) + 2
    BY <1>2, <2>1, <2>4 DEF GenLength, GenAsn1Length, Asn1Length
  <2>6. QED
    BY <1>2, <2>2, <2>3, <2>5 DEF SoundGen
<1>3. QED
  BY <1>1, <1>2

\* An address that is made of another one, shown, cleared.
LEMMA GenMade ==
    /\ EmptyGenAddress \in GenAddresses
    /\ \A a : IsAddress(a) => GenAddress(a) \in GenAddresses
    /\ \A gen \in GenAddresses :
          /\ GenPrintable(gen) \in GenAddresses /\ GenClear(gen) \in GenAddresses
          /\ gen.valid_flag => IsAddress(CastAddress(gen))
<1>1. EmptyGenAddress \in GenAddresses
  BY DEF EmptyGenAddress, GenAddresses
<1>2. ASSUME NEW a, IsAddress(a) PROVE GenAddress(a) \in GenAddresses
  <2>1. IsAddress(AddressCopied(a)) /\ a.valid \in BOOLEAN
    BY <1>2, AddressChanged, AddressFacts
  <2>2. Cloned(a) = AddressCopied(a)
    BY <1>2 DEF IsAddress, Cloned, IpClone, UdpClone
  <2>3. Cloned(a) \in AddressObjects /\ Cloned(a) # NoValue
    BY <2>1, <2>2, AddressFacts, NoValueIsNone DEF AddressObjects
  <2>4. QED
    BY <2>1, <2>3 DEF GenAddress, GenAddresses
<1>3. ASSUME NEW gen \in GenAddresses
      PROVE  /\ GenPrintable(gen) \in GenAddresses /\ GenClear(gen) \in GenAddresses
             /\ gen.valid_flag => IsAddress(CastAddress(gen))
  <2>1. CASE gen.address = NoValue
    BY <2>1 DEF GenPrintable, GenClear, GenAddresses, CastAddress
  <2>2. CASE gen.address # NoValue
    <3>1. IsAddress(gen.address)
      BY <2>2 DEF GenAddresses, AddressObjects
    <3>2. IsAddress(Printed(gen.address)) /\ IsAddress(AddressClear(gen.address))
      BY <3>1, PrintedKeeps, AddressChanged DEF IsAddress
    <3>3. \A b : IsAddress(b) => b \in AddressObjects /\ b # NoValue
      BY AddressFacts, NoValueIsNone DEF AddressObjects
    <3>4. \A b : IsAddress(b) => [gen EXCEPT !.address = b] \in GenAddresses
      BY <3>3 DEF GenAddresses
    <3>5. /\ GenPrintable(gen) = [gen EXCEPT !.address = Printed(gen.address)]
          /\ GenClear(gen) = [gen EXCEPT !.address = AddressClear(gen.address)]
      BY <2>2 DEF GenPrintable, GenClear, GenAddresses
    <3>6. QED
      BY <3>1, <3>2, <3>4, <3>5 DEF CastAddress
  <2>3. QED
    BY <2>1, <2>2
<1>4. QED
  BY <1>1, <1>2, <1>3

-----------------------------------------------------------------------------
\* A request: each of its parts.
PduFields == PduNumbers \cup PduNotify \cup PduContext \cup {"vbs", "notify_timestamp"}
IsText(o) == Good(o) /\ o.class = "OctetStr"
IsTime(o) == Good(o) /\ o.class = "TimeTicks"
IsPart(f, v) ==
    /\ f \in PduNotify => IsOid(v)
    /\ f \in PduContext => IsText(v)
    /\ f = "vbs" => v \in Seq(Vbs)
    /\ f = "notify_timestamp" => IsTime(v)
IsPdu(pdu) ==
    /\ DOMAIN pdu = PduFields /\ pdu = [f \in DOMAIN pdu |-> pdu[f]]
    /\ \A f \in PduFields : IsPart(f, pdu[f])

LEMMA PduNames ==
    /\ \A f \in PduNotify \cup PduContext : f \notin PduNumbers
    /\ \A f \in PduContext : f \notin PduNotify
    /\ \A f \in PduNumbers \cup PduNotify \cup PduContext : f \notin {"vbs", "notify_timestamp"}
BY DEF PduNumbers, PduHeader, PduMessage, PduNotify, PduContext

LEMMA PduGiven ==
    ASSUME NEW pdu, IsPdu(pdu), NEW x \in PduFields, NEW v, IsPart(x, v)
    PROVE  IsPdu([pdu EXCEPT ![x] = v])
BY DEF IsPdu

\* A number is any part but the others.
LEMMA PduNumbered ==
    ASSUME NEW pdu, IsPdu(pdu), NEW x \in PduNumbers, NEW n
    PROVE  IsPdu([pdu EXCEPT ![x] = n])
BY PduNames, PduGiven DEF IsPart, PduFields

LEMMA NewText == IsText(OctetStr(<<>>)) /\ \A s \in Seq(Int) : IsText(OctetStr(s))
BY NewString, ShortSequences DEF IsText, OctetStr, Object

LEMMA NewTime == \A i \in Int : IsTime(TimeTicksNew(i))
BY NewNumbers DEF IsTime, TimeTicksNew, Relabelled, SnmpUInt32, Object

LEMMA NewPdu == IsPdu(Pdu)
<1> DEFINE numbers == [f \in PduNumbers |-> 0]
           notify == [f \in PduNotify |-> Oid(<<>>)]
           context == [f \in PduContext |-> OctetStr(<<>>)]
           rest == [vbs |-> <<>>, notify_timestamp |-> TimeTicksNew(0)]
<1>1. IsOid(Oid(<<>>)) /\ IsText(OctetStr(<<>>)) /\ IsTime(TimeTicksNew(0))
  BY ShortOids, NewText, NewTime DEF IsOid, Oid, Object
<1>2. <<>> \in Seq(Vbs)
  OBVIOUS
<1>3. DOMAIN numbers = PduNumbers /\ DOMAIN notify = PduNotify /\ DOMAIN context = PduContext
  OBVIOUS
<1>4. /\ DOMAIN rest = {"vbs", "notify_timestamp"}
      /\ rest.vbs = <<>> /\ rest.notify_timestamp = TimeTicksNew(0)
  OBVIOUS
<1>5. /\ \A f \in PduNotify : notify[f] = Oid(<<>>)
      /\ \A f \in PduContext : context[f] = OctetStr(<<>>)
  OBVIOUS
<1>6. Pdu = numbers ++ notify ++ context ++ rest
  BY DEF Pdu
<1> HIDE DEF numbers, notify, context, rest
<1> DEFINE pdu == numbers ++ notify ++ context ++ rest
<1>7. DOMAIN pdu = PduFields /\ pdu = [f \in DOMAIN pdu |-> pdu[f]]
  BY <1>3, <1>4 DEF ++, PduFields
<1>8. \A f \in PduNotify : pdu[f] = Oid(<<>>)
  BY <1>3, <1>4, <1>5, PduNames DEF ++
<1>9. \A f \in PduContext : pdu[f] = OctetStr(<<>>)
  BY <1>3, <1>4, <1>5, PduNames DEF ++
<1>10. pdu.vbs = <<>> /\ pdu.notify_timestamp = TimeTicksNew(0)
  BY <1>3, <1>4, PduNames DEF ++
<1> HIDE DEF pdu
<1>11. ASSUME NEW f \in PduFields PROVE IsPart(f, pdu[f])
  BY <1>1, <1>2, <1>8, <1>9, <1>10 DEF IsPart
<1>12. QED
  BY <1>6, <1>7, <1>11 DEF IsPdu, pdu

\* What is put into a request by its members, and what they give out again.
LEMMA PduChanged ==
    ASSUME NEW pdu, IsPdu(pdu)
    PROVE  /\ \A f \in PduNotify : /\ \A id : IsOid(id) => IsPdu(SetNotify(pdu, f, id))
                                   /\ IsOid(GetNotify(pdu, f, Oid(<<>>)))
           /\ \A f \in PduContext : /\ \A text : IsText(text) => IsPdu(SetContext(pdu, f, text))
                                    /\ IsText(GetContext(pdu, f, OctetStr(<<>>)))
           /\ \A ts : IsTime(ts) => IsPdu(SetTimestamp(pdu, ts))
           /\ IsTime(GetTimestamp(pdu, TimeTicksNew(0)))
<1>1. ASSUME NEW f \in PduNotify
      PROVE  /\ \A id : IsOid(id) => IsPdu(SetNotify(pdu, f, id))
             /\ IsOid(GetNotify(pdu, f, Oid(<<>>)))
  <2>1. f \in PduFields /\ IsOid(pdu[f]) /\ IsOid(Oid(<<>>))
    BY ShortOids DEF IsPdu, IsPart, PduFields, IsOid, Oid, Object
  <2>2. \A id : IsOid(id) => IsOid(OidAssign(pdu[f], id)) /\ IsOid(OidAssign(Oid(<<>>), pdu[f]))
    BY <2>1, OidAssigned
  <2>3. \A v : IsOid(v) => IsPart(f, v)
    BY PduNames DEF IsPart
  <2>4. QED
    BY <2>1, <2>2, <2>3, PduGiven DEF SetNotify, GetNotify, IsPdu
<1>2. ASSUME NEW a, IsText(a), NEW b, IsText(b) PROVE IsText(OctetAssign(a, b))
  <2>1. Good(OctetAssign(a, b))
    BY <1>2, StringMade DEF IsText, Strings
  <2>2. OctetAssign(a, b).class = a.class
    BY <1>2 DEF OctetAssign, Touched, IsText, Good, Objects
  <2>3. QED
    BY <1>2, <2>1, <2>2 DEF IsText
<1>3. ASSUME NEW f \in PduContext
      PROVE  /\ \A text : IsText(text) => IsPdu(SetContext(pdu, f, text))
             /\ IsText(GetContext(pdu, f, OctetStr(<<>>)))
  <2>1. f \in PduFields /\ IsText(pdu[f])
    BY DEF IsPdu, IsPart, PduFields
  <2>2. \A v : IsText(v) => IsPart(f, v)
    BY PduNames DEF IsPart
  <2>3. QED
    BY <1>2, <2>1, <2>2, NewText, PduGiven DEF SetContext, GetContext, IsPdu
<1>4. ASSUME NEW a, IsTime(a), NEW b, IsTime(b) PROVE IsTime(TimeTicksAssign(a, b))
  <2>1. Fits(a.class, b.value, b.valid) /\ a.class # "Counter64" /\ b.class # "Counter64"
    BY <1>4 DEF IsTime, Good, Fits
  <2>2. Good(TimeTicksAssign(a, b))
    BY <1>4, <2>1, AssignKeeps DEF IsTime, TimeTicksAssign
  <2>3. TimeTicksAssign(a, b).class = a.class
    BY <1>4 DEF TimeTicksAssign, Touched, IsTime, Good, Objects
  <2>4. QED
    BY <1>4, <2>2, <2>3 DEF IsTime
<1>5. /\ \A ts : IsTime(ts) => IsPdu(SetTimestamp(pdu, ts))
      /\ IsTime(GetTimestamp(pdu, TimeTicksNew(0)))
  <2>1. "notify_timestamp" \in PduFields /\ IsTime(pdu.notify_timestamp)
    BY DEF IsPdu, IsPart, PduFields
  <2>2. \A v : IsTime(v) => IsPart("notify_timestamp", v)
    BY PduNames DEF IsPart
  <2>3. QED
    BY <1>4, <2>1, <2>2, NewTime, PduGiven DEF SetTimestamp, GetTimestamp, IsPdu
<1>6. QED
  BY <1>1, <1>3, <1>5

\* The variables of a request.
LEMMA PduVbs ==
    ASSUME NEW pdu, IsPdu(pdu)
    PROVE  /\ \A vb \in Vbs : IsPdu(AddVb(pdu, vb))
           /\ \A n \in 1..GetVbCount(pdu) :
                 GetVb(pdu, n - 1) \in Vbs /\ \A vb \in Vbs : IsPdu(PutVb(pdu, n - 1, vb))
<1> DEFINE vbs == pdu.vbs
<1>1. "vbs" \in PduFields /\ vbs \in Seq(Vbs) /\ Len(vbs) \in Nat
  BY LenProperties DEF IsPdu, IsPart, PduFields
<1>2. \A v \in Seq(Vbs) : IsPart("vbs", v)
  BY PduNames DEF IsPart
<1>3. \A v \in Seq(Vbs) : IsPdu([pdu EXCEPT !.vbs = v])
  BY <1>1, <1>2, PduGiven
<1> HIDE DEF vbs
<1>4. ASSUME NEW vb \in Vbs PROVE IsPdu(AddVb(pdu, vb))
  <2>1. Append(vbs, vb) \in Seq(Vbs)
    BY <1>1
  <2>2. AddVb(pdu, vb) = [pdu EXCEPT !.vbs = Append(vbs, vb)]
    BY DEF AddVb, vbs
  <2>3. QED
    BY <1>3, <2>1, <2>2
<1>5. ASSUME NEW n \in 1..GetVbCount(pdu), NEW vb \in Vbs
      PROVE  GetVb(pdu, n - 1) \in Vbs /\ IsPdu(PutVb(pdu, n - 1, vb))
  <2>1. n \in 1..Len(vbs) /\ n - 1 + 1 = n
    BY <1>1 DEF GetVbCount, vbs
  <2>2. vbs[n] \in Vbs /\ [vbs EXCEPT ![n] = vb] \in Seq(Vbs)
    BY <1>1, <2>1, ExceptSeq
  <2>3. GetVb(pdu, n - 1) = vbs[n]
    BY <2>1 DEF GetVb, vbs
  <2>4. PutVb(pdu, n - 1, vb) = [pdu EXCEPT !.vbs = [vbs EXCEPT ![n] = vb]]
    BY <2>1 DEF PutVb, vbs
  <2>5. QED
    BY <1>3, <2>2, <2>3, <2>4
<1>6. \E vb : vb \in Vbs
  <2>1. IsOid(Oid(<<>>))
    BY ShortOids DEF IsOid, Oid, Object
  <2>2. QED
    BY <2>1, NewVb
<1>7. QED
  BY <1>4, <1>5, <1>6

-----------------------------------------------------------------------------
\* A target: it is valid no longer than its address says so.
IsTarget(t) ==
    /\ {"validity", "my_address"} \subseteq DOMAIN t
    /\ t.my_address \in GenAddresses
    /\ t.validity => t.my_address.valid_flag

LEMMA TargetIsSound ==
    ASSUME NEW t, IsTarget(t)
    PROVE  /\ SoundGen(GetAddress(t))
           /\ t.validity => GenType(GetAddress(t)) # "type_invalid"
BY GenIsSound DEF IsTarget, GetAddress, GenType, IpType, UdpType

LEMMA TargetMade ==
    ASSUME NEW gen \in GenAddresses
    PROVE  IsTarget(CTarget(gen)) /\ IsTarget(UTarget(gen))
<1> DEFINE base == SnmpTarget(gen)
           c == [base EXCEPT !.ttype = "type_ctarget"]
           u == [base EXCEPT !.ttype = "type_utarget", !.version = 3]
<1>1. /\ {"validity", "my_address"} \subseteq DOMAIN base
      /\ base.my_address = gen /\ base.validity = gen.valid_flag
  BY DEF SnmpTarget
<1> HIDE DEF base
<1>2. /\ {"validity", "my_address"} \subseteq DOMAIN c
      /\ c.my_address = gen /\ c.validity = gen.valid_flag
  BY <1>1
<1>3. /\ {"validity", "my_address"} \subseteq DOMAIN u
      /\ u.my_address = gen /\ u.validity = gen.valid_flag
  BY <1>1
<1> HIDE DEF c, u
<1>4. ASSUME NEW t, {"validity", "my_address"} \subseteq DOMAIN t, t.my_address = gen,
             t.validity = gen.valid_flag, NEW more
      PROVE  IsTarget(t ++ more)
  BY <1>4 DEF IsTarget, ++
<1>5. QED
  BY <1>2, <1>3, <1>4 DEF CTarget, UTarget, base, c, u

LEMMA TargetGiven ==
    ASSUME NEW t, IsTarget(t), NEW x, x \notin {"validity", "my_address"}, NEW v
    PROVE  IsTarget([t EXCEPT ![x] = v])
BY DEF IsTarget

-----------------------------------------------------------------------------
\* What a caller holds of its family.
Held(object) ==
    /\ family = "vb" => object \in Vbs
    /\ family = "address" => object \in GenAddresses
    /\ family = "pdu" => IsPdu(object)
    /\ family = "target" => IsTarget(object)
ObjectsInv ==
    /\ family \in {"vb", "address", "pdu", "target"}
    /\ DOMAIN held = {"a", "b"} /\ Held(held["a"]) /\ Held(held["b"])

LEMMA HoldKeeps ==
    ASSUME ObjectsInv, NEW h \in {"a", "b"}, NEW object, Hold(h, object), family' = family,
           Held(object)
    PROVE  ObjectsInv'
BY DEF ObjectsInv, Hold, Held

\* The identifiers, texts and numbers of the caller.
LEMMA CallersOids ==
    ASSUME NEW s \in ObjectOids
    PROVE  IsOid(Oid(s)) /\ IsText(OctetStr(s))
<1>1. s \in Seq(SubIds) /\ Len(s) <= MaxOid /\ SubIds \subseteq Int
  BY ObjectsAssumption, ValuesAssumption
<1>2. s \in Seq(Int)
  BY <1>1, SeqMonotonic
<1>3. QED
  BY <1>1, <1>2, NewOid, NewText DEF IsOid

LEMMA CallersNumbers ==
    \A i \in Longs \cup ULongs : i \in Int /\ Good(SnmpInt32(i)) /\ Good(SnmpUInt32(i))
<1>1. Longs \subseteq Int /\ ULongs \subseteq Int
  BY ValuesAssumption DEF Longs, ULongs
<1>2. QED
  BY <1>1, NewNumbers

LEMMA UseVbKeeps ==
    ASSUME ObjectsInv, NEW h \in {"a", "b"}, family = "vb", UseVb(h), family' = family
    PROVE  ObjectsInv'
<1> DEFINE vb == held[h]
<1>1. vb \in Vbs /\ held["a"] \in Vbs /\ held["b"] \in Vbs
  BY DEF ObjectsInv, Held
<1>2. \A w \in Vbs : Hold(h, w) => ObjectsInv'
  BY HoldKeeps DEF Held
<1> HIDE DEF vb
<1>3. CASE \E s \in ObjectOids :
              \/ Hold(h, SetVbOid(vb, Oid(s)))
              \/ Hold(h, SetVbText(vb, s))
              \/ Hold(h, SetVbValue(vb, Oid(s)))
  <2>1. PICK s \in ObjectOids :
              \/ Hold(h, SetVbOid(vb, Oid(s)))
              \/ Hold(h, SetVbText(vb, s))
              \/ Hold(h, SetVbValue(vb, Oid(s)))
    BY <1>3
  <2>2. IsOid(Oid(s)) /\ Good(OctetStr(s)) /\ Good(Cloned(Oid(s)))
    BY CallersOids, ClonedIsGood DEF IsOid, IsText
  <2>3. QED
    BY <1>1, <1>2, <2>1, <2>2, VbChanged DEF SetVbText, SetVbValue
<1>4. CASE \/ \E i \in Longs : Hold(h, SetVbInt(vb, i))
           \/ \E i \in ULongs : Hold(h, SetVbUInt(vb, i))
  BY <1>1, <1>2, <1>4, CallersNumbers, VbChanged DEF SetVbInt, SetVbUInt
<1>5. CASE \/ Hold(h, SetVbNull(vb)) \/ Hold(h, SetVbException(vb, noSuchObject))
           \/ Hold(h, VbPrintableOid(vb)) \/ Hold(h, ClearVb(vb))
  BY <1>1, <1>2, <1>5, VbChanged DEF SetVbNull, noSuchObject
<1>6. ASSUME NEW g \in {"a", "b"},
             \/ Hold(h, SetVbOid(vb, GetVbOid(held[g], Oid(<<>>))))
             \/ LET value == CloneVbValue(held[g])
                IN  value # NoValue /\ Hold(h, SetVbValue(vb, value))
      PROVE  ObjectsInv'
  <2> DEFINE value == CloneVbValue(held[g])
  <2>1. /\ IsOid(GetVbOid(held[g], Oid(<<>>)))
        /\ value # NoValue => Good(value)
    BY <1>1, VbGiven
  <2> HIDE DEF value
  <2>2. value # NoValue => SetVbValue(vb, value) \in Vbs
    BY <1>1, <2>1, ClonedIsGood, VbChanged DEF SetVbValue
  <2>3. SetVbOid(vb, GetVbOid(held[g], Oid(<<>>))) \in Vbs
    BY <1>1, <2>1, VbChanged
  <2>4. QED
    BY <1>2, <1>6, <2>2, <2>3 DEF value
<1>7. QED
  BY <1>3, <1>4, <1>5, <1>6 DEF UseVb, vb

LEMMA UseAddressKeeps ==
    ASSUME ObjectsInv, NEW h \in {"a", "b"}, family = "address", UseAddress(h), family' = family
    PROVE  ObjectsInv'
<1>1. held[h] \in GenAddresses /\ held["a"] \in GenAddresses /\ held["b"] \in GenAddresses
  BY DEF ObjectsInv, Held
<1>2. \A gen \in GenAddresses : Hold(h, gen) => ObjectsInv'
  BY HoldKeeps DEF Held
<1>3. ASSUME NEW class \in {"IpAddress", "UdpAddress"}, NEW f \in Families,
             NEW success \in BOOLEAN
      PROVE  LET bytes == [n \in 1..ADDRBUF |-> 1]
             IN  GenAddress(AddressParse(AddressNew(class, f, bytes), success, f, bytes))
                     \in GenAddresses
  <2> DEFINE bytes == [n \in 1..ADDRBUF |-> 1]
             new == AddressNew(class, f, bytes)
  <2>1. bytes \in [1..ADDRBUF -> Int]
    OBVIOUS
  <2> HIDE DEF bytes
  <2>2. IsAddress(new)
    BY <2>1, NewAddress DEF IsAddress, AddressNew, Object
  <2> HIDE DEF new
  <2>3. IsAddress(AddressParse(new, success, f, bytes))
    BY <2>1, <2>2, AddressChanged
  <2>4. QED
    BY <2>3, GenMade DEF new, bytes
<1>4. GenPrintable(held[h]) \in GenAddresses /\ GenClear(held[h]) \in GenAddresses
  BY <1>1, GenMade
<1>5. \A g \in {"a", "b"} : held[g].valid_flag => GenAddress(CastAddress(held[g])) \in GenAddresses
  BY <1>1, GenMade
<1>6. QED
  BY <1>2, <1>3, <1>4, <1>5 DEF UseAddress

LEMMA UsePduKeeps ==
    ASSUME ObjectsInv, NEW h \in {"a", "b"}, family = "pdu", UsePdu(h), family' = family
    PROVE  ObjectsInv'
<1> DEFINE pdu == held[h]
<1>1. IsPdu(pdu) /\ IsPdu(held["a"]) /\ IsPdu(held["b"])
  BY DEF ObjectsInv, Held
<1>2. \A p : IsPdu(p) /\ Hold(h, p) => ObjectsInv'
  BY HoldKeeps DEF Held
<1> HIDE DEF pdu
<1>3. ASSUME \/ \E f \in PduHeader, n \in {0, 1} : Hold(h, SetHeader(pdu, f, n))
             \/ Hold(h, ClearError(pdu))
             \/ \E f \in PduMessage, n \in {0, 1} : Hold(h, SetMessage(pdu, f, n))
             \/ Hold(h, SetSecurityLevel(pdu, 3))
      PROVE  ObjectsInv'
  <2>1. ASSUME NEW f \in PduHeader \cup PduMessage, NEW n
        PROVE  IsPdu(SetHeader(pdu, f, n)) /\ IsPdu(SetMessage(pdu, f, n))
    BY <1>1, PduNumbered DEF SetHeader, SetMessage, PduNumbers
  <2>2. IsPdu(SetSecurityLevel(pdu, 3))
    BY <1>1, PduNumbered DEF SetSecurityLevel, PduNumbers
  <2>3. IsPdu(ClearError(pdu))
    <3>1. IsPdu(SetHeader(pdu, "error_status", 0))
      BY <2>1 DEF PduHeader
    <3>2. QED
      BY <3>1, PduNumbered DEF ClearError, SetHeader, PduNumbers, PduHeader
  <2>4. QED
    BY <1>2, <1>3, <2>1, <2>2, <2>3
<1>4. ASSUME \/ \E i \in ULongs : Hold(h, SetTimestamp(pdu, TimeTicksNew(i)))
             \/ \E s \in ObjectOids :
                   \/ \E f \in PduNotify : Hold(h, SetNotify(pdu, f, Oid(s)))
                   \/ \E f \in PduContext : Hold(h, SetContext(pdu, f, OctetStr(s)))
                   \/ Hold(h, AddVb(pdu, Vb(Oid(s))))
      PROVE  ObjectsInv'
  <2>1. \A i \in ULongs : IsPdu(SetTimestamp(pdu, TimeTicksNew(i)))
    BY <1>1, CallersNumbers, NewTime, PduChanged
  <2>2. ASSUME NEW s \in ObjectOids
        PROVE  /\ \A f \in PduNotify : IsPdu(SetNotify(pdu, f, Oid(s)))
               /\ \A f \in PduContext : IsPdu(SetContext(pdu, f, OctetStr(s)))
               /\ IsPdu(AddVb(pdu, Vb(Oid(s))))
    BY <1>1, CallersOids, NewVb, PduChanged, PduVbs
  <2>3. QED
    BY <1>2, <1>4, <2>1, <2>2
<1>5. ASSUME NEW n \in 1..GetVbCount(pdu), NEW vb \in Revised(GetVb(pdu, n - 1)),
             Hold(h, PutVb(pdu, n - 1, vb))
      PROVE  ObjectsInv'
  <2>1. GetVb(pdu, n - 1) \in Vbs
    BY <1>1, <1>5, PduVbs
  <2>2. vb \in Vbs
    BY <1>5, <2>1, VbChanged, CallersNumbers DEF Revised, SetVbNull, SetVbUInt, noSuchObject
  <2>3. QED
    BY <1>1, <1>2, <1>5, <2>2, PduVbs
<1>6. ASSUME NEW g \in {"a", "b"},
             \/ \E n \in 1..GetVbCount(held[g]) : Hold(h, AddVb(pdu, GetVb(held[g], n - 1)))
             \/ Hold(h, SetTimestamp(pdu, GetTimestamp(held[g], TimeTicksNew(0))))
             \/ \E f \in PduNotify : Hold(h, SetNotify(pdu, f, GetNotify(held[g], f, Oid(<<>>))))
             \/ \E f \in PduContext :
                   Hold(h, SetContext(pdu, f, GetContext(held[g], f, OctetStr(<<>>))))
      PROVE  ObjectsInv'
  <2>1. IsPdu(held[g])
    BY <1>1
  <2>2. \A n \in 1..GetVbCount(held[g]) : IsPdu(AddVb(pdu, GetVb(held[g], n - 1)))
    BY <1>1, <2>1, PduVbs
  <2>3. IsPdu(SetTimestamp(pdu, GetTimestamp(held[g], TimeTicksNew(0))))
    BY <1>1, <2>1, PduChanged
  <2>4. \A f \in PduNotify : IsPdu(SetNotify(pdu, f, GetNotify(held[g], f, Oid(<<>>))))
    BY <1>1, <2>1, PduChanged
  <2>5. \A f \in PduContext : IsPdu(SetContext(pdu, f, GetContext(held[g], f, OctetStr(<<>>))))
    BY <1>1, <2>1, PduChanged
  <2>6. QED
    BY <1>2, <1>6, <2>2, <2>3, <2>4, <2>5
<1>7. QED
  BY <1>3, <1>4, <1>5, <1>6 DEF UsePdu, pdu

LEMMA UseTargetKeeps ==
    ASSUME ObjectsInv, NEW h \in {"a", "b"}, family = "target", UseTarget(h), family' = family
    PROVE  ObjectsInv'
<1> DEFINE t == held[h]
<1>1. IsTarget(t) /\ IsTarget(held["a"]) /\ IsTarget(held["b"])
  BY DEF ObjectsInv, Held
<1>2. \A p : IsTarget(p) /\ Hold(h, p) => ObjectsInv'
  BY HoldKeeps DEF Held
<1> HIDE DEF t
<1>3. Gens \cup {GetAddress(held["a"]), GetAddress(held["b"])} \subseteq GenAddresses
  <2> DEFINE address == AddressNew("UdpAddress", 4, [n \in 1..ADDRBUF |-> 1])
             invalid == [address EXCEPT !.valid = FALSE]
  <2>1. IsAddress(address)
    <3>1. [n \in 1..ADDRBUF |-> 1] \in [1..ADDRBUF -> Int]
      OBVIOUS
    <3>2. 4 \in Families
      BY DEF Families
    <3>3. Good(address)
      BY <3>1, <3>2, NewAddress
    <3>4. address.class = "UdpAddress"
      BY DEF AddressNew, Object
    <3>5. QED
      BY <3>3, <3>4 DEF IsAddress
  <2>2. Gens = {GenAddress(address), GenAddress(invalid), GenClear(GenAddress(address))}
    BY DEF Gens
  <2> HIDE DEF address
  <2>3. IsAddress(invalid)
    BY <2>1 DEF IsAddress, Good, Objects, Fits, ToUInt64, High, Low
  <2> HIDE DEF invalid
  <2>4. Gens \subseteq GenAddresses
    BY <2>1, <2>2, <2>3, GenMade
  <2>5. QED
    BY <1>1, <2>4 DEF IsTarget, GetAddress
<1>4. CASE \E gen \in Gens \cup {GetAddress(held["a"]), GetAddress(held["b"])} :
              Hold(h, CTarget(gen)) \/ Hold(h, UTarget(gen))
  BY <1>2, <1>3, <1>4, TargetMade
<1>5. CASE ~(\E gen \in Gens \cup {GetAddress(held["a"]), GetAddress(held["b"])} :
                Hold(h, CTarget(gen)) \/ Hold(h, UTarget(gen)))
  <2>1. \A x, v : x \notin {"validity", "my_address"} => IsTarget([t EXCEPT ![x] = v])
    BY <1>1, TargetGiven
  <2>2. /\ \A v : IsTarget(SetVersion(t, v)) /\ IsTarget(SetRetry(t, v)) /\ IsTarget(SetTimeout(t, v))
        /\ \A v : IsTarget(SetReadCommunity(t, v)) /\ IsTarget(SetWriteCommunity(t, v))
        /\ \A v : /\ IsTarget(SetSecurityName(t, v)) /\ IsTarget(SetEngineId(t, v))
                  /\ IsTarget(SetSecurityModel(t, v))
    BY <2>1 DEF SetVersion, SetRetry, SetTimeout, SetReadCommunity, SetWriteCommunity,
       SetSecurityName, SetEngineId, SetSecurityModel
  <2>3. \/ Hold(h, SetVersion(t, 2)) \/ Hold(h, SetRetry(t, 2)) \/ Hold(h, SetTimeout(t, 1000))
        \/ Hold(h, SetReadCommunity(t, "private")) \/ Hold(h, SetWriteCommunity(t, "private"))
        \/ Hold(h, SetSecurityName(t, "user")) \/ Hold(h, SetEngineId(t, "engine"))
        \/ Hold(h, SetSecurityModel(t, 1))
    BY <1>5 DEF UseTarget, t
  <2>4. QED
    BY <1>2, <2>2, <2>3
<1>6. QED
  BY <1>4, <1>5

LEMMA ObjectsStart == ASSUME ObjectsInit PROVE ObjectsInv
<1>1. held["a"] = New(family) /\ held["b"] = New(family) /\ DOMAIN held = {"a", "b"}
  BY DEF ObjectsInit
<1>2. Vb(Oid(<<>>)) \in Vbs /\ EmptyGenAddress \in GenAddresses
  BY NewVb, ShortOids, GenMade DEF IsOid, Oid, Object
<1>3. IsPdu(Pdu) /\ IsTarget(CTarget(EmptyGenAddress))
  BY <1>2, NewPdu, TargetMade
<1>4. family \in {"vb", "address", "pdu", "target"}
  BY DEF ObjectsInit
<1>5. Held(New(family))
  <2>1. CASE family = "vb"
    BY <1>2, <2>1 DEF Held, New
  <2>2. CASE family = "address"
    BY <1>2, <2>2 DEF Held, New
  <2>3. CASE family = "pdu"
    BY <1>3, <2>3 DEF Held, New
  <2>4. CASE family = "target"
    BY <1>3, <2>4 DEF Held, New
  <2>5. QED
    BY <1>4, <2>1, <2>2, <2>3, <2>4
<1>6. QED
  BY <1>1, <1>4, <1>5 DEF ObjectsInv

LEMMA CopyKeeps ==
    ASSUME ObjectsInv, NEW h \in {"a", "b"}, NEW g \in {"a", "b"}, CopyObject(h, g),
           family' = family
    PROVE  ObjectsInv'
<1>1. Hold(h, held[g])
  BY DEF CopyObject, VbCopy, GenCopy, PduCopy, TargetCopy, ObjectsInv
<1>2. Held(held[g])
  BY DEF ObjectsInv
<1>3. QED
  BY <1>1, <1>2, HoldKeeps

LEMMA ObjectsStep == ASSUME ObjectsInv, [ObjectsNext]_objectVars PROVE ObjectsInv'
<1>1. CASE UNCHANGED objectVars
  BY <1>1 DEF objectVars, ObjectsInv, Held
<1>2. CASE ObjectsNext
  <2>1. family' = family
    BY <1>2 DEF ObjectsNext
  <2>2. CASE UseDefaults
    BY <2>1, <2>2 DEF UseDefaults, ObjectsInv, Held
  <2>3. ASSUME NEW h \in {"a", "b"},
               \/ family = "vb" /\ UseVb(h)
               \/ family = "address" /\ UseAddress(h)
               \/ family = "pdu" /\ UsePdu(h)
               \/ family = "target" /\ UseTarget(h)
               \/ \E g \in {"a", "b"} : CopyObject(h, g)
        PROVE  ObjectsInv'
    BY <2>1, <2>3, UseVbKeeps, UseAddressKeeps, UsePduKeeps, UseTargetKeeps, CopyKeeps
  <2>4. QED
    BY <1>2, <2>2, <2>3 DEF ObjectsNext
<1>3. QED
  BY <1>1, <1>2

\* What the invariant says of what is held.
LEMMA ObjectsAre == ASSUME ObjectsInv PROVE ObjectsSound
<1> SUFFICES ASSUME NEW h \in {"a", "b"}
             PROVE  /\ family = "vb" => SoundVb(held[h])
                    /\ family = "address" => SoundGen(held[h])
                    /\ family = "pdu" =>
                          /\ \A f \in PduNotify \cup PduContext : Sound(held[h][f])
                          /\ Sound(held[h].notify_timestamp)
                          /\ \A n \in 1..GetVbCount(held[h]) : SoundVb(GetVb(held[h], n - 1))
                    /\ family = "target" =>
                          /\ SoundGen(GetAddress(held[h]))
                          /\ held[h].validity => GenType(GetAddress(held[h])) # "type_invalid"
  BY DEF ObjectsSound
<1>1. Held(held[h])
  BY DEF ObjectsInv
<1>2. ASSUME family = "pdu"
      PROVE  /\ \A f \in PduNotify \cup PduContext : Sound(held[h][f])
             /\ Sound(held[h].notify_timestamp)
             /\ \A n \in 1..GetVbCount(held[h]) : SoundVb(GetVb(held[h], n - 1))
  <2> DEFINE pdu == held[h]
  <2>1. IsPdu(pdu)
    BY <1>1, <1>2 DEF Held
  <2> HIDE DEF pdu
  <2>2. \A f \in PduNotify \cup PduContext : Good(pdu[f])
    BY <2>1 DEF IsPdu, IsPart, PduFields, IsOid, IsText
  <2>3. Good(pdu.notify_timestamp)
    BY <2>1 DEF IsPdu, IsPart, PduFields, IsTime
  <2>4. \A n \in 1..GetVbCount(pdu) : GetVb(pdu, n - 1) \in Vbs
    BY <2>1, PduVbs
  <2>5. QED
    BY <2>2, <2>3, <2>4, GoodIsSound, VbIsSound DEF pdu
<1>3. QED
  BY <1>1, <1>2, VbIsSound, GenIsSound, TargetIsSound DEF Held

\* Whatever is done to the objects of a request, and for any identifiers, texts and
\* numbers, they are sound.
THEOREM ObjectsStaySound == ObjectsSpec => []ObjectsSound
<1>1. ObjectsInit => ObjectsInv
  BY ObjectsStart
<1>2. ObjectsInv /\ [ObjectsNext]_objectVars => ObjectsInv'
  BY ObjectsStep
<1>3. ObjectsInv => ObjectsSound
  BY ObjectsAre
<1>4. QED
  BY <1>1, <1>2, <1>3, PTL DEF ObjectsSpec
=============================================================================
