------------------------------- MODULE Client -------------------------------
(***************************************************************************)
(* QtSnmpClient (common/snmp/src), called from its own thread and from     *)
(* other ones.  A setter that is called from another thread is found by    *)
(* its name among the methods of the client and called again, later, by    *)
(* the event loop of the client's thread (IN_QOBJECT_THREAD).  Requests    *)
(* become jobs; how they are answered is the matter of Session, here the   *)
(* current one ends sometime.                                              *)
(***************************************************************************)
EXTENDS Naturals, Sequences, SequencesExt

CONSTANTS
    ClientThread, OtherThreads,
    Addresses, NoAddress,   \* the ones of agents; null and "any address"
    Communities, DefaultCommunity,
    Timeouts, DefaultTimeout,
    MaxCalls,               \* bound: calls of the setters
    MaxWorks                \* bound: jobs, the current one and the waiting ones

ASSUME ClientAssumption ==
    /\ ClientThread \notin OtherThreads
    /\ NoAddress \notin Addresses \cup Communities \cup Timeouts
    /\ DefaultCommunity \in Communities /\ DefaultTimeout \in Timeouts
    /\ MaxCalls \in Nat /\ MaxWorks \in Nat

VARIABLES
    m_agent_address, m_community, interval,   \* the settings of the session
    works,      \* the jobs that have not ended, the current one first
    datagram,   \* the last one that was sent, or None
    posted,     \* the calls in the event queue of the client's thread
    called,     \* history: the calls of the setters, in order
    applied     \* history: the calls that were carried out, in order

clientVars == <<m_agent_address, m_community, interval, works, datagram, posted,
                called, applied>>

None == <<>>

\* What the meta-object of a class knows by name: its slots and signals.
Methods(class) ==
    CASE class = "QtSnmpClient" ->
            {"responseReceived", "requestFailed", "setAgentAddress", "setCommunity",
             "setReponseTimeout"}
      [] class = "Session" ->
            {"responseReceived", "requestFailed", "onResponseTimeExpired", "onReadyRead"}
FindMethod(class, name) == name \in Methods(class)

Values(setter) ==
    CASE setter = "setAgentAddress" -> Addresses \cup {NoAddress}
      [] setter = "setCommunity" -> Communities
      [] setter = "setReponseTimeout" -> Timeouts
Setters == {"setAgentAddress", "setCommunity", "setReponseTimeout"}

ClientInit ==
    /\ m_agent_address = NoAddress /\ m_community = DefaultCommunity
    /\ interval = DefaultTimeout
    /\ works = <<>> /\ datagram = None /\ posted = <<>>
    /\ called = <<>> /\ applied = <<>>

\* The setters of Session: an address that is none is refused.
SetAddress(value) ==
    /\ m_agent_address' = IF value = NoAddress THEN m_agent_address ELSE value
    /\ UNCHANGED <<m_community, interval>>
SetCommunity(value) ==
    /\ m_community' = value
    /\ UNCHANGED <<m_agent_address, interval>>
SetResponseTimeout(value) ==
    /\ interval' = value
    /\ UNCHANGED <<m_agent_address, m_community>>

\* The setters of the client on its own thread.
Apply(call) ==
    /\ \/ call.setter = "setAgentAddress" /\ SetAddress(call.value)
       \/ call.setter = "setCommunity" /\ SetCommunity(call.value)
       \/ call.setter = "setReponseTimeout" /\ SetResponseTimeout(call.value)
    /\ applied' = Append(applied, call)

\* Faulty: IN_QOBJECT_THREAD without its return.
InQObjectThreadGoesOn(call) ==
    /\ FindMethod("QtSnmpClient", call.setter)
    /\ posted' = Append(posted, call)
    /\ Apply(call)

\* IN_QOBJECT_THREAD on another thread.
InQObjectThread(call) ==
    /\ FindMethod("QtSnmpClient", call.setter)
    /\ posted' = Append(posted, call)
    /\ UNCHANGED <<m_agent_address, m_community, interval, applied>>

CallSetter(thread, setter, value) ==
    LET call == [thread |-> thread, setter |-> setter, value |-> value,
                 place |-> Len(called) + 1]   \* where it stands in called
    IN  /\ Len(called) < MaxCalls
        /\ called' = Append(called, call)
        /\ IF thread = ClientThread THEN Apply(call) /\ UNCHANGED posted
           ELSE InQObjectThread(call)
        /\ UNCHANGED <<works, datagram>>

\* The event loop of the client's thread.
Deliver ==
    /\ posted # <<>> /\ posted' = Tail(posted)
    /\ Apply(Head(posted))
    /\ UNCHANGED <<works, datagram, called>>

-----------------------------------------------------------------------------
\* RequestValuesJob, RequestSubValuesJob and SetValueJob; only the last one has a
\* community of its own, the others are sent with the one of the session.
RequestValuesJob == [kind |-> "values"]
RequestSubValuesJob == [kind |-> "subValues"]
SetValueJob(community) == [kind |-> "set", community |-> community]
WorkJobs == {RequestValuesJob, RequestSubValuesJob} \cup {SetValueJob(c) : c \in Communities}

\* start of each class
SendRequest(job, community) ==
    datagram' = [job |-> job, to |-> m_agent_address, community |-> community]
StartValues(job) == SendRequest(job, m_community)
StartSubValues(job) == SendRequest(job, m_community)
StartSet(job) == SendRequest(job, job.community)
StartJob(job) ==
    CASE job.kind = "values" -> StartValues(job)
      [] job.kind = "subValues" -> StartSubValues(job)
      [] job.kind = "set" -> StartSet(job)

IsBusy == works # <<>>

\* requestValue, requestValues, requestSubValues and setValue on the client's thread.
Request(job) ==
    /\ Len(works) < MaxWorks
    /\ works' = Append(works, job)
    /\ IF IsBusy THEN UNCHANGED datagram ELSE StartJob(job)
    /\ UNCHANGED <<m_agent_address, m_community, interval, posted, called, applied>>

\* On another thread addWork is no method that could be found: in a release build
\* the caller has an id, and there is no job.
RequestElsewhere(thread) ==
    /\ thread # ClientThread /\ ~FindMethod("Session", "addWork")
    /\ UNCHANGED clientVars

\* The answer or the timeout of the current job; the next one starts.
WorkEnds ==
    /\ IsBusy /\ works' = Tail(works)
    /\ IF Tail(works) # <<>> THEN StartJob(works[2]) ELSE UNCHANGED datagram
    /\ UNCHANGED <<m_agent_address, m_community, interval, posted, called, applied>>

ClientNext ==
    \/ \E thread \in OtherThreads \cup {ClientThread}, setter \in Setters :
          \E value \in Values(setter) : CallSetter(thread, setter, value)
    \/ Deliver
    \/ \E job \in WorkJobs : Request(job)
    \/ \E thread \in OtherThreads : RequestElsewhere(thread)
    \/ WorkEnds

\* The client on its own.
ClientSpec == ClientInit /\ [][ClientNext]_clientVars

-----------------------------------------------------------------------------
\* Among some calls, a thread's calls come in the order in which it made them.
InCallersOrder(calls) ==
    \A i, j \in 1..Len(calls) :
        i < j /\ calls[i].thread = calls[j].thread => calls[i].place < calls[j].place

\* A setting is what the last of its calls said among some, or else the default; no
\* address is no value.
Says(call, setter) == call.setter = setter /\ call.value # NoAddress
IsLastSaid(calls, setting, setter, default) ==
    \/ /\ \A i \in 1..Len(calls) : ~Says(calls[i], setter)
       /\ setting = default
    \/ \E i \in 1..Len(calls) :
          /\ Says(calls[i], setter) /\ setting = calls[i].value
          /\ \A j \in i + 1..Len(calls) : ~Says(calls[j], setter)

\* Whoever calls the setters, every call was carried out or waits, once, none of them
\* out of the order of its caller, and those of the client's thread do not wait, so
\* that a setting is in the end what the last of its calls said when they came from
\* one thread.
CallsCarriedOut ==
    LET line == applied \o posted
    IN  /\ Len(line) = Len(called) /\ ToSet(line) = ToSet(called)
        /\ InCallersOrder(line)
        /\ \A call \in ToSet(posted) : call.thread # ClientThread
        /\ IsLastSaid(applied, m_agent_address, "setAgentAddress", NoAddress)
        /\ IsLastSaid(applied, m_community, "setCommunity", DefaultCommunity)
        /\ IsLastSaid(applied, interval, "setReponseTimeout", DefaultTimeout)
=============================================================================
