------------------------------ MODULE Session ------------------------------
(***************************************************************************)
(* Session (common/snmp/src/Session.cpp) and its jobs: an SNMP client that *)
(* runs one job at a time from a bounded queue.  A job sends a datagram    *)
(* with a random request id and starts a timer; an answer with that id or  *)
(* the timeout ends the request.  Datagrams may be lost, delayed, answered *)
(* more than once or in another order.                                     *)
(*                                                                         *)
(* Everything runs on the thread of the session.  The signals              *)
(* responseReceived and requestFailed call the client's slot directly, and *)
(* the slot may make new requests while the session is inside completeWork *)
(* or cancelWork: handler says which of the two has emitted its signal.    *)
(* onReadyRead serves one datagram per step.                               *)
(***************************************************************************)
EXTENDS Naturals, Sequences

CONSTANTS
    QueueLimit,    \* queue_limit of addWork (10 in the code)
    MaxWorkId,     \* 0x7FFF in the code
    ReqIds,        \* the values of updateRequestId
    NoId,          \* -1
    NoJob,         \* the null pointer
    MaxRows,       \* rows of the largest subtree an agent holds (external)
    AgentAnswers   \* what agents answer (external)

ASSUME SessionAssumption ==
    /\ QueueLimit \in Nat \ {0}
    /\ MaxWorkId \in Nat \ {0}
    /\ NoId \notin ReqIds /\ ReqIds # {}
    /\ MaxRows \in Nat
    /\ AgentAnswers \subseteq {"value", "error", "odd"}

\* RequestSubValuesJob walks a subtree, RequestValuesJob and SetValueJob end
\* with their first answer.
Jobs == [id : 1..MaxWorkId, kind : {"single", "sub"}]
ASSUME JobAssumption == NoJob \notin Jobs

VARIABLES
    m_work_queue, m_current_work, m_work_id, m_request_id,
    m_response_wait_timer,     \* whether the timer is active
    m_last_request_datagram,   \* the request id in it
    found,      \* length of m_found of the current job
    handler,    \* where the session stands
    wire,       \* ids of the datagrams an agent may still answer (external)
    report      \* history: the job of the last signal and the signals' parity

sessionVars == <<m_work_queue, m_current_work, m_work_id, m_request_id,
                 m_response_wait_timer, m_last_request_datagram, found,
                 handler, wire, report>>

Handlers == {"idle", "start", "completing", "cancelling"}

\* The types of the variables; the queue never grows past its limit, work ids
\* stay positive (AbstractJob asserts it), m_found stays within the subtree.
SessionTypeOK ==
    /\ m_work_queue \in Seq(Jobs) /\ Len(m_work_queue) <= QueueLimit
    /\ m_current_work \in Jobs \cup {NoJob}
    /\ m_work_id \in 1..MaxWorkId
    /\ m_request_id \in ReqIds \cup {NoId}
    /\ m_response_wait_timer \in BOOLEAN
    /\ m_last_request_datagram \in ReqIds \cup {NoId}
    /\ found \in 0..MaxRows
    /\ handler \in Handlers
    /\ wire \subseteq ReqIds
    /\ report \in [job : Jobs \cup {NoJob}, parity : {0, 1}]

SessionInit ==
    /\ m_work_queue = <<>> /\ m_current_work = NoJob
    /\ m_work_id = 1 /\ m_request_id = NoId
    /\ m_response_wait_timer = FALSE /\ m_last_request_datagram = NoId
    /\ found = 0 /\ handler = "idle" /\ wire = {}
    /\ report = [job |-> NoJob, parity |-> 0]

Emit(job) == report' = [job |-> job, parity |-> 1 - report.parity]

-----------------------------------------------------------------------------
(* Faulty variants of the definitions below; no specification uses them.   *)

\* completeWork without startNextWork.
CompletedStops ==
    /\ handler = "completing" /\ handler' = "idle"
    /\ m_current_work' = NoJob
    /\ UNCHANGED <<m_work_queue, m_work_id, m_request_id, m_response_wait_timer,
                   m_last_request_datagram, found, wire, report>>

\* cancelWork without m_response_wait_timer->stop().
CancelledKeepsTimer ==
    /\ handler = "cancelling" /\ handler' = "start"
    /\ m_current_work' = NoJob /\ m_request_id' = NoId
    /\ UNCHANGED <<m_work_queue, m_work_id, m_response_wait_timer,
                   m_last_request_datagram, found, wire, report>>

\* getResponseData without the comparison of the request ids.
MatchesAny(r) == TRUE

\* createWorkId without the wrap.
NextWorkIdUnbounded == m_work_id + 1

-----------------------------------------------------------------------------
\* createWorkId
NextWorkId == IF m_work_id + 1 > MaxWorkId THEN 1 ELSE m_work_id + 1

\* requestValues, requestSubValues, setValue and addWork, called from the event
\* loop or from a slot.  The id is spent whether or not the queue has room.
Request(kind) ==
    /\ handler # "start"
    /\ m_work_id' = NextWorkId
    /\ IF Len(m_work_queue) < QueueLimit
         THEN /\ m_work_queue' = Append(m_work_queue,
                                        [id |-> NextWorkId, kind |-> kind])
              /\ handler' = IF m_current_work = NoJob THEN "start" ELSE handler
         ELSE UNCHANGED <<m_work_queue, handler>>
    /\ UNCHANGED <<m_current_work, m_request_id, m_response_wait_timer,
                   m_last_request_datagram, found, wire, report>>

\* sendRequest*, sendDatagram for the job that is current from now on: the
\* datagram is under way and the timer runs, or cancelWork emits requestFailed.
SendWorks(r) ==
    /\ m_request_id' = r /\ m_last_request_datagram' = r
    /\ wire' = wire \cup {r}
    /\ m_response_wait_timer' = TRUE /\ handler' = "idle"
    /\ UNCHANGED report

SendFails(r, job) ==
    /\ m_request_id' = r /\ handler' = "cancelling"
    /\ Emit(job)
    /\ UNCHANGED <<m_last_request_datagram, wire, m_response_wait_timer>>

Send(job) ==
    IF m_request_id = NoId
      THEN \E r \in ReqIds : SendWorks(r) \/ SendFails(r, job)
      ELSE /\ handler' = "idle"
           /\ UNCHANGED <<m_request_id, m_last_request_datagram, wire,
                          m_response_wait_timer, report>>

\* startNextWork with work to start.
StartWork ==
    /\ handler = "start" /\ m_work_queue # <<>>
    /\ m_current_work' = Head(m_work_queue) /\ found' = 0
    /\ m_work_queue' = Tail(m_work_queue)
    /\ Send(Head(m_work_queue))
    /\ UNCHANGED m_work_id

\* startNextWork with an empty queue.
StartNothing ==
    /\ handler = "start" /\ m_work_queue = <<>>
    /\ handler' = "idle"
    /\ UNCHANGED <<m_work_queue, m_current_work, m_work_id, m_request_id,
                   m_response_wait_timer, m_last_request_datagram, found, wire,
                   report>>

\* completeWork after its signal.
Completed ==
    /\ handler = "completing" /\ handler' = "start"
    /\ m_current_work' = NoJob
    /\ UNCHANGED <<m_work_queue, m_work_id, m_request_id, m_response_wait_timer,
                   m_last_request_datagram, found, wire, report>>

\* cancelWork after its signal.
Cancelled ==
    /\ handler = "cancelling" /\ handler' = "start"
    /\ m_current_work' = NoJob
    /\ m_response_wait_timer' = FALSE /\ m_request_id' = NoId
    /\ UNCHANGED <<m_work_queue, m_work_id, m_last_request_datagram, found, wire,
                   report>>

-----------------------------------------------------------------------------
\* onResponseTimeExpired; a dead timer does not fire.
Expired ==
    /\ handler = "idle" /\ m_response_wait_timer
    /\ handler' = "cancelling" /\ Emit(m_current_work)
    /\ UNCHANGED <<m_work_queue, m_current_work, m_work_id, m_request_id,
                   m_response_wait_timer, m_last_request_datagram, found, wire>>

\* getResponseData: the answer carries the id the session waits for.
Matches(r) == r = m_request_id

\* The network: an answered datagram may be answered again.
Answered(r) == wire' = wire \/ wire' = wire \ {r}

\* onReadyRead: an answer with another id is ignored.
AnswerIgnored(r) ==
    /\ handler = "idle" /\ r \in wire /\ ~Matches(r)
    /\ wire' = wire \ {r}
    /\ UNCHANGED <<m_work_queue, m_current_work, m_work_id, m_request_id,
                   m_response_wait_timer, m_last_request_datagram, found, handler,
                   report>>

\* The values asked for, or the end of the subtree: the job is complete.
AnswerCompletes(r) ==
    /\ "value" \in AgentAnswers
    /\ handler = "idle" /\ r \in wire /\ Matches(r) /\ Answered(r)
    /\ m_response_wait_timer' = FALSE /\ m_request_id' = NoId
    /\ handler' = "completing" /\ Emit(m_current_work)
    /\ UNCHANGED <<m_work_queue, m_current_work, m_work_id,
                   m_last_request_datagram, found>>

\* RequestSubValuesJob::processData: one more row, and the next one is asked for.
AnswerContinues(r) ==
    /\ "value" \in AgentAnswers
    /\ handler = "idle" /\ r \in wire /\ Matches(r)
    /\ m_current_work # NoJob /\ m_current_work.kind = "sub" /\ found < MaxRows
    /\ found' = found + 1
    /\ \E s \in ReqIds :
          \/ /\ m_request_id' = s /\ m_last_request_datagram' = s
             /\ wire' \in {wire \cup {s}, (wire \ {r}) \cup {s}}
             /\ m_response_wait_timer' = TRUE
             /\ UNCHANGED <<handler, report>>
          \/ /\ m_request_id' = s /\ Answered(r)
             /\ m_response_wait_timer' = FALSE
             /\ handler' = "cancelling" /\ Emit(m_current_work)
             /\ UNCHANGED m_last_request_datagram
    /\ UNCHANGED <<m_work_queue, m_current_work, m_work_id>>

\* An error status: the last datagram is written again, with the id it has.
AnswerError(r) ==
    /\ "error" \in AgentAnswers
    /\ handler = "idle" /\ r \in wire /\ Matches(r)
    /\ m_response_wait_timer' = FALSE /\ m_request_id' = NoId
    /\ \/ wire' = wire \cup {m_last_request_datagram}
       \/ Answered(r)
    /\ UNCHANGED <<m_work_queue, m_current_work, m_work_id,
                   m_last_request_datagram, found, handler, report>>

\* A well-formed header and no usable variable: nothing is processed.
AnswerOdd(r) ==
    /\ "odd" \in AgentAnswers
    /\ handler = "idle" /\ r \in wire /\ Matches(r) /\ Answered(r)
    /\ m_response_wait_timer' = FALSE /\ m_request_id' = NoId
    /\ UNCHANGED <<m_work_queue, m_current_work, m_work_id,
                   m_last_request_datagram, found, handler, report>>

\* setAgentAddress binds the socket anew: what is under way never arrives.
SetAgentAddress ==
    /\ handler # "start" /\ wire' = {}
    /\ UNCHANGED <<m_work_queue, m_current_work, m_work_id, m_request_id,
                   m_response_wait_timer, m_last_request_datagram, found,
                   handler, report>>

-----------------------------------------------------------------------------
Answer(r) ==
    \/ AnswerIgnored(r) \/ AnswerCompletes(r) \/ AnswerContinues(r)
    \/ AnswerError(r) \/ AnswerOdd(r)

SessionNext ==
    \/ \E kind \in {"single", "sub"} : Request(kind)
    \/ StartWork \/ StartNothing \/ Completed \/ Cancelled
    \/ Expired
    \/ \E r \in ReqIds : Answer(r)
    \/ SetAgentAddress

SessionSpec == SessionInit /\ [][SessionNext]_sessionVars

\* The session's own code runs on, and an active timer fires in the end.
SessionFairness ==
    /\ WF_sessionVars(StartWork \/ StartNothing)
    /\ WF_sessionVars(Completed) /\ WF_sessionVars(Cancelled)
    /\ WF_sessionVars(Expired)

FairSessionSpec == SessionSpec /\ SessionFairness

-----------------------------------------------------------------------------
\* Between two events the timer runs exactly while an answer is awaited, and
\* only for a current job: onResponseTimeExpired and onReadyRead use
\* m_current_work unchecked, sendRequest* and sendDatagram assert the rest.
WaitsForCurrent ==
    handler = "idle" =>
        /\ m_response_wait_timer <=> m_request_id # NoId
        /\ m_response_wait_timer => m_current_work # NoJob

\* Between two events an idle session has no work waiting.
NoWorkWaits ==
    handler = "idle" /\ m_current_work = NoJob => m_work_queue = <<>>

\* The session keeps the ledger: accepted requests are reported in order and
\* exactly once, whatever the network and the slots do.
Ledger == INSTANCE RequestLedger WITH
              waiting <- m_work_queue,
              serving <- IF handler \in {"completing", "cancelling"}
                           THEN NoJob ELSE m_current_work

LedgerHolds == Ledger!LedgerSpec

\* An answer that is an error or unusable ended the wait of a job for good.
Abandoned ==
    handler = "idle" /\ m_current_work # NoJob /\ ~m_response_wait_timer

\* Unless such an answer arrives, every accepted request is reported in the end:
\* timeouts, failed sends and slots that ask for more never leave a job behind.
EveryRequestReported == []~Abandoned => Ledger!LedgerServes

\* Session.cpp:374 says of an error answer that "the last request will be resend
\* with new ID": an answer that ends the wait without ending the job is followed
\* by another wait.
ResentWithNewId ==
    [][handler = "idle" /\ handler' = "idle" /\ m_request_id # NoId
          => m_request_id' # NoId]_sessionVars
=============================================================================
