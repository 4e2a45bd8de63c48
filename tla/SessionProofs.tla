--------------------------- MODULE SessionProofs ---------------------------
(***************************************************************************)
(* Session waits for an answer exactly when a job asked for one, leaves no *)
(* work behind, and keeps the ledger, for every limit of its queue, every  *)
(* set of request ids, every client and every network.                     *)
(***************************************************************************)
EXTENDS Session, SequenceTheorems, TLAPS

\* What holds at each place of the session's own code: WaitsForCurrent and
\* NoWorkWaits speak of the moments between events and need the others.
HandlerInv ==
    /\ handler = "start" => /\ m_current_work = NoJob /\ m_request_id = NoId
                            /\ ~m_response_wait_timer
    /\ handler \in {"completing", "cancelling"} => m_current_work # NoJob
    /\ handler = "completing" => m_request_id = NoId /\ ~m_response_wait_timer
    /\ handler = "idle" /\ m_request_id # NoId
          => m_last_request_datagram = m_request_id

SessionInv == SessionTypeOK /\ HandlerInv /\ WaitsForCurrent /\ NoWorkWaits

LEMMA SessionInitInv == SessionInit => SessionInv
<1> SUFFICES ASSUME SessionInit PROVE SessionInv
  OBVIOUS
<1>1. m_work_queue \in Seq(Jobs) /\ Len(m_work_queue) <= QueueLimit
  BY EmptySeq, SessionAssumption DEF SessionInit
<1>2. SessionTypeOK
  <2>1. m_work_id \in 1..MaxWorkId /\ found \in 0..MaxRows
    BY SessionAssumption DEF SessionInit
  <2>2. report \in [job : Jobs \cup {NoJob}, parity : {0, 1}]
    BY DEF SessionInit
  <2>3. QED
    BY <1>1, <2>1, <2>2 DEF SessionInit, SessionTypeOK, Handlers
<1>3. QED
  BY <1>2 DEF SessionInit, SessionInv, HandlerInv, WaitsForCurrent, NoWorkWaits

\* A queue that is not full takes one more request.
LEMMA QueueTakes ==
    ASSUME NEW q \in Seq(Jobs), Len(q) < QueueLimit, NEW j \in Jobs
    PROVE  Append(q, j) \in Seq(Jobs) /\ Len(Append(q, j)) <= QueueLimit
BY AppendProperties, SessionAssumption

\* A queue that is not empty gives its oldest request.
LEMMA QueueGives ==
    ASSUME NEW q \in Seq(Jobs), q # <<>>, Len(q) <= QueueLimit
    PROVE  /\ Head(q) \in Jobs
           /\ Tail(q) \in Seq(Jobs) /\ Len(Tail(q)) <= QueueLimit
BY HeadTailProperties, SessionAssumption

\* createWorkId gives an id in range.
LEMMA WorkIdInRange == m_work_id \in 1..MaxWorkId => NextWorkId \in 1..MaxWorkId
BY SessionAssumption DEF NextWorkId

\* A signal leaves a report of its job.
LEMMA EmitTyped ==
    ASSUME SessionTypeOK, NEW job \in Jobs \cup {NoJob}, Emit(job)
    PROVE  report' \in [job : Jobs \cup {NoJob}, parity : {0, 1}]
<1>1. report.parity \in {0, 1}
  BY DEF SessionTypeOK
<1>2. 1 - report.parity \in {0, 1}
  BY <1>1
<1>3. QED
  BY <1>2 DEF Emit

\* Each step keeps the types of the variables.
LEMMA SessionTypeStep ==
    ASSUME SessionInv, [SessionNext]_sessionVars PROVE SessionTypeOK'
<1> USE DEF SessionInv, SessionTypeOK, Handlers
<1>1. ASSUME NEW kind \in {"single", "sub"}, Request(kind) PROVE SessionTypeOK'
  <2>1. NextWorkId \in 1..MaxWorkId
    BY WorkIdInRange
  <2>2. [id |-> NextWorkId, kind |-> kind] \in Jobs
    BY <2>1 DEF Jobs
  <2>3. m_work_queue' \in Seq(Jobs) /\ Len(m_work_queue') <= QueueLimit
    BY <1>1, <2>2, QueueTakes DEF Request
  <2>4. QED
    BY <1>1, <2>1, <2>3 DEF Request
<1>2. CASE StartWork
  <2>1. /\ m_current_work' \in Jobs
        /\ m_work_queue' \in Seq(Jobs) /\ Len(m_work_queue') <= QueueLimit
    BY <1>2, QueueGives DEF StartWork
  <2>2. found' \in 0..MaxRows
    BY <1>2, SessionAssumption DEF StartWork
  <2>3. report' \in [job : Jobs \cup {NoJob}, parity : {0, 1}]
    BY <1>2, <2>1, EmitTyped DEF StartWork, Send, SendWorks, SendFails
  <2>4. QED
    BY <1>2, <2>1, <2>2, <2>3 DEF StartWork, Send, SendWorks, SendFails
<1>3. CASE StartNothing \/ Completed \/ Cancelled \/ SetAgentAddress
  BY <1>3 DEF StartNothing, Completed, Cancelled, SetAgentAddress
<1>4. CASE Expired
  <2>1. report' \in [job : Jobs \cup {NoJob}, parity : {0, 1}]
    BY <1>4, EmitTyped DEF Expired
  <2>2. QED
    BY <1>4, <2>1 DEF Expired
<1>5. ASSUME NEW r \in ReqIds, Answer(r) PROVE SessionTypeOK'
  <2>1. CASE AnswerIgnored(r)
    BY <2>1 DEF AnswerIgnored
  <2>2. CASE AnswerCompletes(r)
    <3>1. report' \in [job : Jobs \cup {NoJob}, parity : {0, 1}]
      BY <2>2, EmitTyped DEF AnswerCompletes
    <3>2. QED
      BY <2>2, <3>1 DEF AnswerCompletes, Answered
  <2>3. CASE AnswerContinues(r)
    <3>1. found' \in 0..MaxRows
      BY <2>3, SessionAssumption DEF AnswerContinues
    <3>2. /\ m_request_id' \in ReqIds /\ wire' \subseteq ReqIds
          /\ m_last_request_datagram' \in ReqIds \cup {NoId}
      BY <2>3 DEF AnswerContinues, Answered
    <3>3. report' \in [job : Jobs \cup {NoJob}, parity : {0, 1}]
      BY <2>3, EmitTyped DEF AnswerContinues
    <3>4. m_response_wait_timer' \in BOOLEAN /\ handler' \in Handlers
      BY <2>3 DEF AnswerContinues
    <3>5. QED
      BY <2>3, <3>1, <3>2, <3>3, <3>4 DEF AnswerContinues
  <2>4. CASE AnswerError(r)
    <3>1. m_request_id = r /\ r # NoId
      BY <2>4, SessionAssumption DEF AnswerError, Matches
    <3>2. m_last_request_datagram \in ReqIds
      BY <2>4, <3>1 DEF AnswerError, HandlerInv
    <3>3. QED
      BY <2>4, <3>2 DEF AnswerError, Answered
  <2>5. CASE AnswerOdd(r)
    BY <2>5 DEF AnswerOdd, Answered
  <2>6. QED
    BY <1>5, <2>1, <2>2, <2>3, <2>4, <2>5 DEF Answer
<1>6. CASE UNCHANGED sessionVars
  BY <1>6 DEF sessionVars
<1>7. QED
  BY <1>1, <1>2, <1>3, <1>5, <1>6, <1>4 DEF SessionNext

\* No job is the null pointer, so a job that was taken is current.
LEMMA StartedIsJob ==
    ASSUME SessionInv, StartWork PROVE m_current_work' # NoJob
<1>1. Head(m_work_queue) \in Jobs
  BY QueueGives DEF StartWork, SessionInv, SessionTypeOK
<1>2. QED
  BY <1>1, JobAssumption DEF StartWork

\* Each step keeps what holds inside the session's own code.
LEMMA HandlerStep ==
    ASSUME SessionInv, [SessionNext]_sessionVars
    PROVE  HandlerInv' /\ WaitsForCurrent'
<1> USE SessionAssumption
    DEF SessionInv, HandlerInv, WaitsForCurrent
<1>1. ASSUME NEW kind \in {"single", "sub"}, Request(kind)
      PROVE  HandlerInv' /\ WaitsForCurrent'
  <2>1. m_current_work = NoJob => handler = "idle"
    BY <1>1 DEF Request, SessionTypeOK, Handlers
  <2>2. QED
    BY <1>1, <2>1 DEF Request
<1>2. CASE StartWork
  BY <1>2, StartedIsJob DEF StartWork, Send, SendWorks, SendFails
<1>3. CASE StartNothing \/ SetAgentAddress
  BY <1>3 DEF StartNothing, SetAgentAddress
<1>4. CASE Completed \/ Cancelled \/ Expired
  BY <1>4 DEF Completed, Cancelled, Expired
<1>5. ASSUME NEW r \in ReqIds, Answer(r)
      PROVE  HandlerInv' /\ WaitsForCurrent'
  <2>1. CASE AnswerIgnored(r)
    BY <2>1 DEF AnswerIgnored
  <2>2. CASE AnswerCompletes(r)
    BY <2>2 DEF AnswerCompletes, Matches
  <2>3. CASE AnswerContinues(r)
    BY <2>3 DEF AnswerContinues
  <2>4. CASE AnswerError(r) \/ AnswerOdd(r)
    BY <2>4 DEF AnswerError, AnswerOdd
  <2>5. QED
    BY <1>5, <2>1, <2>2, <2>3, <2>4 DEF Answer
<1>6. CASE UNCHANGED sessionVars
  BY <1>6 DEF sessionVars
<1>7. QED
  BY <1>1, <1>2, <1>3, <1>4, <1>5, <1>6 DEF SessionNext

\* The queue of a session without a current job is only left to startNextWork.
LEMMA NoWorkStep ==
    ASSUME SessionInv, [SessionNext]_sessionVars PROVE NoWorkWaits'
<1> USE DEF SessionInv, NoWorkWaits
<1>1. ASSUME NEW kind \in {"single", "sub"}, Request(kind) PROVE NoWorkWaits'
  BY <1>1 DEF Request
<1>2. CASE StartWork
  BY <1>2, StartedIsJob
<1>3. CASE StartNothing \/ Completed \/ Cancelled \/ Expired \/ SetAgentAddress
  BY <1>3 DEF StartNothing, Completed, Cancelled, Expired, SetAgentAddress
<1>4. ASSUME NEW r \in ReqIds, Answer(r) PROVE NoWorkWaits'
  BY <1>4 DEF Answer, AnswerIgnored, AnswerCompletes, AnswerContinues,
              AnswerError, AnswerOdd
<1>5. CASE UNCHANGED sessionVars
  BY <1>5 DEF sessionVars
<1>6. QED
  BY <1>1, <1>2, <1>3, <1>4, <1>5 DEF SessionNext

LEMMA SessionStepInv ==
    ASSUME SessionInv, [SessionNext]_sessionVars PROVE SessionInv'
BY SessionTypeStep, HandlerStep, NoWorkStep DEF SessionInv

\* At every moment between two events the session has its timer running exactly
\* while it waits for an answer to the current job, and never rests with work in
\* its queue.
THEOREM SessionSafety ==
    SessionSpec => [](SessionTypeOK /\ WaitsForCurrent /\ NoWorkWaits)
<1>1. SessionInit => SessionInv
  BY SessionInitInv
<1>2. SessionInv /\ [SessionNext]_sessionVars => SessionInv'
  BY SessionStepInv
<1>3. SessionInv => SessionTypeOK /\ WaitsForCurrent /\ NoWorkWaits
  BY DEF SessionInv
<1>4. QED
  BY <1>1, <1>2, <1>3, PTL DEF SessionSpec

\* The type of the session's state: the queue never holds more jobs than addWork
\* lets in, and ids stay positive, as the constructor of a job asserts.
THEOREM SessionTyped == SessionSpec => []SessionTypeOK
BY SessionSafety, PTL

\* No handler returns to the event loop with work in the queue and none in service.
THEOREM NeverIdle == SessionSpec => []NoWorkWaits
BY SessionSafety, PTL

-----------------------------------------------------------------------------
\* The job in service, as the ledger sees it.
Serving == IF handler \in {"completing", "cancelling"} THEN NoJob ELSE m_current_work

\* An unused session is an empty ledger.
LEMMA SessionInitLedger == SessionInit => Ledger!LedgerInit
BY DEF SessionInit, Ledger!LedgerInit

\* Each step of the session is a step of the ledger or leaves it alone: a
\* request is accepted, startNextWork takes the oldest, and each signal settles
\* the job it names.
LEMMA SessionStepLedger ==
    ASSUME SessionInv, [SessionNext]_sessionVars
    PROVE  [Ledger!LedgerNext]_<<m_work_queue, Serving, report>>
<1> USE DEF Serving
<1>1. ASSUME NEW kind \in {"single", "sub"}, Request(kind)
      PROVE  [Ledger!LedgerNext]_<<m_work_queue, Serving, report>>
  <2>1. [id |-> NextWorkId, kind |-> kind] \in Jobs
    BY WorkIdInRange DEF Jobs, SessionInv, SessionTypeOK
  <2>2. UNCHANGED <<Serving, report>>
    BY <1>1 DEF Request, SessionInv, HandlerInv
  <2>3. CASE Len(m_work_queue) < QueueLimit
    <3>1. Ledger!Accept([id |-> NextWorkId, kind |-> kind])
      BY <1>1, <2>2, <2>3 DEF Request, Ledger!Accept
    <3>2. QED
      BY <2>1, <3>1 DEF Ledger!LedgerNext
  <2>4. CASE ~(Len(m_work_queue) < QueueLimit)
    BY <1>1, <2>2, <2>4 DEF Request
  <2>5. QED
    BY <2>3, <2>4
<1>2. CASE StartWork
  <2>1. Serving = NoJob /\ m_work_queue # <<>> /\ m_request_id = NoId
    BY <1>2 DEF StartWork, SessionInv, HandlerInv
  <2>2. m_work_queue' = Tail(m_work_queue)
        /\ m_current_work' = Head(m_work_queue)
    BY <1>2 DEF StartWork
  <2>3. ASSUME NEW r \in ReqIds, SendWorks(r) PROVE Ledger!Take
    BY <2>1, <2>2, <2>3 DEF SendWorks, Ledger!Take
  <2>4. ASSUME NEW r \in ReqIds, SendFails(r, Head(m_work_queue))
        PROVE  Ledger!TakeAndSettle
    BY <2>1, <2>2, <2>4 DEF SendFails, Emit, Ledger!TakeAndSettle
  <2>5. QED
    BY <1>2, <2>1, <2>3, <2>4 DEF StartWork, Send, Ledger!LedgerNext
<1>3. CASE StartNothing \/ Completed \/ Cancelled \/ SetAgentAddress
  BY <1>3 DEF StartNothing, Completed, Cancelled, SetAgentAddress, SessionInv,
              HandlerInv
<1>4. CASE Expired
  <2>1. Ledger!Settle
    BY <1>4 DEF Expired, Emit, SessionInv, WaitsForCurrent, Ledger!Settle
  <2>2. QED
    BY <2>1 DEF Ledger!LedgerNext
<1>5. ASSUME NEW r \in ReqIds, Answer(r)
      PROVE  [Ledger!LedgerNext]_<<m_work_queue, Serving, report>>
  <2>1. CASE AnswerIgnored(r) \/ AnswerError(r) \/ AnswerOdd(r)
    BY <2>1 DEF AnswerIgnored, AnswerError, AnswerOdd
  <2>2. CASE AnswerCompletes(r)
    <3>1. m_current_work # NoJob
      BY <2>2, SessionAssumption
         DEF AnswerCompletes, Matches, SessionInv, WaitsForCurrent
    <3>2. Ledger!Settle
      BY <2>2, <3>1 DEF AnswerCompletes, Emit, Ledger!Settle
    <3>3. QED
      BY <3>2 DEF Ledger!LedgerNext
  <2>3. CASE AnswerContinues(r)
    <3>1. CASE UNCHANGED <<handler, report>>
      BY <2>3, <3>1 DEF AnswerContinues
    <3>2. CASE handler' = "cancelling" /\ Emit(m_current_work)
      <4>1. Ledger!Settle
        BY <2>3, <3>2 DEF AnswerContinues, Emit, Ledger!Settle
      <4>2. QED
        BY <4>1 DEF Ledger!LedgerNext
    <3>3. QED
      BY <2>3, <3>1, <3>2 DEF AnswerContinues
  <2>4. QED
    BY <1>5, <2>1, <2>2, <2>3 DEF Answer
<1>6. CASE UNCHANGED sessionVars
  BY <1>6 DEF sessionVars
<1>7. QED
  BY <1>1, <1>2, <1>3, <1>4, <1>5, <1>6 DEF SessionNext

\* The session keeps the ledger: every accepted request is reported at most once
\* and in its turn, whatever is lost, late, repeated or asked for in between.
THEOREM SessionKeepsLedger == SessionSpec => LedgerHolds
<1>1. SessionInit => SessionInv
  BY SessionInitInv
<1>2. SessionInv /\ [SessionNext]_sessionVars => SessionInv'
  BY SessionStepInv
<1>3. SessionInit => Ledger!LedgerInit
  BY SessionInitLedger
<1>4. SessionInv /\ [SessionNext]_sessionVars
        => [Ledger!LedgerNext]_<<m_work_queue, Serving, report>>
  BY SessionStepLedger
<1>5. QED
  BY <1>1, <1>2, <1>3, <1>4, PTL
     DEF SessionSpec, LedgerHolds, Ledger!LedgerSpec, Ledger!ledgerVars, Serving
=============================================================================
