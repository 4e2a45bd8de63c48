----------------------------- MODULE ReadValue -----------------------------
(***************************************************************************)
(* SnmpThread::devDataV3: one reading of one number from the device, with  *)
(* the objects of the SNMP library it is made of.  The worker ignores what *)
(* it returns and looks at the value only, which is 0 before the call.     *)
(* readVersion is 1: the code for SNMPv3 cannot be reached.  What the      *)
(* session does with a request is not in the repository: any answer.       *)
(***************************************************************************)
EXTENDS SnmpObjects

CONSTANTS
    AskedOids,     \* identifiers of the configuration; the empty one is not valid
    AnsweredOids,  \* identifiers in answers
    Contents,      \* numbers in answers; a negative one stands for any other text
    MaxVbs         \* bound: variables in an answer

ASSUME ReadAssumption ==
    /\ \A s \in AskedOids \cup AnsweredOids : s \in Seq(SubIds) /\ Len(s) <= MaxOid
    /\ Contents \subseteq Int /\ MaxVbs \in Nat

VARIABLES
    reader,    \* the local variables of a call and what it has to give back
    answer     \* what the session gave: the variables of the answer
readVars == <<reader, answer>>

NoAddr == [AddressNew("UdpAddress", 4, [n \in 1..ADDRBUF |-> 0]) EXCEPT !.valid = FALSE]
Idle == [pc |-> "idle", oid |-> Oid(<<>>), address |-> NoAddr,
         ctarget |-> CTarget(GenAddress(NoAddr)), pdu |-> Pdu, vb |-> Vb(Oid(<<>>)), z |-> 0,
         sockets |-> 0, value |-> 0, ret |-> FALSE]

ReadInit == reader = Idle /\ answer = <<>>

\* An early return: the sockets are cleaned up.
Return == reader' = [reader EXCEPT !.pc = "done", !.sockets = @ - 1] /\ UNCHANGED answer

\* The address and the identifier are parsed; socket_startup comes before.
ReadBegin(asked, reachable) ==
    /\ reader.pc = "idle"
    /\ reader' = [Idle EXCEPT !.pc = "parsed", !.sockets = 1, !.oid = Oid(asked),
                              !.address = AddressParse(@, reachable, 4, Tail(@.value))]
    /\ answer' = <<>>

ReadRefused ==
    /\ reader.pc = "parsed"
    /\ ~reader.address.valid \/ ~reader.oid.valid
    /\ Return

\* The session could not be opened.
ReadSessionFails ==
    /\ reader.pc = "parsed" /\ reader.address.valid /\ reader.oid.valid
    /\ Return

\* The request: one variable without a value; the target.
ReadPrepare ==
    /\ reader.pc = "parsed" /\ reader.address.valid /\ reader.oid.valid
    /\ LET vb == SetVbOid(reader.vb, reader.oid)
           ctarget == SetVersion(CTarget(GenAddress(reader.address)), 1)
       IN  reader' = [reader EXCEPT !.pc = "asked", !.vb = vb, !.pdu = AddVb(@, vb),
                        !.ctarget = SetReadCommunity(SetTimeout(SetRetry(ctarget, 1), 1000),
                                                     "public")]
    /\ UNCHANGED answer

\* snmp.get fails after its retries, or gives the variables of an answer.
GetFails ==
    /\ reader.pc = "asked"
    /\ reader' = [reader EXCEPT !.pc = "done", !.sockets = @ - 1]
    /\ UNCHANGED answer

Answered(oid, content, status) ==
    IF status # SNMP_CLASS_SUCCESS THEN SetVbException(Vb(Oid(oid)), status)
    ELSE IF content < 0 THEN SetVbText(Vb(Oid(oid)), <<>>)
    ELSE SetVbValue(Vb(Oid(oid)), Counter64(content))

GetAnswers(vbs) ==
    /\ reader.pc = "asked"
    /\ reader' = [reader EXCEPT !.pc = "reading", !.pdu.vbs = vbs, !.z = 0]
    /\ answer' = vbs

\* Faulty: the last number of the identifier is not compared.
OtherTable(vb) ==
    NComparePrefix(Len(reader.oid.value) - 1, reader.oid, GetVbOid(vb, Oid(<<>>))) # 0

\* The answer is for another identifier.
OtherOid(vb) == NComparePrefix(Len(reader.oid.value), reader.oid, GetVbOid(vb, Oid(<<>>))) # 0

\* QString::toUInt of the printable value: 0 when that is no number.
ToUInt(vb) ==
    IF vb.iv_vb_value.class = "Counter64" THEN ToUInt64(vb.iv_vb_value) ELSE 0

ReadCut ==
    /\ reader.pc = "reading" /\ reader.z < GetVbCount(reader.pdu)
    /\ LET vb == GetVb(reader.pdu, reader.z)
       IN  OtherOid(vb) \/ vb.exception_status = endOfMibView
    /\ Return

ReadVariable ==
    /\ reader.pc = "reading" /\ reader.z < GetVbCount(reader.pdu)
    /\ LET vb == GetVb(reader.pdu, reader.z)
       IN  /\ ~OtherOid(vb) /\ vb.exception_status # endOfMibView
           /\ reader' = [reader EXCEPT !.vb = vb, !.value = ToUInt(vb), !.ret = TRUE,
                                       !.z = @ + 1]
    /\ UNCHANGED answer

\* set_vblist keeps the last variable.
ReadEnd ==
    /\ reader.pc = "reading" /\ reader.z = GetVbCount(reader.pdu)
    /\ reader' = [reader EXCEPT !.pc = "done", !.pdu.vbs = <<reader.vb>>, !.sockets = @ - 1]
    /\ UNCHANGED answer

\* The worker calls again.
ReadAgain == reader.pc = "done" /\ reader' = Idle /\ answer' = <<>>

ReadNext ==
    \/ \E asked \in AskedOids, reachable \in BOOLEAN : ReadBegin(asked, reachable)
    \/ ReadRefused \/ ReadSessionFails \/ ReadPrepare \/ GetFails
    \/ \E count \in 0..MaxVbs :
          \E oids \in [1..count -> AnsweredOids], contents \in [1..count -> Contents],
             statuses \in [1..count -> {SNMP_CLASS_SUCCESS, noSuchObject, endOfMibView}] :
              GetAnswers([n \in 1..count |-> Answered(oids[n], contents[n], statuses[n])])
    \/ ReadCut \/ ReadVariable \/ ReadEnd \/ ReadAgain

\* The worker's readings on their own.
ReadSpec == ReadInit /\ [][ReadNext]_readVars

-----------------------------------------------------------------------------
\* A variable of the answer that the worker may believe: it begins with the
\* identifier that was asked for and holds the number.
Supports(vb, value) ==
    /\ IsPrefix(reader.oid.value, vb.iv_vb_oid.value)
    /\ vb.exception_status = SNMP_CLASS_SUCCESS
    /\ vb.iv_vb_value = Counter64(value)

\* Since the worker counts a trial by the value alone, a reading that is not 0 must
\* come from an answer that supports it, the answer of an agent that knows what was
\* asked is read, whatever failed before is 0, and no call keeps the sockets or asks
\* an address that is not valid.
ReadTellsTruth ==
    /\ reader.value # 0 => \E n \in 1..Len(answer) : Supports(answer[n], reader.value)
    /\ reader.pc = "done" =>
          /\ reader.sockets = 0
          /\ ~reader.ret => reader.value = 0
          /\ \A value \in Contents :
                value >= 0 /\ Len(answer) = 1 /\ Supports(answer[1], value) =>
                    reader.ret /\ reader.value = value
    /\ reader.pc \in {"asked", "reading"} =>
          /\ reader.ctarget.validity
          /\ GenType(reader.ctarget.my_address) = "type_udp"
          /\ GenSyntax(reader.ctarget.my_address) = sNMP_SYNTAX["UdpAddress"]
          /\ GenAsn1Length(reader.ctarget.my_address) = 8
          /\ reader.z = 0 => reader.vb.iv_vb_oid.value = reader.oid.value
=============================================================================
