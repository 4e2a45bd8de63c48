---------------------------- MODULE SnmpObjects ----------------------------
(***************************************************************************)
(* The objects of the SNMP library that a request is made of: variables,   *)
(* addresses of any family, requests and targets (vb.h, address.h, pdu.h,  *)
(* target.h), filled in, shown and handed from one to another through      *)
(* their members by a caller who holds two of a family.  Copies, and what  *)
(* they are assigned, are not in the repository: a copy has all of the     *)
(* members.                                                                *)
(***************************************************************************)
EXTENDS SmiValues

CONSTANTS
    ObjectOids,    \* identifiers and texts that a caller has
    MaxSets        \* bound: calls that change an object

ASSUME ObjectsAssumption ==
    /\ \A s \in ObjectOids : s \in Seq(SubIds) /\ Len(s) <= MaxOid
    /\ ObjectOids # {} /\ MaxSets \in Nat

VARIABLES
    family,     \* what the caller holds
    held,       \* two of them
    defaults,   \* the static default_timeout and default_retries of SnmpTarget
    sets        \* calls so far
objectVars == <<family, held, defaults, sets>>

SNMP_CLASS_SUCCESS == 0
noSuchObject == 128
endOfMibView == 130
NoValue == [class |-> "none"]

\* A record with more fields: @@ of module TLC, whose definition the provers do not know.
r ++ more ==
    [f \in DOMAIN r \cup DOMAIN more |-> IF f \in DOMAIN r THEN r[f] ELSE more[f]]

-----------------------------------------------------------------------------
\* vb.h: an identifier with a copy of a value, or with an exception.
Vb(oid) == [iv_vb_oid |-> oid, iv_vb_value |-> NoValue, exception_status |-> SNMP_CLASS_SUCCESS]
VbCopy(vb) == vb
FreeVb(vb) == [vb EXCEPT !.iv_vb_value = NoValue, !.exception_status = SNMP_CLASS_SUCCESS]
SetVbOid(vb, oid) == [vb EXCEPT !.iv_vb_oid = OidAssign(@, oid)]
GetVbOid(vb, oid) == OidAssign(oid, vb.iv_vb_oid)
SetVbValue(vb, val) == [FreeVb(vb) EXCEPT !.iv_vb_value = Cloned(val)]
SetVbInt(vb, i) == [FreeVb(vb) EXCEPT !.iv_vb_value = SnmpInt32(i)]
SetVbUInt(vb, i) == [FreeVb(vb) EXCEPT !.iv_vb_value = SnmpUInt32(i)]
SetVbText(vb, bytes) == [FreeVb(vb) EXCEPT !.iv_vb_value = OctetStr(bytes)]
SetVbNull(vb) == FreeVb(vb)
\* Faulty: the value stays.
SetStatusOnly(vb, status) == [vb EXCEPT !.exception_status = status]
SetVbException(vb, status) == [FreeVb(vb) EXCEPT !.exception_status = status]
CloneVbValue(vb) == IF vb.iv_vb_value = NoValue THEN NoValue ELSE Cloned(vb.iv_vb_value)
\* get_printable_oid: the identifier keeps the text.
VbPrintableOid(vb) == [vb EXCEPT !.iv_vb_oid = Printed(@)]
ClearVb(vb) == [FreeVb(vb) EXCEPT !.iv_vb_oid = OidClear(@)]

-----------------------------------------------------------------------------
\* address.h: a GenAddress holds a copy of an address, or none, and asks it.
EmptyGenAddress == [address |-> NoValue, valid_flag |-> FALSE]
GenAddress(address) == [address |-> Cloned(address), valid_flag |-> address.valid]
GenCopy(gen) == gen
GenSyntax(gen) == IF gen.address = NoValue THEN 5 ELSE Syntax(gen.address)
GenAsn1Length(gen) == IF gen.address = NoValue THEN 2 ELSE Asn1Length(gen.address)
GenLength(gen) ==
    IF gen.address = NoValue THEN 0
    ELSE IF gen.address.class = "IpAddress" THEN IpLength(gen.address) ELSE UdpLength(gen.address)
GenPrintable(gen) == IF gen.address = NoValue THEN gen ELSE [gen EXCEPT !.address = Printed(@)]
GenType(gen) ==
    IF ~gen.valid_flag THEN "type_invalid"
    ELSE IF gen.address.class = "IpAddress" THEN IpType ELSE UdpType
\* "Reset the object" (address.h:1124) resets the address it holds, and not its own
\* valid_flag: unlike the other addresses it goes on saying that it is valid.
GenClear(gen) == [gen EXCEPT !.address = IF @ = NoValue THEN @ ELSE AddressClear(@)]
CastAddress(gen) == gen.address

-----------------------------------------------------------------------------
\* pdu.h: a request or an answer.
PduHeader == {"error_status", "error_index", "request_id", "pdu_type"}
PduMessage == {"message_id", "maxsize_scopedpdu"}
PduNumbers == PduHeader \cup PduMessage \cup {"security_level"}
PduNotify == {"notify_id", "notify_enterprise"}
PduContext == {"context_name", "context_engine_id"}

Pdu == [f \in PduNumbers |-> 0] ++ [f \in PduNotify |-> Oid(<<>>)]
       ++ [f \in PduContext |-> OctetStr(<<>>)]
       ++ [vbs |-> <<>>, notify_timestamp |-> TimeTicksNew(0)]
PduCopy(pdu) == pdu
AddVb(pdu, vb) == [pdu EXCEPT !.vbs = Append(@, vb)]
GetVbCount(pdu) == Len(pdu.vbs)
GetVb(pdu, index) == pdu.vbs[index + 1]
\* operator [] gives the variable itself, which the caller then changes.
PutVb(pdu, index, vb) == [pdu EXCEPT !.vbs[index + 1] = vb]

SetHeader(pdu, field, n) == [pdu EXCEPT ![field] = n]
ClearError(pdu) == SetHeader(SetHeader(pdu, "error_status", 0), "error_index", 0)
SetMessage(pdu, field, n) == [pdu EXCEPT ![field] = n]
SetSecurityLevel(pdu, level) == [pdu EXCEPT !.security_level = level]

SetTimestamp(pdu, ts) == [pdu EXCEPT !.notify_timestamp = TimeTicksAssign(@, ts)]
GetTimestamp(pdu, ts) == TimeTicksAssign(ts, pdu.notify_timestamp)

\* The identifiers and the texts.
SetNotify(pdu, field, id) == [pdu EXCEPT ![field] = OidAssign(@, id)]
GetNotify(pdu, field, id) == OidAssign(id, pdu[field])
SetContext(pdu, field, text) == [pdu EXCEPT ![field] = OctetAssign(@, text)]
GetContext(pdu, field, text) == OctetAssign(text, pdu[field])

-----------------------------------------------------------------------------
\* target.h: where a request goes, and how.  A CTarget has two communities, a UTarget
\* a user of SNMPv3; the constructors of both are not in the repository.
SnmpTarget(gen) ==
    [validity |-> gen.valid_flag, timeout |-> defaults.timeout,
     retries |-> defaults.retries, version |-> 1, ttype |-> "type_base", my_address |-> gen]
CTarget(gen) ==
    [SnmpTarget(gen) EXCEPT !.ttype = "type_ctarget"]
        ++ [read_community |-> "public", write_community |-> "public"]
UTarget(gen) ==
    [SnmpTarget(gen) EXCEPT !.ttype = "type_utarget", !.version = 3]
        ++ [security_name |-> "initial", security_model |-> 3, engine_id |-> ""]
TargetCopy(target) == target
SetDefaultTimeout(ticks) == defaults' = [defaults EXCEPT !.timeout = ticks]
SetDefaultRetries(r) == defaults' = [defaults EXCEPT !.retries = r]
SetVersion(target, v) == [target EXCEPT !.version = v]
SetRetry(target, r) == [target EXCEPT !.retries = r]
SetTimeout(target, ticks) == [target EXCEPT !.timeout = ticks]
SetReadCommunity(target, name) == [target EXCEPT !.read_community = name]
SetWriteCommunity(target, name) == [target EXCEPT !.write_community = name]
SetSecurityName(target, name) == [target EXCEPT !.security_name = name]
SetEngineId(target, id) == [target EXCEPT !.engine_id = id]
SetSecurityModel(target, model) == [target EXCEPT !.security_model = model]
GetAddress(target) == target.my_address

-----------------------------------------------------------------------------
New(f) ==
    CASE f = "vb" -> Vb(Oid(<<>>)) [] f = "address" -> EmptyGenAddress
      [] f = "pdu" -> Pdu [] f = "target" -> CTarget(EmptyGenAddress)

ObjectsInit ==
    /\ family \in {"vb", "address", "pdu", "target"}
    /\ defaults = [timeout |-> 100, retries |-> 1]
    /\ held = [h \in {"a", "b"} |-> New(family)]
    /\ sets = 0

Hold(h, object) == held' = [held EXCEPT ![h] = object] /\ UNCHANGED defaults

\* A variable takes what the caller has, or the identifier and the value of another one.
UseVb(h) ==
    \/ \E s \in ObjectOids :
          \/ Hold(h, SetVbOid(held[h], Oid(s)))
          \/ Hold(h, SetVbText(held[h], s))
          \/ Hold(h, SetVbValue(held[h], Oid(s)))
    \/ \E i \in Longs : Hold(h, SetVbInt(held[h], i))
    \/ \E i \in ULongs : Hold(h, SetVbUInt(held[h], i))
    \/ Hold(h, SetVbNull(held[h]))
    \/ Hold(h, SetVbException(held[h], noSuchObject))
    \/ Hold(h, VbPrintableOid(held[h]))
    \/ Hold(h, ClearVb(held[h]))
    \/ \E g \in {"a", "b"} :
          \/ Hold(h, SetVbOid(held[h], GetVbOid(held[g], Oid(<<>>))))
          \/ LET value == CloneVbValue(held[g])
             IN  value # NoValue /\ Hold(h, SetVbValue(held[h], value))

\* An address is made of a text, or of the one that another holds.
UseAddress(h) ==
    \/ \E class \in {"IpAddress", "UdpAddress"}, f \in Families, success \in BOOLEAN :
          LET bytes == [n \in 1..ADDRBUF |-> 1]
          IN  Hold(h, GenAddress(AddressParse(AddressNew(class, f, bytes), success, f, bytes)))
    \/ Hold(h, GenPrintable(held[h]))
    \/ Hold(h, GenClear(held[h]))
    \/ \E g \in {"a", "b"} :
          held[g].valid_flag /\ Hold(h, GenAddress(CastAddress(held[g])))

\* What a caller does with a variable of a request, in place.
Revised(vb) ==
    {VbPrintableOid(vb), SetVbException(vb, noSuchObject), SetVbNull(vb)}
        \cup {SetVbUInt(vb, i) : i \in ULongs}

UsePdu(h) ==
    \/ \E f \in PduHeader, n \in {0, 1} : Hold(h, SetHeader(held[h], f, n))
    \/ Hold(h, ClearError(held[h]))
    \/ \E f \in PduMessage, n \in {0, 1} : Hold(h, SetMessage(held[h], f, n))
    \/ Hold(h, SetSecurityLevel(held[h], 3))
    \/ \E i \in ULongs : Hold(h, SetTimestamp(held[h], TimeTicksNew(i)))
    \/ \E s \in ObjectOids :
          \/ \E f \in PduNotify : Hold(h, SetNotify(held[h], f, Oid(s)))
          \/ \E f \in PduContext : Hold(h, SetContext(held[h], f, OctetStr(s)))
          \/ Hold(h, AddVb(held[h], Vb(Oid(s))))
    \/ \E n \in 1..GetVbCount(held[h]) : \E vb \in Revised(GetVb(held[h], n - 1)) :
          Hold(h, PutVb(held[h], n - 1, vb))
    \/ \E g \in {"a", "b"} :
          \/ \E n \in 1..GetVbCount(held[g]) : Hold(h, AddVb(held[h], GetVb(held[g], n - 1)))
          \/ Hold(h, SetTimestamp(held[h], GetTimestamp(held[g], TimeTicksNew(0))))
          \/ \E f \in PduNotify : Hold(h, SetNotify(held[h], f, GetNotify(held[g], f, Oid(<<>>))))
          \/ \E f \in PduContext :
                Hold(h, SetContext(held[h], f, GetContext(held[g], f, OctetStr(<<>>))))

\* A target is made for an address of the caller, cleared or not, or for that of another.
Gens ==
    LET address == AddressNew("UdpAddress", 4, [n \in 1..ADDRBUF |-> 1])
    IN  {GenAddress(address), GenAddress([address EXCEPT !.valid = FALSE]),
         GenClear(GenAddress(address))}

UseTarget(h) ==
    \/ \E gen \in Gens \cup {GetAddress(held["a"]), GetAddress(held["b"])} :
          Hold(h, CTarget(gen)) \/ Hold(h, UTarget(gen))
    \/ Hold(h, SetVersion(held[h], 2))
    \/ Hold(h, SetRetry(held[h], 2))
    \/ Hold(h, SetTimeout(held[h], 1000))
    \/ /\ held[h].ttype = "type_ctarget"
       /\ \/ Hold(h, SetReadCommunity(held[h], "private"))
          \/ Hold(h, SetWriteCommunity(held[h], "private"))
    \/ /\ held[h].ttype = "type_utarget"
       /\ \/ Hold(h, SetSecurityName(held[h], "user"))
          \/ Hold(h, SetEngineId(held[h], "engine"))
          \/ Hold(h, SetSecurityModel(held[h], 1))

\* The defaults are changed for all targets to come.
UseDefaults ==
    /\ family = "target"
    /\ SetDefaultTimeout(1000) \/ SetDefaultRetries(0)
    /\ UNCHANGED held

CopyObject(h, g) ==
    LET object == held[g]
    IN  /\ h # g
        /\ Hold(h, CASE family = "vb" -> VbCopy(object) [] family = "address" -> GenCopy(object)
                     [] family = "pdu" -> PduCopy(object) [] family = "target" -> TargetCopy(object))

ObjectsNext ==
    /\ sets < MaxSets /\ sets' = sets + 1 /\ UNCHANGED family
    /\ \/ \E h \in {"a", "b"} :
             \/ family = "vb" /\ UseVb(h)
             \/ family = "address" /\ UseAddress(h)
             \/ family = "pdu" /\ UsePdu(h)
             \/ family = "target" /\ UseTarget(h)
             \/ \E g \in {"a", "b"} : CopyObject(h, g)
       \/ UseDefaults

\* The objects of a request on their own.
ObjectsSpec == ObjectsInit /\ [][ObjectsNext]_objectVars

-----------------------------------------------------------------------------
\* A value as its class keeps it: what it holds is what it stands for, labelled as its
\* class is on the wire, with no text but its own, and an identifier says that it is
\* valid when it has numbers.
Sound(o) ==
    /\ o.meant = IF o.class = "Counter64" THEN <<ToUInt64(o)>> ELSE o.value
    /\ o.syntax = Syntax(o)
    /\ o.changed \/ o.text = o.value
    /\ o.class = "Oid" => (o.valid <=> o.value # <<>>)

SoundVb(vb) ==
    /\ Sound(vb.iv_vb_oid)
    /\ vb.iv_vb_value = NoValue \/ vb.exception_status = SNMP_CLASS_SUCCESS
    /\ vb.iv_vb_value # NoValue => Sound(vb.iv_vb_value)

SoundGen(gen) ==
    /\ GenType(gen) # "type_invalid" => gen.address # NoValue
    /\ gen.address # NoValue => Sound(gen.address)
    /\ GenSyntax(gen) = 5 <=> GenLength(gen) = 0
    /\ GenAsn1Length(gen) = GenLength(gen) + 2

\* Whatever is set, cleared, shown, copied or handed on, in whatever order: a variable
\* never has a value and an exception at once, which the reading of an answer takes for
\* granted; an address that gives a type has an address behind the pointer that it asks,
\* and so has the one of a target that says it is valid; the values inside of each object
\* are sound, in particular none keeps the text of what it was before.
ObjectsSound ==
    \A h \in {"a", "b"} :
        LET object == held[h]
        IN  /\ family = "vb" => SoundVb(object)
            /\ family = "address" => SoundGen(object)
            /\ family = "pdu" =>
                  /\ \A f \in PduNotify \cup PduContext : Sound(object[f])
                  /\ Sound(object.notify_timestamp)
                  /\ \A n \in 1..GetVbCount(object) : SoundVb(GetVb(object, n - 1))
            /\ family = "target" =>
                  /\ SoundGen(GetAddress(object))
                  /\ object.validity => GenType(GetAddress(object)) # "type_invalid"
=============================================================================
