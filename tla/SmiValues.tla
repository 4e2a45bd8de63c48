----------------------------- MODULE SmiValues -----------------------------
(***************************************************************************)
(* The values of the SNMP library that are written in its headers: numbers *)
(* of 32 and 64 bits, object identifiers, strings and addresses.  An       *)
(* object caches its text: get_printable, which is not in the repository, formats  *)
(* it again only when m_changed is set and then resets m_changed.          *)
(*                                                                         *)
(* Radix stands for 2^32, the range of an unsigned long.  A value is a     *)
(* sequence: the number; the high and the low part; the identifiers; the   *)
(* bytes; the family of an address and its bytes.  text is Unset when m_changed is.   *)
(***************************************************************************)
EXTENDS Integers, Sequences, SequencesExt

CONSTANTS
    Radix,     \* the number of values of an unsigned long
    SubIds,    \* the numbers in object identifiers
    MaxOid,    \* bound: numbers in one identifier, bytes in one string
    ADDRBUF    \* bytes of an address

ASSUME ValuesAssumption ==
    /\ Radix \in Nat \ {0, 1} /\ Radix % 2 = 0
    /\ SubIds \subseteq 0..(Radix - 1) /\ MaxOid \in Nat \ {0} /\ ADDRBUF \in Nat \ {0}

VARIABLE objs   \* two objects of a caller; meant is what they stand for

sNMP_SYNTAX == [SnmpInt32 |-> 2, SnmpUInt32 |-> 66, Counter32 |-> 65, Gauge32 |-> 66,
                TimeTicks |-> 67, Counter64 |-> 70, Oid |-> 6,
                IpAddress |-> 64, UdpAddress |-> 4, OctetStr |-> 4, OpaqueStr |-> 68,
                msec |-> 0]   \* a time has no syntax
Derived == {"Counter32", "Gauge32", "TimeTicks"}
Numbers == Derived \cup {"SnmpInt32", "SnmpUInt32"}
Strings == {"OctetStr", "OpaqueStr"}
Families == {4, 6, 7}   \* IPv4, IPv6, IPv6 with a scope

ULongs == 0..(Radix - 1)
Longs == (-(Radix \div 2))..(Radix \div 2 - 1)
ToULong(i) == i % Radix
ToLong(i) == IF ToULong(i) < Radix \div 2 THEN ToULong(i) ELSE ToULong(i) - Radix
Unset == <<>>

Touched(o) == [o EXCEPT !.changed = TRUE, !.text = Unset]
Object(class, value, meant) ==
    [class |-> class, syntax |-> sNMP_SYNTAX[class], value |-> value, meant |-> meant,
     valid |-> TRUE, changed |-> TRUE, text |-> Unset]

-----------------------------------------------------------------------------
\* integer.h: SnmpUInt32, built, copied (also by clone), set, assigned and cleared.
SnmpUInt32(i) == Object("SnmpUInt32", <<i>>, <<i>>)
SnmpUInt32Copy(c) == [SnmpUInt32(c.value[1]) EXCEPT !.valid = c.valid, !.meant = c.meant]
SnmpUInt32Clone(c) == SnmpUInt32Copy(c)
SnmpUInt32Syntax == 66
SnmpUInt32Set(o, i) ==
    [Touched(o) EXCEPT !.value = <<i>>, !.valid = TRUE, !.meant = <<i>>]
SnmpUInt32Assign(o, c) ==
    [Touched(o) EXCEPT !.value = c.value, !.valid = c.valid, !.meant = c.meant]
SnmpUInt32Clear(o) ==
    [Touched(o) EXCEPT !.value = <<0>>, !.valid = TRUE, !.meant = <<0>>]

\* integer.h: SnmpInt32.
SnmpInt32(i) == Object("SnmpInt32", <<i>>, <<i>>)
SnmpInt32Copy(c) == [SnmpInt32(c.value[1]) EXCEPT !.valid = c.valid, !.meant = c.meant]
SnmpInt32Clone(c) == SnmpInt32Copy(c)
SnmpInt32Syntax == 2
SnmpInt32Set(o, i) ==
    [Touched(o) EXCEPT !.value = <<i>>, !.valid = TRUE, !.meant = <<i>>]
SnmpInt32Assign(o, c) ==
    [Touched(o) EXCEPT !.value = c.value, !.valid = c.valid, !.meant = c.meant]
SnmpInt32Clear(o) ==
    [Touched(o) EXCEPT !.value = <<0>>, !.valid = TRUE, !.meant = <<0>>]

\* What the three derived classes put on top of an SnmpUInt32.
Relabelled(class, o) == [o EXCEPT !.class = class, !.syntax = sNMP_SYNTAX[class]]
\* They hide get_syntax and clone of SnmpUInt32.
Counter32New(i) == Relabelled("Counter32", SnmpUInt32(i))
Counter32Copy(c) == Relabelled("Counter32", SnmpUInt32Copy(c))
Counter32Clone(c) == Counter32Copy(c)
Counter32Syntax == 65
Gauge32New(i) == Relabelled("Gauge32", SnmpUInt32(i))
Gauge32Copy(c) == Relabelled("Gauge32", SnmpUInt32Copy(c))
Gauge32Clone(c) == Gauge32Copy(c)
Gauge32Syntax == 66
TimeTicksNew(i) == Relabelled("TimeTicks", SnmpUInt32(i))
TimeTicksCopy(c) == Relabelled("TimeTicks", SnmpUInt32Copy(c))
TimeTicksClone(c) == TimeTicksCopy(c)
TimeTicksSyntax == 67

\* The operator = of each of them for its own class.
Counter32Assign(o, c) ==
    [Touched(o) EXCEPT !.value = c.value, !.valid = c.valid, !.meant = c.meant]
Gauge32Assign(o, c) ==
    [Touched(o) EXCEPT !.value = c.value, !.valid = c.valid, !.meant = c.meant]
TimeTicksAssign(o, c) ==
    [Touched(o) EXCEPT !.value = c.value, !.valid = c.valid, !.meant = c.meant]

\* Their operator = for a number, and what they are as a number.
Counter32Set(o, i) == SnmpUInt32Set(o, i)
Gauge32Set(o, i) == SnmpUInt32Set(o, i)
TimeTicksSet(o, i) == SnmpUInt32Set(o, i)
UnsignedLong(o) == o.value[1]
SignedLong(o) == o.value[1]

-----------------------------------------------------------------------------
\* ctr64.h: Counter64 of a number, of two parts, and back.
Counter64(n) == Object("Counter64", <<n \div Radix, n % Radix>>, <<n>>)
Counter64Parts(hi, lo) == Object("Counter64", <<hi, lo>>, <<hi * Radix + lo>>)
Counter64Copy(c) == [Counter64(0) EXCEPT !.value = c.value, !.meant = c.meant]
Counter64Clone(c) == Counter64Copy(c)
Counter64Syntax == 70
High(o) == o.value[1]
Low(o) == o.value[2]
ToUInt64(o) == High(o) * Radix + Low(o)
SetHigh(o, hi) ==
    [Touched(o) EXCEPT !.value[1] = hi, !.meant[1] = hi * Radix + (@ % Radix)]
\* Faulty: the text that was printed before stays.
SetLowSilently(o, lo) ==
    [o EXCEPT !.value[2] = lo, !.meant[1] = (@ \div Radix) * Radix + lo]
SetLow(o, lo) ==
    [Touched(o) EXCEPT !.value[2] = lo, !.meant[1] = (@ \div Radix) * Radix + lo]
\* The code keeps the upper half of the number, where its comment (ctr64.h:240) has the
\* high part cleared; what the object is to stand for is here the number it was given.
Counter64Set(o, n) ==
    [Touched(o) EXCEPT !.value = <<n \div Radix, n % Radix>>, !.meant = <<n>>]
Counter64Assign(o, c) == [Touched(o) EXCEPT !.value = c.value, !.meant = c.meant]
Counter64Clear(o) == [Touched(o) EXCEPT !.value = <<0, 0>>, !.meant = <<0>>]

-----------------------------------------------------------------------------
\* oid.h: no identifier is the null pointer, which valid() asks for.
Oid(raw) == [Object("Oid", raw, raw) EXCEPT !.valid = raw # <<>>]
DeleteOidPtr(o) == [Touched(o) EXCEPT !.value = <<>>, !.valid = FALSE]
OidCopy(source, target) ==
    IF source.value = <<>> THEN target
    ELSE [target EXCEPT !.value = source.value, !.valid = TRUE]
OidCopied(c) == [OidCopy(c, Oid(<<>>)) EXCEPT !.meant = c.meant]
OidClone(c) == OidCopied(c)
OidSyntax == 6
OidAssign(o, c) == [OidCopy(c, DeleteOidPtr(o)) EXCEPT !.meant = c.meant]
OidClear(o) == [DeleteOidPtr(o) EXCEPT !.meant = <<>>]

\* operator +=.  The pointer of this object is replaced before the other one is
\* read: appending an object to itself reads the new array.
OidAppend(o, c, same) ==
    LET n == Len(o.value)
        begun == o.value \o c.value   \* the size; the second part is not yet copied
        source == IF same THEN SubSeq(begun, 1, n) ELSE c.value
    IN  IF c.value = <<>> THEN o
        ELSE [Touched(o) EXCEPT !.value = SubSeq(begun, 1, n) \o source, !.valid = TRUE,
                                !.meant = @ \o c.meant]
OidAppendId(o, i) == OidAppend(o, Oid(<<i>>), FALSE)

OidPlus(o, c) == OidAppend(OidCopied(o), c, FALSE)

OidAt(o, k) == IF k > Len(o.value) THEN 0 ELSE o.value[k]
OidIndex(o, k, i) == [Touched(o) EXCEPT !.value[k] = i, !.meant[k] = i]

\* trim: the last n numbers, all of them or nothing.
OidTrim(o, n) ==
    LET rest == SubSeq(o.value, 1, Len(o.value) - n)
        meant == SubSeq(o.meant, 1, Len(o.meant) - n)
    IN  IF n \notin 1..Len(o.value) THEN o
        ELSE IF rest = <<>> THEN [DeleteOidPtr(o) EXCEPT !.meant = meant]
        ELSE [Touched(o) EXCEPT !.value = rest, !.meant = meant]

MinOf(i, j) == IF i < j THEN i ELSE j
MaxOf(i, j) == IF i > j THEN i ELSE j
Sign(i, j) == IF i < j THEN -1 ELSE IF i > j THEN 1 ELSE 0

\* The loop and the end of both nCompare: the first difference among the first
\* length numbers, and the lengths when one of them is shorter than that.
CompareUpTo(length, s, t) ==
    LET shared == MinOf(length, MinOf(Len(s), Len(t)))
        differ == {z \in 1..shared : s[z] # t[z]}
        first == CHOOSE z \in differ : \A y \in differ : z <= y
    IN  IF differ # {} THEN Sign(s[first], t[first])
        ELSE IF shared < length THEN Sign(Len(s), Len(t)) ELSE 0

NComparePrefix(n, o, c) ==
    LET longer == MaxOf(Len(o.value), Len(c.value))
    IN  CompareUpTo(MinOf(n, longer), o.value, c.value)
\* Faulty: the numbers that both have are all that is compared.
NCompareShared(o, c) == CompareUpTo(MinOf(Len(o.value), Len(c.value)), o.value, c.value)
NCompare(o, c) == CompareUpTo(MaxOf(Len(o.value), Len(c.value)), o.value, c.value)

\* The numbers that get_printable(start, n) shows, and those of get_printable(n).
OidPart(o, start, n) == SubSeq(o.value, start, start + n - 1)
OidTail(o, n) == OidPart(o, Len(o.value) - n + 1, n)

OidEq(o, c) == Len(o.value) = Len(c.value) /\ NCompare(o, c) = 0
OidNe(o, c) == ~OidEq(o, c)
OidLt(o, c) ==
    \/ NCompare(o, c) < 0
    \/ NCompare(o, c) = 0 /\ Len(o.value) < Len(c.value)
OidLe(o, c) == OidLt(o, c) \/ OidEq(o, c)
OidGt(o, c) == ~OidLe(o, c)
OidGe(o, c) == ~OidLt(o, c)

-----------------------------------------------------------------------------
\* octet.h.  The constructors and operators of OctetStr are not in the repository;
\* an OpaqueStr is an OctetStr that is labelled as its own class.
OctetStr(bytes) == Object("OctetStr", bytes, bytes)
OctetStrSyntax == 4
OpaqueStrSyntax == 68
OctetIndex(o, k, byte) ==
    [Touched(o) EXCEPT !.valid = TRUE, !.value[k] = byte, !.meant[k] = byte]
OpaqueStr(bytes) == Relabelled("OpaqueStr", OctetStr(bytes))
OctetCopy(c) == [OctetStr(c.value) EXCEPT !.meant = c.meant]
OpaqueOf(c) == Relabelled("OpaqueStr", OctetCopy(c))
OctetAssign(o, c) ==
    [Touched(o) EXCEPT !.value = c.value, !.meant = c.meant, !.valid = c.valid]
OpaqueAssign(o, c) == OctetAssign(o, c)

-----------------------------------------------------------------------------
\* address.h.  parse_address is not in the repository: any outcome.
Bytes == {0, 1}
AddressNew(class, family, bytes) ==
    Object(class, <<family>> \o bytes, <<family>> \o bytes)
AddressParse(o, success, family, bytes) ==
    [Touched(o) EXCEPT !.valid = success, !.value = <<family>> \o bytes,
                       !.meant = <<family>> \o bytes]

\* operator []: a position outside of the buffer is the first byte.
AddressCell(position) == IF position < ADDRBUF THEN position ELSE 0
AddressIndex(o, position, byte) ==
    [Touched(o) EXCEPT !.valid = TRUE, !.value[AddressCell(position) + 2] = byte,
                       !.meant[AddressCell(position) + 2] = byte]

AddressAt(o, position) == IF position < ADDRBUF THEN o.value[position + 2] ELSE 0

\* The copy constructors of the addresses are not in the repository.
AddressCopied(c) == [Touched(c) EXCEPT !.valid = c.valid]
IpClone(c) == AddressCopied(c)
UdpClone(c) == AddressCopied(c)
IpSyntax == 64
UdpSyntax == 4
IpType == "type_ip"
UdpType == "type_udp"

\* clear: no address any more; the family stays.
AddressClear(o) ==
    LET none == [n \in 1..Len(o.value) |-> IF n = 1 THEN o.value[1] ELSE 0]
    IN  [Touched(o) EXCEPT !.valid = FALSE, !.value = none, !.meant = none]

\* What tells the families apart on the wire.
IpLength(o) == CASE o.value[1] = 4 -> 4 [] o.value[1] = 6 -> 16 [] o.value[1] = 7 -> 20
IpInetType(o) == CASE o.value[1] = 4 -> 1 [] o.value[1] = 6 -> 2 [] o.value[1] = 7 -> 4
HasIpv6Scope(o) == o.value[1] = 7
UdpLength(o) == CASE o.value[1] = 4 -> 6 [] o.value[1] = 6 -> 18 [] o.value[1] = 7 -> 22
IpVersion(o) == IF o.value[1] = 4 THEN "version_ipv4" ELSE "version_ipv6"
Asn1Length(o) == (IF o.class = "IpAddress" THEN IpLength(o) ELSE UdpLength(o)) + 2
IS_IP6LEN(n) == n \in {16, 20}
IS_UDPIP6LEN(n) == n \in {18, 22}

-----------------------------------------------------------------------------
\* msec.h: seconds and milliseconds; -1 seconds are no end.
Msec(sec, milsec) == Object("msec", <<sec, milsec>>, <<sec, milsec>>)
MsecCopy(c) == [Msec(0, 0) EXCEPT !.value = c.value, !.meant = c.meant]
MsecAssign(o, c) == [Touched(o) EXCEPT !.value = c.value, !.meant = c.meant]
SetInfinite(o) == [Touched(o) EXCEPT !.value = <<-1, 0>>, !.meant = <<-1, 0>>]
IsInfinite(o) == o.value[1] = -1 /\ o.value[2] = 0
MsecULong(o) == o.value[1] * 1000 + o.value[2]

-----------------------------------------------------------------------------
\* get_printable of the classes; format_output and those of the numbers, which are not
\* in the repository, keep the text that it formats.
FormatOutput(o) == [o EXCEPT !.changed = FALSE, !.text = o.value]
IpPrintable(o) == IF o.changed THEN FormatOutput(o) ELSE o
UdpPrintable(o) == IF o.changed THEN FormatOutput(o) ELSE o
Printed(o) ==
    CASE o.class = "IpAddress" -> IpPrintable(o)
      [] o.class = "UdpAddress" -> UdpPrintable(o)
      [] OTHER -> IF o.changed THEN FormatOutput(o) ELSE o

\* get_syntax
Syntax(o) ==
    CASE o.class = "SnmpUInt32" -> SnmpUInt32Syntax
      [] o.class = "SnmpInt32" -> SnmpInt32Syntax
      [] o.class = "Counter32" -> Counter32Syntax
      [] o.class = "Gauge32" -> Gauge32Syntax
      [] o.class = "TimeTicks" -> TimeTicksSyntax
      [] o.class = "Counter64" -> Counter64Syntax
      [] o.class = "Oid" -> OidSyntax
      [] o.class = "OctetStr" -> OctetStrSyntax
      [] o.class = "OpaqueStr" -> OpaqueStrSyntax
      [] o.class = "IpAddress" -> IpSyntax
      [] o.class = "UdpAddress" -> UdpSyntax
      [] o.class = "msec" -> 0

\* What operator = does for two different objects: the classes of unsigned numbers
\* inherit the one of SnmpUInt32, signed and unsigned ones convert.
Assigned(o, c) ==
    CASE o.class = c.class ->
            (CASE o.class = "SnmpUInt32" -> SnmpUInt32Assign(o, c)
               [] o.class = "SnmpInt32" -> SnmpInt32Assign(o, c)
               [] o.class = "Counter32" -> Counter32Assign(o, c)
               [] o.class = "Gauge32" -> Gauge32Assign(o, c)
               [] o.class = "TimeTicks" -> TimeTicksAssign(o, c)
               [] o.class = "Counter64" -> Counter64Assign(o, c)
               [] o.class = "Oid" -> OidAssign(o, c)
               [] o.class = "OctetStr" -> OctetAssign(o, c)
               [] o.class = "OpaqueStr" -> OpaqueAssign(o, c)
               [] o.class = "msec" -> MsecAssign(o, c)
               [] OTHER -> [Touched(o) EXCEPT !.value = c.value, !.meant = c.meant,
                                              !.valid = c.valid])
      [] o.class = "OpaqueStr" -> OpaqueAssign(o, c)
      [] o.class = "OctetStr" -> OctetAssign(o, c)
      [] o.class = "SnmpInt32" /\ c.class # "SnmpInt32" ->
            SnmpInt32Set(o, ToLong(UnsignedLong(c)))
      [] o.class # "SnmpInt32" /\ c.class = "SnmpInt32" ->
            (CASE o.class = "Counter32" -> Counter32Set(o, ToULong(SignedLong(c)))
               [] o.class = "Gauge32" -> Gauge32Set(o, ToULong(SignedLong(c)))
               [] o.class = "TimeTicks" -> TimeTicksSet(o, ToULong(SignedLong(c)))
               [] OTHER -> SnmpUInt32Set(o, ToULong(SignedLong(c))))
      [] OTHER -> SnmpUInt32Assign(o, c)

\* clone, and the copy constructor of a time.
Cloned(c) ==
    CASE c.class = "SnmpUInt32" -> SnmpUInt32Clone(c)
      [] c.class = "SnmpInt32" -> SnmpInt32Clone(c)
      [] c.class = "Counter32" -> Counter32Clone(c)
      [] c.class = "Gauge32" -> Gauge32Clone(c)
      [] c.class = "TimeTicks" -> TimeTicksClone(c)
      [] c.class = "Counter64" -> Counter64Clone(c)
      [] c.class = "Oid" -> OidClone(c)
      [] c.class = "OctetStr" -> OctetCopy(c)
      [] c.class = "OpaqueStr" -> OpaqueOf(c)
      [] c.class = "IpAddress" -> IpClone(c)
      [] c.class = "UdpAddress" -> UdpClone(c)
      [] c.class = "msec" -> MsecCopy(c)

ValuesInit == objs = [h \in {"a", "b"} |-> SnmpUInt32(0)]
Becomes(h, o) == objs' = [objs EXCEPT ![h] = o]

\* A new object takes the place of h.
Build(h) ==
    \/ \E i \in ULongs : \E o \in {SnmpUInt32(i), Counter32New(i), Gauge32New(i),
                                   TimeTicksNew(i)} : Becomes(h, o)
    \/ \E i \in Longs : Becomes(h, SnmpInt32(i))
    \/ \E n \in 0..(Radix * Radix - 1) : Becomes(h, Counter64(n))
    \/ \E hi \in ULongs, lo \in ULongs : Becomes(h, Counter64Parts(hi, lo))
    \/ \E i \in SubIds : Becomes(h, Oid(<<i>>))
    \/ Becomes(h, Oid(<<>>))
    \/ \E n \in 0..MaxOid : \E bytes \in [1..n -> Bytes] :
          Becomes(h, OctetStr(bytes)) \/ Becomes(h, OpaqueStr(bytes))
    \/ \E sec \in {0, 1}, milsec \in {0, 1} : Becomes(h, Msec(sec, milsec))
    \/ \E class \in {"IpAddress", "UdpAddress"}, family \in Families :
          Becomes(h, AddressNew(class, family, [n \in 1..ADDRBUF |-> 0]))

Copy(h, g) == h # g /\ Becomes(h, Cloned(objs[g]))
\* A counter, gauge or time is copied as the SnmpUInt32 that it is.
Slice(h, g) == h # g /\ objs[g].class \in Derived /\ Becomes(h, SnmpUInt32Copy(objs[g]))
\* Any string makes an OpaqueStr and an OctetStr.
Restring(h, g) ==
    /\ h # g /\ objs[g].class \in Strings
    /\ Becomes(h, OpaqueOf(objs[g])) \/ Becomes(h, OctetCopy(objs[g]))

AssignTo(h, g) ==
    /\ h # g
    /\ \/ objs[h].class = objs[g].class
       \/ \E kind \in {Numbers, Strings} : {objs[h].class, objs[g].class} \subseteq kind
    /\ Becomes(h, Assigned(objs[h], objs[g]))

Change(h) ==
    LET o == objs[h]
    IN  \/ /\ o.class \in Numbers \ {"SnmpInt32"}
           /\ \/ \E i \in ULongs : Becomes(h, SnmpUInt32Set(o, i))
              \/ Becomes(h, SnmpUInt32Clear(o))
        \/ /\ o.class = "SnmpInt32"
           /\ \/ \E i \in Longs : Becomes(h, SnmpInt32Set(o, i))
              \/ Becomes(h, SnmpInt32Clear(o))
        \/ /\ o.class = "Counter64"
           /\ \/ \E n \in 0..(Radix * Radix - 1) : Becomes(h, Counter64Set(o, n))
              \/ \E i \in ULongs : Becomes(h, SetHigh(o, i)) \/ Becomes(h, SetLow(o, i))
              \/ Becomes(h, Counter64Clear(o))
        \/ /\ o.class = "Oid"
           /\ \/ \E k \in 1..Len(o.value), i \in SubIds : Becomes(h, OidIndex(o, k, i))
              \/ \E n \in 0..(MaxOid + 1) : Becomes(h, OidTrim(o, n))
              \/ Becomes(h, OidClear(o))
              \/ /\ Len(o.value) < MaxOid
                 /\ \E i \in SubIds : Becomes(h, OidAppendId(o, i))
        \/ /\ o.class \in Strings
           /\ \E k \in 1..Len(o.value), byte \in Bytes : Becomes(h, OctetIndex(o, k, byte))
        \/ o.class = "msec" /\ Becomes(h, SetInfinite(o))
        \/ /\ o.class \in {"IpAddress", "UdpAddress"}
           /\ \/ Becomes(h, AddressClear(o))
              \/ \E position \in 0..ADDRBUF, byte \in Bytes :
                    Becomes(h, AddressIndex(o, position, byte))
              \/ \E success \in BOOLEAN, family \in Families :
                    Becomes(h, AddressParse(o, success, family, [n \in 1..ADDRBUF |-> 1]))

\* operator += with the other object or with itself, operator +.
AppendTo(h, g) ==
    /\ objs[h].class = "Oid" /\ objs[g].class = "Oid"
    /\ Len(objs[h].value) + Len(objs[g].value) <= MaxOid
    /\ \/ Becomes(h, OidAppend(objs[h], objs[g], h = g))
       \/ Becomes(h, OidPlus(objs[h], objs[g]))

\* An assignment that cannot be converted; it is not in the repository.
Spoil(h) == objs[h].class \in Numbers /\ Becomes(h, [Touched(objs[h]) EXCEPT !.valid = FALSE])

Show(h) == Becomes(h, Printed(objs[h]))

ValuesNext ==
    \E h \in {"a", "b"} :
        \/ Build(h) \/ Change(h) \/ Spoil(h) \/ Show(h)
        \/ \E g \in {"a", "b"} : Copy(h, g) \/ Slice(h, g) \/ Restring(h, g) \/ AssignTo(h, g) \/ AppendTo(h, g)

\* The values on their own.
ValuesSpec == ValuesInit /\ [][ValuesNext]_objs

-----------------------------------------------------------------------------
\* Whatever was done to an object, by itself or through another one, it holds what
\* it stands for, it is labelled as what its class is on the wire, and a text that
\* get_printable would not format again is the text of what it holds now.  The
\* length of an address tells its family; writing a byte of it, even behind its
\* end, changes no other byte than that or the first one.  What an object stands for
\* is what its constructors and operators were given, a Counter64 the whole number.
ValuesAreCurrent ==
    \A h \in {"a", "b"} :
        LET o == objs[h]
        IN  /\ o.meant = IF o.class = "Counter64" THEN <<ToUInt64(o)>> ELSE o.value
            /\ o.syntax = Syntax(o)
            /\ o.changed \/ o.text = o.value
            /\ o.class = "Oid" => (o.valid <=> o.value # <<>>)
            /\ o.class = "msec" /\ ~IsInfinite(o) => MsecULong(o) \in Nat
            /\ o.class \in {"IpAddress", "UdpAddress"} =>
                  \A position \in 0..ADDRBUF :
                      LET written == AddressIndex(o, position, 1)
                      IN  /\ position < ADDRBUF => AddressAt(written, position) = 1
                          /\ \A other \in 1..ADDRBUF \ {position} :
                                AddressAt(written, other) = AddressAt(o, other)
            /\ o.class = "IpAddress" =>
                  /\ IpVersion(o) = "version_ipv4" <=> IpInetType(o) = 1
                  /\ IS_IP6LEN(IpLength(o)) <=> o.value[1] # 4
                  /\ HasIpv6Scope(o) <=> IpInetType(o) = 4
            /\ o.class = "UdpAddress" =>
                  /\ IS_UDPIP6LEN(UdpLength(o)) <=> o.value[1] # 4
                  /\ Asn1Length(o) = IpLength(o) + 4

\* The reference: s comes before t in the order of the management tree.
Precedes(s, t) ==
    \/ Len(s) < Len(t) /\ s = SubSeq(t, 1, Len(s))
    \/ \E z \in 1..MinOf(Len(s), Len(t)) :
          SubSeq(s, 1, z - 1) = SubSeq(t, 1, z - 1) /\ s[z] < t[z]

\* Identifiers are compared in the order of the management tree, as a whole and up
\* to any number of them, also when both or one of them are shorter than that; the
\* answer to a request is recognised by such a comparison.
OidsAreOrdered ==
    \A h, g \in {"a", "b"} :
        objs[h].class = "Oid" /\ objs[g].class = "Oid" =>
            LET o == objs[h]
                c == objs[g]
                head(s, n) == SubSeq(s, 1, MinOf(n, Len(s)))
                order(s, t) == IF s = t THEN 0 ELSE IF Precedes(s, t) THEN -1 ELSE 1
            IN  /\ OidEq(o, c) <=> o.value = c.value
                /\ OidLt(o, c) <=> Precedes(o.value, c.value)
                /\ OidGt(o, c) <=> Precedes(c.value, o.value)
                /\ OidLe(o, c) <=> ~OidGt(o, c)
                /\ OidGe(o, c) <=> ~OidLt(o, c)
                /\ NCompare(o, c) = order(o.value, c.value)
                /\ OidNe(o, c) <=> OidLt(o, c) \/ OidGt(o, c)
                /\ (\A n \in 1..MaxOid : OidAt(o, n) = OidAt(c, n)) =>
                      o.value = c.value \/ Len(o.value) # Len(c.value)
                /\ \A n \in 1..Len(o.value) :
                      OidTrim(o, n).value \o OidTail(o, n) = o.value
                /\ \A n \in 0..(MaxOid + 1) :
                      NComparePrefix(n, o, c) = order(head(o.value, n), head(c.value, n))
=============================================================================
