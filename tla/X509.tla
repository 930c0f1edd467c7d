-------------------------------- MODULE X509 --------------------------------
(***************************************************************************)
(* Certificates, otter-x509: the DER reader, times, names, extensions and  *)
(* signature algorithms, the certificate that is made of them, the search  *)
(* for a path to a trust anchor and the match of the host name.  Bytes are *)
(* numbers.  A parser returns a value or the error is a refusal: which     *)
(* error it was is left out.  Keys and signatures are checked outside.     *)
(***************************************************************************)
EXTENDS Integers, Sequences, SequencesExt, FiniteSetsExt

CONSTANTS
    Oid, RsaOid,            \* the content bytes in oid.rs, by name, and by hash for RSA
    HashLen,                \* function from the hashes to their output lengths
    KeyIsGood(_, _),        \* otter-crypto: kind and bytes make a public key
    Verifies(_, _, _, _),   \* otter-crypto: key, algorithm, signed bytes, signature
    MAX_CHAIN_CERTS, MAX_PATH_DEPTH

Ok(v) == [ok |-> TRUE, v |-> v]
Fail == [ok |-> FALSE]
None == <<>>
Some(v) == <<v>>

-----------------------------------------------------------------------------
(* Reader *)

BOOLEAN_TAG == 1
INTEGER_TAG == 2
BIT_STRING == 3
OCTET_STRING == 4
NULL_TAG == 5
OID_TAG == 6
UTC_TIME == 23
GENERALIZED_TIME == 24
BMP_STRING == 30
UNIVERSAL_STRING == 28
SEQUENCE == 48
SET_TAG == 49
Explicit(n) == 160 + n      \* context_constructed
Implicit(n) == 128 + n      \* context_primitive

BigEndian(bytes) == FoldLeft(LAMBDA n, b : n * 256 + b, 0, bytes)
\* The length octets from position 2 on: how many they are and what they say.  Lengths of
\* more than three octets are longer than any input here, so they are out of bounds.
LengthAt(data) ==
    LET n == data[2] % 128
        octets == SubSeq(data, 3, 2 + n)
    IN  CASE data[2] < 128 -> Ok([octets |-> 1, len |-> data[2]])
          [] data[2] >= 128 /\ (n \notin 1 .. 3 \/ Len(data) < 2 + n) -> Fail
          [] OTHER -> IF octets[1] = 0 \/ BigEndian(octets) < 128 THEN Fail ELSE Ok([octets |-> 1 + n, len |-> BigEndian(octets)])
\* read_tlv
ReadTlv(data) ==
    LET length == LengthAt(data)
        start == 1 + length.v.octets
    IN  CASE Len(data) < 2 \/ data[1] % 32 = 31 -> Fail
          [] Len(data) >= 2 /\ data[1] % 32 # 31 /\ ~length.ok -> Fail
          [] OTHER -> IF Len(data) < start + length.v.len THEN Fail
                      ELSE Ok([tag |-> data[1], content |-> SubSeq(data, start + 1, start + length.v.len),
                               all |-> SubSeq(data, 1, start + length.v.len),
                               rest |-> SubSeq(data, start + length.v.len + 1, Len(data))])

\* All the values of a content, as a reader that goes to the end of it meets them.
RECURSIVE Items(_)
Items(data) ==
    LET first == ReadTlv(data)
        others == Items(first.v.rest)
    IN  IF data = <<>> THEN Ok(<<>>)
        ELSE IF ~first.ok THEN Fail
        ELSE IF ~others.ok THEN Fail ELSE Ok(<<first.v>> \o others.v)
Tags(items) == [i \in DOMAIN items |-> items[i].tag]
\* The values have the required tags, then some of the optional ones in their order.
RECURSIVE IsSubSeq(_, _)
IsSubSeq(s, of) ==
    s = <<>> \/ (of # <<>> /\ IF Head(s) = Head(of) THEN IsSubSeq(Tail(s), Tail(of)) ELSE IsSubSeq(s, Tail(of)))
Shape(data, required, optional) ==
    LET items == Items(data)
    IN  IF ~items.ok THEN Fail
        ELSE IF IsPrefix(required, Tags(items.v)) /\ IsSubSeq(SubSeq(Tags(items.v), Len(required) + 1, Len(items.v)), optional)
        THEN items ELSE Fail
\* read_optional_tag: the content of the value with a tag, if there is one.
Optional(items, tag) ==
    LET at == {i \in DOMAIN items : items[i].tag = tag} IN IF at = {} THEN None ELSE Some(items[Min(at)].content)
\* The content of one value that is alone.
Only(data, tag) == LET items == Shape(data, <<tag>>, <<>>) IN IF items.ok THEN Ok(items.v[1].content) ELSE Fail

ValidInteger(c) ==
    /\ c # <<>>
    /\ Len(c) > 1 => ~(c[1] = 0 /\ c[2] < 128) /\ ~(c[1] = 255 /\ c[2] >= 128)
StripLeadingZero(c) == IF Len(c) > 1 /\ c[1] = 0 THEN Tail(c) ELSE c
IsUint(c) == ValidInteger(c) /\ c[1] < 128
DecodeUint(c) == IF IsUint(c) /\ Len(StripLeadingZero(c)) <= 8 THEN Ok(BigEndian(StripLeadingZero(c))) ELSE Fail
ValidBoolean(c) == c \in {<<0>>, <<255>>}
ValidBitString(c) ==
    /\ c # <<>>
    /\ IF Len(c) = 1 THEN c[1] = 0 ELSE c[1] <= 7 /\ Last(c) % 2^c[1] = 0
WholeBitString(c) == ValidBitString(c) /\ c[1] = 0
\* Every group of seven bits starts without a superfluous 0x80 and is complete.
ValidOid(c) ==
    /\ c # <<>> /\ Last(c) < 128
    /\ \A i \in DOMAIN c : c[i] = 128 => i > 1 /\ c[i - 1] >= 128
\* decode_base128_arcs
Arcs(oid) ==
    FoldLeft(LAMBDA acc, b : IF b < 128 THEN [acc |-> 0, arcs |-> Append(acc.arcs, acc.acc * 128 + b)]
                             ELSE [acc EXCEPT !.acc = @ * 128 + (b - 128)],
             [acc |-> 0, arcs |-> <<>>], oid).arcs

-----------------------------------------------------------------------------
(* Times, as the day since 1970 and the second of that day *)

IsLeapYear(y) == y % 4 = 0 /\ (y % 100 # 0 \/ y % 400 = 0)
DaysInMonth(y, m) == CASE m \in {1, 3, 5, 7, 8, 10, 12} -> 31
                       [] m \in {4, 6, 9, 11} -> 30
                       [] m = 2 -> IF IsLeapYear(y) THEN 29 ELSE 28
                       [] OTHER -> 0
DaysFromCivil(year, m, d) ==
    LET y == IF m <= 2 THEN year - 1 ELSE year
        era == y \div 400
        yoe == y - era * 400
        doy == (153 * ((m + 9) % 12) + 2) \div 5 + d - 1
    IN  era * 146097 + yoe * 365 + yoe \div 4 - yoe \div 100 + doy - 719468
IsDigit(b) == b \in 48 .. 57
Two(s, i) == (s[i] - 48) * 10 + (s[i + 1] - 48)
\* The month to the second from position i on, and the Z that must end the text.
ToTime(year, s, i) ==
    LET month == Two(s, i)
        day == Two(s, i + 2)
    IN  IF /\ day \in 1 .. DaysInMonth(year, month)
           /\ Two(s, i + 4) <= 23 /\ Two(s, i + 6) <= 59 /\ Two(s, i + 8) <= 59
        THEN Ok(<<DaysFromCivil(year, month, day), Two(s, i + 4) * 3600 + Two(s, i + 6) * 60 + Two(s, i + 8)>>)
        ELSE Fail
Digits(s, n) == Len(s) = n + 1 /\ s[n + 1] = 90 /\ \A i \in 1 .. n : IsDigit(s[i])
ParseUtcTime(s) == IF Digits(s, 12) THEN ToTime(Two(s, 1) + (IF Two(s, 1) >= 50 THEN 1900 ELSE 2000), s, 3) ELSE Fail
ParseGeneralizedTime(s) ==
    IF Digits(s, 14) THEN (IF Two(s, 1) * 100 + Two(s, 3) < 2050 THEN Fail ELSE ToTime(Two(s, 1) * 100 + Two(s, 3), s, 5)) ELSE Fail
ReadTime(item) == CASE item.tag = UTC_TIME -> ParseUtcTime(item.content)
                    [] item.tag = GENERALIZED_TIME -> ParseGeneralizedTime(item.content)
                    [] OTHER -> Fail
Before(s, t) == s[1] < t[1] \/ (s[1] = t[1] /\ s[2] < t[2])

-----------------------------------------------------------------------------
(* Names *)

\* One attribute: its type, the tag of its value and the bytes.
ParseAtv(content) ==
    LET items == Items(content)
    IN  IF ~items.ok THEN Fail
        ELSE IF Len(items.v) # 2 THEN Fail
        ELSE IF items.v[1].tag = OID_TAG /\ ValidOid(items.v[1].content)
        THEN Ok([oid |-> items.v[1].content, tag |-> items.v[2].tag, bytes |-> items.v[2].content]) ELSE Fail
\* Every value of a content has the tag and parses.
AllOf(data, tag, Parse(_)) ==
    LET items == Items(data)
        parsed == [i \in DOMAIN items.v |-> Parse(items.v[i].content)]
    IN  IF ~items.ok THEN Fail
        ELSE IF \E i \in DOMAIN items.v : items.v[i].tag # tag THEN Fail
        ELSE IF \E i \in DOMAIN items.v : ~parsed[i].ok THEN Fail ELSE Ok([i \in DOMAIN items.v |-> parsed[i].v])
ParseRdn(content) == IF content = <<>> THEN Fail ELSE AllOf(content, SEQUENCE, ParseAtv)
ParseName(content) == LET rdns == AllOf(content, SET_TAG, ParseRdn) IN IF rdns.ok THEN Ok([raw |-> content, rdns |-> rdns.v]) ELSE Fail

\* to_display_string: wide strings are read by twos and fours, an odd rest is dropped.
Wide(bytes, n) == [i \in 1 .. Len(bytes) \div n |-> BigEndian(SubSeq(bytes, n * (i - 1) + 1, n * i))]
Display(attr) == CASE attr.tag = BMP_STRING -> Wide(attr.bytes, 2)
                   [] attr.tag = UNIVERSAL_STRING -> Wide(attr.bytes, 4)
                   [] OTHER -> attr.bytes
LowerByte(b) == IF b \in 65 .. 90 THEN b + 32 ELSE b
Lowered(s) == [i \in DOMAIN s |-> LowerByte(s[i])]
\* normalize: lower case, runs of blanks are one, none at the ends
Normalize(s) ==
    LET folded == FoldLeft(LAMBDA out, c : IF c = 32 /\ (out = <<>> \/ Last(out) = 32) THEN out ELSE Append(out, c), <<>>, Lowered(s))
    IN  IF folded # <<>> /\ Last(folded) = 32 THEN Front(folded) ELSE folded
AttrMatches(a, b) == a.oid = b.oid /\ Normalize(Display(a)) = Normalize(Display(b))
RdnMatches(a, b) == Len(a) = Len(b) /\ \A i \in DOMAIN a : AttrMatches(a[i], b[i])
NameMatches(a, b) ==
    a.raw = b.raw \/ (Len(a.rdns) = Len(b.rdns) /\ \A i \in DOMAIN a.rdns : RdnMatches(a.rdns[i], b.rdns[i]))

-----------------------------------------------------------------------------
(* Algorithms and keys *)

Hash(oid) == {h \in DOMAIN HashLen : Oid[h] = oid}
\* An algorithm that is a hash: its identifier, and NULL or nothing.
ParseHash(data) ==
    LET outer == Only(data, SEQUENCE)
        items == Shape(outer.v, <<OID_TAG>>, <<NULL_TAG>>)
    IN  IF ~outer.ok THEN Fail
        ELSE IF ~items.ok THEN Fail
        ELSE IF Hash(items.v[1].content) = {} \/ (Len(items.v) = 2 /\ items.v[2].content # <<>>) THEN Fail
        ELSE Ok(CHOOSE h \in Hash(items.v[1].content) : TRUE)
\* parse_pss_params: no default is accepted, the hash is MGF1's, the salt as long as it.
ParseMgf(data) ==
    LET outer == Only(data, SEQUENCE)
        items == Shape(outer.v, <<OID_TAG, SEQUENCE>>, <<>>)
    IN  IF ~outer.ok THEN Fail
        ELSE IF ~items.ok THEN Fail
        ELSE IF items.v[1].content # Oid["mgf1"] THEN Fail ELSE ParseHash(items.v[2].all)
UintIn(data, n) == LET c == Only(data, INTEGER_TAG) IN IF ~c.ok THEN FALSE ELSE DecodeUint(c.v) = Ok(n)
ParsePssParams(data) ==
    LET items == Shape(data, <<Explicit(0), Explicit(1), Explicit(2)>>, <<Explicit(3)>>)
        hash == ParseHash(items.v[1].content)
    IN  IF ~items.ok THEN Fail
        ELSE IF /\ hash.ok /\ ParseMgf(items.v[2].content) = hash
                /\ UintIn(items.v[3].content, HashLen[hash.v])
                /\ Len(items.v) = 4 => UintIn(items.v[4].content, 1)
        THEN hash ELSE Fail
\* parse_algorithm_identifier: RSA with NULL, ECDSA with nothing, PSS with its parameters
ParseAlgorithm(content) ==
    LET items == Items(content)
        oid == items.v[1].content
        rsa == {h \in DOMAIN HashLen : RsaOid[h] = oid}
        pss == ParsePssParams(items.v[2].content)
    IN  IF ~items.ok THEN Fail
        ELSE IF items.v = <<>> THEN Fail
        ELSE IF items.v[1].tag # OID_TAG \/ ~ValidOid(oid) THEN Fail
        ELSE CASE rsa # {} -> IF Tags(items.v) = <<OID_TAG, NULL_TAG>> /\ items.v[2].content = <<>>
                              THEN Ok(<<"rsa", CHOOSE h \in rsa : TRUE>>) ELSE Fail
               [] oid = Oid["ecdsa_sha256"] /\ Len(items.v) = 1 -> Ok(<<"p256", "sha256">>)
               [] oid = Oid["ecdsa_sha384"] /\ Len(items.v) = 1 -> Ok(<<"p384", "sha384">>)
               [] oid = Oid["pss"] /\ Tags(items.v) = <<OID_TAG, SEQUENCE>> ->
                     IF pss.ok THEN Ok(<<"pss", pss.v>>) ELSE Fail
               [] OTHER -> Fail
\* verify_signature: the kind of the key must be the one of the algorithm.
VerifySignature(key, alg, tbs, signature) ==
    key.kind = (IF alg[1] = "pss" THEN "rsa" ELSE alg[1]) /\ Verifies(key, alg, tbs, signature)

ParseSpki(content) ==
    LET items == Shape(content, <<SEQUENCE, BIT_STRING>>, <<>>)
        alg == Items(items.v[1].content)
        bits == items.v[2].content
        oid == alg.v[1].content
        rsa == Only(Tail(bits), SEQUENCE)
        numbers == Shape(rsa.v, <<INTEGER_TAG, INTEGER_TAG>>, <<>>)
        Key(kind, bytes) == IF KeyIsGood(kind, bytes) THEN Ok([kind |-> kind, bytes |-> bytes]) ELSE Fail
    IN  IF ~items.ok THEN Fail
        ELSE IF ~alg.ok \/ ~WholeBitString(bits) THEN Fail
        ELSE IF Len(alg.v) # 2 THEN Fail
        ELSE CASE oid = Oid["rsaEncryption"] /\ alg.v[2].tag = NULL_TAG /\ alg.v[2].content = <<>> ->
                    IF ~rsa.ok THEN Fail
                    ELSE IF ~numbers.ok THEN Fail
                    ELSE IF \E i \in 1 .. 2 : ~IsUint(numbers.v[i].content) THEN Fail ELSE Key("rsa", rsa.v)
               [] oid = Oid["ecPublicKey"] /\ alg.v[2].tag = OID_TAG /\ alg.v[2].content = Oid["p256"] -> Key("p256", Tail(bits))
               [] oid = Oid["ecPublicKey"] /\ alg.v[2].tag = OID_TAG /\ alg.v[2].content = Oid["p384"] -> Key("p384", Tail(bits))
               [] OTHER -> Fail

-----------------------------------------------------------------------------
(* Extensions *)

ParseBasicConstraints(value) ==
    LET seq == Only(value, SEQUENCE)
        items == Shape(seq.v, <<>>, <<BOOLEAN_TAG, INTEGER_TAG>>)
        ca == Optional(items.v, BOOLEAN_TAG)
        len == Optional(items.v, INTEGER_TAG)
    IN  IF ~seq.ok THEN Fail
        ELSE IF ~items.ok THEN Fail
        ELSE IF (ca # None /\ ~ValidBoolean(ca[1])) \/ (len # None /\ ~DecodeUint(len[1]).ok) THEN Fail
        ELSE Ok([isCa |-> ca = Some(<<255>>), pathLen |-> IF len = None THEN None ELSE Some(DecodeUint(len[1]).v)])
\* The bits of the key usage that are set, counted from the first of the first byte.
KeyUsageBits(bits) == {n \in 0 .. 8 * Len(bits) - 1 : (bits[n \div 8 + 1] \div 2^(7 - (n % 8))) % 2 = 1}
ParseKeyUsage(value) ==
    LET c == Only(value, BIT_STRING)
    IN  IF ~c.ok THEN Fail
        ELSE IF ~ValidBitString(c.v) \/ Len(c.v) = 1 THEN Fail ELSE Ok(KeyUsageBits(Tail(c.v)))
KEY_CERT_SIGN == 5
ParseExtKeyUsage(value) ==
    LET seq == Only(value, SEQUENCE)
        oids == AllOf(seq.v, OID_TAG, LAMBDA c : IF ValidOid(c) THEN Ok(c) ELSE Fail)
    IN  IF ~seq.ok THEN Fail
        ELSE IF seq.v = <<>> \/ ~oids.ok THEN Fail
        ELSE Ok([serverAuth |-> Range(oids.v) \cap {Oid["serverAuth"], Oid["anyUsage"]} # {}])
ParseSubjectAltName(value) ==
    LET seq == Only(value, SEQUENCE)
        items == Items(seq.v)
    IN  IF ~seq.ok THEN Fail
        ELSE IF seq.v = <<>> \/ ~items.ok THEN Fail
        ELSE Ok(SelectSeq(items.v, LAMBDA i : i.tag \in {Implicit(2), Implicit(7)}))
ParseAuthorityKeyId(value) ==
    LET seq == Only(value, SEQUENCE)
        items == Items(seq.v)
    IN  IF ~seq.ok THEN Fail
        ELSE IF ~items.ok THEN Fail
        ELSE Ok(IF items.v = <<>> THEN None ELSE IF items.v[1].tag = Implicit(0) THEN Some(items.v[1].content) ELSE None)
ParseSubtree(content) ==
    LET items == Items(content)
        base == items.v[1]
        minimum == Optional(Tail(items.v), Implicit(0))
        plain == /\ base.tag = Implicit(2) /\ Optional(Tail(items.v), Implicit(1)) = None
                 /\ minimum = None \/ DecodeUint(minimum[1]) = Ok(0)
    IN  IF ~items.ok THEN Fail
        ELSE IF items.v = <<>> THEN Fail
        ELSE IF IsSubSeq(Tail(Tags(items.v)), <<Implicit(0), Implicit(1)>>)
        THEN Ok(IF plain THEN Some(base.content) ELSE None) ELSE Fail
ParseNameConstraints(value) ==
    LET seq == Only(value, SEQUENCE)
        lists == Shape(seq.v, <<>>, <<Explicit(0), Explicit(1)>>)
        Subtrees(n) == LET o == Optional(lists.v, Explicit(n)) IN
                       CASE o = None -> Ok(<<>>) [] o = Some(<<>>) -> Fail [] OTHER -> AllOf(o[1], SEQUENCE, ParseSubtree)
        Dns(trees) == {trees[i][1] : i \in {j \in DOMAIN trees : trees[j] # None}}
    IN  IF ~seq.ok THEN Fail
        ELSE IF ~lists.ok \/ seq.v = <<>> THEN Fail
        ELSE IF ~Subtrees(0).ok \/ ~Subtrees(1).ok THEN Fail
        ELSE Ok([permitted |-> Dns(Subtrees(0).v), excluded |-> Dns(Subtrees(1).v),
                 unsupported |-> None \in Range(Subtrees(0).v \o Subtrees(1).v)])

\* One extension: its identifier, whether it is critical, and the value.
ParseExtension(content) ==
    LET items == Items(content)
        critical == Optional(items.v, BOOLEAN_TAG)
    IN  IF ~items.ok THEN Fail
        ELSE IF /\ Tags(items.v) \in {<<OID_TAG, OCTET_STRING>>, <<OID_TAG, BOOLEAN_TAG, OCTET_STRING>>}
                /\ ValidOid(items.v[1].content)
                /\ critical = None \/ ValidBoolean(critical[1])
        THEN Ok([oid |-> items.v[1].content, critical |-> critical = Some(<<255>>), value |-> Last(items.v).content]) ELSE Fail
ParseExtensions(data) ==
    LET seq == Only(data, SEQUENCE) IN IF ~seq.ok THEN Fail ELSE IF seq.v = <<>> THEN Fail ELSE AllOf(seq.v, SEQUENCE, ParseExtension)

-----------------------------------------------------------------------------
(* Certificate::parse *)

Known == {"basicConstraints", "keyUsage", "extKeyUsage", "subjectAltName", "authorityKeyId", "subjectKeyId", "nameConstraints"}
ParsedExtension(name, value) ==
    CASE name = "basicConstraints" -> ParseBasicConstraints(value)
      [] name = "keyUsage" -> ParseKeyUsage(value)
      [] name = "extKeyUsage" -> ParseExtKeyUsage(value)
      [] name = "subjectAltName" -> ParseSubjectAltName(value)
      [] name = "authorityKeyId" -> ParseAuthorityKeyId(value)
      [] name = "subjectKeyId" -> Only(value, OCTET_STRING)
      [] name = "nameConstraints" -> ParseNameConstraints(value)
\* The extensions by name, each as Some of its value; no identifier twice, none critical
\* that is unknown, constraints critical where they must be.
Interpret(list) ==
    LET NameOf(ext) == {n \in Known : Oid[n] = ext.oid}
        Of(n) == {i \in DOMAIN list : list[i].oid = Oid[n]}
        value == [n \in Known |-> IF Of(n) = {} THEN Ok(None) ELSE
                    LET p == ParsedExtension(n, list[Min(Of(n))].value) IN IF p.ok THEN Ok(Some(p.v)) ELSE Fail]
        Critical(n) == list[Min(Of(n))].critical
    IN  IF \/ \E i, j \in DOMAIN list : i # j /\ list[i].oid = list[j].oid
           \/ \E i \in DOMAIN list : NameOf(list[i]) = {} /\ list[i].critical
           \/ \E n \in Known : ~value[n].ok
        THEN Fail
        ELSE IF \/ Of("nameConstraints") # {} /\ ~Critical("nameConstraints")
                \/ Of("basicConstraints") # {} /\ value["basicConstraints"].v[1].isCa /\ ~Critical("basicConstraints")
        THEN Fail
        ELSE Ok([n \in Known |-> value[n].v])

IsCa(cert) == cert.ext["basicConstraints"] # None /\ cert.ext["basicConstraints"][1].isCa
MaySign(cert) == cert.ext["keyUsage"] # None /\ KEY_CERT_SIGN \in cert.ext["keyUsage"][1]
ParseValidity(content) ==
    LET items == Items(content)
    IN  IF ~items.ok THEN Fail
        ELSE IF Len(items.v) # 2 THEN Fail
        ELSE IF ~ReadTime(items.v[1]).ok \/ ~ReadTime(items.v[2]).ok THEN Fail
        ELSE IF Before(ReadTime(items.v[2]).v, ReadTime(items.v[1]).v) THEN Fail
        ELSE Ok([from |-> ReadTime(items.v[1]).v, to |-> ReadTime(items.v[2]).v])
ParseCertificate(der) ==
    LET cert == Only(der, SEQUENCE)
        parts == Shape(cert.v, <<SEQUENCE, SEQUENCE, BIT_STRING>>, <<>>)
        tbs == Shape(parts.v[1].content, <<Explicit(0), INTEGER_TAG, SEQUENCE, SEQUENCE, SEQUENCE, SEQUENCE, SEQUENCE>>,
                     <<Implicit(1), Implicit(2), Explicit(3)>>)
        At(i) == tbs.v[i].content
        alg == ParseAlgorithm(At(3))
        issuer == ParseName(At(4))
        validity == ParseValidity(At(5))
        subject == ParseName(At(6))
        key == ParseSpki(At(7))
        list == IF Optional(tbs.v, Explicit(3)) = None THEN Ok(<<>>) ELSE ParseExtensions(Optional(tbs.v, Explicit(3))[1])
        ext == Interpret(list.v)
        made == [tbs |-> parts.v[1].all, alg |-> alg.v, issuer |-> issuer.v, subject |-> subject.v, valid |-> validity.v,
                 key |-> key.v, ext |-> ext.v, signature |-> Tail(parts.v[3].content)]
    IN  IF ~cert.ok THEN Fail
        ELSE IF ~parts.ok THEN Fail
        ELSE IF ~tbs.ok \/ ~WholeBitString(parts.v[3].content) THEN Fail
        ELSE IF \/ ~UintIn(At(1), 2) \/ ~IsUint(At(2)) \/ At(3) # parts.v[2].content
                \/ ~alg.ok \/ ~issuer.ok \/ ~validity.ok \/ ~subject.ok \/ ~key.ok \/ ~list.ok
        THEN Fail
        ELSE IF ~ext.ok THEN Fail
        ELSE IF (~IsCa(made) /\ MaySign(made)) \/ (IsCa(made) /\ subject.v.raw = <<>>) THEN Fail
        ELSE Ok(made)

-----------------------------------------------------------------------------
(* Paths *)

IsAscii(s) == \A i \in DOMAIN s : s[i] < 128
DnsInSubtree(name, base) ==
    \/ base = <<>>
    \/ IsSuffix(base, name) /\ (Len(name) = Len(base) \/ name[Len(name) - Len(base)] = 46)
DnsNames(cert) ==
    IF cert.ext["subjectAltName"] = None THEN {}
    ELSE {Lowered(n.content) : n \in {i \in Range(cert.ext["subjectAltName"][1]) : i.tag = Implicit(2) /\ IsAscii(i.content)}}
\* dns_satisfies for every name below the certificate with the constraints
NamesSatisfied(nc, chain) ==
    LET permitted == {Lowered(b) : b \in {s \in nc.permitted : IsAscii(s)}}
        excluded == {Lowered(b) : b \in {s \in nc.excluded : IsAscii(s)}}
    IN  \A i \in DOMAIN chain : \A name \in DnsNames(chain[i]) :
            /\ permitted = {} \/ \E b \in permitted : DnsInSubtree(name, b)
            /\ ~\E b \in excluded : DnsInSubtree(name, b)
InTime(cert, now) == ~Before(now, cert.valid.from) /\ ~Before(cert.valid.to, now)
\* Whether issuer, an anchor or a candidate of the pool, may have signed the last of chain.
MayIssue(issuer, chain, now) ==
    LET current == Last(chain)
        akid == current.ext["authorityKeyId"]
        skid == issuer.ext["subjectKeyId"]
        pathLen == IF issuer.ext["basicConstraints"] = None THEN None ELSE issuer.ext["basicConstraints"][1].pathLen
        nc == issuer.ext["nameConstraints"]
    IN  /\ NameMatches(issuer.subject, current.issuer)
        /\ akid \in {None, Some(None)} \/ skid = None \/ akid[1] = skid
        /\ IsCa(issuer)
        /\ pathLen = None \/ pathLen[1] >= Len(chain) - 1
        /\ issuer.ext["keyUsage"] = None \/ MaySign(issuer)
        /\ InTime(issuer, now)
        /\ nc = None \/ (~nc[1].unsupported /\ NamesSatisfied(nc[1], chain))
        /\ VerifySignature(issuer.key, current.alg, current.tbs, current.signature)
\* find_path: the anchors first, then every candidate that is not in the path, in order.
RECURSIVE FindPath(_, _, _, _, _)
FindPath(chain, pool, used, anchors, now) ==
    /\ Len(chain) - 1 < MAX_PATH_DEPTH
    /\ \/ \E a \in Range(anchors) : MayIssue(a, chain, now)
       \/ \E i \in DOMAIN pool \ used :
            MayIssue(pool[i], chain, now) /\ FindPath(Append(chain, pool[i]), pool, used \cup {i}, anchors, now)

-----------------------------------------------------------------------------
(* Host names *)

Split(s, sep) ==
    LET ends == {i \in 1 .. Len(s) + 1 : i = Len(s) + 1 \/ s[i] = sep}
        EndOf(k) == CHOOSE i \in ends : Cardinality({j \in ends : j <= i}) = k
    IN  [k \in 1 .. Cardinality(ends) |-> SubSeq(s, IF k = 1 THEN 1 ELSE EndOf(k - 1) + 1, EndOf(k) - 1)]
Decimal(s) == FoldLeft(LAMBDA n, b : n * 10 + b - 48, 0, s)
ParseIpv4(s) ==
    LET parts == Split(s, 46)
        Good(p) == /\ Len(p) \in 1 .. 3 /\ \A i \in DOMAIN p : IsDigit(p[i])
                   /\ Len(p) > 1 => p[1] # 48
                   /\ Decimal(p) <= 255
    IN  IF Len(parts) = 4 /\ \A k \in DOMAIN parts : Good(parts[k]) THEN Some([k \in 1 .. 4 |-> Decimal(parts[k])]) ELSE None
HexValue(b) == CASE IsDigit(b) -> b - 48 [] b \in 97 .. 102 -> b - 87 [] b \in 65 .. 70 -> b - 55 [] OTHER -> -1
Groups(s) ==
    LET parts == IF s = <<>> THEN <<>> ELSE Split(s, 58)
        Good(p) == Len(p) \in 1 .. 4 /\ \A i \in DOMAIN p : HexValue(p[i]) # -1
    IN  IF \A k \in DOMAIN parts : Good(parts[k])
        THEN Some([k \in DOMAIN parts |-> FoldLeft(LAMBDA n, b : n * 16 + HexValue(b), 0, parts[k])]) ELSE None
\* The places of "::", none of which overlap.
Doubles(s) == {i \in 1 .. Len(s) - 1 : s[i] = 58 /\ s[i + 1] = 58 /\ (i = 1 \/ s[i - 1] # 58 \/ (i > 2 /\ s[i - 2] = 58))}
ParseIpv6(s) ==
    LET at == Min(Doubles(s))
        head == Groups(SubSeq(s, 1, at - 1))
        tail == Groups(SubSeq(s, at + 2, Len(s)))
        Bytes(g) == [k \in 1 .. 16 |-> IF k % 2 = 1 THEN g[(k + 1) \div 2] \div 256 ELSE g[k \div 2] % 256]
    IN  CASE Cardinality(Doubles(s)) > 1 -> None
          [] Cardinality(Doubles(s)) = 1 ->
                IF head = None \/ tail = None THEN None
                ELSE IF Len(head[1]) + Len(tail[1]) > 7 THEN None
                ELSE Some(Bytes(head[1] \o [k \in 1 .. 8 - Len(head[1]) - Len(tail[1]) |-> 0] \o tail[1]))
          [] OTHER -> IF Groups(s) = None THEN None ELSE IF Len(Groups(s)[1]) # 8 THEN None ELSE Some(Bytes(Groups(s)[1]))
ParseIpLiteral(host) ==
    IF ParseIpv4(host) # None THEN ParseIpv4(host) ELSE IF \E i \in DOMAIN host : host[i] = 58 THEN ParseIpv6(host) ELSE None

\* Lower-case labels, a dot at the end dropped; not a name if one of them is empty.
Labels(s) ==
    LET dotless == IF s # <<>> /\ Last(s) = 46 THEN Front(s) ELSE s
    IN  IF dotless = <<>> \/ ~IsAscii(dotless) THEN None
        ELSE IF <<>> \in Range(Split(dotless, 46)) THEN None ELSE Some(Split(Lowered(dotless), 46))
DnsPatternMatches(pattern, labels) ==
    LET p == Labels(pattern)
    IN  CASE p = None -> FALSE
          [] p # None /\ p[1][1] = <<42>> -> Len(p[1]) >= 3 /\ Len(p[1]) = Len(labels) /\ Tail(p[1]) = Tail(labels)
          [] OTHER -> p[1] = labels
MatchesHost(names, host) ==
    LET ip == ParseIpLiteral(host)
    IN  CASE ip # None -> \E i \in DOMAIN names : names[i].tag = Implicit(7) /\ names[i].content = ip[1]
          [] ip = None /\ (Labels(host) = None \/ Len(host) > 254) -> FALSE
          [] OTHER -> \E i \in DOMAIN names : names[i].tag = Implicit(2) /\ DnsPatternMatches(names[i].content, Labels(host)[1])

-----------------------------------------------------------------------------
(* verify_server_chain: the leaf must parse, the others are used if they do. *)

FromDerRoots(ders) ==
    LET certs == [i \in DOMAIN ders |-> ParseCertificate(ders[i])]
        good == SelectSeq(certs, LAMBDA c : c.ok)
        cas == SelectSeq(good, LAMBDA c : IsCa(c.v))
    IN  [i \in DOMAIN cas |-> cas[i].v]
VerifyParsed(leaf, pool, host, now, anchors) ==
    /\ InTime(leaf, now) /\ ~IsCa(leaf)
    /\ leaf.ext["extKeyUsage"] = None \/ leaf.ext["extKeyUsage"][1].serverAuth
    /\ FindPath(<<leaf>>, pool, {}, anchors, now)
    /\ leaf.ext["subjectAltName"] # None
    /\ MatchesHost(leaf.ext["subjectAltName"][1], host)
VerifyServerChain(ders, host, now, anchors) ==
    LET certs == [i \in DOMAIN ders |-> ParseCertificate(ders[i])]
        good == SelectSeq(Tail(certs), LAMBDA c : c.ok)
    IN  /\ Len(ders) \in 1 .. MAX_CHAIN_CERTS
        /\ certs[1].ok
        /\ VerifyParsed(certs[1].v, [i \in DOMAIN good |-> good[i].v], host, now, anchors)
=============================================================================
