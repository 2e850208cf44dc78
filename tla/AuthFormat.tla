------------------------------ MODULE AuthFormat ------------------------------
(***************************************************************************)
(* The bytes create-auth (src/unnamed/part_001) puts in a .auth file:      *)
(* an EFI_VARIABLE_AUTHENTICATION_2 descriptor, a detached PKCS#7          *)
(* signature and a list of EFI_SIGNATURE_LISTs, one certificate each.      *)
(* A byte is an integer in 0..255 and a buffer a sequence of bytes;        *)
(* multi-byte fields are little-endian, as on x86.  Below the line, a      *)
(* reader of the same layout written from the spec (section 3 and          *)
(* section 4.C steps 1-2), against which the writer is checked.            *)
(*                                                                         *)
(* PKCS#7 signing is out of TLC's reach.  A signature is abstracted to     *)
(* its DER tag, the signer's key and the bytes it covers: it verifies      *)
(* exactly that message under that key.                                    *)
(***************************************************************************)
EXTENDS Integers, Sequences, SequencesExt

CONSTANTS
  gEfiCertX509Guid,               \* the GUIDs of guid.h, which is not in
  gEfiCertPkcs7Guid,              \* the tree: 16-byte sequences
  gEfiGlobalVariableGuid,
  gEfiImageSecurityDatabaseGuid

GUID_LEN == 16

citrix_guid ==
  <<53, 197, 172, 192, 200, 37, 70, 100, 146, 91, 93, 215, 208, 178, 245, 170>>
microsoft_guid ==
  <<189, 154, 250, 119, 89, 3, 50, 77, 189, 96, 40, 244, 231, 143, 120, 75>>

\* sizeof / offsetof of the efi.h structures the tool fills in
SIG_LIST_HDR   == 28    \* sizeof(EFI_SIGNATURE_LIST)
SIG_DATA_HDR   == 16    \* offsetof(EFI_SIGNATURE_DATA, SignatureData)
CERT_DATA_OFF  == 24    \* offsetof(WIN_CERTIFICATE_UEFI_GUID, CertData)
EFI_TIME_SIZE  == 16
AUTH2_HDR      == 40    \* offsetof(EFI_VARIABLE_AUTHENTICATION_2, AuthInfo.CertData)
WIN_CERT_TYPE_EFI_GUID == 3825     \* 0x0EF1
WIN_CERT_REVISION      == 512      \* 0x0200

EFI_VARIABLE_NON_VOLATILE == 1
EFI_VARIABLE_BOOTSERVICE_ACCESS == 2
EFI_VARIABLE_RUNTIME_ACCESS == 4
EFI_VARIABLE_TIME_BASED_AUTHENTICATED_WRITE_ACCESS == 32
ATTR_BRNV == 7                     \* NV | BS | RT

\* Variable names as the bytes of argv[optind]
PK  == <<80, 75>>
KEK == <<75, 69, 75>>
db  == <<100, 98>>
dbx == <<100, 98, 120>>

NoKey == 0                         \* sign_key == NULL

-----------------------------------------------------------------------------
(* Encodings *)

RECURSIVE LE(_, _)
LE(n, k) == IF k = 0 THEN <<>> ELSE <<n % 256>> \o LE(n \div 256, k - 1)

U16(n) == LE(n, 2)
U32(n) == LE(n, 4)

(* main: timestamp from gmtime(), pads and zone zeroed *)
TimeOfTm(tm) ==
  [Year |-> tm.tm_year + 1900, Month |-> tm.tm_mon + 1, Day |-> tm.tm_mday,
   Hour |-> tm.tm_hour, Minute |-> tm.tm_min, Second |-> tm.tm_sec,
   Pad1 |-> 0, Nanosecond |-> 0, TimeZone |-> 0, Daylight |-> 0, Pad2 |-> 0]

(* EFI_TIME as it lies in memory *)
EfiTimeBytes(t) ==
  U16(t.Year) \o <<t.Month, t.Day, t.Hour, t.Minute, t.Second, t.Pad1>>
    \o U32(t.Nanosecond) \o U16(t.TimeZone) \o <<t.Daylight, t.Pad2>>

(* main: the name argument widened to UCS-2 without a terminator *)
Ucs2Name(name) == FlattenSeq([i \in DOMAIN name |-> <<name[i], 0>>])

(* main: the namespace GUID of the variable, or <<>> when unsupported *)
VarGuid(name) ==
  IF name \in {PK, KEK} THEN gEfiGlobalVariableGuid
  ELSE IF name \in {db, dbx} THEN gEfiImageSecurityDatabaseGuid
  ELSE <<>>

(* main: the SignatureOwner of every certificate *)
VendorGuid(name) == IF name = PK THEN citrix_guid ELSE microsoft_guid

-----------------------------------------------------------------------------
(* certs_to_sig_list: one EFI_SIGNATURE_LIST per certificate, each with   *)
(* no header and one EFI_SIGNATURE_DATA holding the DER certificate.      *)
SigListOf(cert, owner) ==
  LET sigSize == SIG_DATA_HDR + Len(cert)
  IN  gEfiCertX509Guid \o U32(SIG_LIST_HDR + sigSize) \o U32(0) \o U32(sigSize)
        \o owner \o cert

CertsToSigList(certs, owner) ==
  FlattenSeq([i \in DOMAIN certs |-> SigListOf(certs[i], owner)])

(* sign_data: the buffer name || guid || attr || timestamp || data *)
SignedBuffer(name, guid, attr, ts, data) ==
  name \o guid \o U32(attr) \o ts \o data

Pkcs7Sign(key, msg) == <<48, key>> \o msg

(* sign_data: no signature at all without a key *)
SignData(key, name, guid, attr, ts, data) ==
  IF key = NoKey THEN <<>>
  ELSE Pkcs7Sign(key, SignedBuffer(name, guid, attr, ts, data))

(* Fault: dwLength counting the signature alone *)
CreateDescriptorSigOnly(sigLen, ts) ==
  ts \o U32(sigLen) \o U16(WIN_CERT_REVISION)
     \o U16(WIN_CERT_TYPE_EFI_GUID) \o gEfiCertPkcs7Guid

(* create_descriptor: the first descriptor_len bytes of the structure *)
CreateDescriptor(sigLen, ts) ==
  ts \o U32(sigLen + CERT_DATA_OFF) \o U16(WIN_CERT_REVISION)
     \o U16(WIN_CERT_TYPE_EFI_GUID) \o gEfiCertPkcs7Guid

-----------------------------------------------------------------------------
(* A reader of the layout, from the spec: every length is checked against *)
(* the bytes that remain before it is followed.  Offsets are 0-based.     *)

RECURSIVE ReadLE(_, _, _)
ReadLE(s, o, k) == IF k = 0 THEN 0 ELSE s[o + 1] + 256 * ReadLE(s, o + 1, k - 1)

\* a u32 length; one of 2^24 or more passes the end of any buffer here
Huge == 16777216
ReadU32(s, o) == IF s[o + 4] # 0 THEN Huge ELSE ReadLE(s, o, 3)

Bytes(s, o, n) == SubSeq(s, o + 1, o + n)

NotParsed == [ok |-> FALSE, lists |-> <<>>]

(* The fixed-size entries of one list, each an owner GUID and its data *)
SigEntries(p, o, ssz, n) ==
  [k \in 1 .. n |-> [owner |-> Bytes(p, o + (k - 1) * ssz, GUID_LEN),
                     data  |-> Bytes(p, o + (k - 1) * ssz + GUID_LEN,
                                     ssz - GUID_LEN)]]

(* A payload of consecutive EFI_SIGNATURE_LISTs *)
RECURSIVE ParseSigLists(_)
ParseSigLists(p) ==
  IF p = <<>> THEN [ok |-> TRUE, lists |-> <<>>]
  ELSE IF Len(p) < SIG_LIST_HDR THEN NotParsed
  ELSE
    LET lsz  == ReadU32(p, 16)
        hsz  == ReadU32(p, 20)
        ssz  == ReadU32(p, 24)
        rest == ParseSigLists(Bytes(p, lsz, Len(p) - lsz))
        this == [type |-> Bytes(p, 0, GUID_LEN),
                 entries |-> SigEntries(p, SIG_LIST_HDR + hsz, ssz,
                                        (lsz - SIG_LIST_HDR - hsz) \div ssz)]
    IN  IF lsz > Len(p) \/ lsz < SIG_LIST_HDR + hsz \/ ssz < GUID_LEN
        THEN NotParsed
        ELSE IF rest.ok THEN [ok |-> TRUE, lists |-> <<this>> \o rest.lists]
        ELSE NotParsed

(* Section 4.C step 1: the descriptor at the head of the buffer, and the  *)
(* signature and payload it delimits                                      *)
ParseAuth(f) ==
  LET dw == ReadU32(f, 16) IN
  IF \/ Len(f) < AUTH2_HDR
     \/ ReadLE(f, 20, 2) # WIN_CERT_REVISION
     \/ ReadLE(f, 22, 2) # WIN_CERT_TYPE_EFI_GUID
     \/ Bytes(f, 24, GUID_LEN) # gEfiCertPkcs7Guid
     \/ dw < CERT_DATA_OFF \/ EFI_TIME_SIZE + dw > Len(f)
  THEN [ok |-> FALSE]
  ELSE [ok |-> TRUE, time |-> Bytes(f, 0, EFI_TIME_SIZE),
        sig |-> Bytes(f, AUTH2_HDR, dw - CERT_DATA_OFF),
        payload |-> Bytes(f, EFI_TIME_SIZE + dw, Len(f) - EFI_TIME_SIZE - dw)]

(* An EFI_TIME in normalized form (section 3): a calendar time with pads, *)
(* nanoseconds, zone and daylight all zero                                *)
NormalizedTime(t) ==
  /\ ReadLE(t, 2, 1) \in 1 .. 12 /\ ReadLE(t, 3, 1) \in 1 .. 31
  /\ ReadLE(t, 4, 1) < 24 /\ ReadLE(t, 5, 1) < 60 /\ ReadLE(t, 6, 1) < 60
  /\ \A o \in 7 .. 15 : t[o + 1] = 0

(* Section 3, invariant 5: the namespace of each hierarchy variable *)
NamespaceGuid(name) ==
  IF name \in {PK, KEK} THEN gEfiGlobalVariableGuid
  ELSE gEfiImageSecurityDatabaseGuid

HierarchyAttrs ==
  EFI_VARIABLE_NON_VOLATILE + EFI_VARIABLE_BOOTSERVICE_ACCESS
    + EFI_VARIABLE_RUNTIME_ACCESS
    + EFI_VARIABLE_TIME_BASED_AUTHENTICATED_WRITE_ACCESS

(* Section 4.C step 2: the message the verifier rebuilds *)
VerifierMessage(name, time, payload) ==
  FlattenSeq([i \in DOMAIN name |-> U16(name[i])]) \o NamespaceGuid(name)
    \o U32(HierarchyAttrs) \o time \o payload

(* What a reader of the file f concludes, given the variable it is for,   *)
(* the key it must be signed with (NoKey: unsigned) and the certificates  *)
(* it must carry: it parses, its timestamp is normalized, every list is   *)
(* an X509 list whose entries are the certificates in order with the      *)
(* expected owner, and the signature covers the rebuilt message.          *)
AuthVerifies(f, name, key, certs) ==
  LET a == ParseAuth(f)
      l == ParseSigLists(a.payload)
      entries == FlattenSeq([i \in DOMAIN l.lists |-> l.lists[i].entries])
  IN  /\ a.ok
      /\ NormalizedTime(a.time)
      /\ l.ok
      /\ \A i \in DOMAIN l.lists : l.lists[i].type = gEfiCertX509Guid
      /\ entries = [i \in DOMAIN certs |->
                      [owner |-> VendorGuid(name), data |-> certs[i]]]
      /\ a.sig = IF key = NoKey THEN <<>>
                 ELSE Pkcs7Sign(key, VerifierMessage(name, a.time, a.payload))
=============================================================================
