---------------------------- MODULE MCCreateAuth ----------------------------
(***************************************************************************)
(* Instantiation of CreateAuth for TLC: every supported variable name and  *)
(* one that is not, signed, unsigned and with the options half given or   *)
(* with a certificate that does not belong to the key, and up to two       *)
(* certificates to enrol, one of which does not parse.                     *)
(***************************************************************************)
EXTENDS CreateAuth

\* gEfiCertX509Guid, gEfiCertPkcs7Guid, gEfiGlobalVariableGuid and
\* gEfiImageSecurityDatabaseGuid as the UEFI specification defines them
MCX509Guid ==
  <<161, 89, 192, 165, 228, 148, 167, 74, 135, 181, 171, 21, 92, 43, 240, 114>>
MCPkcs7Guid ==
  <<157, 210, 175, 74, 223, 104, 238, 73, 138, 169, 52, 125, 55, 86, 101, 167>>
MCGlobalGuid ==
  <<97, 223, 228, 139, 202, 147, 210, 17, 170, 13, 0, 224, 152, 3, 43, 140>>
MCImageSecurityGuid ==
  <<203, 178, 25, 215, 58, 61, 150, 69, 163, 188, 218, 208, 14, 103, 101, 111>>

MCFiles == {"PK.key", "PK.pem", "KEK.pem", "bad.pem", "out.auth"}

\* key 1 with its certificate, a certificate of another key (2), a file
\* that does not parse, and no output yet
MCInitFs ==
  [f \in MCFiles |->
     CASE f = "PK.key"  -> [data |-> <<1>>, mtime |-> 0]
       [] f = "PK.pem"  -> [data |-> <<1, 48>>, mtime |-> 0]
       [] f = "KEK.pem" -> [data |-> <<2, 49>>, mtime |-> 0]
       [] f = "bad.pem" -> [data |-> <<>>, mtime |-> 0]
       [] OTHER         -> Absent]

MCSigners == {[key |-> NoFile, cert |-> NoFile], [key |-> "PK.key", cert |-> "PK.pem"],
              [key |-> "PK.key", cert |-> NoFile], [key |-> "PK.key", cert |-> "KEK.pem"]}

MCArgvs ==
  {[key |-> s.key, cert |-> s.cert, name |-> n, out |-> "out.auth", certs |-> c] :
     s \in MCSigners, n \in {PK, KEK, db, dbx, <<70, 111, 111>>},
     c \in SeqOf({"PK.pem", "KEK.pem", "bad.pem"}, 2)}

\* 1 January 2024 00:00:00 and 31 December 2025 23:59:59 (struct tm)
MCTimes ==
  {[tm_year |-> 124, tm_mon |-> 0, tm_mday |-> 1, tm_hour |-> 0, tm_min |-> 0, tm_sec |-> 0],
   [tm_year |-> 125, tm_mon |-> 11, tm_mday |-> 31, tm_hour |-> 23, tm_min |-> 59, tm_sec |-> 59]}
=============================================================================
