---------------------------- MODULE MCAuthBuild ----------------------------
(***************************************************************************)
(* Instantiation of AuthBuild for TLC: a fresh tree with create-auth.c,    *)
(* KEK.list and db.list, two certificate files the lists may name, and     *)
(* the lists a user may switch between.                                    *)
(***************************************************************************)
EXTENDS AuthBuild, MCCreateAuth

MCBuildFiles ==
  {"create-auth.c", "create-auth", "PK.pem", "PK.key", "KEK.list", "db.list",
   "ms.pem", "ca.pem", "PK.auth", "KEK.auth", "db.auth"}

MCBuildFs ==
  [f \in MCBuildFiles |->
     CASE f = "create-auth.c" -> [data |-> <<1>>, mtime |-> 0]
       [] f = "KEK.list" -> [data |-> <<"ms.pem">>, mtime |-> 0]
       [] f = "db.list"  -> [data |-> <<"ms.pem", "ca.pem">>, mtime |-> 0]
       [] f = "ms.pem"   -> [data |-> <<7, 50>>, mtime |-> 0]
       [] f = "ca.pem"   -> [data |-> <<8, 51>>, mtime |-> 0]
       [] OTHER          -> Absent]

\* either list may be switched to name one certificate or the other
MCListEdits ==
  {[file |-> l, data |-> c] : l \in {"KEK.list", "db.list"},
                              c \in {<<"ms.pem">>, <<"ca.pem">>}}

\* ms.pem replaced by a certificate for a new Microsoft key, and back
MCCertEdits == {[file |-> "ms.pem", data |-> d] : d \in {<<7, 50>>, <<7, 52>>}}

MCAllEdits == MCListEdits \cup MCCertEdits

MCBuildTimes ==
  {[tm_year |-> 125, tm_mon |-> 11, tm_mday |-> 31, tm_hour |-> 23, tm_min |-> 59, tm_sec |-> 59]}
=============================================================================
