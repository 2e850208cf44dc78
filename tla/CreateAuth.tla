------------------------------ MODULE CreateAuth ------------------------------
(***************************************************************************)
(* One run of create-auth (main in src/unnamed/part_001) against a file    *)
(* system.  The run checks its arguments, reads the signing key, signing   *)
(* certificate and the certificates to enrol, builds the descriptor,       *)
(* signature and signature lists in memory, then opens the output and      *)
(* writes the three buffers with fwrite, exiting 1 on the first failure    *)
(* it detects.  Everything before fopen touches no file, so it is one      *)
(* step.                                                                   *)
(*                                                                         *)
(* A file is [data, mtime], with mtime -1 for a missing file.  A key file  *)
(* holds <<key>>; a PEM certificate holds DER bytes whose first byte names *)
(* the key it belongs to; an empty file does not parse.                    *)
(*                                                                         *)
(* stdio buffers the output, so what reaches the disk is decided when a    *)
(* buffer is flushed: by an fwrite (whose short count the code checks) or  *)
(* by fclose (whose result it ignores).                                    *)
(***************************************************************************)
EXTENDS AuthFormat

CONSTANTS
  Argvs,         \* the command lines create-auth is run with
  InitFs,        \* the file system it starts from
  Files,         \* the file names
  Times,         \* struct tm values gmtime(time()) may return
  Faults         \* the I/O calls that may fail: "fopen", "fwrite", "fclose"

VARIABLES
  pc,            \* "idle", "start", "open", "write", "exited"
  argv,          \* [key, cert, name, out, certs]: the command line
  bufs,          \* <<descriptor, sig, data>> once built
  next,          \* the index of the next buffer to fwrite
  status,        \* the exit status
  fs,            \* [Files -> [data, mtime]]
  now            \* the clock mtimes are taken from

caVars == <<pc, argv, bufs, next, status, fs, now>>

NoFile == ""                           \* option not given
Absent == [data |-> <<>>, mtime |-> -1]
Exists(f) == fs[f].mtime >= 0

(* BIO_new_file followed by PEM_read_bio_X509 / PEM_read_bio_PrivateKey *)
Parses(f) == Exists(f) /\ fs[f].data # <<>>

-----------------------------------------------------------------------------
(* main up to create_descriptor: the exits it takes, in the code's order *)
Fails(a) ==
  \/ a.cert # NoFile /\ ~Parses(a.cert)                     \* -c
  \/ a.key # NoFile /\ ~Parses(a.key)                       \* -k
  \/ (a.key = NoFile) # (a.cert = NoFile)                   \* usage
  \/ a.certs = <<>>                                         \* argc - optind < 3
  \/ VarGuid(a.name) = <<>>                                 \* unsupported name
  \/ \E i \in DOMAIN a.certs : ~Parses(a.certs[i])          \* certificate args
  \/ a.key # NoFile /\ fs[a.key].data[1] # fs[a.cert].data[1]
                                            \* PKCS7_sign_add_signer refuses

SignKey(a) == IF a.key = NoFile THEN NoKey ELSE fs[a.key].data[1]

Prepare ==
  /\ pc = "start"
  /\ IF Fails(argv)
     THEN /\ pc' = "exited" /\ status' = 1
          /\ UNCHANGED <<bufs, next>>
     ELSE \E tm \in Times :
            LET ts   == EfiTimeBytes(TimeOfTm(tm))
                data == CertsToSigList([i \in DOMAIN argv.certs |->
                                          fs[argv.certs[i]].data],
                                       VendorGuid(argv.name))
                sig  == SignData(SignKey(argv), Ucs2Name(argv.name),
                                 VarGuid(argv.name),
                                 ATTR_BRNV + EFI_VARIABLE_TIME_BASED_AUTHENTICATED_WRITE_ACCESS,
                                 ts, data)
            IN  /\ bufs' = <<CreateDescriptor(Len(sig), ts), sig, data>>
                /\ pc' = "open"
                /\ UNCHANGED <<next, status>>
  /\ UNCHANGED <<argv, fs, now>>

(* fopen(out_file, "w"): the file is created or truncated *)
Open ==
  /\ pc = "open"
  /\ \E ok \in IF "fopen" \in Faults THEN BOOLEAN ELSE {TRUE} :
       IF ok
       THEN /\ fs' = [fs EXCEPT ![argv.out] = [data |-> <<>>, mtime |-> now + 1]]
            /\ now' = now + 1
            /\ pc' = "write" /\ next' = 1
            /\ UNCHANGED status
       ELSE /\ pc' = "exited" /\ status' = 1
            /\ UNCHANGED <<fs, now, next>>
  /\ UNCHANGED <<argv, bufs>>

(* Where a failed flush may cut the output short: at the start or the   *)
(* end of one of the buffers, or half way through one.  Which field of  *)
(* the layout the cut falls in is all a reader of the file can tell.    *)
Written(j) == FlattenSeq(SubSeq(bufs, 1, j))
Cuts == {Len(Written(j)) : j \in 0 .. Len(bufs)}
          \cup {Len(Written(j)) + Len(bufs[j + 1]) \div 2 : j \in 0 .. Len(bufs) - 1}

(* fwrite(bufs[next]): the buffer is taken whole, or a flush fails and   *)
(* the short count ends the run with a prefix of what was written on    *)
(* disk.  After the last buffer, fclose flushes the rest and the run     *)
(* exits 0 whatever fclose returned.                                     *)
Write ==
  /\ pc = "write"
  /\ LET file == Written(next) IN
     \E ok \in IF "fwrite" \in Faults /\ bufs[next] # <<>> THEN BOOLEAN
               ELSE {TRUE} :
       IF ~ok
       THEN /\ \E k \in {c \in Cuts : c < Len(file)} :
                 fs' = [fs EXCEPT ![argv.out].data = SubSeq(file, 1, k)]
            /\ pc' = "exited" /\ status' = 1
            /\ UNCHANGED next
       ELSE IF next < Len(bufs)
       THEN /\ fs' = [fs EXCEPT ![argv.out].data = file]
            /\ next' = next + 1
            /\ UNCHANGED <<pc, status>>
       ELSE /\ \E k \in IF "fclose" \in Faults THEN Cuts ELSE {Len(file)} :
                 fs' = [fs EXCEPT ![argv.out].data = SubSeq(file, 1, k)]
            /\ pc' = "exited" /\ status' = 0
            /\ UNCHANGED next
  /\ UNCHANGED <<argv, bufs, now>>

(* The process has exited *)
Done == pc = "exited" /\ UNCHANGED caVars

CaInit ==
  /\ pc = "start"
  /\ argv \in Argvs
  /\ bufs = <<>>
  /\ next = 1
  /\ status = 0
  /\ fs = InitFs
  /\ now = 0

CaNext == Prepare \/ Open \/ Write \/ Done

CaSpec == CaInit /\ [][CaNext]_caVars

-----------------------------------------------------------------------------
(* The certificates named on the command line, as they are on disk *)
CertsOf(a) == [i \in DOMAIN a.certs |-> fs[a.certs[i]].data]

(* When create-auth exits 0, the output file is what a verifier of the  *)
(* variable accepts (spec sections 3 and 4.C): a well-formed descriptor *)
(* with a normalized timestamp, a signature by the -k key over the      *)
(* message the verifier rebuilds, and signature lists carrying exactly  *)
(* the certificates given, in order, under the vendor GUID.              *)
AuthFileVerifies ==
  pc = "exited" /\ status = 0 =>
    AuthVerifies(fs[argv.out].data, argv.name, SignKey(argv), CertsOf(argv))

=============================================================================
