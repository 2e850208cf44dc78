------------------------------ MODULE AuthBuild ------------------------------
(***************************************************************************)
(* The auth goal of the Makefile (src/unnamed/part_000, lines 48-77) as    *)
(* GNU make runs it, with CreateAuth as the recipe of each .auth target.   *)
(* make visits AUTHS in order; for each it brings the prerequisites up to  *)
(* date (create-auth from create-auth.c, PK.pem and PK.key from the        *)
(* openssl pattern rule when missing), then runs the recipe when the       *)
(* target is missing or older than a prerequisite.  A recipe that exits    *)
(* non-zero stops make; the target is left as the recipe left it, since    *)
(* the Makefile does not ask for .DELETE_ON_ERROR.  Between runs of make   *)
(* the user edits KEK.list and db.list or a certificate file they name,   *)
(* or runs make clean.                                                     *)
(***************************************************************************)
EXTENDS CreateAuth

CONSTANTS
  Edits,            \* [file, data]: the writes a user may make to an input
  MaxKeys,          \* bound on the PK key pairs openssl generates
  MaxTime           \* bound on the clock when the user acts

VARIABLES
  mk,               \* [pc: "idle", "run" or "recipe", todo: targets left]
  made,             \* make auth last exited 0 and nothing changed since
  keys              \* the key pairs generated so far

abVars == <<caVars, mk, made, keys>>

AUTHS == <<"PK.auth", "KEK.auth", "db.auth">>

ListOf(t) == IF t = "KEK.auth" THEN "KEK.list" ELSE "db.list"

(* Fault: a rule that forgets its list *)
PrereqsNoList(t) == <<"create-auth", "PK.pem", "PK.key">>

Prereqs(t) ==
  <<"create-auth", "PK.pem", "PK.key">>
    \o (IF t = "PK.auth" THEN <<>> ELSE <<ListOf(t)>>)

(* The recipe's command line; $$(cat KEK.list) is read when it runs *)
Recipe(t) ==
  [key |-> "PK.key", cert |-> "PK.pem", out |-> t,
   name |-> CASE t = "PK.auth" -> PK [] t = "KEK.auth" -> KEK [] OTHER -> db,
   certs |-> IF t = "PK.auth" THEN <<"PK.pem">> ELSE fs[ListOf(t)].data]

Newer(f, g) == fs[f].mtime > fs[g].mtime

OutOfDate(t) ==
  ~Exists(t) \/ \E i \in DOMAIN Prereqs(t) : Newer(Prereqs(t)[i], t)

ToolCurrent == Exists("create-auth") /\ ~Newer("create-auth.c", "create-auth")
KeysExist   == Exists("PK.pem") /\ Exists("PK.key")

-----------------------------------------------------------------------------
(* create-auth: create-auth.c -- gcc *)
MakeTool ==
  /\ mk.pc = "run" /\ mk.todo # <<>>
  /\ ~ToolCurrent
  /\ fs' = [fs EXCEPT !["create-auth"] = [data |-> fs["create-auth.c"].data,
                                          mtime |-> now + 1]]
  /\ now' = now + 1
  /\ UNCHANGED <<pc, argv, bufs, next, status, mk, made, keys>>

(* %.pem %.key: -- one openssl run writes a new key and its certificate *)
MakeKeys ==
  /\ mk.pc = "run" /\ mk.todo # <<>>
  /\ ToolCurrent /\ ~KeysExist
  /\ keys < MaxKeys
  /\ keys' = keys + 1
  /\ fs' = [fs EXCEPT !["PK.key"] = [data |-> <<keys + 1>>, mtime |-> now + 1],
                      !["PK.pem"] = [data |-> <<keys + 1, 48>>, mtime |-> now + 1]]
  /\ now' = now + 1
  /\ UNCHANGED <<pc, argv, bufs, next, status, mk, made>>

(* The next target of AUTHS: its recipe starts, or it is up to date *)
MakeTarget ==
  /\ mk.pc = "run" /\ mk.todo # <<>>
  /\ ToolCurrent /\ KeysExist
  /\ LET t == Head(mk.todo) IN
       IF OutOfDate(t)
       THEN /\ pc' = "start" /\ argv' = Recipe(t)
            /\ bufs' = <<>> /\ next' = 1 /\ status' = 0
            /\ mk' = [mk EXCEPT !.pc = "recipe"]
       ELSE /\ mk' = [mk EXCEPT !.todo = Tail(@)]
            /\ UNCHANGED <<pc, argv, bufs, next, status>>
  /\ UNCHANGED <<fs, now, made, keys>>

(* The recipe's exit status: make goes on, or stops with Error 1 *)
RecipeDone ==
  /\ mk.pc = "recipe" /\ pc = "exited"
  /\ pc' = "idle"
  /\ mk' = IF status = 0 THEN [pc |-> "run", todo |-> Tail(mk.todo)]
           ELSE [pc |-> "idle", todo |-> <<>>]
  /\ UNCHANGED <<argv, bufs, next, status, fs, now, made, keys>>

(* Every target is up to date: make exits 0 *)
MakeFinish ==
  /\ mk.pc = "run" /\ mk.todo = <<>>
  /\ mk' = [mk EXCEPT !.pc = "idle"]
  /\ made' = TRUE
  /\ UNCHANGED <<caVars, keys>>

(* The recipe runs while make waits for it *)
RunRecipe ==
  /\ mk.pc = "recipe"
  /\ Prepare \/ Open \/ Write
  /\ UNCHANGED <<mk, made, keys>>

-----------------------------------------------------------------------------
(* The user, between runs of make.  One make auth advances the clock at *)
(* most MakeTicks times (the tool, the keys, three outputs), so the user *)
(* acts only while a whole run still fits under MaxTime.                 *)
MakeTicks == 5
UserMayAct == mk.pc = "idle" /\ now + MakeTicks < MaxTime

(* make auth *)
MakeAuth ==
  /\ UserMayAct
  /\ mk' = [pc |-> "run", todo |-> AUTHS]
  /\ made' = FALSE
  /\ UNCHANGED <<caVars, keys>>

(* The user rewrites an input: a list, or a certificate file *)
EditFile(e) ==
  /\ UserMayAct
  /\ e.data # fs[e.file].data
  /\ fs' = [fs EXCEPT ![e.file] = [data |-> e.data, mtime |-> now + 1]]
  /\ now' = now + 1
  /\ made' = FALSE
  /\ UNCHANGED <<pc, argv, bufs, next, status, mk, keys>>

(* make clean: rm -f $(AUTHS), create-auth, PK.pem and PK.key *)
MakeClean ==
  /\ UserMayAct /\ keys < MaxKeys
  /\ fs' = [f \in Files |->
             IF f \in {"PK.auth", "KEK.auth", "db.auth", "create-auth",
                       "PK.pem", "PK.key"}
             THEN Absent ELSE fs[f]]
  /\ made' = FALSE
  /\ UNCHANGED <<pc, argv, bufs, next, status, now, mk, keys>>

(* The user stops *)
Quit == mk.pc = "idle" /\ UNCHANGED abVars

AbInit ==
  /\ pc = "idle" /\ argv = Recipe("PK.auth") /\ bufs = <<>> /\ next = 1
  /\ status = 0
  /\ fs = InitFs
  /\ now = 0
  /\ mk = [pc |-> "idle", todo |-> <<>>]
  /\ made = FALSE
  /\ keys = 0

AbNext ==
  \/ MakeTool \/ MakeKeys \/ MakeTarget \/ RunRecipe \/ RecipeDone \/ MakeFinish
  \/ MakeAuth \/ MakeClean \/ Quit
  \/ \E e \in Edits : EditFile(e)

AbSpec == AbInit /\ [][AbNext]_abVars

-----------------------------------------------------------------------------
(* Whenever make auth has just exited 0, every .auth file is what its    *)
(* recipe would write now: it verifies (spec sections 3 and 4.C) for its *)
(* variable, signed by the current PK.key, carrying the certificates the *)
(* list names as they are on disk.  This is what the Makefile's          *)
(* prerequisite lists, make's timestamps and the recipes' exit statuses  *)
(* together must ensure.                                                 *)
BuiltAuthsCurrent ==
  made =>
    \A i \in DOMAIN AUTHS :
      LET t == AUTHS[i] IN
      /\ Exists(t)
      /\ AuthVerifies(fs[t].data, Recipe(t).name, fs["PK.key"].data[1],
                      CertsOf(Recipe(t)))

=============================================================================
