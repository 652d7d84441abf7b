---------------------------- MODULE Provisioning ----------------------------
(***************************************************************************)
(* Provisioning of PostgreSQL databases by the agent (agent/handler/db.go):*)
(* creating a database with its user, cloning a database with a user of    *)
(* its own, resetting the password of a database's owner and deleting a    *)
(* database.                                                               *)
(*                                                                         *)
(* A handler is a chain of SQL statements, each of its own transaction, so *)
(* two requests interleave between any two of them.  Everything about who  *)
(* owns what hangs on how names are put together: the parts of a name are  *)
(* joined with "_", may hold one themselves, and a user name is cut after  *)
(* 60 characters.  A name is therefore a sequence of parts, and a cut one  *)
(* keeps its first MaxLen parts.                                           *)
(*                                                                         *)
(* A statement may fail although the server carries it out: the context of *)
(* a handler ends with its timeout or with the client's connection.        *)
(***************************************************************************)
EXTENDS Integers, Sequences

CONSTANTS
  Handlers,      \* requests in progress at a time: a bound
  Part,          \* parts of names
  Projects,      \* project_name in a request, sanitized, as parts
  Envs,          \* environment in a request, sanitized, as parts
  Targets,       \* target_database in a request, as parts, or NoName
  Suffix,        \* the numbers put behind a name that is taken: 50 in the code
  MaxLen,        \* parts a user name keeps: 60 characters in the code
  Protected,     \* the user the code names, "usr_school_erp"
  FirstOwner,    \* the databases of the cluster at the start and their owners
  MaxRequests,   \* requests accepted: a bound
  MayFail        \* whether a statement may fail for reasons of its own

NoName == <<>>
Master == <<"postgres">>
Name == Seq(Part)
System == {Master}      \* and template0, template1, which nobody lists

ASSUME ProvisioningAssumption ==
  /\ {"db", "usr", "clone", "postgres"} \subseteq Part
  /\ Projects \cup Envs \cup Targets \subseteq Name
  /\ NoName \notin Projects \cup Envs
  /\ Suffix \in Seq(Part) /\ Suffix # <<>>
  /\ MaxLen \in Nat \ {0}
  /\ Protected \in Name
  /\ FirstOwner = [d \in DOMAIN FirstOwner |-> FirstOwner[d]]
  /\ \A d \in DOMAIN FirstOwner : d \in Name /\ FirstOwner[d] \in Name
  /\ MaxRequests \in Nat
  /\ MayFail \in BOOLEAN

VARIABLES
  roles,      \* password of every user; passwords are numbered as made
  dbs,        \* owner and content of every database
  req,        \* the request each handler works on
  accepted    \* requests accepted so far

vars == <<roles, dbs, req, accepted>>

----------------------------------------------------------------------------
(* Names *)

\* A function with one more argument, or another value for one.
With(f, x, v) == [y \in DOMAIN f \cup {x} |-> IF y = x THEN v ELSE f[y]]

Cut(n) == IF Len(n) > MaxLen THEN SubSeq(n, 1, MaxLen) ELSE n

\* A name without the "db_" it may begin with.
Bare(d) == IF Len(d) > 1 /\ d[1] = "db" THEN Tail(d) ELSE d

\* The user a clone is to be owned by, and the one tried instead of it.
UserOf(d) == <<"usr">> \o Bare(d)
OtherUserOf(d) == UserOf(d) \o <<"clone">>

\* Mutant of CloneUser: no guard.
UnguardedUser(d, owner) == Cut(UserOf(d))

\* The user a clone is owned by: its own, unless that is one to keep.
CloneUser(d, owner) ==
  IF owner # Master /\ Cut(UserOf(d)) \in {owner, Protected, Master}
    THEN Cut(OtherUserOf(d))
    ELSE Cut(UserOf(d))

\* The name of a clone nobody gave a name: the source's with another environment.
Derived(src, env) ==
  IF Len(src) > 1 /\ src[1] = "db"
    THEN IF Len(src) > 2 THEN SubSeq(src, 1, Len(src) - 1) \o env ELSE src \o env
    ELSE <<"db">> \o src \o env

----------------------------------------------------------------------------
(* Requests *)

\* calm: since the request came no other changed the password it had set nor
\* dropped one of its databases.  The code has no such thing.
Request ==
  [op : {"create", "clone", "reset", "delete"},
   pc : {"idle", "probe", "rotate", "check", "count", "copy", "make", "load",
         "drop", "answer"},
   db : Name, src : Name, owner : Name, base : Name, role : Name,
   pw : 0..MaxRequests, try : 0..Len(Suffix), calm : BOOLEAN]

Idle == [op |-> "create", pc |-> "idle", db |-> NoName, src |-> NoName,
         owner |-> NoName, base |-> NoName, role |-> NoName, pw |-> 0, try |-> 0,
         calm |-> TRUE]

FirstRoles == {Master} \cup {FirstOwner[d] : d \in DOMAIN FirstOwner}

Init ==
  /\ roles = [r \in FirstRoles |-> 0]
  /\ dbs = [d \in DOMAIN FirstOwner |-> [owner |-> FirstOwner[d], content |-> "data"]]
  /\ req = [h \in Handlers |-> Idle]
  /\ accepted = 0

At(h, pc) == req[h].pc = pc
GoTo(h, pc) == req' = [req EXCEPT ![h].pc = pc]

\* The handler answers, with success or an error.
Finish(h) == req' = [req EXCEPT ![h] = Idle]

\* A request is accepted; the password it may need is a fresh one.
Accept(h, r) ==
  /\ At(h, "idle")
  /\ accepted < MaxRequests
  /\ accepted' = accepted + 1
  /\ req' = [req EXCEPT ![h] = [r EXCEPT !.pw = accepted + 1]]
  /\ UNCHANGED <<roles, dbs>>

CreateDatabase(h) ==
  \E proj \in Projects, env \in Envs :
    Accept(h, [Idle EXCEPT !.op = "create", !.pc = "rotate",
                           !.db = <<"db">> \o proj \o env, !.role = <<"usr">> \o proj])

\* The owner of the source is read once, here.
CloneDatabase(h) ==
  \E src \in DOMAIN dbs, env \in Envs, target \in Targets :
    LET base == IF target = NoName THEN Derived(src, env) ELSE target
    IN Accept(h, [Idle EXCEPT !.op = "clone", !.pc = "probe", !.db = base, !.src = src,
                              !.owner = dbs[src].owner, !.base = base])

ResetDatabasePassword(h) ==
  \E d \in DOMAIN dbs :
    Accept(h, [Idle EXCEPT !.op = "reset", !.pc = "rotate", !.db = d,
                           !.role = dbs[d].owner])

\* Connections are terminated, then the database is dropped.
DeleteDatabase(h) ==
  \E d \in DOMAIN dbs \ System :
    Accept(h, [Idle EXCEPT !.op = "delete", !.pc = "drop", !.db = d])

----------------------------------------------------------------------------
(* Steps *)

\* The name of the clone is settled, and with it its user.
Settle(h, d) ==
  req' = [req EXCEPT ![h].pc = "rotate", ![h].db = d,
                     ![h].role = CloneUser(d, req[h].owner)]

\* A name is free, or passes for free when the query fails.
FindFreeName(h) ==
  /\ At(h, "probe")
  /\ req[h].db \notin DOMAIN dbs \/ MayFail
  /\ Settle(h, req[h].db)
  /\ UNCHANGED <<roles, dbs, accepted>>

\* A name is taken: the next one is tried, the last one without a look.
TryNextName(h) ==
  /\ At(h, "probe")
  /\ req[h].db \in DOMAIN dbs
  /\ LET try == req[h].try + 1
         next == req[h].base \o <<Suffix[try]>>
     IN IF try = Len(Suffix)
          THEN Settle(h, next)
          ELSE req' = [req EXCEPT ![h].db = next, ![h].try = try]
  /\ UNCHANGED <<roles, dbs, accepted>>

NextStep(op) == CASE op = "create" -> "check" [] op = "clone" -> "count" [] OTHER -> "answer"

HasRotated(r) == r.pc \in {"check", "count", "copy", "make", "load", "answer"}

\* Mutant of SetPassword: a user that does not exist yet is not made.
SetPasswordOnly(h, after) ==
  /\ roles' = IF req[h].role \in DOMAIN roles
              THEN With(roles, req[h].role, req[h].pw) ELSE roles
  /\ req' = [req EXCEPT ![h] = after]

\* The user is made or given the new password.
SetPassword(h, after) ==
  /\ roles' = With(roles, req[h].role, req[h].pw)
  /\ req' = [k \in Handlers |->
       IF k = h THEN after
       ELSE [req[k] EXCEPT !.calm = @ /\ ~(HasRotated(req[k]) /\ req[k].role = req[h].role)]]

RotatePassword(h) ==
  /\ At(h, "rotate")
  /\ \/ SetPassword(h, [req[h] EXCEPT !.pc = NextStep(req[h].op)])
     \/ MayFail /\ SetPassword(h, Idle)
     \/ MayFail /\ Finish(h) /\ UNCHANGED roles
  /\ UNCHANGED <<dbs, accepted>>

\* The name asked for is taken: 409, after the password was changed.
CheckName(h) ==
  /\ At(h, "check")
  /\ \/ req[h].db \notin DOMAIN dbs /\ GoTo(h, "make")
     \/ (req[h].db \in DOMAIN dbs \/ MayFail) /\ Finish(h)
  /\ UNCHANGED <<roles, dbs, accepted>>

\* Without connections to the source, or if they cannot be counted, it serves as
\* template.
CountConnections(h) ==
  /\ At(h, "count")
  /\ \E pc \in {"copy", "make"} : GoTo(h, pc)
  /\ UNCHANGED <<roles, dbs, accepted>>

NewDatabase(h, content) ==
  /\ req[h].db \notin DOMAIN dbs
  /\ dbs' = With(dbs, req[h].db, [owner |-> req[h].role, content |-> content])

\* A copy that fails - the names changed, somebody connected to the source - falls
\* back on dump and restore.
CopyTemplate(h) ==
  /\ At(h, "copy")
  /\ \/ /\ req[h].src \in DOMAIN dbs
        /\ NewDatabase(h, dbs[req[h].src].content)
        /\ \E pc \in {"answer", "make"} : (pc = "make" => MayFail) /\ GoTo(h, pc)
     \/ GoTo(h, "make") /\ UNCHANGED dbs
  /\ UNCHANGED <<roles, accepted>>

\* Mutant of MakeDatabase: that the name is taken is not an error.
MakeDatabaseIfMissing(h) ==
  /\ At(h, "make")
  /\ NewDatabase(h, "empty") \/ UNCHANGED dbs
  /\ GoTo(h, IF req[h].op = "clone" THEN "load" ELSE "answer")
  /\ UNCHANGED <<roles, accepted>>

MakeDatabase(h) ==
  /\ At(h, "make")
  /\ \/ /\ NewDatabase(h, "empty")
        /\ \/ GoTo(h, IF req[h].op = "clone" THEN "load" ELSE "answer")
           \/ MayFail /\ Finish(h)
     \/ /\ req[h].db \in DOMAIN dbs \/ MayFail
        /\ Finish(h)
        /\ UNCHANGED dbs
  /\ UNCHANGED <<roles, accepted>>

\* Mutant of LoadDump: pg_dump waits for a psql that is gone.
LoadDumpHangs(h) ==
  /\ At(h, "load")
  /\ {req[h].src, req[h].db} \subseteq DOMAIN dbs
  /\ dbs' = [dbs EXCEPT ![req[h].db].content = dbs[req[h].src].content]
  /\ GoTo(h, "answer")
  /\ UNCHANGED <<roles, accepted>>

\* pg_dump is piped into psql, as far as both get; nobody looks how far that is.
LoadDump(h) ==
  /\ At(h, "load")
  /\ \/ /\ {req[h].src, req[h].db} \subseteq DOMAIN dbs
        /\ dbs[req[h].src].content = "data"
        /\ dbs' = [dbs EXCEPT ![req[h].db].content = "data"]
     \/ UNCHANGED dbs
  /\ GoTo(h, "answer")
  /\ UNCHANGED <<roles, accepted>>

\* Privileges are granted, which does not matter to an owner, and the user and
\* the password are told.
Answer(h) == At(h, "answer") /\ Finish(h) /\ UNCHANGED <<roles, dbs, accepted>>

DropDatabase(h) ==
  LET d == req[h].db IN
  /\ At(h, "drop")
  /\ \/ /\ dbs' = [e \in DOMAIN dbs \ {d} |-> dbs[e]]
        /\ req' = [k \in Handlers |->
             IF k = h THEN Idle
             ELSE [req[k] EXCEPT !.calm = @ /\ d \notin {req[k].db, req[k].src}]]
     \/ Finish(h) /\ UNCHANGED dbs      \* somebody connected again
  /\ UNCHANGED <<roles, accepted>>

----------------------------------------------------------------------------

Arrive(h) ==
  CreateDatabase(h) \/ CloneDatabase(h) \/ ResetDatabasePassword(h) \/ DeleteDatabase(h)

Proceed(h) ==
  \/ FindFreeName(h) \/ TryNextName(h) \/ RotatePassword(h) \/ CheckName(h)
  \/ CountConnections(h) \/ CopyTemplate(h) \/ MakeDatabase(h) \/ LoadDump(h)
  \/ Answer(h) \/ DropDatabase(h)

Next == \E h \in Handlers : Arrive(h) \/ Proceed(h)

\* Every statement returns, at the latest when the context of its handler ends
\* (10, 15 or 90 seconds), and pg_dump and psql are killed then.
Fairness == \A h \in Handlers : WF_vars(Proceed(h))

Spec == Init /\ [][Next]_vars /\ Fairness

----------------------------------------------------------------------------
(* Properties *)

\* Users, databases and requests are well formed, and every database has an owner
\* that exists.
TypeOK ==
  /\ roles = [r \in DOMAIN roles |-> roles[r]]
  /\ \A r \in DOMAIN roles : r \in Name /\ roles[r] \in 0..MaxRequests
  /\ dbs = [d \in DOMAIN dbs |-> dbs[d]]
  /\ \A d \in DOMAIN dbs :
       d \in Name /\ dbs[d] \in [owner : DOMAIN roles, content : {"empty", "data"}]
  /\ req \in [Handlers -> Request]
  /\ accepted \in 0..MaxRequests

\* What create, clone and reset answer is a working connection string: the user it
\* names owns the database and the password it tells is that user's - unless
\* another request changed the password or dropped a database meanwhile.
AnswerWorks ==
  \A h \in Handlers : At(h, "answer") /\ req[h].calm =>
    /\ req[h].db \in DOMAIN dbs
    /\ dbs[req[h].db].owner = req[h].role
    /\ roles[req[h].role] = req[h].pw

\* A step that changes the password of a database's owner on behalf of a clone of it.
HitsSource(h) ==
  /\ At(h, "rotate") /\ req[h].op = "clone" /\ req[h].calm
  /\ req[h].src \in DOMAIN dbs
  /\ LET owner == dbs[req[h].src].owner IN roles'[owner] # roles[owner]

\* What the guard of CloneDatabase achieves: the source's owner keeps its password
\* unless the name of the clone's user is too long for the column, or is the one the
\* code protects by name.
SourceSpared ==
  [][\A h \in Handlers : RotatePassword(h) /\ HitsSource(h) =>
       \/ Len(OtherUserOf(req[h].db)) > MaxLen
       \/ UserOf(req[h].db) = Protected]_vars

\* Every request is answered, however many names are taken.
Answered == \A h \in Handlers : ~At(h, "idle") ~> At(h, "idle")
=============================================================================
