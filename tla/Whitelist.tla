------------------------------ MODULE Whitelist ------------------------------
(***************************************************************************)
(* The GitHub whitelist of the agent (agent/handler/db.go) and the sign-in *)
(* of the dashboard that asks it (web/app/api/auth/[...nextauth]/route.ts).*)
(*                                                                         *)
(* The whitelist is one JSON file.  Every handler reads it whole, decides  *)
(* on its copy, and writes the copy back; the lock is held for the read    *)
(* and for the write, not in between.  A sign-in is two requests: it lists *)
(* the whitelist and, if there is no admin yet, claims the admin role.     *)
(*                                                                         *)
(* A file that is missing, truncated or unparsable reads as an empty       *)
(* whitelist, so a write cut short is modelled as one that leaves Empty.   *)
(* The order of the list only picks who is promoted; it is not kept.       *)
(***************************************************************************)
EXTENDS Integers, FiniteSets

CONSTANTS
  Names,        \* GitHub usernames; each of them may sign in
  Callers,      \* dashboard sessions that edit the whitelist
  Nobody,       \* the empty username
  EnvPrimary,   \* first of ADMIN_USERNAME or ALLOWED_GITHUB_USERS, or Nobody
  EnvAdmins,    \* all of them
  WebAllowed,   \* ALLOWED_GITHUB_USERS of the web process
  MaxInFlight,  \* handlers between their read and their last write: a bound
  DiskFails     \* whether file access may fail and a write may be cut short

ASSUME WhitelistAssumption ==
  /\ Nobody \notin Names
  /\ Names \cap Callers = {}
  /\ EnvPrimary \in Names \cup {Nobody}
  /\ EnvAdmins \subseteq Names
  /\ EnvPrimary # Nobody => EnvPrimary \in EnvAdmins
  /\ WebAllowed \subseteq Names
  /\ MaxInFlight \in Nat
  /\ DiskFails \in BOOLEAN

Clients == Names \cup Callers
Role == {"none", "member", "admin"}     \* "none": not on the list
Content == [admin : Names \cup {Nobody}, role : [Names -> Role]]
Empty == [admin |-> Nobody, role |-> [n \in Names |-> "none"]]

Ops == {"list", "claim", "add", "remove"}
Asked == {"", "admin"}                  \* role in a request; "": anything else
Request == [pc : {"idle", "start", "seed", "decide", "write"}, op : Ops,
            name : Names \cup {Nobody}, role : Asked, copy : Content]
Free == [pc |-> "idle", op |-> "list", name |-> Nobody, role |-> "", copy |-> Empty]

VARIABLES
  file,     \* what reading the whitelist file returns
  req,      \* the request each client has at the agent
  login,    \* how far each user's sign-in is
  claimed,  \* users whose claim was answered with success
  acked     \* users whose addition was acknowledged and who were not removed since

vars == <<file, req, login, claimed, acked>>

Init ==
  /\ file = Empty
  /\ req = [c \in Clients |-> Free]
  /\ login = [n \in Names |-> "out"]
  /\ claimed = {}
  /\ acked = {}

----------------------------------------------------------------------------
(* Requests *)

At(c, pc, op) == req[c].pc = pc /\ req[c].op = op
Listed(wl, n) == wl.role[n] # "none"
Admins(wl) == {n \in Names : wl.role[n] = "admin"}

\* Handlers that may still write.
InFlight ==
  {c \in Clients : \/ req[c].pc \in {"seed", "write"}
                   \/ req[c].pc = "decide" /\ req[c].op \in {"claim", "add", "remove"}}

Ask(c, op, n, role) ==
  req' = [req EXCEPT ![c] = [pc |-> "start", op |-> op, name |-> n, role |-> role,
                             copy |-> Empty]]
Done(c) == req' = [req EXCEPT ![c] = Free]
WriteBack(c, wl) == req' = [req EXCEPT ![c].pc = "write", ![c].copy = wl]

\* A dashboard session calls the API.
Call(c, op, n, role) ==
  /\ req[c].pc = "idle"
  /\ Ask(c, op, n, role)
  /\ UNCHANGED <<file, login, claimed, acked>>

\* Mutant of Seeded: the users are listed, the primary admin is not set.
SeededUsersOnly(wl) ==
  IF wl.admin = Nobody /\ EnvPrimary # Nobody
  THEN [wl EXCEPT !.role = [n \in Names |-> IF n \in EnvAdmins /\ ~Listed(wl, n)
                                            THEN "admin" ELSE wl.role[n]]]
  ELSE wl

\* readWhitelistFile: without an admin the environment provides some.
Seeded(wl) ==
  IF wl.admin = Nobody /\ EnvPrimary # Nobody
  THEN [admin |-> EnvPrimary,
        role |-> [n \in Names |-> IF n \in EnvAdmins /\ ~Listed(wl, n) THEN "admin"
                                                                     ELSE wl.role[n]]]
  ELSE wl

Read(c) ==
  /\ req[c].pc = "start"
  /\ Cardinality(InFlight) < MaxInFlight
  /\ req' = [req EXCEPT ![c].pc = IF Seeded(file) = file THEN "decide" ELSE "seed",
                        ![c].copy = Seeded(file)]
  /\ UNCHANGED <<file, login, claimed, acked>>

\* A seeded copy is written at once; an error is ignored.
WriteSeed(c) ==
  /\ req[c].pc = "seed"
  /\ req' = [req EXCEPT ![c].pc = "decide"]
  /\ \/ file' = req[c].copy
     \/ DiskFails /\ file' \in {file, Empty}
  /\ UNCHANGED <<login, claimed, acked>>

----------------------------------------------------------------------------
(* The handlers, on the copy they read *)

\* GetWhitelist, or VerifyUser, for a dashboard session
Reply(c) ==
  /\ c \in Callers
  /\ At(c, "decide", "list")
  /\ Done(c)
  /\ UNCHANGED <<file, login, claimed, acked>>

\* Mutant of ClaimAdmin: the check for an admin is left out.
ClaimAdminUnchecked(c) ==
  /\ At(c, "decide", "claim")
  /\ LET wl == req[c].copy
         n == req[c].name
     IN WriteBack(c, [admin |-> n, role |-> [wl.role EXCEPT ![n] = "admin"]])
  /\ UNCHANGED <<file, login, claimed, acked>>

ClaimAdmin(c) ==
  /\ At(c, "decide", "claim")
  /\ LET wl == req[c].copy
         n == req[c].name
     IN IF wl.admin # Nobody
        THEN /\ Done(c)
             /\ login' = [login EXCEPT ![n] = IF @ = "asking" THEN "in" ELSE @]
        ELSE /\ WriteBack(c, [admin |-> n, role |-> [wl.role EXCEPT ![n] = "admin"]])
             /\ UNCHANGED login
  /\ UNCHANGED <<file, claimed, acked>>

\* Mutant of Granted: the role is taken from the request.
GrantedAsAsked(asked) == asked

Granted(asked) == IF asked = "admin" THEN "admin" ELSE "member"

AddWhitelistUser(c) ==
  /\ At(c, "decide", "add")
  /\ LET wl == req[c].copy
         n == req[c].name
     IN IF Listed(wl, n)
        THEN Done(c) /\ acked' = acked \cup {n}
        ELSE /\ WriteBack(c, [wl EXCEPT !.role[n] = Granted(req[c].role)])
             /\ UNCHANGED acked
  /\ UNCHANGED <<file, login, claimed>>

SoleAdmin(wl, n) == wl.admin = n /\ Cardinality(Admins(wl)) <= 1

\* Mutants of Successors: nobody is promoted; anybody is.
SuccessorsNone(wl, n) == {IF wl.admin = n THEN Nobody ELSE wl.admin}
SuccessorsAnybody(wl, n) ==
  IF wl.admin # n THEN {wl.admin} ELSE {m \in Names \ {n} : Listed(wl, m)}

\* Who may be the primary admin once n is gone: the first admin of the list.
Successors(wl, n) ==
  IF wl.admin # n THEN {wl.admin}
  ELSE IF Admins(wl) \ {n} = {} THEN {Nobody}
  ELSE Admins(wl) \ {n}

DeleteWhitelistUser(c) ==
  /\ At(c, "decide", "remove")
  /\ LET wl == req[c].copy
         n == req[c].name
     IN IF SoleAdmin(wl, n)
        THEN Done(c)
        ELSE \E a \in Successors(wl, n) :
               WriteBack(c, [admin |-> a, role |-> [wl.role EXCEPT ![n] = "none"]])
  /\ UNCHANGED <<file, login, claimed, acked>>

\* Mutant of Write: the acknowledgement comes before the file is written.
WriteNothing(c) ==
  /\ req[c].pc = "write"
  /\ Done(c)
  /\ acked' = IF req[c].op = "add" THEN acked \cup {req[c].name} ELSE acked
  /\ UNCHANGED <<file, login, claimed>>

\* writeWhitelistFile and the answer that follows.
Write(c) ==
  /\ req[c].pc = "write"
  /\ Done(c)
  /\ file' = req[c].copy
  /\ LET n == req[c].name IN
     /\ claimed' = IF req[c].op = "claim" THEN claimed \cup {n} ELSE claimed
     /\ acked' = CASE req[c].op = "add" -> acked \cup {n}
                   [] req[c].op = "remove" -> acked \ {n}
                   [] OTHER -> acked
     /\ login' = [u \in Names |-> IF u = c /\ login[u] = "asking" THEN "in" ELSE login[u]]

\* The error is answered with 500.  A sign-in that claims does not look at the
\* answer.
WriteFails(c) ==
  /\ DiskFails
  /\ req[c].pc = "write"
  /\ Done(c)
  /\ file' \in {file, Empty}
  /\ login' = [u \in Names |-> IF u = c /\ login[u] = "asking" THEN "in" ELSE login[u]]
  /\ UNCHANGED <<claimed, acked>>

\* So does a claim whose read fails; a sign-in whose list fails is denied.
ReadFails(c) ==
  /\ DiskFails
  /\ req[c].pc = "start"
  /\ Done(c)
  /\ login' = [u \in Names |->
                 IF u # c \/ login[u] # "asking" THEN login[u]
                 ELSE IF req[c].op = "claim" THEN "in" ELSE "out"]
  /\ UNCHANGED <<file, claimed, acked>>

\* The agent ends and is started again: requests are lost.  A write under way
\* may be done and not answered, or cut short.
Crash ==
  /\ req' = [c \in Clients |-> Free]
  /\ \/ UNCHANGED <<file, acked>>
     \/ \E c \in Clients :
          /\ req[c].pc \in {"seed", "write"}
          /\ \/ file' = req[c].copy
             \/ DiskFails /\ file' = Empty
          /\ acked' = IF At(c, "write", "remove") THEN acked \ {req[c].name} ELSE acked
  /\ UNCHANGED <<login, claimed>>

----------------------------------------------------------------------------
(* The sign-in *)

SignIn(u) ==
  /\ login[u] = "out"
  /\ IF u \in WebAllowed
     THEN login' = [login EXCEPT ![u] = "in"] /\ UNCHANGED req
     ELSE /\ req[u].pc = "idle"
          /\ login' = [login EXCEPT ![u] = "asking"]
          /\ Ask(u, "list", u, "")
  /\ UNCHANGED <<file, claimed, acked>>

\* The answer to the list.  One that comes too late is dropped.
SignInAnswer(u) ==
  /\ At(u, "decide", "list")
  /\ LET wl == req[u].copy IN
     IF login[u] # "asking" THEN Done(u) /\ UNCHANGED login
     ELSE IF wl.admin = Nobody THEN Ask(u, "claim", u, "") /\ UNCHANGED login
     ELSE /\ Done(u)
          /\ login' = [login EXCEPT ![u] = IF wl.admin = u \/ Listed(wl, u) THEN "in"
                                                                          ELSE "out"]
  /\ UNCHANGED <<file, claimed, acked>>

\* The fetch is aborted after 4 s or fails; the agent may still serve it.
SignInFails(u) ==
  /\ login[u] = "asking"
  /\ login' = [login EXCEPT ![u] = "out"]
  /\ UNCHANGED <<file, req, claimed, acked>>

SignOut(u) ==
  /\ login[u] = "in"
  /\ login' = [login EXCEPT ![u] = "out"]
  /\ UNCHANGED <<file, req, claimed, acked>>

Handler(c) ==
  \/ Read(c) \/ WriteSeed(c) \/ ReadFails(c)
  \/ Reply(c) \/ ClaimAdmin(c) \/ AddWhitelistUser(c) \/ DeleteWhitelistUser(c)
  \/ Write(c) \/ WriteFails(c)

Next ==
  \/ \E c \in Callers : Call(c, "list", Nobody, "")
  \/ \E c \in Callers, n \in Names : Call(c, "remove", n, "")
  \/ \E c \in Callers, n \in Names, role \in Asked : Call(c, "add", n, role)
  \/ \E c \in Clients : Handler(c)
  \/ \E u \in Names : SignIn(u) \/ SignInAnswer(u) \/ SignInFails(u) \/ SignOut(u)
  \/ Crash

Spec == Init /\ [][Next]_vars

----------------------------------------------------------------------------
(* Properties *)

\* Files, copies and sign-ins have the shape the handlers give them.
TypeOK ==
  /\ file \in Content
  /\ req \in [Clients -> Request]
  /\ login \in [Names -> {"out", "asking", "in"}]
  /\ claimed \subseteq Names
  /\ acked \subseteq Names

\* The primary admin is on the list with the role of an admin, in the file and
\* in every copy a handler may still write back, whatever runs concurrently, is
\* cut short or fails: removing the admin promotes one of the others.
PrimaryIsAdmin ==
  \A wl \in {file} \cup {req[c].copy : c \in Clients} :
    wl.admin # Nobody => wl.role[wl.admin] = "admin"

\* One request at a time: the first user whose claim succeeds is the only one,
\* through any sequence of additions, removals and restarts (ClaimAdmin).
ClaimedOnce == Cardinality(claimed) <= 1

\* Where the environment names an admin nobody can claim the role, also right
\* after the file was lost (readWhitelistFile: auto-seed fallback).
EnvironmentDecides == EnvPrimary # Nobody => claimed = {}

\* A whitelist with a primary admin never loses it (DeleteWhitelistUser: the
\* sole admin cannot be removed, another one is promoted).
AdminStays == [][file.admin # Nobody => file'.admin # Nobody]_vars

\* An addition that was acknowledged lasts until the user is removed.
AddsLast == \A n \in acked : Listed(file, n)

----------------------------------------------------------------------------
(* What the handlers implement *)

Service == INSTANCE WhitelistService WITH primary <- file.admin, role <- file.role

\* One request at a time: reading, deciding and writing back, with sign-ins that list
\* and claim and agents that end in between, amount to requests that take effect at
\* once (the handlers of db.go).  A list with a primary admin then never loses it.
ServesAtOnce == Service!ServiceSpec
=============================================================================
