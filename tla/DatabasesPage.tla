---------------------------- MODULE DatabasesPage ----------------------------
(***************************************************************************)
(* The list of databases (src/web/app/databases/page.tsx) with its modals  *)
(* (CreateDbModal, CloneTestModal, ConnectionCard, the delete dialog) and  *)
(* its client (lib/agent-client.ts), which keeps the passwords it was told *)
(* in the browser: the vault.  A user of PostgreSQL may own several        *)
(* databases, so that a password told for one of them opens the others.    *)
(* When the network fails the client invents an answer, a password too.    *)
(*                                                                         *)
(* The statements behind a request are the business of Provisioning: here  *)
(* the agent serves it in one step.  A password is its number.             *)
(***************************************************************************)
EXTENDS Naturals, FiniteSets

CONSTANTS
  Dbs,        \* the databases there may be
  Roles,      \* the users that may own them
  RoleOf,     \* the owner of a database that is created: one for each project
  CloneOf,    \* the owner of a database that is cloned: one of its own
  FirstDbs,   \* the databases at the start, as created
  Invented,   \* the databases the client shows when it cannot read them
  MaxMoves,   \* bound: how many requests the user makes and cards he opens
  MaxOpen,    \* bound: the user waits while more requests than this are under way
  MaxFaults,  \* bound: how many requests or answers are lost
  None

DatabasesConstants ==
  /\ RoleOf \in [Dbs -> Roles] /\ CloneOf \in [Dbs -> Roles]
  /\ FirstDbs \subseteq Dbs /\ Invented \subseteq Dbs
  /\ MaxMoves \in Nat /\ MaxOpen \in Nat /\ MaxFaults \in Nat
  /\ None \notin Dbs /\ None \notin Roles /\ None \notin Nat

VARIABLES
  owner,      \* agent: who owns each database, None when there is no such database
  password,   \* agent: the password of every user
  made,       \* how many passwords were made
  databases,  \* page: the databases it lists
  mock,       \* client: the databases it shows in place of a list it cannot read
  vault,      \* browser: the password saved for each database
  loading,    \* page: nothing was ever read
  modal,      \* page: the modal that is open, and on which database
  card,       \* page: the password on the connection card, None for "managed"
  mount,      \* page: how many cards were opened
  busy,       \* page: the modals whose buttons wait
  calls,      \* requests under way
  moves,      \* how many requests the user made and cards he opened
  faults,     \* how many requests or answers were lost
  trouble     \* history: what went out of the ordinary

vars == <<owner, password, made, databases, mock, vault, loading, modal, card, mount,
          busy, calls, moves, faults, trouble>>

Agent  == <<owner, password, made>>
Client == <<mock, vault>>
View   == <<modal, card, mount>>

Writes == {"create", "clone", "reset", "delete"}
Modals == {"none", "create", "clone", "card", "delete"}
Modal  == [kind : Modals, db : Dbs \union {None}]
Closed == [kind |-> "none", db |-> None]

\* A request: `cause` is the handler that awaits a list, `mount` the card that asked.
\* "faked" is an answer the client made up; "refused" one that says no.
Call == [kind : Writes \union {"list"}, n : Nat, cause : {"none", "delete"},
         db : Dbs \union {None}, mount : Nat,
         state : {"sent", "done", "refused", "faked"}, got : SUBSET Dbs, pw : Nat]

Existing == {d \in Dbs : owner[d] # None}

\* A number that no request under way of the same kind and cause has.
Fresh(cs, kind, cause) ==
  LET ns == {c.n : c \in {d \in cs : d.kind = kind /\ d.cause = cause}}
  IN  CHOOSE i \in 0..Cardinality(ns) : i \notin ns

NewCall(cs, kind, cause, d) ==
  [kind |-> kind, n |-> Fresh(cs, kind, cause), cause |-> cause, db |-> d, mount |-> mount,
   state |-> "sent", got |-> {}, pw |-> 0]

Load(cs, cause) == cs \union {NewCall(cs, "list", cause, None)}

\* A write is under way together with another request.
Crossed(cs) == IF \E c, d \in cs : c # d /\ c.kind \in Writes THEN {"crossed"} ELSE {}

Sends(cs, odd) == calls' = cs /\ trouble' = trouble \union Crossed(cs) \union odd

----------------------------------------------------------------------------
(* The user.                                                               *)

Able == moves < MaxMoves /\ Cardinality(calls) <= MaxOpen

Free == modal = Closed

Ask(kind, d) == /\ Able /\ moves' = moves + 1
                /\ kind \notin busy
                /\ busy' = busy \union {kind}
                /\ Sends(calls \union {NewCall(calls, kind, "none", d)}, {})
                /\ UNCHANGED <<Agent, databases, Client, loading, View, faults>>

\* The button spins but stays enabled.
Refresh == /\ Free
           /\ Able /\ moves' = moves + 1
           /\ Sends(Load(calls, "none"), {})
           /\ UNCHANGED <<Agent, databases, Client, loading, View, busy, faults>>

OpenModal(k, d) ==
  /\ Free /\ Able
  /\ IF k = "create" THEN d = None ELSE ~loading /\ d \in databases
  /\ modal' = [kind |-> k, db |-> d]
  /\ UNCHANGED <<Agent, databases, Client, loading, card, mount, busy, calls, moves, faults, trouble>>

\* Mutant of ShowCard: the card takes its two arguments in the other order.
ShowCardSwapped(d, pw) == /\ modal' = [kind |-> "card", db |-> pw]
                          /\ card' = d
                          /\ mount' = mount + 1

\* A connection card: with the password of the vault, when it has one.
ShowCard(d, pw) == /\ modal' = [kind |-> "card", db |-> d]
                   /\ card' = pw
                   /\ mount' = mount + 1

OpenExistingConnection(d) ==
  /\ Free /\ ~loading /\ d \in databases
  /\ Able /\ moves' = moves + 1
  /\ ShowCard(d, vault[d])
  /\ busy' = busy \ {"reset"}
  /\ trouble' = trouble \union (IF \E c \in calls : c.kind = "reset" THEN {"reopened"} ELSE {})
  /\ UNCHANGED <<Agent, databases, Client, loading, calls, faults>>

\* Mutant of Held: a deletion can be left.
HeldByOthers == modal.kind \in {"create", "clone"} /\ modal.kind \in busy

Held == modal.kind # "card" /\ modal.kind \in busy

\* Every modal but the card stays open while its button waits.
CloseModal ==
  /\ ~Free
  /\ ~Held
  /\ modal' = Closed
  /\ UNCHANGED <<Agent, databases, Client, loading, card, mount, busy, calls, moves, faults, trouble>>

Create(d)     == modal.kind = "create" /\ Ask("create", d)
Clone(d)      == modal.kind = "clone"  /\ Ask("clone", d)
ResetPassword == modal.kind = "card"   /\ Ask("reset", modal.db)
ConfirmDelete == modal.kind = "delete" /\ Ask("delete", modal.db)

----------------------------------------------------------------------------
(* The agent and the network.                                              *)

Becomes(c, d) == calls' = (calls \ {c}) \union {d}

\* Another database of r has a password in the vault.
Shares(r, d) == \E e \in Existing \ {d} : owner[e] = r /\ vault[e] # None

\* A fresh password of user r, told in the answer for database d.
NewPassword(c, r, d, state) ==
  /\ made' = made + 1
  /\ password' = [password EXCEPT ![r] = made + 1]
  /\ Becomes(c, [c EXCEPT !.state = state, !.db = d, !.pw = made + 1])
  /\ trouble' = trouble \union (IF Shares(r, d) \/ (state = "refused" /\ vault[d] # None /\ owner[d] = r)
                                THEN {"shared"} ELSE {})

Refuse(c) == /\ Becomes(c, [c EXCEPT !.state = "refused"])
             /\ UNCHANGED <<Agent, trouble>>

\* A database that is there is refused, after the password was changed.
ServeCreate(c) ==
  /\ c.kind = "create"
  /\ IF owner[c.db] # None
     THEN NewPassword(c, RoleOf[c.db], c.db, "refused") /\ UNCHANGED owner
     ELSE NewPassword(c, RoleOf[c.db], c.db, "done")
            /\ owner' = [owner EXCEPT ![c.db] = RoleOf[c.db]]

\* A name that is taken gets a number: the clone goes to some free name.
ServeClone(c) ==
  /\ c.kind = "clone"
  /\ \/ modal.db \notin Existing /\ Refuse(c)     \* its modal, which stays, names the source
     \/ /\ modal.db \in Existing
        /\ \E d \in IF c.db \in Existing THEN Dbs \ Existing ELSE {c.db} :
             /\ NewPassword(c, CloneOf[d], d, "done")
             /\ owner' = [owner EXCEPT ![d] = CloneOf[d]]
     \/ Existing = Dbs /\ Refuse(c)

ServeReset(c) ==
  /\ c.kind = "reset"
  /\ IF owner[c.db] = None THEN Refuse(c)
     ELSE NewPassword(c, owner[c.db], c.db, "done") /\ UNCHANGED owner

\* DROP DATABASE IF EXISTS.
ServeDelete(c) ==
  /\ c.kind = "delete"
  /\ Becomes(c, [c EXCEPT !.state = "done"])
  /\ owner' = [owner EXCEPT ![c.db] = None]
  /\ UNCHANGED <<password, made, trouble>>

ServeList(c) == /\ c.kind = "list"
                /\ Becomes(c, [c EXCEPT !.state = "done", !.got = Existing])
                /\ UNCHANGED <<Agent, trouble>>

Serve(c) == /\ c.state = "sent"
            /\ \/ ServeCreate(c) \/ ServeClone(c) \/ ServeReset(c)
               \/ ServeDelete(c) \/ ServeList(c)
            /\ UNCHANGED <<databases, Client, loading, View, busy, moves, faults>>

\* The proxy answers 502, or nothing comes back and the client invents an answer.
Lose(c) ==
  /\ c.state \in {"sent", "done"} /\ faults < MaxFaults
  /\ faults' = faults + 1
  /\ IF c.kind = "list"
     THEN Becomes(c, [c EXCEPT !.state = "faked", !.got = mock]) /\ UNCHANGED made
     ELSE \/ Becomes(c, [c EXCEPT !.state = "refused"]) /\ UNCHANGED made
          \/ Becomes(c, [c EXCEPT !.state = "faked", !.pw = made + 1]) /\ made' = made + 1
  /\ trouble' = trouble \union {"lost"}
  /\ UNCHANGED <<owner, password, databases, Client, loading, View, busy, moves>>

----------------------------------------------------------------------------
(* The handlers resume.                                                    *)

\* Lists are read with the answers; the one a deletion awaits releases its button.
GotList(c) ==
  /\ c.kind = "list" /\ c.state # "sent"
  /\ databases' = c.got
  /\ loading' = FALSE
  /\ busy' = busy \ {c.cause}
  /\ Sends(calls \ {c}, {})
  /\ UNCHANGED <<Agent, Client, View, moves, faults>>

\* Mutant of Saved: a rotated password is only shown.
SavedOnCreation(c) == c.state = "done" /\ c.kind # "reset"

\* The client saves the passwords the agent told it, and the one it invented for a reset.
Saved(c) == c.state = "done" \/ (c.state = "faked" /\ c.kind = "reset")

Keep(c) == vault' = IF Saved(c) THEN [vault EXCEPT ![c.db] = c.pw] ELSE vault

\* Mutant of Reread: the list is left alone.
RereadNothing(c) == calls \ {c}

\* The list is read again after a write; the deletion awaits it.
Reread(c) == Load(calls \ {c}, IF c.kind = "delete" THEN "delete" ELSE "none")

\* The modal is replaced by the card of the new database, and the list is read.
GotDatabase(c) ==
  /\ c.kind \in {"create", "clone"} /\ c.state \in {"done", "faked"}
  /\ Keep(c)
  /\ mock' = IF c.state = "faked" THEN mock \union {c.db} ELSE mock
  /\ ShowCard(c.db, c.pw)
  /\ busy' = busy \ {c.kind, "reset"}
  /\ Sends(Reread(c), {})
  /\ UNCHANGED <<Agent, databases, loading, moves, faults>>

\* The card that asked is still there.
SameCard(c) == modal.kind = "card" /\ c.mount = mount

\* The card that asked may be gone: then only the vault learns of the password.
GotReset(c) ==
  /\ c.kind = "reset" /\ c.state \in {"done", "faked"}
  /\ Keep(c)
  /\ card' = IF SameCard(c) THEN c.pw ELSE card
  /\ busy' = IF SameCard(c) THEN busy \ {"reset"} ELSE busy
  /\ Sends(calls \ {c}, {})
  /\ UNCHANGED <<Agent, databases, mock, loading, modal, mount, moves, faults>>

GotDelete(c) ==
  /\ c.kind = "delete" /\ c.state \in {"done", "faked"}
  /\ mock' = IF c.state = "faked" THEN mock \ {c.db} ELSE mock
  /\ modal' = Closed
  /\ Sends(Reread(c), {})
  /\ UNCHANGED <<Agent, databases, vault, loading, card, mount, busy, moves, faults>>

\* Mutant of Freed: only an answer that succeeds releases a button.
FreedNever(c) == busy

Freed(c) == IF c.kind = "reset" /\ ~SameCard(c) THEN busy ELSE busy \ {c.kind}

\* The error is shown and the modal stays.
GotError(c) ==
  /\ c.kind # "list" /\ c.state = "refused"
  /\ busy' = Freed(c)
  /\ Sends(calls \ {c}, {})
  /\ UNCHANGED <<Agent, databases, Client, loading, View, moves, faults>>

Answer(c) == GotList(c) \/ GotDatabase(c) \/ GotReset(c) \/ GotDelete(c) \/ GotError(c)

User == \/ Refresh \/ CloseModal \/ ResetPassword \/ ConfirmDelete
        \/ \E d \in Dbs : Create(d) \/ Clone(d) \/ OpenExistingConnection(d)
        \/ \E k \in {"create", "clone", "delete"}, d \in Dbs \union {None} : OpenModal(k, d)

Init ==
  /\ owner = [d \in Dbs |-> IF d \in FirstDbs THEN RoleOf[d] ELSE None]
  /\ password = [r \in Roles |-> 0] /\ made = 0
  /\ databases = {} /\ mock = Invented /\ vault = [d \in Dbs |-> None]
  /\ loading = TRUE /\ modal = Closed /\ card = None /\ mount = 0 /\ busy = {}
  /\ calls = Load({}, "none")
  /\ moves = 0 /\ faults = 0 /\ trouble = {}

Next == \/ User
        \/ \E c \in calls : Serve(c) \/ Lose(c) \/ Answer(c)

Spec == Init /\ [][Next]_vars

----------------------------------------------------------------------------
(* Properties.                                                             *)

TypeOK ==
  /\ owner \in [Dbs -> Roles \union {None}] /\ password \in [Roles -> Nat] /\ made \in Nat
  /\ databases \subseteq Dbs /\ mock \subseteq Dbs /\ vault \in [Dbs -> Nat \union {None}]
  /\ loading \in BOOLEAN /\ modal \in Modal /\ card \in Nat \union {None} /\ mount \in Nat
  /\ busy \subseteq Writes
  /\ calls \subseteq Call
  /\ moves \in Nat /\ faults \in Nat /\ trouble \subseteq {"crossed", "shared", "lost", "reopened"}

\* A modal whose button waits is released by a request under way -- its own, or the
\* list a deletion awaits; but for the card, which is gone when it is closed.
ModalsReleased ==
  /\ \A k \in busy \ {"reset"} : \E c \in calls : c.kind = k \/ c.cause = k
  /\ ("reset" \in busy /\ modal.kind = "card") =>
       \E c \in calls : c.kind = "reset" /\ c.mount = mount

\* A database is dropped only while the dialog that names it is open, one at a time.
DropsWhatIsNamed ==
  \A c \in calls : c.kind = "delete" =>
    /\ modal = [kind |-> "delete", db |-> c.db]
    /\ \A d \in calls : d.kind = "delete" => d = c

\* The passwords the browser shows and saved open the databases -- unless an answer
\* was lost, requests crossed each other, a card was opened while a reset was under
\* way, or the password was changed for another database of the same user or by a
\* creation that was refused.
VaultOpens ==
  trouble = {} =>
    /\ \A d \in Existing : vault[d] # None /\ (\A c \in calls : c.kind = "list") =>
         vault[d] = password[owner[d]]
    /\ (modal.kind = "card" /\ modal.db \in Existing /\ calls = {} /\ card # None) =>
         card = password[owner[modal.db]]

\* With the same exceptions, a list at rest names the databases there are.
SettledList == (trouble = {} /\ calls = {}) => databases = Existing
=============================================================================
