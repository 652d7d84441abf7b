-------------------------- MODULE Dashboard_proofs --------------------------
(***************************************************************************)
(* Theorems about Dashboard for any data, any constants and any number of  *)
(* requests: those of the databases page and of the explainer, and that    *)
(* what was proved of the other pages holds of them in the dashboard.      *)
(***************************************************************************)
EXTENDS Dashboard, FiniteSetTheorems, TLAPS

----------------------------------------------------------------------------
(* Requests *)

\* A finite set of requests leaves a number free.
LEMMA FreshNumber ==
  ASSUME NEW cs, IsFiniteSet(cs), NEW kind, NEW cause
  PROVE  Fresh(cs, kind, cause) \in Nat
<1> DEFINE alike == {d \in cs : d.kind = kind /\ d.cause = cause}
           ns == {c.n : c \in alike}
           f == [c \in alike |-> c.n]
<1>1. IsFiniteSet(alike)
  BY FS_Subset
<1>2. f \in Surjection(alike, ns)
  BY DEF Surjection
<1>3. IsFiniteSet(ns)
  BY <1>1, <1>2, FS_Surjection
<1>4. Cardinality(ns) \in Nat
  BY <1>3, FS_CardinalityType
<1>5. \E i \in 0..Cardinality(ns) : i \notin ns
  <2> SUFFICES ASSUME 0..Cardinality(ns) \subseteq ns PROVE FALSE
    OBVIOUS
  <2>1. Cardinality(0..Cardinality(ns)) <= Cardinality(ns)
    BY <1>3, FS_Subset
  <2>2. Cardinality(0..Cardinality(ns)) = Cardinality(ns) + 1
    BY <1>4, FS_Interval
  <2> QED BY <1>4, <2>1, <2>2
<1>6. Fresh(cs, kind, cause) \in 0..Cardinality(ns)
  BY <1>5 DEF Fresh
<1> QED BY <1>4, <1>6

\* Only a list is awaited by another handler, and a write names its database.
WellSent(c) == c.kind # "list" => c.cause = "none" /\ c.db \in Dbs

\* The modals that are about a database name one.
Named(m) == m.kind \in {"clone", "card", "delete"} => m.db \in Dbs

TypeInv == /\ TypeOK
           /\ IsFiniteSet(calls)
           /\ \A c \in calls : WellSent(c)
           /\ Named(modal)

LEMMA NewCallType ==
  ASSUME NEW cs, IsFiniteSet(cs), mount \in Nat, NEW kind \in Writes \union {"list"},
         NEW cause \in {"none", "delete"}, NEW d \in Dbs \union {None}
  PROVE  LET c == NewCall(cs, kind, cause, d)
         IN  /\ c \in Call /\ c.state = "sent" /\ c.mount = mount
             /\ c.kind = kind /\ c.cause = cause /\ c.db = d
BY FreshNumber DEF NewCall, Call

\* Another request.
LEMMA SentType ==
  ASSUME NEW cs, IsFiniteSet(cs), cs \subseteq Call, \A c \in cs : WellSent(c),
         NEW d \in Call, WellSent(d)
  PROVE  LET ds == cs \union {d}
         IN  IsFiniteSet(ds) /\ ds \subseteq Call /\ \A c \in ds : WellSent(c)
BY FS_AddElement

LEMMA DroppedType ==
  ASSUME NEW cs, IsFiniteSet(cs), cs \subseteq Call, \A e \in cs : WellSent(e), NEW c \in cs
  PROVE  IsFiniteSet(cs \ {c}) /\ cs \ {c} \subseteq Call /\ \A e \in cs \ {c} : WellSent(e)
BY FS_RemoveElement

\* A request that went on.
LEMMA BecomesType ==
  ASSUME TypeInv, NEW c \in calls, NEW d \in Call, WellSent(d), Becomes(c, d)
  PROVE  IsFiniteSet(calls') /\ calls' \subseteq Call /\ \A e \in calls' : WellSent(e)
<1> DEFINE cs == calls \ {c}
<1>1. IsFiniteSet(cs) /\ cs \subseteq Call /\ \A e \in cs : WellSent(e)
  BY DroppedType DEF TypeInv, TypeOK
<1>2. calls' = cs \union {d}
  BY DEF Becomes
<1> HIDE DEF cs
<1> QED BY <1>1, <1>2, SentType

LEMMA LoadType ==
  ASSUME NEW cs, IsFiniteSet(cs), cs \subseteq Call, \A c \in cs : WellSent(c), mount \in Nat,
         NEW cause \in {"none", "delete"}
  PROVE  /\ IsFiniteSet(Load(cs, cause)) /\ Load(cs, cause) \subseteq Call
         /\ \A c \in Load(cs, cause) : WellSent(c)
<1> DEFINE d == NewCall(cs, "list", cause, None)
<1>1. d \in Call /\ d.kind = "list"
  BY NewCallType
<1> HIDE DEF d
<1>2. Load(cs, cause) = cs \union {d}
  BY DEF Load, d
<1> QED BY <1>1, <1>2, SentType DEF WellSent

\* What an answer keeps of its request.
Like(c, d) == /\ d.kind = c.kind /\ d.cause = c.cause /\ d.mount = c.mount
              /\ c.kind \in {"reset", "delete"} => d.db = c.db

----------------------------------------------------------------------------
(* Types *)

USE DEF TypeInv, TypeOK

Troubles == {"crossed", "shared", "lost", "reopened"}

LEMMA CrossedType == ASSUME NEW cs PROVE Crossed(cs) \subseteq Troubles
BY DEF Crossed, Troubles

LEMMA AskType ==
  ASSUME TypeInv, NEW kind \in Writes, NEW d \in Dbs, Ask(kind, d)
  PROVE  TypeInv'
<1> DEFINE c == NewCall(calls, kind, "none", d)
<1>1. c \in Call /\ WellSent(c)
  BY NewCallType DEF WellSent
<1> HIDE DEF c
<1>2. /\ calls' = calls \union {c} /\ trouble' = trouble \union Crossed(calls')
      /\ busy' = busy \union {kind} /\ moves' = moves + 1
      /\ UNCHANGED <<owner, password, made, databases, mock, vault, loading, modal, card, mount, faults>>
  BY DEF Ask, Sends, c, Agent, Client, View
<1>3. IsFiniteSet(calls') /\ calls' \subseteq Call /\ \A e \in calls' : WellSent(e)
  BY <1>1, <1>2, SentType
<1>4. trouble' \subseteq Troubles
  BY <1>2, CrossedType DEF Troubles
<1>5. loading' \in BOOLEAN
  BY <1>2
<1>6. moves' \in Nat /\ faults' \in Nat /\ made' \in Nat /\ mount' \in Nat
  BY <1>2
<1>7. /\ owner' \in [Dbs -> Roles \union {None}] /\ password' \in [Roles -> Nat]
      /\ vault' \in [Dbs -> Nat \union {None}] /\ card' \in Nat \union {None}
      /\ databases' \subseteq Dbs /\ mock' \subseteq Dbs /\ modal' \in Modal /\ busy' \subseteq Writes
      /\ Named(modal')
  BY <1>2
<1> QED BY <1>3, <1>4, <1>5, <1>6, <1>7 DEF Troubles

LEMMA UserType ==
  ASSUME DatabasesConstants, TypeInv, User
  PROVE  TypeInv'
<1> USE DEF Agent, Client, View
<1>1. CASE Refresh
  <2>1. /\ calls' = Load(calls, "none") /\ trouble' = trouble \union Crossed(calls')
        /\ moves' = moves + 1
        /\ UNCHANGED <<owner, password, made, databases, mock, vault, loading, modal, card, mount, busy, faults>>
    BY <1>1 DEF Refresh, Sends
  <2>2. IsFiniteSet(calls') /\ calls' \subseteq Call /\ \A c \in calls' : WellSent(c)
    BY <2>1, LoadType
  <2>3. trouble' \subseteq Troubles
    BY <2>1, CrossedType DEF Troubles
  <2> QED BY <2>1, <2>2, <2>3 DEF Troubles
<1>2. CASE CloseModal
  BY <1>2 DEF CloseModal, Closed, Modal, Modals, Named
<1>3. CASE ResetPassword \/ ConfirmDelete \/ \E d \in Dbs : Create(d) \/ Clone(d)
  BY <1>3, AskType DEF ResetPassword, ConfirmDelete, Create, Clone, Writes, Named
<1>4. ASSUME NEW d \in Dbs, OpenExistingConnection(d) PROVE TypeInv'
  <2>1. modal' \in Modal /\ Named(modal')
    BY <1>4 DEF OpenExistingConnection, ShowCard, Modal, Modals, Named
  <2>2. card' \in Nat \union {None} /\ mount' \in Nat /\ moves' \in Nat
    BY <1>4 DEF OpenExistingConnection, ShowCard
  <2>3. trouble' \subseteq Troubles /\ busy' \subseteq Writes
    BY <1>4 DEF OpenExistingConnection, Troubles
  <2>4. UNCHANGED <<owner, password, made, databases, mock, vault, loading, calls, faults>>
    BY <1>4 DEF OpenExistingConnection
  <2> QED BY <2>1, <2>2, <2>3, <2>4 DEF Troubles
<1>5. CASE \E k \in {"create", "clone", "delete"}, d \in Dbs \union {None} : OpenModal(k, d)
  <2>1. modal' \in Modal /\ Named(modal')
    BY <1>5 DEF OpenModal, Modal, Modals, Named
  <2> QED BY <1>5, <2>1 DEF OpenModal
<1> QED BY <1>1, <1>2, <1>3, <1>4, <1>5 DEF User

\* A password of user r for database d.
LEMMA NewPasswordType ==
  ASSUME TypeInv, NEW c \in calls, NEW r \in Roles, NEW d \in Dbs, NEW s \in {"done", "refused"},
         NewPassword(c, r, d, s), c.kind \in {"reset", "delete"} => d = c.db
  PROVE  /\ \E e \in Call : WellSent(e) /\ Becomes(c, e) /\ Like(c, e)
         /\ made' \in Nat /\ password' \in [Roles -> Nat] /\ trouble' \subseteq Troubles
<1>1. c \in Call /\ WellSent(c) /\ made + 1 \in Nat
  OBVIOUS
<1>2. \E e \in Call : WellSent(e) /\ Becomes(c, e) /\ Like(c, e)
  <2> DEFINE e == [c EXCEPT !.state = s, !.db = d, !.pw = made + 1]
  <2>1. e \in Call /\ WellSent(e) /\ Like(c, e)
    BY <1>1 DEF Call, WellSent, Like
  <2>2. Becomes(c, e)
    BY DEF NewPassword
  <2> HIDE DEF e
  <2> QED BY <2>1, <2>2
<1>3. made' \in Nat /\ password' \in [Roles -> Nat]
  BY <1>1 DEF NewPassword
<1>4. trouble' \subseteq Troubles
  BY DEF NewPassword, Troubles
<1> QED BY <1>2, <1>3, <1>4

\* What serving a request does to the agent.
LEMMA ServedType ==
  ASSUME DatabasesConstants, TypeInv, NEW c \in calls, Serve(c)
  PROVE  /\ \E e \in Call : WellSent(e) /\ Becomes(c, e) /\ Like(c, e)
         /\ owner' \in [Dbs -> Roles \union {None}] /\ password' \in [Roles -> Nat]
         /\ made' \in Nat /\ trouble' \subseteq Troubles
<1>1. c \in Call /\ WellSent(c) /\ trouble \subseteq Troubles
  BY DEF Troubles
<1>2. CASE Refuse(c)
  <2>1. \E e \in Call : WellSent(e) /\ Becomes(c, e) /\ Like(c, e)
    <3> DEFINE e == [c EXCEPT !.state = "refused"]
    <3>1. e \in Call /\ WellSent(e) /\ Like(c, e)
      BY <1>1 DEF Call, WellSent, Like
    <3>2. Becomes(c, e)
      BY <1>2 DEF Refuse
    <3> HIDE DEF e
    <3> QED BY <3>1, <3>2
  <2> QED BY <1>1, <1>2, <2>1 DEF Refuse, Agent
<1>3. CASE ServeCreate(c)
  <2>1. c.db \in Dbs /\ RoleOf[c.db] \in Roles
    BY <1>1, <1>3 DEF ServeCreate, WellSent, DatabasesConstants
  <2>2. \E s \in {"done", "refused"} : NewPassword(c, RoleOf[c.db], c.db, s)
    BY <1>3 DEF ServeCreate
  <2>3. owner' \in [Dbs -> Roles \union {None}]
    BY <1>3, <2>1 DEF ServeCreate
  <2> QED BY <1>3, <2>1, <2>2, <2>3, NewPasswordType
<1>4. CASE ServeClone(c)
  <2>1. CASE \E d \in Dbs : /\ NewPassword(c, CloneOf[d], d, "done")
                            /\ owner' = [owner EXCEPT ![d] = CloneOf[d]]
    <3>1. PICK d \in Dbs : /\ NewPassword(c, CloneOf[d], d, "done")
                           /\ owner' = [owner EXCEPT ![d] = CloneOf[d]]
      BY <2>1
    <3>2. CloneOf[d] \in Roles
      BY DEF DatabasesConstants
    <3>3. c.kind \notin {"reset", "delete"}
      BY <1>4 DEF ServeClone
    <3>4. owner' \in [Dbs -> Roles \union {None}]
      BY <3>1, <3>2
    <3> QED BY <3>1, <3>2, <3>3, <3>4, NewPasswordType
  <2>2. c.db \in Dbs
    BY <1>1, <1>4 DEF ServeClone, WellSent
  <2> QED BY <1>2, <1>4, <2>1, <2>2 DEF ServeClone
<1>5. CASE ServeReset(c)
  <2>1. CASE owner[c.db] = None
    BY <1>2, <1>5, <2>1 DEF ServeReset
  <2>2. CASE owner[c.db] # None
    <3>1. c.db \in Dbs /\ owner[c.db] \in Roles
      BY <1>1, <1>5, <2>2 DEF ServeReset, WellSent
    <3>2. NewPassword(c, owner[c.db], c.db, "done") /\ UNCHANGED owner
      BY <1>5, <2>2 DEF ServeReset
    <3> QED BY <3>1, <3>2, NewPasswordType
  <2> QED BY <2>1, <2>2
<1>6. CASE ServeDelete(c)
  <2>1. \E e \in Call : WellSent(e) /\ Becomes(c, e) /\ Like(c, e)
    <3> DEFINE e == [c EXCEPT !.state = "done"]
    <3>1. e \in Call /\ WellSent(e) /\ Like(c, e)
      BY <1>1 DEF Call, WellSent, Like
    <3>2. Becomes(c, e)
      BY <1>6 DEF ServeDelete
    <3> HIDE DEF e
    <3> QED BY <3>1, <3>2
  <2> QED BY <1>1, <1>6, <2>1 DEF ServeDelete
<1>7. CASE ServeList(c)
  <2>1. \E e \in Call : WellSent(e) /\ Becomes(c, e) /\ Like(c, e)
    <3> DEFINE e == [c EXCEPT !.state = "done", !.got = Existing]
    <3>1. e \in Call /\ WellSent(e) /\ Like(c, e)
      BY <1>1 DEF Call, WellSent, Like, Existing
    <3>2. Becomes(c, e)
      BY <1>7 DEF ServeList
    <3> HIDE DEF e
    <3> QED BY <3>1, <3>2
  <2> QED BY <1>1, <1>7, <2>1 DEF ServeList, Agent
<1> QED BY <1>3, <1>4, <1>5, <1>6, <1>7 DEF Serve

LEMMA LostType ==
  ASSUME TypeInv, NEW c \in calls, Lose(c)
  PROVE  /\ \E e \in Call : WellSent(e) /\ Becomes(c, e) /\ Like(c, e)
         /\ made' \in Nat
<1>1. c \in Call /\ WellSent(c) /\ made + 1 \in Nat
  OBVIOUS
<1> DEFINE l == [c EXCEPT !.state = "faked", !.got = mock]
           r == [c EXCEPT !.state = "refused"]
           f == [c EXCEPT !.state = "faked", !.pw = made + 1]
<1>2. /\ l \in Call /\ WellSent(l) /\ Like(c, l)
      /\ r \in Call /\ WellSent(r) /\ Like(c, r)
      /\ f \in Call /\ WellSent(f) /\ Like(c, f)
  BY <1>1 DEF Call, WellSent, Like
<1>3. Becomes(c, l) \/ Becomes(c, r) \/ Becomes(c, f)
  BY DEF Lose
<1>4. made' \in Nat
  BY DEF Lose
<1> HIDE DEF l, r, f
<1> QED BY <1>2, <1>3, <1>4

LEMMA NetworkType ==
  ASSUME DatabasesConstants, TypeInv, NEW c \in calls, Serve(c) \/ Lose(c)
  PROVE  TypeInv'
<1> USE DEF Client, View
<1>1. CASE Serve(c)
  <2>1. IsFiniteSet(calls') /\ calls' \subseteq Call /\ \A e \in calls' : WellSent(e)
    BY <1>1, ServedType, BecomesType
  <2>2. /\ owner' \in [Dbs -> Roles \union {None}] /\ password' \in [Roles -> Nat]
        /\ made' \in Nat /\ trouble' \subseteq Troubles
    BY <1>1, ServedType
  <2>3. UNCHANGED <<databases, mock, vault, loading, modal, card, mount, busy, moves, faults>>
    BY <1>1 DEF Serve
  <2> QED BY <2>1, <2>2, <2>3 DEF Troubles
<1>2. CASE Lose(c)
  <2>1. IsFiniteSet(calls') /\ calls' \subseteq Call /\ \A e \in calls' : WellSent(e)
    BY <1>2, LostType, BecomesType
  <2>2. made' \in Nat
    BY <1>2, LostType
  <2>3. /\ faults' = faults + 1 /\ trouble' = trouble \union {"lost"}
        /\ UNCHANGED <<owner, password, databases, mock, vault, loading, modal, card, mount, busy, moves>>
    BY <1>2 DEF Lose
  <2> QED BY <2>1, <2>2, <2>3
<1> QED BY <1>1, <1>2

LEMMA AnswerType ==
  ASSUME TypeInv, NEW c \in calls, Answer(c)
  PROVE  TypeInv'
<1> USE DEF Agent, Client, View
<1>1. IsFiniteSet(calls \ {c}) /\ calls \ {c} \subseteq Call /\ \A e \in calls \ {c} : WellSent(e)
  BY DroppedType
<1>2. c \in Call /\ WellSent(c) /\ c.pw \in Nat /\ c.db \in Dbs \union {None} /\ c.got \subseteq Dbs
  BY DEF Call
<1>3. trouble' \subseteq Troubles
  BY CrossedType DEF Answer, GotList, GotDatabase, GotReset, GotDelete, GotError, Sends, Troubles
<1>4. Keep(c) => vault' \in [Dbs -> Nat \union {None}]
  BY <1>2 DEF Keep
<1>5. /\ IsFiniteSet(Reread(c)) /\ Reread(c) \subseteq Call /\ \A e \in Reread(c) : WellSent(e)
  BY <1>1, LoadType DEF Reread
<1>6. CASE GotList(c)
  BY <1>1, <1>2, <1>3, <1>6 DEF GotList, Sends, Troubles
<1>7. CASE GotDatabase(c)
  <2>1. c.db \in Dbs
    BY <1>2, <1>7 DEF GotDatabase, WellSent
  <2>2. modal' \in Modal /\ Named(modal')
    BY <1>7, <2>1 DEF GotDatabase, ShowCard, Modal, Modals, Named
  <2>3. card' \in Nat \union {None} /\ mount' \in Nat
    BY <1>2, <1>7 DEF GotDatabase, ShowCard
  <2>4. calls' = Reread(c) /\ mock' \subseteq Dbs /\ busy' \subseteq Writes
    BY <1>7, <2>1 DEF GotDatabase, Sends
  <2>5. /\ vault' \in [Dbs -> Nat \union {None}]
        /\ UNCHANGED <<owner, password, made, databases, loading, moves, faults>>
    BY <1>4, <1>7 DEF GotDatabase
  <2> QED BY <1>3, <1>5, <2>2, <2>3, <2>4, <2>5 DEF Troubles
<1>8. CASE GotReset(c)
  <2>1. calls' = calls \ {c} /\ busy' \subseteq Writes /\ card' \in Nat \union {None}
    BY <1>2, <1>8 DEF GotReset, Sends
  <2>2. /\ vault' \in [Dbs -> Nat \union {None}]
        /\ UNCHANGED <<owner, password, made, databases, mock, loading, modal, mount, moves, faults>>
    BY <1>4, <1>8 DEF GotReset
  <2> QED BY <1>1, <1>3, <2>1, <2>2 DEF Troubles
<1>9. CASE GotDelete(c)
  <2>1. modal' \in Modal /\ Named(modal')
    BY <1>9 DEF GotDelete, Closed, Modal, Modals, Named
  <2>2. calls' = Reread(c) /\ mock' \subseteq Dbs
    BY <1>9 DEF GotDelete, Sends
  <2>3. UNCHANGED <<owner, password, made, databases, vault, loading, card, mount, busy, moves, faults>>
    BY <1>9 DEF GotDelete
  <2> QED BY <1>3, <1>5, <2>1, <2>2, <2>3 DEF Troubles
<1>10. CASE GotError(c)
  BY <1>1, <1>3, <1>10 DEF GotError, Sends, Freed, Troubles
<1> QED BY <1>6, <1>7, <1>8, <1>9, <1>10 DEF Answer

LEMMA InitType ==
  ASSUME DatabasesConstants, Init
  PROVE  TypeInv
<1>1. IsFiniteSet({})
  BY FS_EmptySet
<1>2. IsFiniteSet(calls) /\ calls \subseteq Call /\ \A c \in calls : WellSent(c)
  BY <1>1, LoadType DEF Init
<1>3. owner \in [Dbs -> Roles \union {None}] /\ vault \in [Dbs -> Nat \union {None}]
  BY DEF Init, DatabasesConstants
<1>4. modal \in Modal /\ Named(modal)
  BY DEF Init, Closed, Modal, Modals, Named
<1> QED BY <1>2, <1>3, <1>4 DEF Init, DatabasesConstants

LEMMA StepType ==
  ASSUME DatabasesConstants, TypeInv, [Next]_vars
  PROVE  TypeInv'
<1>1. CASE User
  BY <1>1, UserType
<1>2. CASE \E c \in calls : Serve(c) \/ Lose(c) \/ Answer(c)
  BY <1>2, NetworkType, AnswerType
<1>3. CASE UNCHANGED vars
  BY <1>3 DEF vars, Agent, Client, View
<1> QED BY <1>1, <1>2, <1>3 DEF Next

\* The databases, the page and its requests keep their types, whatever is lost or crosses.
THEOREM TypeCorrect ==
  ASSUME DatabasesConstants
  PROVE  Spec => []TypeOK
<1>1. Init => TypeInv
  BY InitType
<1>2. TypeInv /\ [Next]_vars => TypeInv'
  BY StepType
<1>3. TypeInv => TypeOK
  OBVIOUS
<1> QED BY <1>1, <1>2, <1>3, PTL DEF Spec

----------------------------------------------------------------------------
(* Buttons *)

LEMMA AskReleases ==
  ASSUME ModalsReleased, NEW kind, NEW d, Ask(kind, d)
  PROVE  ModalsReleased'
<1> DEFINE c == NewCall(calls, kind, "none", d)
<1>1. c.kind = kind /\ c.mount = mount
  BY DEF NewCall
<1> HIDE DEF c
<1>2. calls' = calls \union {c} /\ busy' = busy \union {kind} /\ UNCHANGED <<modal, mount>>
  BY DEF Ask, Sends, View, c
<1> QED BY <1>1, <1>2 DEF ModalsReleased

LEMMA UserReleases ==
  ASSUME ModalsReleased, User
  PROVE  ModalsReleased'
<1>1. CASE Refresh
  <2>1. calls \subseteq calls' /\ UNCHANGED <<modal, mount, busy>>
    BY <1>1 DEF Refresh, Sends, Load, View
  <2> QED BY <2>1 DEF ModalsReleased
<1>2. CASE CloseModal
  BY <1>2 DEF CloseModal, Closed, ModalsReleased
<1>3. CASE ResetPassword \/ ConfirmDelete \/ \E d \in Dbs : Create(d) \/ Clone(d)
  BY <1>3, AskReleases DEF ResetPassword, ConfirmDelete, Create, Clone
<1>4. CASE \E d \in Dbs : OpenExistingConnection(d)
  BY <1>4 DEF OpenExistingConnection, ModalsReleased
<1>5. CASE \E k \in {"create", "clone", "delete"}, d \in Dbs \union {None} : OpenModal(k, d)
  <2>1. modal'.kind # "card" /\ UNCHANGED <<calls, busy>>
    BY <1>5 DEF OpenModal
  <2> QED BY <2>1 DEF ModalsReleased
<1> QED BY <1>1, <1>2, <1>3, <1>4, <1>5 DEF User

\* A request that goes on keeps what the page knows it by.
LEMMA Goes ==
  ASSUME DatabasesConstants, TypeInv, NEW c \in calls, Serve(c) \/ Lose(c)
  PROVE  /\ \E d : calls' = (calls \ {c}) \union {d} /\ Like(c, d)
         /\ UNCHANGED <<databases, mock, vault, modal, card, mount, busy>>
<1>1. \E d : Becomes(c, d) /\ Like(c, d)
  BY ServedType, LostType
<1> QED BY <1>1 DEF Becomes, Serve, Lose, Client, View

LEMMA NetworkReleases ==
  ASSUME DatabasesConstants, TypeInv, ModalsReleased, NEW c \in calls, Serve(c) \/ Lose(c)
  PROVE  ModalsReleased'
<1>1. PICK d : calls' = (calls \ {c}) \union {d} /\ Like(c, d)
  BY Goes
<1>2. UNCHANGED <<modal, mount, busy>>
  BY Goes
<1> QED BY <1>1, <1>2 DEF ModalsReleased, Like

LEMMA AnswerReleases ==
  ASSUME TypeInv, ModalsReleased, NEW c \in calls, Answer(c)
  PROVE  ModalsReleased'
<1> USE DEF View
<1>1. WellSent(c) /\ c.kind \in Writes \union {"list"} /\ c.cause \in {"none", "delete"}
  BY DEF Call
<1>2. CASE GotList(c)
  BY <1>1, <1>2 DEF GotList, Sends, ModalsReleased, Writes
<1>3. CASE GotDatabase(c)
  <2>1. calls \ {c} \subseteq calls' /\ busy' = busy \ {c.kind, "reset"} /\ c.cause = "none"
    BY <1>1, <1>3 DEF GotDatabase, Sends, Reread, Load, WellSent
  <2> QED BY <2>1 DEF ModalsReleased, Writes
<1>4. CASE GotReset(c)
  <2>1. calls' = calls \ {c} /\ c.kind = "reset" /\ c.cause = "none" /\ UNCHANGED <<modal, mount>>
    BY <1>1, <1>4 DEF GotReset, Sends, WellSent
  <2>2. \A k \in busy' \ {"reset"} : \E d \in calls' : d.kind = k \/ d.cause = k
    BY <1>4, <2>1 DEF GotReset, ModalsReleased, Writes
  <2>3. ("reset" \in busy' /\ modal.kind = "card") => c.mount # mount
    BY <1>4 DEF GotReset, SameCard
  <2>4. busy' \subseteq busy
    BY <1>4 DEF GotReset
  <2> QED BY <2>1, <2>2, <2>3, <2>4 DEF ModalsReleased
<1>5. CASE GotDelete(c)
  <2> DEFINE d == NewCall(calls \ {c}, "list", "delete", None)
  <2>1. d.cause = "delete"
    BY DEF NewCall
  <2> HIDE DEF d
  <2>2. calls' = (calls \ {c}) \union {d} /\ modal' = Closed /\ c.kind = "delete" /\ c.cause = "none" /\ UNCHANGED busy
    BY <1>1, <1>5 DEF GotDelete, Sends, Reread, Load, WellSent, d
  <2> QED BY <2>1, <2>2 DEF ModalsReleased, Closed, Writes
<1>6. CASE GotError(c)
  <2>1. calls' = calls \ {c} /\ c.cause = "none" /\ busy' = Freed(c) /\ UNCHANGED <<modal, mount>>
    BY <1>1, <1>6 DEF GotError, Sends, WellSent
  <2>2. \A k \in busy' \ {"reset"} : \E d \in calls' : d.kind = k \/ d.cause = k
    BY <2>1 DEF Freed, ModalsReleased, Writes
  <2>3. ("reset" \in busy' /\ modal.kind = "card" /\ c.kind = "reset") => c.mount # mount
    BY <2>1 DEF Freed, SameCard
  <2>4. busy' \subseteq busy
    BY <2>1 DEF Freed
  <2> QED BY <2>1, <2>2, <2>3, <2>4 DEF ModalsReleased
<1> QED BY <1>2, <1>3, <1>4, <1>5, <1>6 DEF Answer

LEMMA StepReleases ==
  ASSUME DatabasesConstants, TypeInv, ModalsReleased, [Next]_vars
  PROVE  ModalsReleased'
<1>1. CASE User
  BY <1>1, UserReleases
<1>2. CASE \E c \in calls : Serve(c) \/ Lose(c) \/ Answer(c)
  BY <1>2, NetworkReleases, AnswerReleases
<1>3. CASE UNCHANGED vars
  BY <1>3 DEF vars, View, ModalsReleased
<1> QED BY <1>1, <1>2, <1>3 DEF Next

\* A modal whose button waits has a request under way that releases it, for any number
\* of databases, requests and lost answers.
THEOREM ButtonsCorrect ==
  ASSUME DatabasesConstants
  PROVE  Spec => []ModalsReleased
<1>1. Init => TypeInv /\ ModalsReleased
  <2>1. Init => ModalsReleased
    BY DEF Init, ModalsReleased
  <2> QED BY <2>1, InitType
<1>2. TypeInv /\ ModalsReleased /\ [Next]_vars => TypeInv' /\ ModalsReleased'
  BY StepType, StepReleases
<1> QED BY <1>1, <1>2, PTL DEF Spec

----------------------------------------------------------------------------
(* The dialogs *)

\* The dialog a request belongs to; a deletion and the list awaited after it are one.
Dialogs == {"create", "clone", "delete"}
Tag(c)  == IF c.cause = "delete" THEN "delete" ELSE c.kind

\* A dialog whose request is under way is open and waits for it alone.
Waiting(cs, waits) ==
  /\ \A c \in cs : Tag(c) \in Dialogs => Tag(c) \in waits
  /\ \A c, d \in cs : Tag(c) \in Dialogs /\ Tag(c) = Tag(d) => c = d

Faces(c, m) == c.kind \in Dialogs => /\ m.kind = c.kind
                                     /\ c.kind = "delete" => m.db = c.db

Faced == Waiting(calls, busy) /\ \A c \in calls : Faces(c, modal)

LEMMA AskHolds ==
  ASSUME Faced, NEW kind \in Writes, NEW d, Ask(kind, d),
         kind \in Dialogs => modal.kind = kind, kind = "delete" => modal.db = d
  PROVE  Faced'
<1> DEFINE c == NewCall(calls, kind, "none", d)
<1>1. c.kind = kind /\ Tag(c) = kind /\ c.db = d
  BY DEF NewCall, Tag
<1> HIDE DEF c
<1>2. /\ calls' = calls \union {c} /\ kind \notin busy /\ busy' = busy \union {kind}
      /\ UNCHANGED modal
  BY DEF Ask, Sends, View, c
<1>3. Waiting(calls, busy)'
  BY <1>1, <1>2 DEF Faced, Waiting
<1> QED BY <1>1, <1>2, <1>3 DEF Faced, Faces

\* A list nobody awaits belongs to no dialog.
LEMMA ListHolds ==
  ASSUME NEW cs, NEW waits, NEW m, Waiting(cs, waits), \A c \in cs : Faces(c, m)
  PROVE  Waiting(Load(cs, "none"), waits) /\ \A c \in Load(cs, "none") : Faces(c, m)
<1> DEFINE d == NewCall(cs, "list", "none", None)
<1>1. d.kind = "list" /\ Tag(d) = "list"
  BY DEF NewCall, Tag
<1> HIDE DEF d
<1>2. Load(cs, "none") = cs \union {d}
  BY DEF Load, d
<1> QED BY <1>1, <1>2 DEF Waiting, Faces, Dialogs

LEMMA UserHolds ==
  ASSUME TypeInv, Faced, User
  PROVE  Faced'
<1> USE DEF View
<1>1. CASE Refresh
  <2>1. calls' = Load(calls, "none") /\ UNCHANGED <<busy, modal>>
    BY <1>1 DEF Refresh, Sends
  <2> QED BY <2>1, ListHolds DEF Faced
<1>2. CASE CloseModal
  <2>1. \A c \in calls : c.kind \notin Dialogs
    BY <1>2 DEF CloseModal, Held, Faced, Waiting, Faces, Tag, Dialogs, WellSent
  <2> QED BY <1>2, <2>1 DEF CloseModal, Faced, Waiting, Faces
<1>3. CASE ResetPassword \/ ConfirmDelete \/ \E d \in Dbs : Create(d) \/ Clone(d)
  BY <1>3, AskHolds DEF ResetPassword, ConfirmDelete, Create, Clone, Writes, Dialogs
<1>4. CASE \E d \in Dbs : OpenExistingConnection(d)
  <2>1. /\ \A c \in calls : c.kind \notin Dialogs
        /\ busy' = busy \ {"reset"} /\ UNCHANGED calls
    BY <1>4 DEF OpenExistingConnection, Free, Closed, Faced, Faces, Dialogs
  <2>2. Waiting(calls, busy)'
    BY <2>1 DEF Faced, Waiting, Dialogs
  <2> QED BY <2>1, <2>2 DEF Faced, Faces
<1>5. CASE \E k \in {"create", "clone", "delete"}, d \in Dbs \union {None} : OpenModal(k, d)
  <2>1. /\ \A c \in calls : c.kind \notin Dialogs
        /\ UNCHANGED <<calls, busy>>
    BY <1>5 DEF OpenModal, Free, Closed, Faced, Faces, Dialogs
  <2> QED BY <2>1 DEF Faced, Waiting, Faces
<1> QED BY <1>1, <1>2, <1>3, <1>4, <1>5 DEF User

LEMMA NetworkHolds ==
  ASSUME DatabasesConstants, TypeInv, Faced, NEW c \in calls, Serve(c) \/ Lose(c)
  PROVE  Faced'
<1>1. PICK d : calls' = (calls \ {c}) \union {d} /\ Like(c, d)
  BY Goes
<1>2. UNCHANGED <<modal, busy>>
  BY Goes
<1>3. Tag(d) = Tag(c)
  BY <1>1 DEF Tag, Like
<1>4. Waiting(calls, busy)'
  BY <1>1, <1>2, <1>3 DEF Faced, Waiting
<1> QED BY <1>1, <1>2, <1>4 DEF Faced, Faces, Like

LEMMA AnswerHolds ==
  ASSUME TypeInv, Faced, NEW c \in calls, Answer(c)
  PROVE  Faced'
<1> USE DEF View
<1>1. WellSent(c) /\ c.kind \in Writes \union {"list"} /\ c.cause \in {"none", "delete"}
  BY DEF Call
<1>2. \A e \in calls \ {c} : Faces(e, modal)
  BY DEF Faced
<1>3. CASE GotList(c)
  <2>1. calls' = calls \ {c} /\ busy' = busy \ {c.cause} /\ c.kind = "list" /\ UNCHANGED modal
    BY <1>3 DEF GotList, Sends
  <2>2. Waiting(calls, busy)'
    BY <1>1, <2>1 DEF Faced, Waiting, Tag, Dialogs
  <2> QED BY <1>2, <2>1, <2>2 DEF Faced, Faces
<1>4. CASE GotDatabase(c)
  <2>1. /\ c.kind \in {"create", "clone"} /\ c.cause = "none" /\ busy' = busy \ {c.kind, "reset"}
        /\ calls' = Load(calls \ {c}, "none")
    BY <1>1, <1>4 DEF GotDatabase, Sends, Reread, WellSent
  <2>2. \A e \in calls \ {c} : e.kind \notin Dialogs
    BY <2>1 DEF Faced, Waiting, Faces, Tag, Dialogs, WellSent
  <2>3. Waiting(calls \ {c}, busy')
    BY <2>1 DEF Faced, Waiting, Tag, Dialogs
  <2>4. \A e \in calls \ {c} : Faces(e, modal')
    BY <2>2 DEF Faces
  <2> QED BY <2>1, <2>3, <2>4, ListHolds DEF Faced
<1>5. CASE GotReset(c)
  <2>1. calls' = calls \ {c} /\ (busy' = busy \/ busy' = busy \ {"reset"}) /\ UNCHANGED modal
    BY <1>5 DEF GotReset, Sends
  <2>2. Waiting(calls, busy)'
    BY <2>1 DEF Faced, Waiting, Dialogs
  <2> QED BY <1>2, <2>1, <2>2 DEF Faced, Faces
<1>6. CASE GotDelete(c)
  <2> DEFINE d == NewCall(calls \ {c}, "list", "delete", None)
  <2>1. d.kind = "list" /\ Tag(d) = "delete"
    BY DEF NewCall, Tag
  <2> HIDE DEF d
  <2>2. /\ c.kind = "delete" /\ Tag(c) = "delete" /\ UNCHANGED busy
        /\ calls' = (calls \ {c}) \union {d}
    BY <1>1, <1>6 DEF GotDelete, Sends, Reread, Load, d, Tag, WellSent
  <2>3. Waiting(calls, busy)'
    BY <2>1, <2>2 DEF Faced, Waiting, Dialogs
  <2>4. \A e \in calls \ {c} : e.kind \notin Dialogs
    BY <2>2 DEF Faced, Waiting, Faces, Tag, Dialogs, WellSent
  <2> QED BY <2>1, <2>2, <2>3, <2>4 DEF Faced, Faces, Dialogs
<1>7. CASE GotError(c)
  <2>1. /\ calls' = calls \ {c} /\ (busy' = busy \/ busy' = busy \ {c.kind}) /\ Tag(c) = c.kind
        /\ UNCHANGED modal
    BY <1>1, <1>7 DEF GotError, Sends, Freed, Tag, WellSent
  <2>2. Waiting(calls, busy)'
    BY <2>1 DEF Faced, Waiting
  <2> QED BY <1>2, <2>1, <2>2 DEF Faced, Faces
<1> QED BY <1>3, <1>4, <1>5, <1>6, <1>7 DEF Answer

LEMMA StepHolds ==
  ASSUME DatabasesConstants, TypeInv, Faced, [Next]_vars
  PROVE  Faced'
<1>1. CASE User
  BY <1>1, UserHolds
<1>2. CASE \E c \in calls : Serve(c) \/ Lose(c) \/ Answer(c)
  BY <1>2, NetworkHolds, AnswerHolds
<1>3. CASE UNCHANGED vars
  BY <1>3 DEF vars, View, Faced, Waiting, Faces
<1> QED BY <1>1, <1>2, <1>3 DEF Next

LEMMA InitHolds ==
  ASSUME Init
  PROVE  Faced
<1>1. Waiting({}, busy) /\ \A c \in {} : Faces(c, modal)
  BY DEF Waiting
<1> QED BY <1>1, ListHolds DEF Init, Faced

\* A deletion under way is the only one, and its dialog is open on the database it drops,
\* for any number of databases and requests.
THEOREM DropCorrect ==
  ASSUME DatabasesConstants
  PROVE  Spec => []DropsWhatIsNamed
<1>1. Init => TypeInv /\ Faced
  BY InitType, InitHolds
<1>2. TypeInv /\ Faced /\ [Next]_vars => TypeInv' /\ Faced'
  BY StepType, StepHolds
<1>3. TypeInv /\ Faced => DropsWhatIsNamed
  <2> SUFFICES ASSUME TypeInv, Faced, NEW c \in calls, c.kind = "delete"
               PROVE  /\ modal = [kind |-> "delete", db |-> c.db]
                      /\ \A d \in calls : d.kind = "delete" => d = c
    BY DEF DropsWhatIsNamed
  <2>1. modal.kind = "delete" /\ modal.db = c.db
    BY DEF Faced, Faces, Dialogs
  <2>2. modal = [kind |-> "delete", db |-> c.db]
    BY <2>1 DEF Modal
  <2>3. \A d \in calls : d.kind = "delete" => Tag(d) = "delete"
    BY DEF Tag
  <2> QED BY <2>2, <2>3 DEF Faced, Waiting, Dialogs
<1> QED BY <1>1, <1>2, <1>3, PTL DEF Spec

----------------------------------------------------------------------------
(* Lists and passwords while nothing goes out of the ordinary *)

Lone(cs) == \A c, d \in cs : c.kind \in Writes => c = d

\* The answers that changed the databases or a password, before the page reads them.
Changed(c) == c.kind \in Dialogs /\ c.state = "done"
Told(c)    == c.kind \in {"create", "clone", "reset"} /\ c.state = "done"

Lists ==
  /\ \A c \in calls : c.kind = "list" /\ c.state # "sent" => c.got = Existing
  /\ (\A c \in calls : c.kind # "list" /\ ~Changed(c)) => databases = Existing

Opens(d) == vault[d] = password[owner[d]]

Passwords ==
  /\ \A d \in Existing : vault[d] # None /\ (\A c \in calls : Told(c) => c.db # d) => Opens(d)
  /\ \A c \in calls : Told(c) => c.db \in Existing /\ c.pw = password[owner[c.db]]

Card == modal.kind = "card" =>
          /\ card = vault[modal.db]
          /\ \A c \in calls : c.kind = "reset" => c.mount = mount /\ c.db = modal.db

Order   == Lone(calls) /\ (\A c \in calls : c.state # "faked") /\ Lists /\ Passwords /\ Card
Orderly == trouble = {} => Order

LEMMA CrossedLone ==
  ASSUME NEW cs, Crossed(cs) = {}
  PROVE  Lone(cs)
BY DEF Crossed, Lone

\* What the page and the user do leaves the agent as it is.
LEMMA SendOrder ==
  ASSUME Orderly, NEW c, c.state = "sent", Sends(calls \union {c}, {}), trouble' = {},
         UNCHANGED <<owner, password, databases, vault, modal, card, mount>>,
         c.kind = "reset" /\ modal.kind = "card" => c.mount = mount /\ c.db = modal.db
  PROVE  Order'
<1>1. calls' = calls \union {c} /\ trouble = {} /\ Crossed(calls') = {}
  BY DEF Sends
<1>2. Order
  BY <1>1 DEF Orderly
<1>3. Lone(calls')
  BY <1>1, CrossedLone
<1>4. Lists'
  <2>1. Existing' = Existing
    BY DEF Existing
  <2> QED BY <1>1, <1>2, <2>1 DEF Order, Lists, Changed
<1>5. Passwords'
  <2>1. Existing' = Existing /\ \A d : UNCHANGED Opens(d)
    BY DEF Existing, Opens
  <2>2. ~Told(c)
    BY DEF Told
  <2> QED BY <1>1, <1>2, <2>1, <2>2 DEF Order, Passwords
<1>6. Card'
  BY <1>1, <1>2 DEF Order, Card
<1> QED BY <1>1, <1>2, <1>3, <1>4, <1>5, <1>6 DEF Order

LEMMA AskOrder ==
  ASSUME Orderly, NEW kind, NEW d, Ask(kind, d), trouble' = {},
         kind = "reset" => modal.db = d
  PROVE  Order'
<1> DEFINE c == NewCall(calls, kind, "none", d)
<1>1. c.state = "sent" /\ c.kind = kind /\ c.mount = mount /\ c.db = d
  BY DEF NewCall
<1>2. /\ Sends(calls \union {c}, {})
      /\ UNCHANGED <<owner, password, databases, vault, modal, card, mount>>
  BY DEF Ask, Agent, Client, View
<1> HIDE DEF c
<1> QED BY <1>1, <1>2, SendOrder

\* A modal that is opened or closed.
LEMMA ViewOrder ==
  ASSUME Orderly, trouble' = {}, trouble = {},
         UNCHANGED <<owner, password, databases, vault, calls>>,
         modal'.kind = "card" => /\ card' = vault[modal'.db]
                                 /\ \A c \in calls : c.kind # "reset"
  PROVE  Order'
<1>1. Order
  BY DEF Orderly
<1>2. Existing' = Existing /\ \A d : UNCHANGED Opens(d)
  BY DEF Existing, Opens
<1>3. Lists' /\ Passwords'
  BY <1>1, <1>2 DEF Order, Lists, Passwords
<1>4. Card'
  BY DEF Card
<1> QED BY <1>1, <1>3, <1>4 DEF Order, Lone

LEMMA UserOrder ==
  ASSUME TypeInv, Orderly, User, trouble' = {}
  PROVE  Order'
<1> USE DEF Agent, Client, View
<1>1. CASE Refresh
  <2> DEFINE c == NewCall(calls, "list", "none", None)
  <2>1. c.state = "sent" /\ c.kind = "list"
    BY DEF NewCall
  <2>2. /\ Sends(calls \union {c}, {})
        /\ UNCHANGED <<owner, password, databases, vault, modal, card, mount>>
    BY <1>1 DEF Refresh, Load
  <2> HIDE DEF c
  <2> QED BY <2>1, <2>2, SendOrder
<1>2. CASE CloseModal
  BY <1>2, ViewOrder DEF CloseModal, Closed
<1>3. CASE ResetPassword \/ ConfirmDelete \/ \E d \in Dbs : Create(d) \/ Clone(d)
  BY <1>3, AskOrder DEF ResetPassword, ConfirmDelete, Create, Clone
<1>4. ASSUME NEW d \in Dbs, OpenExistingConnection(d) PROVE Order'
  <2>1. /\ modal'.kind = "card" /\ modal'.db = d /\ card' = vault[d]
        /\ UNCHANGED <<owner, password, databases, vault, calls>>
    BY <1>4 DEF OpenExistingConnection, ShowCard
  <2>2. trouble = {} /\ \A c \in calls : c.kind # "reset"
    BY <1>4 DEF OpenExistingConnection
  <2> QED BY <2>1, <2>2, ViewOrder
<1>5. CASE \E k \in {"create", "clone", "delete"}, d \in Dbs \union {None} : OpenModal(k, d)
  <2>1. modal'.kind # "card" /\ UNCHANGED <<owner, password, databases, vault, calls, trouble>>
    BY <1>5 DEF OpenModal
  <2> QED BY <2>1, ViewOrder
<1> QED BY <1>1, <1>2, <1>3, <1>4, <1>5 DEF User

\* A fresh password of user r for database d: no other database's password is lost.
LEMMA PasswordOrder ==
  ASSUME DatabasesConstants, TypeInv, Order, NEW c \in calls, c.kind \in {"create", "clone", "reset"},
         c.state = "sent", NEW r \in Roles, NEW d \in Dbs, NEW s \in {"done", "refused"},
         NewPassword(c, r, d, s), trouble' = {},
         IF s = "done" THEN owner' = [owner EXCEPT ![d] = r] ELSE owner' = owner /\ c.kind = "create",
         c.kind = "reset" => d = c.db /\ owner[d] = r,
         UNCHANGED <<databases, vault, modal, card, mount>>
  PROVE  Order'
<1> DEFINE e == [c EXCEPT !.state = s, !.db = d, !.pw = made + 1]
<1>1. e.kind = c.kind /\ e.state = s /\ e.db = d /\ e.pw = made + 1 /\ e.mount = c.mount
  BY DEF Call
<1>2. calls' = (calls \ {c}) \union {e}
  BY DEF NewPassword, Becomes
<1> HIDE DEF e
<1>3. calls' = {e}
  BY <1>2 DEF Order, Lone, Writes
<1>4. /\ ~Shares(r, d)
      /\ s = "refused" => vault[d] = None \/ owner[d] # r
  BY DEF NewPassword
<1>5. /\ password'[r] = made + 1
      /\ \A q \in Roles \ {r} : password'[q] = password[q]
  BY DEF NewPassword
<1>6. /\ \A x \in Existing : x \in Dbs /\ owner[x] \in Roles
      /\ \A x \in Existing' : x \in Dbs
  BY DEF Existing
<1>7. s = "done" => d \in Existing' /\ owner'[d] = r
  BY DEF Existing, DatabasesConstants
<1>8. \A x \in Existing' \ {d} : x \in Existing /\ owner'[x] = owner[x]
  BY DEF Existing
<1>9. \A x \in Existing' : vault[x] # None /\ (s = "done" => x # d) => Opens(x)'
  <2> SUFFICES ASSUME NEW x \in Existing', vault[x] # None, s = "done" => x # d
               PROVE  vault[x] = password'[owner'[x]]
    BY DEF Opens
  <2>1. x \in Existing /\ owner'[x] = owner[x]
    BY <1>8 DEF Existing
  <2>2. owner[x] # r
    BY <1>4, <2>1 DEF Shares
  <2>3. vault[x] = password[owner[x]]
    BY <2>1, CrossedLone DEF Order, Passwords, Told, Opens, Lone, Writes
  <2> QED BY <1>5, <1>6, <2>1, <2>2, <2>3
<1>10. Passwords'
  <2>1. Told(e) <=> s = "done"
    BY <1>1 DEF Told
  <2> QED BY <1>1, <1>3, <1>5, <1>7, <1>9, <2>1 DEF Passwords
<1>11. Lists'
  <2>1. Changed(e) \/ Existing' = Existing
    <3>1. CASE c.kind = "reset"
      <4>1. owner' = owner
        BY <3>1
      <4> QED BY <4>1 DEF Existing
    <3>2. CASE s = "refused"
      BY <3>2 DEF Existing
    <3>3. CASE c.kind # "reset" /\ s = "done"
      BY <1>1, <3>3 DEF Changed, Dialogs
    <3> QED BY <3>1, <3>2, <3>3
  <2>2. databases = Existing
    BY DEF Order, Lists, Changed, Lone, Writes
  <2> QED BY <1>1, <1>3, <2>1, <2>2 DEF Lists
<1>12. Card'
  BY <1>1, <1>3 DEF Card, Order
<1> QED BY <1>1, <1>3, <1>10, <1>11, <1>12 DEF Order, Lone

\* Requests the agent serves without a password.
LEMMA SilentOrder ==
  ASSUME TypeInv, Order, NEW c \in calls, c.state = "sent", NEW d, Becomes(c, d), Like(c, d),
         d.state \in {"done", "refused"}, ~Told(d), d.kind = "list" => d.got = Existing,
         \/ owner' = owner /\ ~Changed(d)
         \/ d.kind = "delete" /\ d.state = "done" /\ owner' = [owner EXCEPT ![c.db] = None],
         UNCHANGED <<password, databases, vault, modal, card, mount>>
  PROVE  Order'
<1>1. calls' = (calls \ {c}) \union {d} /\ d.kind = c.kind /\ d.mount = c.mount
  BY DEF Becomes, Like
<1>2. c.kind = "reset" => d.db = c.db
  BY DEF Like
<1>3. Lone(calls')
  BY <1>1 DEF Order, Lone
<1>4. \A x \in Existing' : x \in Existing /\ owner'[x] = owner[x]
  BY DEF Existing
<1>5. ~Told(c)
  BY DEF Told
<1>6. Lists'
  <2>1. CASE owner' = owner /\ ~Changed(d)
    <3>1. Existing' = Existing
      BY <2>1 DEF Existing
    <3>2. ~Changed(c)
      BY DEF Changed
    <3> QED BY <1>1, <2>1, <3>1, <3>2 DEF Order, Lists
  <2>2. CASE d.kind = "delete" /\ d.state = "done"
    <3>1. calls' = {d}
      BY <1>1, <2>2 DEF Order, Lone, Writes
    <3> QED BY <2>2, <3>1 DEF Lists, Changed, Dialogs
  <2> QED BY <2>1, <2>2
<1>7. Passwords'
  <2>1. \A x \in Existing' : vault[x] # None /\ (\A e \in calls' : Told(e) => e.db # x) => Opens(x)'
    BY <1>1, <1>4, <1>5 DEF Order, Passwords, Opens
  <2>2. \A e \in calls' : Told(e) => e.db \in Existing' /\ e.pw = password'[owner'[e.db]]
    <3>1. CASE owner' = owner
      BY <1>1, <3>1 DEF Order, Passwords, Existing
    <3>2. CASE d.kind = "delete"
      BY <1>1, <3>2 DEF Order, Lone, Writes
    <3> QED BY <3>1, <3>2
  <2> QED BY <2>1, <2>2 DEF Passwords
<1>8. Card'
  BY <1>1, <1>2 DEF Order, Card
<1> QED BY <1>1, <1>3, <1>6, <1>7, <1>8 DEF Order

LEMMA ServeOrder ==
  ASSUME DatabasesConstants, TypeInv, Orderly, NEW c \in calls, Serve(c), trouble' = {}
  PROVE  Order'
<1>1. /\ c \in Call /\ WellSent(c) /\ c.state = "sent"
      /\ UNCHANGED <<databases, vault, modal, card, mount>>
  BY DEF Serve, Client, View
<1>2. trouble = {}
  BY DEF Serve, ServeCreate, ServeClone, ServeReset, ServeDelete, ServeList, NewPassword, Refuse
<1>3. Order
  BY <1>2 DEF Orderly
<1>4. CASE Refuse(c) /\ c.kind # "list"
  <2> DEFINE d == [c EXCEPT !.state = "refused"]
  <2>1. Like(c, d) /\ d.state = "refused"
    BY <1>1 DEF Call, Like
  <2>2. Becomes(c, d) /\ UNCHANGED <<owner, password>>
    BY <1>4 DEF Refuse, Agent
  <2> HIDE DEF d
  <2> QED BY <1>1, <1>3, <1>4, <2>1, <2>2, SilentOrder DEF Told, Changed, Like
<1>5. CASE ServeCreate(c)
  <2>1. c.db \in Dbs /\ RoleOf[c.db] \in Roles /\ c.kind = "create"
    BY <1>1, <1>5 DEF ServeCreate, WellSent, DatabasesConstants
  <2>2. CASE owner[c.db] # None
    <3>1. NewPassword(c, RoleOf[c.db], c.db, "refused") /\ owner' = owner
      BY <1>5, <2>2 DEF ServeCreate
    <3> QED BY <1>1, <1>3, <2>1, <3>1, PasswordOrder
  <2>3. CASE owner[c.db] = None
    <3>1. NewPassword(c, RoleOf[c.db], c.db, "done") /\ owner' = [owner EXCEPT ![c.db] = RoleOf[c.db]]
      BY <1>5, <2>3 DEF ServeCreate
    <3> QED BY <1>1, <1>3, <2>1, <3>1, PasswordOrder
  <2> QED BY <2>2, <2>3
<1>6. CASE ServeClone(c) /\ ~Refuse(c)
  <2>1. c.db \in Dbs /\ c.kind = "clone"
    BY <1>1, <1>6 DEF ServeClone, WellSent
  <2>2. PICK d \in Dbs : /\ NewPassword(c, CloneOf[d], d, "done")
                         /\ owner' = [owner EXCEPT ![d] = CloneOf[d]]
    BY <1>6, <2>1 DEF ServeClone
  <2>3. CloneOf[d] \in Roles
    BY DEF DatabasesConstants
  <2> QED BY <1>1, <1>3, <2>1, <2>2, <2>3, PasswordOrder
<1>7. CASE ServeReset(c) /\ ~Refuse(c)
  <2>1. c.db \in Dbs /\ c.kind = "reset" /\ owner[c.db] \in Roles
    BY <1>1, <1>7 DEF ServeReset, WellSent
  <2>2. NewPassword(c, owner[c.db], c.db, "done") /\ owner' = owner
    BY <1>7 DEF ServeReset
  <2>3. owner' = [owner EXCEPT ![c.db] = owner[c.db]]
    BY <2>1, <2>2
  <2> QED BY <1>1, <1>3, <2>1, <2>2, <2>3, PasswordOrder
<1>8. CASE ServeDelete(c)
  <2> DEFINE d == [c EXCEPT !.state = "done"]
  <2>1. Like(c, d) /\ d.state = "done" /\ d.kind = "delete"
    BY <1>1, <1>8 DEF Call, Like, ServeDelete
  <2>2. Becomes(c, d) /\ owner' = [owner EXCEPT ![c.db] = None] /\ UNCHANGED password
    BY <1>8 DEF ServeDelete
  <2> HIDE DEF d
  <2>3. ~Told(d)
    BY <2>1 DEF Told
  <2> QED BY <1>1, <1>3, <2>1, <2>2, <2>3, SilentOrder
<1>9. CASE ServeList(c)
  <2> DEFINE d == [c EXCEPT !.state = "done", !.got = Existing]
  <2>1. Like(c, d) /\ d.state = "done" /\ d.kind = "list" /\ d.got = Existing
    BY <1>1, <1>9 DEF Call, Like, ServeList
  <2>2. Becomes(c, d) /\ UNCHANGED <<owner, password>>
    BY <1>9 DEF ServeList, Agent
  <2> HIDE DEF d
  <2>3. ~Told(d) /\ ~Changed(d)
    BY <2>1 DEF Told, Changed, Dialogs
  <2> QED BY <1>1, <1>3, <2>1, <2>2, <2>3, SilentOrder
<1> QED BY <1>4, <1>5, <1>6, <1>7, <1>8, <1>9 DEF Serve, ServeClone, ServeReset

\* A request whose answer changed nothing the page keeps.
LEMMA DropOrder ==
  ASSUME Order, NEW c \in calls, ~Told(c), ~Changed(c), c.kind # "list",
         Lone(calls \ {c}), calls' = calls \ {c},
         UNCHANGED <<owner, password, databases, vault, modal, card, mount>>
  PROVE  Order'
<1>1. Existing' = Existing /\ \A d : UNCHANGED Opens(d)
  BY DEF Existing, Opens
<1>2. Lists'
  BY <1>1 DEF Order, Lists
<1>3. Passwords'
  BY <1>1 DEF Order, Passwords
<1>4. Card'
  BY DEF Order, Card
<1> QED BY <1>2, <1>3, <1>4 DEF Order, Lone

LEMMA AnswerOrder ==
  ASSUME DatabasesConstants, TypeInv, Orderly, NEW c \in calls, Answer(c), trouble' = {}
  PROVE  Order'
<1> USE DEF Agent, Client, View
<1>1. trouble = {} /\ Crossed(calls') = {}
  BY DEF Answer, GotList, GotDatabase, GotReset, GotDelete, GotError, Sends
<1>2. Order /\ Lone(calls') /\ WellSent(c)
  BY <1>1, CrossedLone DEF Orderly
<1>3. /\ c.state # "faked" /\ UNCHANGED <<owner, password>>
      /\ Existing' = Existing
  BY <1>2 DEF Order, Answer, GotList, GotDatabase, GotReset, GotDelete, GotError, Existing
<1>4. CASE GotList(c)
  <2>1. /\ calls' = calls \ {c} /\ databases' = Existing /\ c.kind = "list"
        /\ UNCHANGED <<vault, modal, card, mount>>
    BY <1>2, <1>3, <1>4 DEF GotList, Sends, Order, Lists, Call
  <2>2. ~Told(c) /\ \A d : UNCHANGED Opens(d)
    BY <1>3, <2>1 DEF Told, Opens
  <2>3. Lists'
    BY <1>2, <1>3, <2>1 DEF Order, Lists
  <2>4. Passwords'
    BY <1>2, <1>3, <2>1, <2>2 DEF Order, Passwords
  <2>5. Card'
    BY <1>2, <2>1 DEF Order, Card
  <2> QED BY <1>2, <2>1, <2>3, <2>4, <2>5 DEF Order
<1>5. CASE GotDatabase(c)
  <2> DEFINE d == NewCall(calls \ {c}, "list", "none", None)
  <2>1. d.kind = "list" /\ d.state = "sent"
    BY DEF NewCall
  <2> HIDE DEF d
  <2>2. /\ c.kind \in {"create", "clone"} /\ c.state = "done" /\ c.db \in Dbs
        /\ vault' = [vault EXCEPT ![c.db] = c.pw]
        /\ modal'.kind = "card" /\ modal'.db = c.db /\ card' = c.pw
        /\ UNCHANGED databases
    BY <1>2, <1>3, <1>5 DEF GotDatabase, Keep, Saved, ShowCard, WellSent
  <2>3. calls \ {c} = {}
    BY <1>2, <2>2 DEF Order, Lone, Writes
  <2>4. calls' = {d}
    BY <1>5, <2>2, <2>3 DEF GotDatabase, Sends, Reread, Load, d
  <2>5. Told(c) /\ ~Told(d)
    BY <2>1, <2>2 DEF Told
  <2>6. Lists'
    BY <2>1, <2>4 DEF Lists
  <2>7. Passwords'
    <3>1. \A x \in Existing' : vault'[x] # None => Opens(x)'
      BY <1>2, <1>3, <2>2, <2>3, <2>5 DEF Order, Passwords, Opens, Existing
    <3> QED BY <2>4, <2>5, <3>1 DEF Passwords
  <2>8. Card'
    BY <2>1, <2>2, <2>4 DEF Card
  <2> QED BY <1>2, <2>1, <2>4, <2>6, <2>7, <2>8 DEF Order
<1>6. CASE GotReset(c)
  <2>1. /\ c.kind = "reset" /\ c.state = "done" /\ c.db \in Dbs
        /\ vault' = [vault EXCEPT ![c.db] = c.pw]
        /\ card' = IF SameCard(c) THEN c.pw ELSE card
        /\ UNCHANGED <<databases, modal, mount>> /\ calls' = calls \ {c}
    BY <1>2, <1>3, <1>6 DEF GotReset, Keep, Saved, Sends, WellSent
  <2>2. calls' = {} /\ Told(c)
    BY <1>2, <2>1 DEF Order, Lone, Writes, Told
  <2>3. Lists'
    BY <1>2, <1>3, <2>1, <2>2 DEF Order, Lists, Lone, Changed, Dialogs, Writes
  <2>4. Passwords'
    <3>1. \A x \in Existing' : vault'[x] # None => Opens(x)'
      BY <1>2, <1>3, <2>1, <2>2 DEF Order, Passwords, Opens, Existing
    <3> QED BY <2>2, <3>1 DEF Passwords
  <2>5. Card'
    BY <1>2, <2>1, <2>2 DEF Order, Card, SameCard
  <2> QED BY <1>2, <2>2, <2>3, <2>4, <2>5 DEF Order
<1>7. CASE GotDelete(c)
  <2> DEFINE d == NewCall(calls \ {c}, "list", "delete", None)
  <2>1. d.kind = "list" /\ d.state = "sent"
    BY DEF NewCall
  <2> HIDE DEF d
  <2>2. /\ c.kind = "delete" /\ calls' = (calls \ {c}) \union {d} /\ modal'.kind = "none"
        /\ UNCHANGED <<databases, vault>>
    BY <1>7 DEF GotDelete, Sends, Reread, Load, Closed, d
  <2>3. calls' = {d} /\ \A e \in calls : ~Told(e)
    BY <1>2, <2>2 DEF Order, Lone, Writes, Told
  <2>4. Lists'
    BY <2>1, <2>3 DEF Lists
  <2>5. Passwords'
    BY <1>2, <1>3, <2>1, <2>2, <2>3 DEF Order, Passwords, Opens, Told
  <2>6. Card'
    BY <2>2 DEF Card
  <2> QED BY <1>2, <2>1, <2>3, <2>4, <2>5, <2>6 DEF Order
<1>8. CASE GotError(c)
  <2>1. /\ c.kind # "list" /\ c.state = "refused" /\ calls' = calls \ {c}
        /\ UNCHANGED <<databases, vault, modal, card, mount>>
    BY <1>8 DEF GotError, Sends
  <2>2. ~Told(c) /\ ~Changed(c)
    BY <2>1 DEF Told, Changed
  <2> QED BY <1>2, <1>3, <2>1, <2>2, DropOrder
<1> QED BY <1>4, <1>5, <1>6, <1>7, <1>8 DEF Answer

LEMMA StepOrder ==
  ASSUME DatabasesConstants, TypeInv, Orderly, [Next]_vars
  PROVE  Orderly'
<1> SUFFICES ASSUME trouble' = {} PROVE Order'
  BY DEF Orderly
<1>1. CASE User
  BY <1>1, UserOrder
<1>2. CASE \E c \in calls : Serve(c) \/ Answer(c)
  BY <1>2, ServeOrder, AnswerOrder
<1>3. CASE \E c \in calls : Lose(c)
  BY <1>3 DEF Lose
<1>4. CASE UNCHANGED vars
  <2>1. trouble = {} /\ UNCHANGED <<owner, password, databases, vault, modal, card, mount, calls>>
    BY <1>4 DEF vars, Agent, Client, View
  <2>2. Existing' = Existing /\ \A d : UNCHANGED Opens(d)
    BY <2>1 DEF Existing, Opens
  <2> QED BY <2>1, <2>2 DEF Orderly, Order, Lone, Lists, Passwords, Card
<1> QED BY <1>1, <1>2, <1>3, <1>4 DEF Next

LEMMA InitOrder ==
  ASSUME Init
  PROVE  Order
<1> DEFINE d == NewCall({}, "list", "none", None)
<1>1. d.kind = "list" /\ d.state = "sent"
  BY DEF NewCall
<1> HIDE DEF d
<1>2. calls = {d}
  BY DEF Init, Load, d
<1>3. \A x \in Existing : vault[x] = None
  BY DEF Init, Existing
<1>4. modal.kind = "none"
  BY DEF Init, Closed
<1> QED BY <1>1, <1>2, <1>3, <1>4 DEF Order, Lone, Lists, Passwords, Card, Told, Writes

\* While nothing goes out of the ordinary, the passwords the browser shows and saved open
\* the databases, for any databases that share users and any number of requests.
THEOREM VaultCorrect ==
  ASSUME DatabasesConstants
  PROVE  Spec => []VaultOpens
<1>1. Init => TypeInv /\ Orderly
  BY InitType, InitOrder DEF Orderly
<1>2. TypeInv /\ Orderly /\ [Next]_vars => TypeInv' /\ Orderly'
  BY StepType, StepOrder
<1>3. TypeInv /\ Orderly => VaultOpens
  <2> SUFFICES ASSUME TypeInv, Orderly, trouble = {} PROVE VaultOpens
    BY DEF VaultOpens
  <2>1. Passwords /\ Card
    BY DEF Orderly, Order
  <2>2. \A d \in Existing : vault[d] # None /\ (\A c \in calls : c.kind = "list") => Opens(d)
    BY <2>1 DEF Passwords, Told
  <2>3. (modal.kind = "card" /\ modal.db \in Existing /\ calls = {} /\ card # None) => Opens(modal.db) /\ card = vault[modal.db]
    BY <2>1, <2>2 DEF Card
  <2> QED BY <2>2, <2>3 DEF VaultOpens, Opens
<1> QED BY <1>1, <1>2, <1>3, PTL DEF Spec

\* With the same exceptions, a list at rest names the databases there are.
THEOREM ListCorrect ==
  ASSUME DatabasesConstants
  PROVE  Spec => []SettledList
<1>1. Init => TypeInv /\ Orderly
  BY InitType, InitOrder DEF Orderly
<1>2. TypeInv /\ Orderly /\ [Next]_vars => TypeInv' /\ Orderly'
  BY StepType, StepOrder
<1>3. Orderly => SettledList
  BY DEF Orderly, Order, Lists, SettledList
<1> QED BY <1>1, <1>2, <1>3, PTL DEF Spec

----------------------------------------------------------------------------
(* The explainer *)

LEMMA Quotient ==
  ASSUME NEW n \in Nat \ {0}, NEW k \in Nat, k % n = 0
  PROVE  k = (k \div n) * n /\ k \div n \in 0..k
<1>1. k = (k \div n) * n + (k % n) /\ k \div n \in Int
  OBVIOUS
<1>2. k = (k \div n) * n
  BY <1>1
<1>3. k \div n >= 0
  OBVIOUS
<1>4. k \div n <= k
  BY <1>3, <1>2
<1> QED BY <1>1, <1>2, <1>3, <1>4

LEMMA AroundTheClock ==
  ASSUME NEW f \in {"min", "hour"}, NEW n \in Nat \ {0}, (Explainer!Final[f] + 1) % n = 0
  PROVE  Explainer!Around(f, n) = {k \in Explainer!Whole(f) : (k - Explainer!First[f]) % n = 0}
<1> DEFINE m == Explainer!Final[f] + 1
           L == {(k * n) % m : k \in 0..(m-1)}
           R == {k \in 0..(m-1) : k % n = 0}
<1>1. m \in {24, 60} /\ Explainer!First[f] = 0 /\ Explainer!Whole(f) = 0..(m-1)
  BY DEF Explainer!First, Explainer!Final, Explainer!Whole
<1>2. m % n = 0
  OBVIOUS
<1>3. Explainer!Around(f, n) = L
  BY <1>1 DEF Explainer!Around
<1>4. {k \in Explainer!Whole(f) : (k - Explainer!First[f]) % n = 0} = R
  <2>1. \A k \in 0..(m-1) : k - 0 = k
    BY <1>1
  <2> QED BY <1>1, <2>1
<1> HIDE DEF m
<1>5. ASSUME NEW k \in 0..(m-1)
      PROVE  (k * n) % m \in 0..(m-1) /\ ((k * n) % m) % n = 0
  BY <1>1, <1>2
<1>6. ASSUME NEW k \in 0..(m-1), k % n = 0
      PROVE  \E j \in 0..(m-1) : k = (j * n) % m
  <2>1. k \in Nat
    BY <1>1
  <2>2. k = (k \div n) * n /\ k \div n \in 0..k
    BY <1>6, <2>1, Quotient
  <2>3. k % m = k
    BY <1>1
  <2>4. k = ((k \div n) * n) % m
    BY <2>2, <2>3
  <2>5. k \div n \in 0..(m-1)
    BY <1>1, <2>2
  <2> QED BY <2>4, <2>5
<1>7. L \subseteq R
  BY <1>5
<1>8. R \subseteq L
  BY <1>6
<1> QED BY <1>3, <1>4, <1>7, <1>8

LEMMA PartForms ==
  ASSUME NEW p \in Explainer!Parts
  PROVE  /\ p.form \in {"star", "step", "sloppy", "spread", "list", "loose"} /\ p.n \in Nat
         /\ p.items \subseteq Nat \X Nat
         /\ p.form = "star" => p = Explainer!Star /\ p.n = 1
         /\ p.form \in {"star", "step", "sloppy"} => p.items = {}
         /\ p.form = "list" => p.n = 1
BY DEF Explainer!Parts, Explainer!Star

\* One field of what the agent's parser takes.
TakesPart(f, p) ==
  /\ p.form \notin {"sloppy", "loose"} /\ p.n > 0
  /\ \A i \in p.items : Explainer!First[f] <= i[1] /\ i[1] <= i[2] /\ i[2] <= Explainer!Final[f]

LEMMA TimesInRange ==
  ASSUME NEW f \in Explainer!Names, NEW p \in Explainer!Parts, TakesPart(f, p)
  PROVE  Explainer!Times(f, p) \subseteq Explainer!Whole(f)
<1>1. Explainer!First[f] \in Nat /\ Explainer!Final[f] \in Nat
  BY DEF Explainer!Names, Explainer!First, Explainer!Final
<1>2. CASE p.form = "list"
  <2>1. ASSUME NEW i \in p.items, NEW k \in i[1]..i[2] PROVE k \in Explainer!Whole(f)
    <3>1. i[1] \in Nat /\ i[2] \in Nat
      BY PartForms
    <3>2. Explainer!First[f] <= i[1] /\ i[2] <= Explainer!Final[f]
      BY DEF TakesPart
    <3> QED BY <3>1, <3>2, <1>1 DEF Explainer!Whole
  <2> QED BY <1>2, <2>1 DEF Explainer!Times
<1>3. CASE p.form = "spread"
  BY <1>3 DEF Explainer!Times
<1>5. p.form # "loose"
  BY DEF TakesPart
<1>4. CASE p.form \notin {"list", "loose", "spread"}
  BY <1>4 DEF Explainer!Times
<1> QED BY <1>2, <1>3, <1>4, <1>5

LEMMA LiteralIsTimes ==
  ASSUME NEW f \in Explainer!Names, NEW p \in Explainer!Parts, TakesPart(f, p)
  PROVE  Explainer!Literal(f, p) = Explainer!Times(f, p)
<1>1. Explainer!First[f] \in Nat /\ Explainer!Final[f] \in Nat
  BY DEF Explainer!Names, Explainer!First, Explainer!Final
<1>2. CASE p.form = "star"
  <2>1. \A x \in Int : x % 1 = 0
    OBVIOUS
  <2>2. {k \in Explainer!Whole(f) : (k - Explainer!First[f]) % 1 = 0} = Explainer!Whole(f)
    BY <2>1, <1>1 DEF Explainer!Whole
  <2>3. p.n = 1
    BY <1>2, PartForms
  <2> QED BY <1>2, <2>2, <2>3 DEF Explainer!Literal, Explainer!Times
<1>3. CASE p.form # "star" /\ f = "dow"
  <2>1. Explainer!Times(f, p) \subseteq 0..6
    BY <1>3, TimesInRange DEF Explainer!Whole, Explainer!First, Explainer!Final
  <2>2. \A k \in 0..6 : k % 7 = k
    OBVIOUS
  <2>3. {k % 7 : k \in Explainer!Times(f, p)} = Explainer!Times(f, p)
    BY <2>1, <2>2
  <2> QED BY <1>3, <2>3 DEF Explainer!Literal
<1>4. CASE p.form # "star" /\ f # "dow"
  BY <1>4 DEF Explainer!Literal
<1> QED BY <1>2, <1>3, <1>4

LEMMA StepsAround ==
  ASSUME NEW f \in {"min", "hour"}, NEW p \in Explainer!Parts, Explainer!Steps(p), p.n > 0, (Explainer!Final[f] + 1) % p.n = 0
  PROVE  Explainer!Around(f, p.n) = Explainer!Times(f, p)
<1>1. p.n \in Nat \ {0}
  BY PartForms
<1>2. Explainer!Times(f, p) = {k \in Explainer!Whole(f) : (k - Explainer!First[f]) % p.n = 0}
  BY DEF Explainer!Times, Explainer!Steps
<1>3. Explainer!Around(f, p.n) = {k \in Explainer!Whole(f) : (k - Explainer!First[f]) % p.n = 0}
  BY <1>1, AroundTheClock
<1> QED BY <1>2, <1>3

LEMMA ClockReadsBack ==
  ASSUME NEW h \in 0..23
  PROVE  Explainer!ReadOff(Explainer!OnTheClock(h)) = h
<1>1. Explainer!OnTheClock(h).hour = Explainer!Twelve(h) /\ Explainer!OnTheClock(h).pm = (h >= 12)
  BY DEF Explainer!OnTheClock
<1>2. Explainer!Twelve(h) % 12 = h % 12
  BY DEF Explainer!Twelve
<1>3. (h % 12) + (IF h >= 12 THEN 12 ELSE 0) = h
  OBVIOUS
<1> QED BY <1>1, <1>2, <1>3 DEF Explainer!ReadOff

LEMMA FieldsTaken ==
  ASSUME NEW e \in Explainer!Schedules, Explainer!Parses(e), NEW f \in Explainer!Names
  PROVE  e[f] \in Explainer!Parts /\ TakesPart(f, e[f])
<1>1. e[f] \in Explainer!Parts
  BY DEF Explainer!Schedules, Explainer!Names
<1>2. TakesPart(f, e[f])
  BY DEF Explainer!Parses, TakesPart
<1> QED BY <1>1, <1>2

LEMMA MinutesAreTrue ==
  ASSUME NEW e \in Explainer!Schedules, Explainer!Parses(e), ~Explainer!Uneven(e)
  PROVE  Explainer!SaidMinutes(e) = Explainer!Times("min", e.min)
<1>1. e.min \in Explainer!Parts /\ TakesPart("min", e.min)
  BY FieldsTaken, e["min"] = e.min DEF Explainer!Names
<1>2. CASE Explainer!Steps(e.min) /\ e.hour = Explainer!Star
  <2>1. 60 % e.min.n = 0 /\ Explainer!Final["min"] + 1 = 60
    BY <1>2 DEF Explainer!Uneven, Explainer!Final
  <2>2. Explainer!Around("min", e.min.n) = Explainer!Times("min", e.min)
    BY <1>1, <1>2, <2>1, StepsAround DEF TakesPart
  <2> QED BY <1>2, <2>2 DEF Explainer!SaidMinutes
<1>3. CASE ~(Explainer!Steps(e.min) /\ e.hour = Explainer!Star)
  BY <1>1, <1>3, LiteralIsTimes DEF Explainer!SaidMinutes, Explainer!Names
<1> QED BY <1>2, <1>3

LEMMA HoursAreTrue ==
  ASSUME NEW e \in Explainer!Schedules, Explainer!Parses(e), ~Explainer!Uneven(e)
  PROVE  Explainer!SaidHours(e) = Explainer!Times("hour", e.hour)
<1>1. e.hour \in Explainer!Parts /\ TakesPart("hour", e.hour)
  BY FieldsTaken, e["hour"] = e.hour DEF Explainer!Names
<1>2. CASE Explainer!IsZero(e.min) /\ Explainer!Steps(e.hour)
  <2>1. 24 % e.hour.n = 0 /\ Explainer!Final["hour"] + 1 = 24
    BY <1>2 DEF Explainer!Uneven, Explainer!Final
  <2>2. Explainer!Around("hour", e.hour.n) = Explainer!Times("hour", e.hour)
    BY <1>1, <1>2, <2>1, StepsAround DEF TakesPart
  <2>3. ~Explainer!IsNumber(e.hour)
    BY <1>2 DEF Explainer!Steps, Explainer!IsNumber
  <2> QED BY <1>2, <2>2, <2>3 DEF Explainer!SaidHours
<1>3. CASE ~(Explainer!IsZero(e.min) /\ Explainer!Steps(e.hour)) /\ Explainer!IsNumber(e.min) /\ Explainer!IsNumber(e.hour)
  <2>1. Explainer!Times("hour", e.hour) \subseteq 0..23
    BY <1>1, TimesInRange DEF Explainer!Names, Explainer!Whole, Explainer!First, Explainer!Final
  <2>2. {Explainer!ReadOff(Explainer!OnTheClock(h)) : h \in Explainer!Times("hour", e.hour)} = Explainer!Times("hour", e.hour)
    BY <2>1, ClockReadsBack
  <2> QED BY <1>3, <2>2 DEF Explainer!SaidHours
<1>4. CASE ~(Explainer!IsZero(e.min) /\ Explainer!Steps(e.hour)) /\ ~(Explainer!IsNumber(e.min) /\ Explainer!IsNumber(e.hour))
  <2>1. Explainer!Literal("hour", e.hour) = Explainer!Times("hour", e.hour)
    BY <1>1, LiteralIsTimes DEF Explainer!Names
  <2>2. Explainer!SaidHours(e) = Explainer!Literal("hour", e.hour)
    BY <1>4 DEF Explainer!SaidHours
  <2> QED BY <2>1, <2>2
<1> QED BY <1>2, <1>3, <1>4

LEMMA ExplanationsAreTrue ==
  ASSUME NEW e \in Explainer!Schedules, Explainer!Parses(e), ~Explainer!Uneven(e)
  PROVE  Explainer!Explain(e).at = Explainer!Runs(e)
<1> DEFINE Said(f) == CASE f = "min"  -> Explainer!SaidMinutes(e)
                        [] f = "hour" -> Explainer!SaidHours(e)
                        [] OTHER      -> Explainer!Literal(f, e[f])
<1>1. ASSUME NEW f \in Explainer!Names PROVE Said(f) = Explainer!Times(f, e[f])
  <2>1. CASE f = "min"
    BY <2>1, MinutesAreTrue
  <2>2. CASE f = "hour"
    BY <2>2, HoursAreTrue
  <2>3. CASE f \notin {"min", "hour"}
    <3>1. Explainer!Literal(f, e[f]) = Explainer!Times(f, e[f])
      BY FieldsTaken, LiteralIsTimes
    <3> QED BY <2>3, <3>1
  <2> QED BY <2>1, <2>2, <2>3
<1>2. Explainer!Explain(e).at = [f \in Explainer!Names |-> Said(f)]
  BY DEF Explainer!Explain
<1> HIDE DEF Said
<1> QED BY <1>1, <1>2 DEF Explainer!Runs

LEMMA RefusalsAreKnown ==
  ASSUME NEW e \in Explainer!Schedules, Explainer!Explain(e).valid, ~Explainer!Parses(e)
  PROVE  \/ \E i \in e.dow.items : i[2] = 7
         \/ \E f \in Explainer!Names : e[f].form \in {"sloppy", "loose"}
<1>1. PICK f \in Explainer!Names : ~TakesPart(f, e[f])
  BY DEF Explainer!Parses, TakesPart
<1>2. Explainer!IsValidPart(f, e[f]) /\ e[f] \in Explainer!Parts
  BY DEF Explainer!Explain, Explainer!Schedules, Explainer!Names
<1>3. Explainer!Largest(f) \in Nat /\ Explainer!Final[f] \in Nat /\ Explainer!First[f] \in Nat
  BY DEF Explainer!Largest, Explainer!Final, Explainer!First, Explainer!Names
<1>4. CASE e[f].form \in {"sloppy", "loose"}
  BY <1>4
<1>5. CASE e[f].form \in {"star", "step"}
  <2>1. e[f].n > 0
    BY <1>2, <1>5, PartForms DEF Explainer!IsValidPart
  <2>2. e[f].items = {}
    BY <1>2, <1>5, PartForms
  <2> QED BY <1>1, <1>5, <2>1, <2>2 DEF TakesPart
<1>6. CASE e[f].form = "spread"
  BY <1>2, <1>6 DEF Explainer!IsValidPart
<1>7. CASE e[f].form = "list"
  <2>1. PICK i \in e[f].items : ~(Explainer!First[f] <= i[1] /\ i[1] <= i[2] /\ i[2] <= Explainer!Final[f])
    BY <1>1, <1>2, <1>7, PartForms DEF TakesPart
  <2>2. Explainer!InBounds(f, i)
    BY <1>2, <1>7 DEF Explainer!IsValidPart
  <2>3. i[1] \in Nat /\ i[2] \in Nat
    BY <1>2, <2>1, PartForms
  <2>4. ~(i[2] <= Explainer!Final[f]) /\ i[2] <= Explainer!Largest(f)
    BY <2>1, <2>2 DEF Explainer!InBounds
  <2>5. f = "dow" /\ i[2] <= 7 /\ ~(i[2] <= 6)
    BY <2>4, <2>3, <1>3 DEF Explainer!Largest, Explainer!Final
  <2>6. i[2] = 7
    BY <2>5, <2>3
  <2>7. i \in e.dow.items
    BY <2>1, <2>5
  <2> QED BY <2>6, <2>7
<1> QED BY <1>2, <1>4, <1>5, <1>6, <1>7, PartForms

\* What is shown explains what is typed.
CronInv == expression \in Explainer!Schedules /\ explanation = Explainer!Explain(expression)

LEMMA CronStep ==
  ASSUME Explainer!ExplainerConstants, CronInv, [Explainer!Next]_cronVars
  PROVE  CronInv'
BY DEF Explainer!Next, Explainer!Type, cronVars, CronInv, Explainer!ExplainerConstants

\* Moving the clock moves every hour of the day to one of the day, and 0 hours moves none.
LEMMA ClockMoved ==
  ASSUME NEW z \in 0..23
  PROVE  /\ {(h + z) % 24 : h \in 0..23} = 0..23
         /\ z = 0 => \A S \in SUBSET (0..23) : {(h + z) % 24 : h \in S} = S
<1>1. \A h \in 0..23 : (h + z) % 24 \in 0..23
  OBVIOUS
<1>2. ASSUME NEW k \in 0..23 PROVE \E h \in 0..23 : k = (h + z) % 24
  <2>1. CASE k >= z
    <3>1. k - z \in 0..23 /\ k = ((k - z) + z) % 24
      BY <2>1
    <3> QED BY <3>1
  <2>2. CASE k < z
    <3>1. (k - z) + 24 \in 0..23 /\ k = (((k - z) + 24) + z) % 24
      BY <2>2
    <3> QED BY <3>1
  <2> QED BY <2>1, <2>2
<1>3. \A h \in 0..23 : z = 0 => (h + z) % 24 = h
  OBVIOUS
<1>4. {(h + z) % 24 : h \in 0..23} = 0..23
  BY <1>1, <1>2
<1>5. ASSUME z = 0, NEW S \in SUBSET (0..23)
      PROVE  {(h + z) % 24 : h \in S} = S
  <2>1. \A h \in S : (h + z) % 24 = h
    BY <1>3, <1>5
  <2> QED BY <2>1
<1> QED BY <1>4, <1>5

LEMMA ClockOfHost ==
  ASSUME NEW e \in Explainer!Schedules, Explainer!Parses(e), ~Explainer!Uneven(e),
         NEW z \in 0..23, z = 0 \/ ~Explainer!NamesTheHour(e)
  PROVE  Explainer!HostTime(Explainer!Explain(e), z) = Explainer!Runs(e)
<1> DEFINE x == Explainer!Explain(e)
           H == Explainer!Times("hour", e.hour)
<1>1. x.at = Explainer!Runs(e) /\ x.utc = ~Explainer!NamesNoHour(e)
  BY ExplanationsAreTrue DEF Explainer!Explain
<1>2. Explainer!Runs(e) = [f \in Explainer!Names |-> Explainer!Times(f, e[f])] /\ "hour" \in Explainer!Names
  BY DEF Explainer!Runs, Explainer!Names
<1>3. e["hour"] = e.hour /\ Explainer!Runs(e)["hour"] = H
  BY <1>2
<1>4. H \subseteq 0..23
  BY <1>2, <1>3, FieldsTaken, TimesInRange DEF Explainer!Whole, Explainer!First, Explainer!Final
<1>5. ASSUME {(h + z) % 24 : h \in H} = H
      PROVE  [Explainer!Runs(e) EXCEPT !["hour"] = {(h + z) % 24 : h \in @}] = Explainer!Runs(e)
  BY <1>2, <1>3, <1>5
<1>6. CASE z = 0
  <2>1. {(h + z) % 24 : h \in H} = H
    BY <1>4, <1>6, ClockMoved
  <2> HIDE DEF x, H
  <2> QED BY <2>1, <1>5, <1>1 DEF Explainer!HostTime, x
<1>7. CASE x.utc /\ e.hour = Explainer!Star
  <2>1. H = 0..23
    <3>1. Explainer!Literal("hour", e.hour) = 0..23
      BY <1>7 DEF Explainer!Literal, Explainer!Star, Explainer!Whole, Explainer!First, Explainer!Final
    <3>2. Explainer!Literal("hour", e.hour) = H
      BY <1>2, <1>3, FieldsTaken, LiteralIsTimes
    <3> QED BY <3>1, <3>2
  <2>2. {(h + z) % 24 : h \in H} = H
    BY <2>1, ClockMoved
  <2> HIDE DEF x, H
  <2> QED BY <2>2, <1>5, <1>1 DEF Explainer!HostTime, x
<1>8. CASE ~x.utc
  <2> HIDE DEF x
  <2> QED BY <1>8, <1>1 DEF Explainer!HostTime, x
<1>9. z = 0 \/ ~x.utc \/ e.hour = Explainer!Star
  BY <1>1 DEF Explainer!NamesTheHour
<1> QED BY <1>6, <1>7, <1>8, <1>9

LEMMA CronHonest ==
  ASSUME Explainer!ExplainerConstants, CronInv
  PROVE  Explainer!ExplanationIsHonest
<1>1. SUFFICES ASSUME NEW z \in Zones, explanation.valid, Explainer!Parses(expression),
                      ~Explainer!Uneven(expression), z = 0 \/ ~Explainer!NamesTheHour(expression)
               PROVE  Explainer!HostTime(explanation, z) = Explainer!Runs(expression)
  BY DEF Explainer!ExplanationIsHonest
<1>2. z \in 0..23 /\ expression \in Explainer!Schedules /\ explanation = Explainer!Explain(expression)
  BY DEF Explainer!ExplainerConstants, CronInv
<1> QED BY <1>1, <1>2, ClockOfHost

LEMMA CronTaken == CronInv => Explainer!ExplainedIsTaken
BY RefusalsAreKnown DEF CronInv, Explainer!ExplainedIsTaken

----------------------------------------------------------------------------
(* A page is the same page here and in the module of its theorems: every   *)
(* definition, from the helpers up to Next, is equal in both instances.    *)

StudioP == INSTANCE TableStudio_proofs WITH
  calls <- studioCalls, moves <- studioMoves, trouble <- studioTrouble

LEMMA StudioSame ==
  Studio!Spec <=> StudioP!Spec
<1>Of. \A cs, kind : Studio!Of(cs, kind) = StudioP!Of(cs, kind)
  BY DEF Studio!Of, StudioP!Of
<1>Last. \A cs, kind : Studio!Last(cs, kind) = StudioP!Last(cs, kind)
  BY <1>Of DEF Studio!Last, StudioP!Last, Studio!Numbers, StudioP!Numbers
<1>NewCall. \A cs, kind, q, target, rows : Studio!NewCall(cs, kind, q, target, rows) = StudioP!NewCall(cs, kind, q, target, rows)
  BY <1>Last DEF Studio!NewCall, StudioP!NewCall, Studio!Pk, StudioP!Pk
<1>Send. \A cs, kind, q, rows : Studio!Send(cs, kind, q, rows) = StudioP!Send(cs, kind, q, rows)
  BY <1>NewCall DEF Studio!Send, StudioP!Send
<1>LoadTables. \A cs, q : Studio!LoadTables(cs, q) = StudioP!LoadTables(cs, q)
  BY <1>Send DEF Studio!LoadTables, StudioP!LoadTables
<1>Init. Studio!Init <=> StudioP!Init
  BY <1>LoadTables DEF Studio!Init, StudioP!Init, Studio!Blank, StudioP!Blank, Studio!NoSort,
      StudioP!NoSort, Studio!DataGrid, StudioP!DataGrid
<1>Cardinality. \A S : Studio!Cardinality(S) = StudioP!Cardinality(S)
  BY DEF Studio!Cardinality, StudioP!Cardinality
<1>Move. Studio!Move <=> StudioP!Move
  BY <1>Cardinality DEF Studio!Move, StudioP!Move, Studio!Agent, StudioP!Agent
<1>LoadSchema. \A cs, q : Studio!LoadSchema(cs, q) = StudioP!LoadSchema(cs, q)
  BY <1>Send DEF Studio!LoadSchema, StudioP!LoadSchema
<1>LoadRows. \A cs, q : Studio!LoadRows(cs, q) = StudioP!LoadRows(cs, q)
  BY <1>Send DEF Studio!LoadRows, StudioP!LoadRows
<1>Mixed. \A cs, q : Studio!Mixed(cs, q) = StudioP!Mixed(cs, q)
  BY <1>Of DEF Studio!Mixed, StudioP!Mixed
<1>Render. \A cs, q, v, odd : Studio!Render(cs, q, v, odd) <=> StudioP!Render(cs, q, v, odd)
  BY <1>LoadSchema, <1>LoadRows, <1>Mixed, <1>Of DEF Studio!Render, StudioP!Render,
      Studio!DataGrid, StudioP!DataGrid, Studio!TicksAfter, StudioP!TicksAfter
<1>Ask. \A q, v : Studio!Ask(q, v) <=> StudioP!Ask(q, v)
  BY <1>Move, <1>Render DEF Studio!Ask, StudioP!Ask
<1>SelectTable. \A t : Studio!SelectTable(t) <=> StudioP!SelectTable(t)
  BY <1>Ask DEF Studio!SelectTable, StudioP!SelectTable
<1>CreateTable. \A t : Studio!CreateTable(t) <=> StudioP!CreateTable(t)
  BY <1>Of, <1>Move, <1>NewCall DEF Studio!CreateTable, StudioP!CreateTable
<1>Resize. \A s : Studio!Resize(s) <=> StudioP!Resize(s)
  BY <1>Ask DEF Studio!Resize, StudioP!Resize, Studio!InGrid, StudioP!InGrid, Studio!DataGrid,
      StudioP!DataGrid
<1>NextSort. \A c : Studio!NextSort(c) = StudioP!NextSort(c)
  BY DEF Studio!NextSort, StudioP!NextSort
<1>SortBy. \A c : Studio!SortBy(c) <=> StudioP!SortBy(c)
  BY <1>Ask, <1>NextSort DEF Studio!SortBy, StudioP!SortBy, Studio!InGrid, StudioP!InGrid,
      Studio!DataGrid, StudioP!DataGrid
<1>FilterBy. \A c : Studio!FilterBy(c) <=> StudioP!FilterBy(c)
  BY <1>Ask DEF Studio!FilterBy, StudioP!FilterBy, Studio!InGrid, StudioP!InGrid,
      Studio!DataGrid, StudioP!DataGrid
<1>DropFilters. \A cs : Studio!DropFilters(cs) <=> StudioP!DropFilters(cs)
  BY <1>Ask DEF Studio!DropFilters, StudioP!DropFilters, Studio!InGrid, StudioP!InGrid,
      Studio!DataGrid, StudioP!DataGrid
<1>ChangeView. \A v : Studio!ChangeView(v) <=> StudioP!ChangeView(v)
  BY <1>Ask DEF Studio!ChangeView, StudioP!ChangeView
<1>Ident. \A k : Studio!Ident(k) = StudioP!Ident(k)
  BY DEF Studio!Ident, StudioP!Ident, Studio!Pk, StudioP!Pk
<1>Tick. \A k : Studio!Tick(k) <=> StudioP!Tick(k)
  BY <1>Ident, <1>Move DEF Studio!Tick, StudioP!Tick, Studio!Visible, StudioP!Visible,
      Studio!InGrid, StudioP!InGrid, Studio!DataGrid, StudioP!DataGrid, Studio!Hasty,
      StudioP!Hasty
<1>EditCell. \A k : Studio!EditCell(k) <=> StudioP!EditCell(k)
  BY <1>Move, <1>Ident DEF Studio!EditCell, StudioP!EditCell, Studio!Visible, StudioP!Visible,
      Studio!InGrid, StudioP!InGrid, Studio!DataGrid, StudioP!DataGrid, Studio!Hasty,
      StudioP!Hasty
<1>TotalPages. Studio!TotalPages = StudioP!TotalPages
  BY DEF Studio!TotalPages, StudioP!TotalPages
<1>Neighbours. Studio!Neighbours = StudioP!Neighbours
  BY <1>TotalPages DEF Studio!Neighbours, StudioP!Neighbours
<1>TurnPage. Studio!TurnPage <=> StudioP!TurnPage
  BY <1>Neighbours, <1>Ask DEF Studio!TurnPage, StudioP!TurnPage, Studio!InGrid,
      StudioP!InGrid, Studio!DataGrid, StudioP!DataGrid
<1>SearchRows. Studio!SearchRows <=> StudioP!SearchRows
  BY <1>Move, <1>Render, <1>LoadRows DEF Studio!SearchRows, StudioP!SearchRows, Studio!InGrid,
      StudioP!InGrid, Studio!DataGrid, StudioP!DataGrid
<1>Reload. Studio!Reload <=> StudioP!Reload
  BY <1>Move, <1>Render, <1>LoadTables, <1>LoadSchema, <1>LoadRows DEF Studio!Reload,
      StudioP!Reload
<1>TickAll. Studio!TickAll <=> StudioP!TickAll
  BY <1>Move, <1>Cardinality, <1>Ident DEF Studio!TickAll, StudioP!TickAll, Studio!Visible,
      StudioP!Visible, Studio!InGrid, StudioP!InGrid, Studio!DataGrid, StudioP!DataGrid,
      Studio!Hasty, StudioP!Hasty
<1>Write. \A kind, rows : Studio!Write(kind, rows) <=> StudioP!Write(kind, rows)
  BY <1>Move, <1>Send DEF Studio!Write, StudioP!Write
<1>DeleteSelected. Studio!DeleteSelected <=> StudioP!DeleteSelected
  BY <1>Write DEF Studio!DeleteSelected, StudioP!DeleteSelected, Studio!InGrid, StudioP!InGrid,
      Studio!DataGrid, StudioP!DataGrid
<1>InsertRow. Studio!InsertRow <=> StudioP!InsertRow
  BY <1>Of, <1>Write DEF Studio!InsertRow, StudioP!InsertRow, Studio!InGrid, StudioP!InGrid,
      Studio!DataGrid, StudioP!DataGrid
<1>CloseInspector. Studio!CloseInspector <=> StudioP!CloseInspector
  BY <1>Move DEF Studio!CloseInspector, StudioP!CloseInspector
<1>CancelEdit. Studio!CancelEdit <=> StudioP!CancelEdit
  BY <1>Move DEF Studio!CancelEdit, StudioP!CancelEdit, Studio!Visible, StudioP!Visible,
      Studio!InGrid, StudioP!InGrid, Studio!DataGrid, StudioP!DataGrid
<1>SaveCell. Studio!SaveCell <=> StudioP!SaveCell
  BY <1>Write DEF Studio!SaveCell, StudioP!SaveCell, Studio!Visible, StudioP!Visible,
      Studio!InGrid, StudioP!InGrid, Studio!DataGrid, StudioP!DataGrid
<1>RunSql. Studio!RunSql <=> StudioP!RunSql
  BY <1>Move, <1>Send DEF Studio!RunSql, StudioP!RunSql
<1>User. Studio!User <=> StudioP!User
  BY <1>SelectTable, <1>CreateTable, <1>Resize, <1>SortBy, <1>FilterBy, <1>DropFilters,
      <1>ChangeView, <1>Tick, <1>EditCell, <1>TurnPage, <1>SearchRows, <1>Reload, <1>TickAll,
      <1>DeleteSelected, <1>InsertRow, <1>CloseInspector, <1>CancelEdit, <1>SaveCell,
      <1>RunSql DEF Studio!User, StudioP!User, Studio!Views, StudioP!Views
<1>Rest. \A c : Studio!Rest(c) = StudioP!Rest(c)
  BY DEF Studio!Rest, StudioP!Rest
<1>GotRows. \A c : Studio!GotRows(c) <=> StudioP!GotRows(c)
  BY <1>Rest DEF Studio!GotRows, StudioP!GotRows, Studio!Odd, StudioP!Odd, Studio!Agent,
      StudioP!Agent
<1>GotSchema. \A c : Studio!GotSchema(c) <=> StudioP!GotSchema(c)
  BY <1>Rest DEF Studio!GotSchema, StudioP!GotSchema, Studio!Odd, StudioP!Odd, Studio!Agent,
      StudioP!Agent
<1>First. \A names : Studio!First(names) = StudioP!First(names)
  BY DEF Studio!First, StudioP!First
<1>GotTables. \A c : Studio!GotTables(c) <=> StudioP!GotTables(c)
  BY <1>First, <1>Render, <1>Rest DEF Studio!GotTables, StudioP!GotTables, Studio!Odd,
      StudioP!Odd, Studio!Agent, StudioP!Agent
<1>Reloaded. \A cs, q : Studio!Reloaded(cs, q) = StudioP!Reloaded(cs, q)
  BY <1>LoadTables, <1>LoadRows DEF Studio!Reloaded, StudioP!Reloaded
<1>GotWrite. \A c : Studio!GotWrite(c) <=> StudioP!GotWrite(c)
  BY <1>Reloaded, <1>Rest, <1>Of, <1>Mixed DEF Studio!GotWrite, StudioP!GotWrite, Studio!Odd,
      StudioP!Odd, Studio!Agent, StudioP!Agent
<1>GotTable. \A c : Studio!GotTable(c) <=> StudioP!GotTable(c)
  BY <1>Render, <1>LoadTables, <1>Rest DEF Studio!GotTable, StudioP!GotTable, Studio!Odd,
      StudioP!Odd, Studio!Agent, StudioP!Agent
<1>GotSql. \A c : Studio!GotSql(c) <=> StudioP!GotSql(c)
  BY <1>Rest DEF Studio!GotSql, StudioP!GotSql, Studio!DataGrid, StudioP!DataGrid,
      Studio!Agent, StudioP!Agent
<1>Fails. \A c : Studio!Fails(c) <=> StudioP!Fails(c)
  BY DEF Studio!Fails, StudioP!Fails, Studio!StillLoading, StudioP!StillLoading, Studio!Agent,
      StudioP!Agent
<1>Answer. Studio!Answer <=> StudioP!Answer
  BY <1>GotRows, <1>GotSchema, <1>GotTables, <1>GotWrite, <1>GotTable, <1>GotSql,
      <1>Fails DEF Studio!Answer, StudioP!Answer
<1>Method. \A kind : Studio!Method(kind) = StudioP!Method(kind)
  BY DEF Studio!Method, StudioP!Method
<1>Rejects. \A c : Studio!Rejects(c) <=> StudioP!Rejects(c)
  BY <1>Method DEF Studio!Rejects, StudioP!Rejects, Studio!ProxyMethods, StudioP!ProxyMethods
<1>Matching. \A q, rows : Studio!Matching(q, rows) = StudioP!Matching(q, rows)
  BY DEF Studio!Matching, StudioP!Matching
<1>Bijection. \A S, T : Studio!Bijection(S, T) = StudioP!Bijection(S, T)
  BY DEF Studio!Bijection, StudioP!Bijection, Studio!Injection, StudioP!Injection,
      Studio!Surjection, StudioP!Surjection, Studio!IsInjective, StudioP!IsInjective
<1>Precedes. \A q, j, k : Studio!Precedes(q, j, k) <=> StudioP!Precedes(q, j, k)
  BY DEF Studio!Precedes, StudioP!Precedes
<1>Orders. \A q, m : Studio!Orders(q, m) = StudioP!Orders(q, m)
  BY <1>Bijection, <1>Precedes, <1>Cardinality DEF Studio!Orders, StudioP!Orders
<1>Offset. \A q : Studio!Offset(q) = StudioP!Offset(q)
  BY DEF Studio!Offset, StudioP!Offset, Studio!Limit, StudioP!Limit
<1>Limit. \A n : Studio!Limit(n) = StudioP!Limit(n)
  BY DEF Studio!Limit, StudioP!Limit
<1>Pages. \A q, rows : Studio!Pages(q, rows) = StudioP!Pages(q, rows)
  BY <1>Matching, <1>Orders, <1>Offset, <1>Limit DEF Studio!Pages, StudioP!Pages
<1>Answers. \A c : Studio!Answers(c) = StudioP!Answers(c)
  BY <1>Pages DEF Studio!Answers, StudioP!Answers
<1>Served. \A c, got : Studio!Served(c, got) = StudioP!Served(c, got)
  BY <1>Cardinality, <1>Matching DEF Studio!Served, StudioP!Served
<1>Effects. \A c : Studio!Effects(c) = StudioP!Effects(c)
  BY DEF Studio!Effects, StudioP!Effects
<1>Serve. \A c : Studio!Serve(c) <=> StudioP!Serve(c)
  BY <1>Rejects, <1>Answers, <1>Served, <1>Effects DEF Studio!Serve, StudioP!Serve, Studio!Agent,
      StudioP!Agent
<1>Next. Studio!Next <=> StudioP!Next
  BY <1>User, <1>Answer, <1>Serve DEF Studio!Next, StudioP!Next
<1>vars. (UNCHANGED Studio!vars) <=> (UNCHANGED StudioP!vars)
  BY DEF Studio!vars, StudioP!vars
<1> QED BY <1>Init, <1>Next, <1>vars, PTL DEF Studio!Spec, StudioP!Spec

LEMMA StudioClaims ==
  /\ Studio!StudioConstants => StudioP!StudioConstants
  /\ StudioP!NoStuckSpinner => Studio!NoStuckSpinner
  /\ StudioP!WritesHitWhatWasShown => Studio!WritesHitWhatWasShown
  /\ StudioP!SettledGrid => Studio!SettledGrid
  /\ StudioP!EveryRowReachable => Studio!EveryRowReachable
<1>IsFiniteSet. \A S : Studio!IsFiniteSet(S) = StudioP!IsFiniteSet(S)
  BY DEF Studio!IsFiniteSet, StudioP!IsFiniteSet
<1>StudioConstants. Studio!StudioConstants <=> StudioP!StudioConstants
  BY <1>IsFiniteSet DEF Studio!StudioConstants, StudioP!StudioConstants
<1>Of. \A cs, kind : Studio!Of(cs, kind) = StudioP!Of(cs, kind)
  BY DEF Studio!Of, StudioP!Of
<1>NoStuckSpinner. Studio!NoStuckSpinner <=> StudioP!NoStuckSpinner
  BY <1>Of DEF Studio!NoStuckSpinner, StudioP!NoStuckSpinner
<1>WritesHitWhatWasShown. Studio!WritesHitWhatWasShown <=> StudioP!WritesHitWhatWasShown
  BY DEF Studio!WritesHitWhatWasShown, StudioP!WritesHitWhatWasShown
<1>Matching. \A q, rows : Studio!Matching(q, rows) = StudioP!Matching(q, rows)
  BY DEF Studio!Matching, StudioP!Matching
<1>Cardinality. \A S : Studio!Cardinality(S) = StudioP!Cardinality(S)
  BY DEF Studio!Cardinality, StudioP!Cardinality
<1>Bijection. \A S, T : Studio!Bijection(S, T) = StudioP!Bijection(S, T)
  BY DEF Studio!Bijection, StudioP!Bijection, Studio!Injection, StudioP!Injection,
      Studio!Surjection, StudioP!Surjection, Studio!IsInjective, StudioP!IsInjective
<1>Precedes. \A q, j, k : Studio!Precedes(q, j, k) <=> StudioP!Precedes(q, j, k)
  BY DEF Studio!Precedes, StudioP!Precedes
<1>Orders. \A q, m : Studio!Orders(q, m) = StudioP!Orders(q, m)
  BY <1>Bijection, <1>Precedes, <1>Cardinality DEF Studio!Orders, StudioP!Orders
<1>Offset. \A q : Studio!Offset(q) = StudioP!Offset(q)
  BY DEF Studio!Offset, StudioP!Offset, Studio!Limit, StudioP!Limit
<1>Limit. \A n : Studio!Limit(n) = StudioP!Limit(n)
  BY DEF Studio!Limit, StudioP!Limit
<1>Pages. \A q, rows : Studio!Pages(q, rows) = StudioP!Pages(q, rows)
  BY <1>Matching, <1>Orders, <1>Offset, <1>Limit DEF Studio!Pages, StudioP!Pages
<1>SettledGrid. Studio!SettledGrid <=> StudioP!SettledGrid
  BY <1>Pages DEF Studio!SettledGrid, StudioP!SettledGrid, Studio!DataGrid, StudioP!DataGrid
<1>Sorted. \A q, m : Studio!Sorted(q, m) <=> StudioP!Sorted(q, m)
  BY <1>Precedes DEF Studio!Sorted, StudioP!Sorted
<1>EveryRowReachable. Studio!EveryRowReachable <=> StudioP!EveryRowReachable
  BY <1>Matching, <1>Cardinality, <1>Pages, <1>Sorted DEF Studio!EveryRowReachable,
      StudioP!EveryRowReachable
<1> QED BY <1>StudioConstants, <1>NoStuckSpinner, <1>WritesHitWhatWasShown, <1>SettledGrid, <1>EveryRowReachable

StatusP == INSTANCE StatusPage_proofs WITH
  Start <- StartMonitors, Absent <- None, MaxMoves <- StatusMoves,
  loading <- statusLoading, calls <- statusCalls, moves <- statusMoves,
  faults <- statusFaults, plain <- statusPlain

LEMMA StatusSame ==
  Status!Safety <=> StatusP!Safety
<1>Cardinality. \A S : Status!Cardinality(S) = StatusP!Cardinality(S)
  BY DEF Status!Cardinality, StatusP!Cardinality
<1>Fresh. \A cs, kind, cause : Status!Fresh(cs, kind, cause) = StatusP!Fresh(cs, kind, cause)
  BY <1>Cardinality DEF Status!Fresh, StatusP!Fresh
<1>NewCall. \A cs, kind, cause, id, set : Status!NewCall(cs, kind, cause, id, set) = StatusP!NewCall(cs, kind, cause, id, set)
  BY <1>Fresh DEF Status!NewCall, StatusP!NewCall
<1>Load. \A cs, cause : Status!Load(cs, cause) = StatusP!Load(cs, cause)
  BY <1>NewCall DEF Status!Load, StatusP!Load
<1>Init. Status!Init <=> StatusP!Init
  BY <1>Load DEF Status!Init, StatusP!Init, Status!NoMonitors, StatusP!NoMonitors
<1>Sends. \A cs : Status!Sends(cs) <=> StatusP!Sends(cs)
  BY DEF Status!Sends, StatusP!Sends, Status!Overlap, StatusP!Overlap, Status!Writes,
      StatusP!Writes
<1>Refresh. Status!Refresh <=> StatusP!Refresh
  BY <1>Cardinality, <1>Sends, <1>Load DEF Status!Refresh, StatusP!Refresh, Status!Free,
      StatusP!Free, Status!Move, StatusP!Move, Status!Able, StatusP!Able, Status!Page,
      StatusP!Page
<1>ProbeSite. Status!ProbeSite <=> StatusP!ProbeSite
  BY <1>Cardinality, <1>Sends, <1>NewCall DEF Status!ProbeSite, StatusP!ProbeSite, Status!Free,
      StatusP!Free, Status!Ask, StatusP!Ask, Status!Move, StatusP!Move, Status!Able,
      StatusP!Able, Status!Page, StatusP!Page
<1>OpenAdd. Status!OpenAdd <=> StatusP!OpenAdd
  BY <1>Cardinality DEF Status!OpenAdd, StatusP!OpenAdd, Status!Free, StatusP!Free,
      Status!Able, StatusP!Able, Status!Page, StatusP!Page
<1>Close. Status!Close <=> StatusP!Close
  BY DEF Status!Close, StatusP!Close, Status!Page, StatusP!Page
<1>OpenEdit. \A i : Status!OpenEdit(i) <=> StatusP!OpenEdit(i)
  BY <1>Cardinality DEF Status!OpenEdit, StatusP!OpenEdit, Status!Free, StatusP!Free,
      Status!Able, StatusP!Able, Status!Page, StatusP!Page
<1>DeleteMonitor. \A i : Status!DeleteMonitor(i) <=> StatusP!DeleteMonitor(i)
  BY <1>Cardinality, <1>Sends, <1>NewCall DEF Status!DeleteMonitor, StatusP!DeleteMonitor,
      Status!Free, StatusP!Free, Status!Ask, StatusP!Ask, Status!Move, StatusP!Move,
      Status!Able, StatusP!Able, Status!Page, StatusP!Page, Status!Busy, StatusP!Busy
<1>ToggleMonitor. \A i : Status!ToggleMonitor(i) <=> StatusP!ToggleMonitor(i)
  BY <1>Cardinality, <1>Sends, <1>NewCall DEF Status!ToggleMonitor, StatusP!ToggleMonitor,
      Status!Free, StatusP!Free, Status!Ask, StatusP!Ask, Status!Move, StatusP!Move,
      Status!Able, StatusP!Able, Status!Page, StatusP!Page, Status!Busy, StatusP!Busy
<1>AddMonitor. \A s : Status!AddMonitor(s) <=> StatusP!AddMonitor(s)
  BY <1>Cardinality, <1>Sends, <1>NewCall DEF Status!AddMonitor, StatusP!AddMonitor,
      Status!Ask, StatusP!Ask, Status!Move, StatusP!Move, Status!Able, StatusP!Able,
      Status!Page, StatusP!Page
<1>UpdateMonitor. \A s : Status!UpdateMonitor(s) <=> StatusP!UpdateMonitor(s)
  BY <1>Cardinality, <1>Sends, <1>NewCall DEF Status!UpdateMonitor, StatusP!UpdateMonitor,
      Status!Ask, StatusP!Ask, Status!Move, StatusP!Move, Status!Able, StatusP!Able,
      Status!Page, StatusP!Page
<1>User. Status!User <=> StatusP!User
  BY <1>Refresh, <1>ProbeSite, <1>OpenAdd, <1>Close, <1>OpenEdit, <1>DeleteMonitor,
      <1>ToggleMonitor, <1>AddMonitor, <1>UpdateMonitor DEF Status!User, StatusP!User
<1>Poll. Status!Poll <=> StatusP!Poll
  BY <1>Sends, <1>Load DEF Status!Poll, StatusP!Poll, Status!Due, StatusP!Due, Status!Page,
      StatusP!Page, Status!Busy, StatusP!Busy
<1>After. \A ms, c : Status!After(ms, c) = StatusP!After(ms, c)
  BY DEF Status!After, StatusP!After
<1>Serve. \A c : Status!Serve(c) <=> StatusP!Serve(c)
  BY <1>After DEF Status!Serve, StatusP!Serve, Status!Page, StatusP!Page, Status!Busy,
      StatusP!Busy
<1>Lose. \A c : Status!Lose(c) <=> StatusP!Lose(c)
  BY DEF Status!Lose, StatusP!Lose, Status!Page, StatusP!Page, Status!Busy, StatusP!Busy
<1>GotStatus. \A c : Status!GotStatus(c) <=> StatusP!GotStatus(c)
  BY <1>Sends DEF Status!GotStatus, StatusP!GotStatus, Status!Ready, StatusP!Ready,
      Status!Waits, StatusP!Waits, Status!Failed, StatusP!Failed, Status!NoMonitors,
      StatusP!NoMonitors
<1>Optimistic. \A c : Status!Optimistic(c) = StatusP!Optimistic(c)
  BY DEF Status!Optimistic, StatusP!Optimistic
<1>GotWrite. \A c : Status!GotWrite(c) <=> StatusP!GotWrite(c)
  BY <1>Optimistic, <1>Sends, <1>Load DEF Status!GotWrite, StatusP!GotWrite, Status!Writes,
      StatusP!Writes, Status!Ready, StatusP!Ready
<1>GotProbe. \A c : Status!GotProbe(c) <=> StatusP!GotProbe(c)
  BY <1>Sends DEF Status!GotProbe, StatusP!GotProbe, Status!Ready, StatusP!Ready, Status!Page,
      StatusP!Page
<1>Answer. \A c : Status!Answer(c) <=> StatusP!Answer(c)
  BY <1>GotStatus, <1>GotWrite, <1>GotProbe DEF Status!Answer, StatusP!Answer
<1>Next. Status!Next <=> StatusP!Next
  BY <1>User, <1>Poll, <1>Serve, <1>Lose, <1>Answer DEF Status!Next, StatusP!Next
<1>vars. (UNCHANGED Status!vars) <=> (UNCHANGED StatusP!vars)
  BY DEF Status!vars, StatusP!vars
<1> QED BY <1>Init, <1>Next, <1>vars, PTL DEF Status!Safety, StatusP!Safety

LEMMA StatusClaims ==
  /\ Status!StatusConstants => StatusP!StatusConstants
  /\ StatusP!ButtonsReleased => Status!ButtonsReleased
  /\ StatusP!SettledPage => Status!SettledPage
<1>StatusConstants. Status!StatusConstants <=> StatusP!StatusConstants
  BY DEF Status!StatusConstants, StatusP!StatusConstants, Status!Monitors, StatusP!Monitors,
      Status!Monitor, StatusP!Monitor
<1>ButtonsReleased. Status!ButtonsReleased <=> StatusP!ButtonsReleased
  BY DEF Status!ButtonsReleased, StatusP!ButtonsReleased
<1>SettledPage. Status!SettledPage <=> StatusP!SettledPage
  BY DEF Status!SettledPage, StatusP!SettledPage, Status!TrueTo, StatusP!TrueTo,
      Status!NoMonitors, StatusP!NoMonitors
<1> QED BY <1>StatusConstants, <1>ButtonsReleased, <1>SettledPage

TabP == INSTANCE BackupsView_proofs WITH
  Invented <- InventedFiles, Default <- DefaultSchedule, Start <- StartSchedule,
  loading <- tabLoading, modal <- tabModal, busy <- tabBusy, calls <- tabCalls,
  moves <- tabMoves, faults <- tabFaults, plain <- tabPlain

LEMMA TabSame ==
  Tab!Spec <=> TabP!Spec
<1>Cardinality. \A S : Tab!Cardinality(S) = TabP!Cardinality(S)
  BY DEF Tab!Cardinality, TabP!Cardinality
<1>Fresh. \A cs, kind, cause : Tab!Fresh(cs, kind, cause) = TabP!Fresh(cs, kind, cause)
  BY <1>Cardinality DEF Tab!Fresh, TabP!Fresh
<1>NewCall. \A cs, kind, cause, file, s : Tab!NewCall(cs, kind, cause, file, s) = TabP!NewCall(cs, kind, cause, file, s)
  BY <1>Fresh DEF Tab!NewCall, TabP!NewCall
<1>Load. \A cs, cause : Tab!Load(cs, cause) = TabP!Load(cs, cause)
  BY <1>NewCall DEF Tab!Load, TabP!Load
<1>Init. Tab!Init <=> TabP!Init
  BY <1>Load DEF Tab!Init, TabP!Init
<1>Sends. \A cs : Tab!Sends(cs) <=> TabP!Sends(cs)
  BY DEF Tab!Sends, TabP!Sends, Tab!Overlap, TabP!Overlap
<1>Refresh. Tab!Refresh <=> TabP!Refresh
  BY <1>Cardinality, <1>Sends, <1>Load DEF Tab!Refresh, TabP!Refresh, Tab!Able, TabP!Able,
      Tab!Agent, TabP!Agent, Tab!Form, TabP!Form, Tab!Modal, TabP!Modal
<1>Ask. \A kind, file, s : Tab!Ask(kind, file, s) <=> TabP!Ask(kind, file, s)
  BY <1>Cardinality, <1>Sends, <1>NewCall DEF Tab!Ask, TabP!Ask, Tab!Able, TabP!Able,
      Tab!Agent, TabP!Agent, Tab!Form, TabP!Form, Tab!Modal, TabP!Modal
<1>SaveSchedule. Tab!SaveSchedule <=> TabP!SaveSchedule
  BY <1>Ask DEF Tab!SaveSchedule, TabP!SaveSchedule
<1>CloseModal. Tab!CloseModal <=> TabP!CloseModal
  BY DEF Tab!CloseModal, TabP!CloseModal, Tab!Held, TabP!Held, Tab!Agent, TabP!Agent, Tab!Form,
      TabP!Form
<1>TypeName. Tab!TypeName <=> TabP!TypeName
  BY DEF Tab!TypeName, TabP!TypeName, Tab!Agent, TabP!Agent, Tab!Form, TabP!Form
<1>CreateBackup. Tab!CreateBackup <=> TabP!CreateBackup
  BY <1>Ask DEF Tab!CreateBackup, TabP!CreateBackup
<1>ConfirmRestore. Tab!ConfirmRestore <=> TabP!ConfirmRestore
  BY <1>Ask DEF Tab!ConfirmRestore, TabP!ConfirmRestore
<1>ConfirmDelete. Tab!ConfirmDelete <=> TabP!ConfirmDelete
  BY <1>Ask DEF Tab!ConfirmDelete, TabP!ConfirmDelete
<1>Schedules. Tab!Schedules = TabP!Schedules
  BY DEF Tab!Schedules, TabP!Schedules
<1>EditSchedule. \A f, s : Tab!EditSchedule(f, s) <=> TabP!EditSchedule(f, s)
  BY <1>Cardinality DEF Tab!EditSchedule, TabP!EditSchedule, Tab!Able, TabP!Able, Tab!Agent,
      TabP!Agent, Tab!Modal, TabP!Modal
<1>OpenModal. \A m, f : Tab!OpenModal(m, f) <=> TabP!OpenModal(m, f)
  BY <1>Cardinality DEF Tab!OpenModal, TabP!OpenModal, Tab!Able, TabP!Able, Tab!Agent,
      TabP!Agent, Tab!Form, TabP!Form
<1>User. Tab!User <=> TabP!User
  BY <1>Refresh, <1>SaveSchedule, <1>CloseModal, <1>TypeName, <1>CreateBackup,
      <1>ConfirmRestore, <1>ConfirmDelete, <1>Schedules, <1>EditSchedule,
      <1>OpenModal DEF Tab!User, TabP!User, Tab!Fields, TabP!Fields
<1>Prune. \A f : Tab!Prune(f) <=> TabP!Prune(f)
  BY DEF Tab!Prune, TabP!Prune, Tab!Form, TabP!Form, Tab!Modal, TabP!Modal
<1>ServeRead. \A c, part : Tab!ServeRead(c, part) <=> TabP!ServeRead(c, part)
  BY DEF Tab!ServeRead, TabP!ServeRead, Tab!Becomes, TabP!Becomes, Tab!Agent, TabP!Agent,
      Tab!Form, TabP!Form, Tab!Modal, TabP!Modal
<1>ServeWrite. \A c : Tab!ServeWrite(c) <=> TabP!ServeWrite(c)
  BY DEF Tab!ServeWrite, TabP!ServeWrite, Tab!Becomes, TabP!Becomes, Tab!Refuses, TabP!Refuses,
      Tab!Form, TabP!Form, Tab!Modal, TabP!Modal
<1>Lose. \A c : Tab!Lose(c) <=> TabP!Lose(c)
  BY DEF Tab!Lose, TabP!Lose, Tab!Becomes, TabP!Becomes, Tab!Agent, TabP!Agent, Tab!Form,
      TabP!Form, Tab!Modal, TabP!Modal
<1>GotLoad. \A c : Tab!GotLoad(c) <=> TabP!GotLoad(c)
  BY <1>Sends DEF Tab!GotLoad, TabP!GotLoad, Tab!Parts, TabP!Parts, Tab!Filled, TabP!Filled,
      Tab!Agent, TabP!Agent, Tab!Modal, TabP!Modal
<1>GotSave. \A c : Tab!GotSave(c) <=> TabP!GotSave(c)
  BY <1>Sends DEF Tab!GotSave, TabP!GotSave, Tab!Form, TabP!Form, Tab!Freed, TabP!Freed,
      Tab!Agent, TabP!Agent, Tab!Modal, TabP!Modal
<1>GotOperation. \A c : Tab!GotOperation(c) <=> TabP!GotOperation(c)
  BY <1>Sends, <1>Load DEF Tab!GotOperation, TabP!GotOperation, Tab!Reported, TabP!Reported,
      Tab!Modal, TabP!Modal, Tab!Freed, TabP!Freed, Tab!Agent, TabP!Agent, Tab!Form, TabP!Form
<1>Next. Tab!Next <=> TabP!Next
  BY <1>User, <1>Prune, <1>ServeRead, <1>ServeWrite, <1>Lose, <1>GotLoad, <1>GotSave,
      <1>GotOperation DEF Tab!Next, TabP!Next, Tab!Parts, TabP!Parts
<1>vars. (UNCHANGED Tab!vars) <=> (UNCHANGED TabP!vars)
  BY DEF Tab!vars, TabP!vars
<1> QED BY <1>Init, <1>Next, <1>vars, PTL DEF Tab!Spec, TabP!Spec

LEMMA TabClaims ==
  /\ Tab!BackupsViewConstants => TabP!BackupsViewConstants
  /\ TabP!TabReleased => Tab!TabReleased
  /\ TabP!OneDestructive => Tab!OneDestructive
  /\ TabP!SavesWhatWasRead => Tab!SavesWhatWasRead
<1>Schedules. Tab!Schedules = TabP!Schedules
  BY DEF Tab!Schedules, TabP!Schedules
<1>BackupsViewConstants. Tab!BackupsViewConstants <=> TabP!BackupsViewConstants
  BY <1>Schedules DEF Tab!BackupsViewConstants, TabP!BackupsViewConstants
<1>TabReleased. Tab!TabReleased <=> TabP!TabReleased
  BY DEF Tab!TabReleased, TabP!TabReleased
<1>OneDestructive. Tab!OneDestructive <=> TabP!OneDestructive
  BY DEF Tab!OneDestructive, TabP!OneDestructive
<1>SavesWhatWasRead. Tab!SavesWhatWasRead <=> TabP!SavesWhatWasRead
  BY DEF Tab!SavesWhatWasRead, TabP!SavesWhatWasRead, Tab!Fields, TabP!Fields
<1> QED BY <1>BackupsViewConstants, <1>TabReleased, <1>OneDestructive, <1>SavesWhatWasRead

----------------------------------------------------------------------------
(* The dashboard *)

\* Whatever the dashboard does, each page does what it does alone, or nothing.
LEMMA PagesInside ==
  WebSafety => Studio!Spec /\ Status!Safety /\ Tab!Spec /\ Spec
<1>1. WebInit => Studio!Init /\ Status!Init /\ Tab!Init /\ Init
  BY DEF WebInit
<1>2. [WebNext]_webVars => [Studio!Next]_(Studio!vars)
  BY DEF WebNext, OnStudio, OnStatus, OnBackups, OnDatabases, OnSchedule, webVars, studioVars,
      Studio!vars
<1>3. [WebNext]_webVars => [Status!Next]_(Status!vars)
  BY DEF WebNext, OnStudio, OnStatus, OnBackups, OnDatabases, OnSchedule, webVars, statusVars,
      Status!vars
<1>4. [WebNext]_webVars => [Tab!Next]_(Tab!vars)
  BY DEF WebNext, OnStudio, OnStatus, OnBackups, OnDatabases, OnSchedule, webVars, tabVars,
      Tab!vars
<1>5. [WebNext]_webVars => [Next]_vars
  BY DEF WebNext, OnStudio, OnStatus, OnBackups, OnDatabases, OnSchedule, webVars, vars
<1> QED BY <1>1, <1>2, <1>3, <1>4, <1>5, PTL
    DEF WebSafety, Studio!Spec, Status!Safety, Tab!Spec, Spec

\* TableStudio: what it deletes or saves it showed, a grid at rest answers its query, and
\* paging reaches every row.
LEMMA StudioInside ==
  WebSafety => [](/\ Studio!NoStuckSpinner /\ Studio!WritesHitWhatWasShown
                  /\ Studio!SettledGrid /\ Studio!EveryRowReachable)
<1>1. StudioP!StudioConstants
  BY DashboardAssumption, StudioClaims
<1>2. StudioP!Spec => /\ []StudioP!NoStuckSpinner /\ []StudioP!WritesHitWhatWasShown
                      /\ []StudioP!SettledGrid /\ []StudioP!EveryRowReachable
  BY <1>1, StudioP!SpinnerCorrect, StudioP!WritesCorrect, StudioP!GridCorrect,
     StudioP!RowsReachable
<1> QED BY <1>2, PagesInside, StudioSame, StudioClaims, PTL

LEMMA StatusInside ==
  WebSafety => [](Status!ButtonsReleased /\ Status!SettledPage)
<1>1. StatusP!StatusConstants
  BY DashboardAssumption, StatusClaims
<1>2. StatusP!Safety => []StatusP!ButtonsReleased /\ []StatusP!SettledPage
  BY <1>1, StatusP!ButtonsSafe, StatusP!SettledSafe
<1> QED BY <1>2, PagesInside, StatusSame, StatusClaims, PTL

LEMMA TabInside ==
  WebSafety => [](Tab!TabReleased /\ Tab!OneDestructive /\ Tab!SavesWhatWasRead)
<1>1. TabP!BackupsViewConstants
  BY DashboardAssumption, TabClaims
<1>2. TabP!Spec => []TabP!TabReleased /\ []TabP!OneDestructive /\ []TabP!SavesWhatWasRead
  BY <1>1, TabP!ButtonsCorrect, TabP!DestructionCorrect, TabP!SaveCorrect
<1> QED BY <1>2, PagesInside, TabSame, TabClaims, PTL

LEMMA CronInside == WebSafety => []CronInv
<1>1. WebInit => CronInv
  <2>1. FirstTyped \in Expressions
    BY DashboardAssumption DEF FirstTyped, Explainer!ExplainerConstants
  <2> QED BY <2>1, DashboardAssumption DEF WebInit, CronInv, Explainer!ExplainerConstants
<1>2. [WebNext]_webVars => [Explainer!Next]_cronVars
  BY DEF WebNext, OnStudio, OnStatus, OnBackups, OnDatabases, OnSchedule, webVars, cronVars
<1>3. CronInv /\ [WebNext]_webVars => CronInv'
  BY <1>2, CronStep, DashboardAssumption
<1> QED BY <1>1, <1>3, PTL DEF WebSafety

\* The databases page keeps its promises as a page of the dashboard.
THEOREM DatabasesInside ==
  WebSpec => [](TypeOK /\ ModalsReleased /\ DropsWhatIsNamed /\ VaultOpens /\ SettledList)
<1>1. Spec => /\ []TypeOK /\ []ModalsReleased /\ []DropsWhatIsNamed
              /\ []VaultOpens /\ []SettledList
  BY DashboardAssumption, TypeCorrect, ButtonsCorrect, DropCorrect, VaultCorrect, ListCorrect
<1> QED BY <1>1, PagesInside, PTL DEF WebSpec

\* On whatever page, a spinner or a button that waits has a request under way that
\* releases it.
THEOREM WaitingEnds == WebSpec => []WaitsEnd
<1>1. Studio!NoStuckSpinner /\ Status!ButtonsReleased /\ Tab!TabReleased => WaitsEnd
  BY DEF WaitsEnd
<1> QED BY <1>1, StudioInside, StatusInside, TabInside, PTL DEF WebSpec

\* The table studio writes to rows it showed, of the table it writes to and by that
\* table's key, unless something went out of the ordinary.
THEOREM WritesInside == WebSpec => []WritesHitWhatWasShown
<1>1. Studio!WritesHitWhatWasShown => WritesHitWhatWasShown
  BY DEF WritesHitWhatWasShown
<1> QED BY <1>1, StudioInside, PTL DEF WebSpec

\* A grid at rest holds what the agent stores for its query.
THEOREM GridInside == WebSpec => []SettledGrid
<1>1. Studio!SettledGrid => SettledGrid
  BY DEF SettledGrid
<1> QED BY <1>1, StudioInside, PTL DEF WebSpec

\* Paging through a table shows all of its rows, for any page size the agent serves.
THEOREM RowsInside == WebSpec => []EveryRowReachable
<1>1. Studio!EveryRowReachable => EveryRowReachable
  BY DEF EveryRowReachable
<1> QED BY <1>1, StudioInside, PTL DEF WebSpec

\* A status page at rest shows the sentinel's monitors if nothing was lost or overlapped.
THEOREM StatusSettles == WebSpec => []SettledPage
<1>1. Status!SettledPage => SettledPage
  BY DEF SettledPage
<1> QED BY <1>1, StatusInside, PTL DEF WebSpec

\* One restore or deletion is under way at most, of the snapshot its modal shows.
THEOREM DestructionInside == WebSpec => []OneDestructive
<1>1. Tab!OneDestructive => OneDestructive
  BY DEF OneDestructive
<1> QED BY <1>1, TabInside, PTL DEF WebSpec

\* Saving the schedule of backups changes what the user edited and nothing else.
THEOREM SavesInside == WebSpec => []SavesWhatWasRead
<1>1. Tab!SavesWhatWasRead => SavesWhatWasRead
  BY DEF SavesWhatWasRead
<1> QED BY <1>1, TabInside, PTL DEF WebSpec

\* Every schedule that can be written, of whatever numbers and lists, runs at the times
\* the explanation says, but for uneven steps, for both kinds of day, and for hours that are
\* named where the agent's host does not run in UTC.
THEOREM ExplanationsHonest == WebSpec => []ExplanationIsHonest
<1>1. CronInv => ExplanationIsHonest
  <2>1. Explainer!ExplainerConstants
    BY DashboardAssumption
  <2> QED BY <2>1, CronHonest DEF ExplanationIsHonest
<1> QED BY <1>1, CronInside, PTL DEF WebSpec

\* The agent refuses no schedule the page explains, but for the number 7 for Sunday, steps
\* with letters behind them, and numbers that only Number() reads.
THEOREM ExplainedTaken == WebSpec => []ExplainedIsTaken
<1>1. CronInv => ExplainedIsTaken
  BY CronTaken DEF ExplainedIsTaken
<1> QED BY <1>1, CronInside, PTL DEF WebSpec
=============================================================================
