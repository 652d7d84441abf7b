------------------------- MODULE Provisioning_proofs -------------------------
(***************************************************************************)
(* Theorems about Provisioning for every number of handlers, every cluster *)
(* at the start, all names in requests and any length a name is cut to.    *)
(***************************************************************************)
EXTENDS Provisioning, SequenceTheorems, TLAPS

----------------------------------------------------------------------------
(* Names *)

LEMMA Words == <<"db">> \in Name /\ <<"usr">> \in Name /\ <<"clone">> \in Name
               /\ Master \in Name /\ NoName \in Name
BY ProvisioningAssumption DEF Name, Master, NoName

LEMMA JoinType ==
  ASSUME NEW m \in Name, NEW n \in Name
  PROVE  m \o n \in Name /\ Len(m \o n) = Len(m) + Len(n)
BY ConcatProperties DEF Name

\* The first parts of a name are a name.
LEMMA FirstParts ==
  ASSUME NEW n \in Name, NEW k \in Nat, k <= Len(n)
  PROVE  /\ SubSeq(n, 1, k) \in Name
         /\ Len(SubSeq(n, 1, k)) = k
         /\ k > 0 => SubSeq(n, 1, k)[1] = n[1]
<1>1. Len(n) \in Nat /\ \A i \in 1..Len(n) : n[i] \in Part
  BY LenProperties, ElementOfSeq DEF Name
<1>2. \A i \in 1..k : n[i] \in Part
  BY <1>1
<1>3. /\ SubSeq(n, 1, k) \in Seq(Part)
      /\ Len(SubSeq(n, 1, k)) = IF 1 <= k THEN k - 1 + 1 ELSE 0
      /\ \A i \in 1 .. k - 1 + 1 : SubSeq(n, 1, k)[i] = n[1 + i - 1]
  BY <1>2, SubSeqProperties
<1> QED BY <1>3 DEF Name

LEMMA CutType ==
  ASSUME NEW n \in Name, n # <<>>
  PROVE  Cut(n) \in Name /\ Cut(n)[1] = n[1]
<1>1. Len(n) \in Nat /\ MaxLen \in Nat /\ MaxLen > 0
  BY ProvisioningAssumption, LenProperties DEF Name
<1>2. CASE Len(n) > MaxLen
  BY <1>1, <1>2, FirstParts DEF Cut
<1>3. CASE ~(Len(n) > MaxLen)
  BY <1>3 DEF Cut
<1> QED BY <1>2, <1>3

LEMMA BareType ==
  ASSUME NEW d \in Name
  PROVE  Bare(d) \in Name
<1>1. Len(d) > 1 => d # <<>>
  OBVIOUS
<1> QED BY <1>1, HeadTailProperties DEF Bare, Name

\* The users of a clone begin with "usr", and the other one is longer.
LEMMA UserType ==
  ASSUME NEW d \in Name
  PROVE  /\ UserOf(d) \in Name /\ UserOf(d)[1] = "usr" /\ UserOf(d) # <<>>
         /\ OtherUserOf(d) \in Name /\ OtherUserOf(d)[1] = "usr" /\ OtherUserOf(d) # <<>>
         /\ Len(UserOf(d)) \in Nat
         /\ Len(OtherUserOf(d)) = Len(UserOf(d)) + 1
<1>1. Bare(d) \in Seq(Part) /\ Len(Bare(d)) \in Nat
  BY BareType, LenProperties DEF Name
<1>2. <<"usr">> \in Seq(Part) /\ <<"clone">> \in Seq(Part)
  BY Words DEF Name
<1>3. /\ UserOf(d) \in Seq(Part)
      /\ Len(UserOf(d)) = 1 + Len(Bare(d))
      /\ UserOf(d)[1] = "usr"
  BY <1>1, <1>2, ConcatProperties DEF UserOf
<1>4. /\ OtherUserOf(d) \in Seq(Part)
      /\ Len(OtherUserOf(d)) = Len(UserOf(d)) + 1
      /\ OtherUserOf(d)[1] = UserOf(d)[1]
  BY <1>1, <1>2, <1>3, ConcatProperties DEF OtherUserOf
<1>5. UserOf(d) # <<>> /\ OtherUserOf(d) # <<>>
  BY <1>1, <1>3, <1>4
<1> QED BY <1>1, <1>3, <1>4, <1>5 DEF Name

LEMMA CloneUserType ==
  ASSUME NEW d \in Name, NEW owner
  PROVE  CloneUser(d, owner) \in Name /\ CloneUser(d, owner)[1] = "usr"
BY UserType, CutType DEF CloneUser

LEMMA DerivedType ==
  ASSUME NEW src \in Name, NEW env \in Name
  PROVE  Derived(src, env) \in Name
<1>1. Len(src) > 2 => SubSeq(src, 1, Len(src) - 1) \in Name
  BY FirstParts, LenProperties DEF Name
<1> QED BY <1>1, JoinType, Words DEF Derived

\* The user of a clone is the owner of its source only where the property
\* SourceSpared says so: its name is cut, or the protected one is left for it.
LEMMA CloneUserSpares ==
  ASSUME NEW d \in Name, NEW owner, CloneUser(d, owner) = owner
  PROVE  Len(OtherUserOf(d)) > MaxLen \/ UserOf(d) = Protected
<1> SUFFICES ASSUME ~(Len(OtherUserOf(d)) > MaxLen)
             PROVE  UserOf(d) = Protected
  OBVIOUS
<1>1. Len(UserOf(d)) \in Nat /\ Len(OtherUserOf(d)) = Len(UserOf(d)) + 1 /\ MaxLen \in Nat
  BY UserType, ProvisioningAssumption
<1>2. Cut(UserOf(d)) = UserOf(d) /\ Cut(OtherUserOf(d)) = OtherUserOf(d)
  BY <1>1 DEF Cut
<1>3. UserOf(d) # OtherUserOf(d)
  BY <1>1
<1>4. UserOf(d) # Master
  BY UserType DEF Master
<1> QED BY <1>2, <1>3, <1>4 DEF CloneUser

----------------------------------------------------------------------------
(* The inductive invariant *)

\* What holds of a request: a name is left to try, the user it has given a password is there with that
\* password, the database it made or found is its user's, and until a clone gives its
\* user a password the source is still whose it was.
Sound(r, users, databases) ==
  /\ r.pc = "probe" => r.op = "clone" /\ r.try < Len(Suffix)
  /\ r.pc = "rotate" => r.op \in {"create", "clone", "reset"}
  /\ HasRotated(r) => /\ r.role \in DOMAIN users
                      /\ r.calm => users[r.role] = r.pw
  /\ r.calm /\ (r.pc \in {"load", "answer"} \/ (r.pc = "rotate" /\ r.op = "reset")) =>
       /\ r.db \in DOMAIN databases
       /\ databases[r.db].owner = r.role
  /\ r.calm /\ r.op = "clone" /\ r.pc \in {"probe", "rotate"} =>
       /\ r.src \in DOMAIN databases
       /\ databases[r.src].owner = r.owner
  /\ r.op = "clone" /\ r.pc = "rotate" => r.role = CloneUser(r.db, r.owner)

UsersOK(users) ==
  /\ users = [u \in DOMAIN users |-> users[u]]
  /\ \A u \in DOMAIN users : u \in Name /\ users[u] \in 0..MaxRequests

DatabasesOK(users, databases) ==
  /\ databases = [d \in DOMAIN databases |-> databases[d]]
  /\ \A d \in DOMAIN databases :
       d \in Name /\ databases[d] \in [owner : DOMAIN users, content : {"empty", "data"}]

IInv ==
  /\ UsersOK(roles)
  /\ DatabasesOK(roles, dbs)
  /\ req \in [Handlers -> Request]
  /\ accepted \in 0..MaxRequests
  /\ \A h \in Handlers : Sound(req[h], roles, dbs)

LEMMA IdleType ==
  /\ Idle \in Request
  /\ \A users, databases : Sound(Idle, users, databases)
<1>1. Idle \in Request
  BY Words, ProvisioningAssumption, LenProperties DEF Idle, Request
<1>2. \A users, databases : Sound(Idle, users, databases)
  BY DEF Idle, Sound, HasRotated
<1> QED BY <1>1, <1>2

----------------------------------------------------------------------------
(* Replacing one request *)

\* A step that changes one request only, to one that is sound.
LEMMA ReplaceOne ==
  ASSUME IInv, NEW h \in Handlers, NEW r \in Request,
         req' = [req EXCEPT ![h] = r],
         UNCHANGED <<roles, dbs>>,
         accepted' \in 0..MaxRequests,
         Sound(r, roles, dbs)
  PROVE  IInv'
<1>1. req' \in [Handlers -> Request]
  BY DEF IInv
<1>2. \A k \in Handlers : Sound(req'[k], roles', dbs')
  BY DEF IInv
<1> QED BY <1>1, <1>2 DEF IInv

LEMMA FinishInv ==
  ASSUME IInv, NEW h \in Handlers, Finish(h), UNCHANGED <<roles, dbs, accepted>>
  PROVE  IInv'
<1>1. accepted' \in 0..MaxRequests
  BY DEF IInv
<1> QED BY <1>1, IdleType, ReplaceOne DEF Finish

LEMMA GoToRecord ==
  ASSUME IInv, NEW h \in Handlers, NEW pc \in {"count", "copy", "make", "load", "answer"},
         GoTo(h, pc)
  PROVE  /\ [req[h] EXCEPT !.pc = pc] \in Request
         /\ req' = [req EXCEPT ![h] = [req[h] EXCEPT !.pc = pc]]
BY DEF IInv, GoTo, Request

----------------------------------------------------------------------------
(* Requests come in *)

LEMMA AcceptInv ==
  ASSUME IInv, NEW h \in Handlers, NEW r \in Request, Accept(h, r),
         Sound(r, roles, dbs), ~HasRotated(r)
  PROVE  IInv'
<1> DEFINE s == [r EXCEPT !.pw = accepted + 1]
<1>1. accepted \in Nat /\ MaxRequests \in Nat /\ accepted + 1 \in 0..MaxRequests
  BY ProvisioningAssumption DEF IInv, Accept
<1>2. s \in Request
  BY <1>1 DEF Request
<1>3. /\ s.pc = r.pc /\ s.op = r.op /\ s.db = r.db /\ s.src = r.src /\ s.owner = r.owner
      /\ s.role = r.role /\ s.calm = r.calm
  BY DEF Request
<1>4. Sound(s, roles, dbs)
  BY <1>3 DEF Sound, HasRotated
<1>5. req' = [req EXCEPT ![h] = s] /\ UNCHANGED <<roles, dbs>> /\ accepted' = accepted + 1
  BY DEF Accept
<1> HIDE DEF s
<1> QED BY <1>1, <1>2, <1>4, <1>5, ReplaceOne

LEMMA CreateDatabaseInv ==
  ASSUME IInv, NEW h \in Handlers, CreateDatabase(h)
  PROVE  IInv'
<1> PICK proj \in Projects, env \in Envs :
      Accept(h, [Idle EXCEPT !.op = "create", !.pc = "rotate",
                             !.db = <<"db">> \o proj \o env, !.role = <<"usr">> \o proj])
  BY DEF CreateDatabase
<1> DEFINE d == <<"db">> \o proj \o env
           u == <<"usr">> \o proj
           r == [Idle EXCEPT !.op = "create", !.pc = "rotate", !.db = d, !.role = u]
<1>1. d \in Name /\ u \in Name
  BY Words, JoinType, ProvisioningAssumption
<1> HIDE DEF d, u
<1>2. r \in Request
  BY <1>1, IdleType DEF Request
<1>3. Sound(r, roles, dbs) /\ ~HasRotated(r)
  BY IdleType DEF Sound, HasRotated, Request
<1>4. Accept(h, r)
  BY DEF d, u
<1> HIDE DEF r
<1> QED BY <1>2, <1>3, <1>4, AcceptInv

LEMMA CloneDatabaseInv ==
  ASSUME IInv, NEW h \in Handlers, CloneDatabase(h)
  PROVE  IInv'
<1> PICK src \in DOMAIN dbs, env \in Envs, target \in Targets :
      LET base == IF target = NoName THEN Derived(src, env) ELSE target
      IN Accept(h, [Idle EXCEPT !.op = "clone", !.pc = "probe", !.db = base, !.src = src,
                                !.owner = dbs[src].owner, !.base = base])
  BY DEF CloneDatabase
<1> DEFINE base == IF target = NoName THEN Derived(src, env) ELSE target
           owner == dbs[src].owner
           r == [Idle EXCEPT !.op = "clone", !.pc = "probe", !.db = base, !.src = src,
                             !.owner = owner, !.base = base]
<1>1. src \in Name /\ owner \in Name
  BY DEF IInv, UsersOK, DatabasesOK
<1>2. base \in Name
  BY <1>1, DerivedType, ProvisioningAssumption
<1> HIDE DEF base
<1>3. r \in Request
  BY <1>1, <1>2, IdleType DEF Request
<1>4. Sound(r, roles, dbs) /\ ~HasRotated(r)
  <2>1. 0 < Len(Suffix)
    BY ProvisioningAssumption, EmptySeq
  <2> QED BY <2>1, IdleType DEF Idle, Sound, HasRotated, Request
<1>5. Accept(h, r)
  BY DEF base
<1> HIDE DEF r
<1> QED BY <1>3, <1>4, <1>5, AcceptInv

LEMMA ResetDatabasePasswordInv ==
  ASSUME IInv, NEW h \in Handlers, ResetDatabasePassword(h)
  PROVE  IInv'
<1> PICK d \in DOMAIN dbs :
      Accept(h, [Idle EXCEPT !.op = "reset", !.pc = "rotate", !.db = d,
                             !.role = dbs[d].owner])
  BY DEF ResetDatabasePassword
<1> DEFINE owner == dbs[d].owner
           r == [Idle EXCEPT !.op = "reset", !.pc = "rotate", !.db = d, !.role = owner]
<1>1. d \in Name /\ owner \in Name
  BY DEF IInv, UsersOK, DatabasesOK
<1>2. r \in Request
  BY <1>1, IdleType DEF Request
<1>3. Sound(r, roles, dbs) /\ ~HasRotated(r)
  BY IdleType DEF Sound, HasRotated, Request
<1>4. Accept(h, r)
  OBVIOUS
<1> HIDE DEF r
<1> QED BY <1>2, <1>3, <1>4, AcceptInv

LEMMA DeleteDatabaseInv ==
  ASSUME IInv, NEW h \in Handlers, DeleteDatabase(h)
  PROVE  IInv'
<1> PICK d \in DOMAIN dbs \ System :
      Accept(h, [Idle EXCEPT !.op = "delete", !.pc = "drop", !.db = d])
  BY DEF DeleteDatabase
<1> DEFINE r == [Idle EXCEPT !.op = "delete", !.pc = "drop", !.db = d]
<1>1. d \in Name
  BY DEF IInv, DatabasesOK
<1>2. r \in Request
  BY <1>1, IdleType DEF Request
<1>3. Sound(r, roles, dbs) /\ ~HasRotated(r)
  BY IdleType DEF Sound, HasRotated, Request
<1>4. Accept(h, r)
  OBVIOUS
<1> HIDE DEF r
<1> QED BY <1>2, <1>3, <1>4, AcceptInv

----------------------------------------------------------------------------
(* Steps that change the request only *)

LEMMA SettleInv ==
  ASSUME IInv, NEW h \in Handlers, NEW d \in Name, At(h, "probe"), Settle(h, d),
         UNCHANGED <<roles, dbs, accepted>>
  PROVE  IInv'
<1> DEFINE u == CloneUser(d, req[h].owner)
           r == [req[h] EXCEPT !.pc = "rotate", !.db = d, !.role = u]
<1>1. u \in Name
  BY CloneUserType
<1>2. u = CloneUser(d, req[h].owner)
  OBVIOUS
<1> HIDE DEF u
<1>3. r \in Request
  BY <1>1 DEF IInv, Request
<1>4. Sound(r, roles, dbs)
  BY <1>2 DEF IInv, At, Request, Sound, HasRotated
<1>5. req' = [req EXCEPT ![h] = r] /\ accepted' \in 0..MaxRequests
  BY DEF Settle, u, IInv, Request
<1> HIDE DEF r
<1> QED BY <1>3, <1>4, <1>5, ReplaceOne

LEMMA FindFreeNameInv ==
  ASSUME IInv, NEW h \in Handlers, FindFreeName(h)
  PROVE  IInv'
<1>1. req[h].db \in Name
  BY DEF IInv, Request
<1> QED BY <1>1, SettleInv DEF FindFreeName

LEMMA TryNextNameInv ==
  ASSUME IInv, NEW h \in Handlers, TryNextName(h)
  PROVE  IInv'
<1> DEFINE try == req[h].try + 1
           next == req[h].base \o <<Suffix[try]>>
           r == [req[h] EXCEPT !.db = next, !.try = try]
<1>1. Suffix \in Seq(Part) /\ Len(Suffix) \in Nat
  BY ProvisioningAssumption, LenProperties
<1>2. try \in 1..Len(Suffix)
  BY <1>1 DEF IInv, TryNextName, At, Request, Sound
<1>3. Suffix[try] \in Part
  BY <1>1, <1>2, ElementOfSeq
<1>4. <<Suffix[try]>> \in Name
  BY <1>3 DEF Name
<1>5. next \in Name
  BY <1>4, JoinType DEF IInv, Request
<1> HIDE DEF next
<1>6. CASE try = Len(Suffix)
  <2>1. Settle(h, next)
    BY <1>6 DEF TryNextName, next
  <2> QED BY <1>5, <2>1, SettleInv DEF TryNextName
<1>7. CASE try # Len(Suffix)
  <2>1. r \in Request
    <3>1. try \in 0..Len(Suffix)
      BY <1>1, <1>2
    <3> HIDE DEF try
    <3> QED BY <1>5, <3>1 DEF IInv, Request
  <2>2. Sound(r, roles, dbs)
    <3>1. try < Len(Suffix)
      BY <1>1, <1>2, <1>7
    <3> QED BY <3>1 DEF IInv, TryNextName, At, Request, Sound, HasRotated
  <2>3. req' = [req EXCEPT ![h] = r] /\ accepted' \in 0..MaxRequests
    <3>1. req' = [req EXCEPT ![h].db = next, ![h].try = try]
      BY <1>7 DEF TryNextName, next
    <3> HIDE DEF try
    <3> QED BY <3>1 DEF IInv, Request, TryNextName
  <2> HIDE DEF r, try
  <2> QED BY <2>1, <2>2, <2>3, ReplaceOne DEF TryNextName
<1> QED BY <1>6, <1>7

LEMMA CheckNameInv ==
  ASSUME IInv, NEW h \in Handlers, CheckName(h)
  PROVE  IInv'
<1>1. CASE Finish(h)
  BY <1>1, FinishInv DEF CheckName
<1>2. CASE GoTo(h, "make")
  <2> DEFINE r == [req[h] EXCEPT !.pc = "make"]
  <2>1. r \in Request /\ req' = [req EXCEPT ![h] = r]
    BY <1>2, GoToRecord
  <2>2. Sound(r, roles, dbs)
    BY DEF IInv, CheckName, At, Request, Sound, HasRotated
  <2>3. accepted' \in 0..MaxRequests
    BY DEF CheckName, IInv
  <2> HIDE DEF r
  <2> QED BY <2>1, <2>2, <2>3, ReplaceOne DEF CheckName
<1> QED BY <1>1, <1>2 DEF CheckName

LEMMA CountConnectionsInv ==
  ASSUME IInv, NEW h \in Handlers, CountConnections(h)
  PROVE  IInv'
<1> PICK pc \in {"copy", "make"} : GoTo(h, pc)
  BY DEF CountConnections
<1> DEFINE r == [req[h] EXCEPT !.pc = pc]
<1>1. r \in Request /\ req' = [req EXCEPT ![h] = r]
  BY GoToRecord
<1>2. Sound(r, roles, dbs)
  BY DEF IInv, CountConnections, At, Request, Sound, HasRotated
<1>3. accepted' \in 0..MaxRequests
  BY DEF CountConnections, IInv
<1> HIDE DEF r
<1> QED BY <1>1, <1>2, <1>3, ReplaceOne DEF CountConnections

LEMMA AnswerInv ==
  ASSUME IInv, NEW h \in Handlers, Answer(h)
  PROVE  IInv'
BY FinishInv DEF Answer

----------------------------------------------------------------------------
(* A password is set *)

LEMMA WithUser ==
  ASSUME NEW users, NEW databases, UsersOK(users), DatabasesOK(users, databases),
         NEW u \in Name, NEW p \in 0..MaxRequests
  PROVE  UsersOK(With(users, u, p)) /\ DatabasesOK(With(users, u, p), databases)
<1> DEFINE w == With(users, u, p)
<1>1. /\ DOMAIN w = DOMAIN users \cup {u}
      /\ w[u] = p
      /\ \A v \in DOMAIN users \ {u} : w[v] = users[v]
      /\ w = [v \in DOMAIN w |-> w[v]]
  BY DEF With
<1> HIDE DEF w
<1>2. UsersOK(w) /\ DatabasesOK(w, databases)
  BY <1>1 DEF UsersOK, DatabasesOK
<1> QED BY <1>2 DEF w

\* A request is told that the password of its user changed under it.
LEMMA OthersAfterPassword ==
  ASSUME NEW users, NEW databases, UsersOK(users), DatabasesOK(users, databases),
         NEW u \in Name, NEW p \in 0..MaxRequests,
         NEW r \in Request, Sound(r, users, databases)
  PROVE  LET s == [r EXCEPT !.calm = @ /\ ~(HasRotated(r) /\ r.role = u)]
         IN s \in Request /\ Sound(s, With(users, u, p), databases)
<1> DEFINE c == r.calm /\ ~(HasRotated(r) /\ r.role = u)
           s == [r EXCEPT !.calm = c]
<1>1. c \in BOOLEAN /\ (c => r.calm) /\ (c => ~(HasRotated(r) /\ r.role = u))
  BY DEF Request
<1> HIDE DEF c
<1>2. /\ s \in Request
      /\ s.pc = r.pc /\ s.op = r.op /\ s.db = r.db /\ s.src = r.src /\ s.owner = r.owner
      /\ s.role = r.role /\ s.pw = r.pw /\ s.try = r.try /\ s.calm = c
  BY <1>1 DEF Request
<1> HIDE DEF s
<1>3. HasRotated(s) <=> HasRotated(r)
  BY <1>2 DEF HasRotated
<1>4. Sound(s, With(users, u, p), databases)
  <2> DEFINE w == With(users, u, p)
  <2>1. DOMAIN users \subseteq DOMAIN w /\ \A v \in DOMAIN users \ {u} : w[v] = users[v]
    BY DEF With
  <2> HIDE DEF w
  <2>2. HasRotated(s) => s.role \in DOMAIN w /\ (s.calm => w[s.role] = s.pw)
    BY <1>1, <1>2, <1>3, <2>1 DEF Sound
  <2>3. Sound(s, w, databases)
    BY <1>1, <1>2, <2>2 DEF Sound
  <2> QED BY <2>3 DEF w
<1>5. s = [r EXCEPT !.calm = @ /\ ~(HasRotated(r) /\ r.role = u)]
  BY DEF s, c, Request
<1> QED BY <1>2, <1>4, <1>5

LEMMA SetPasswordInv ==
  ASSUME IInv, NEW h \in Handlers, NEW after \in Request, SetPassword(h, after),
         Sound(after, With(roles, req[h].role, req[h].pw), dbs),
         UNCHANGED <<dbs, accepted>>
  PROVE  IInv'
<1> DEFINE u == req[h].role
           p == req[h].pw
           Told(k) == [req[k] EXCEPT !.calm = @ /\ ~(HasRotated(req[k]) /\ req[k].role = u)]
<1>1. u \in Name /\ p \in 0..MaxRequests
  BY DEF IInv, Request
<1>2. roles' = With(roles, u, p) /\ req' = [k \in Handlers |-> IF k = h THEN after ELSE Told(k)]
  BY DEF SetPassword
<1>3. UsersOK(roles') /\ DatabasesOK(roles', dbs')
  BY <1>1, <1>2, WithUser DEF IInv
<1>4. \A k \in Handlers : Told(k) \in Request /\ Sound(Told(k), roles', dbs')
  <2> SUFFICES ASSUME NEW k \in Handlers
               PROVE  Told(k) \in Request /\ Sound(Told(k), roles', dbs')
    OBVIOUS
  <2>1. req[k] \in Request /\ Sound(req[k], roles, dbs)
    BY DEF IInv
  <2> QED BY <1>1, <1>2, <2>1, OthersAfterPassword DEF IInv
<1>5. \A k \in Handlers : req'[k] = IF k = h THEN after ELSE Told(k)
  BY <1>2
<1> HIDE DEF u, p, Told
<1>7. req' \in [Handlers -> Request]
  BY <1>2, <1>4
<1>8. \A k \in Handlers : Sound(req'[k], roles', dbs')
  BY <1>2, <1>4, <1>5 DEF u, p
<1> QED BY <1>3, <1>7, <1>8 DEF IInv

LEMMA RotatePasswordInv ==
  ASSUME IInv, NEW h \in Handlers, RotatePassword(h)
  PROVE  IInv'
<1> DEFINE pc == NextStep(req[h].op)
           r == [req[h] EXCEPT !.pc = pc]
           users == With(roles, req[h].role, req[h].pw)
<1>1. CASE SetPassword(h, r)
  <2>1. req[h] \in Request /\ Sound(req[h], roles, dbs) /\ req[h].pc = "rotate"
    BY DEF IInv, RotatePassword, At
  <2>2. pc \in {"check", "count", "answer"} /\ (pc = "answer" => req[h].op = "reset")
    BY <2>1 DEF Sound, NextStep
  <2> HIDE DEF pc
  <2>3. /\ r \in Request
        /\ r.pc = pc /\ r.op = req[h].op /\ r.db = req[h].db /\ r.role = req[h].role
        /\ r.pw = req[h].pw /\ r.calm = req[h].calm
    BY <2>1, <2>2 DEF Request
  <2>4. r.role \in DOMAIN users /\ users[r.role] = r.pw
    <3>1. req[h].role \in DOMAIN users /\ users[req[h].role] = req[h].pw
      BY DEF With
    <3> QED BY <2>3, <3>1
  <2> HIDE DEF r, users
  <2>5. Sound(r, users, dbs)
    BY <2>1, <2>2, <2>3, <2>4 DEF Sound, HasRotated
  <2> QED BY <1>1, <2>3, <2>5, SetPasswordInv DEF RotatePassword, users
<1>2. CASE SetPassword(h, Idle)
  <2>1. Idle \in Request /\ Sound(Idle, users, dbs)
    BY IdleType DEF Idle
  <2> QED BY <1>2, <2>1, SetPasswordInv DEF RotatePassword
<1>3. CASE Finish(h) /\ UNCHANGED roles
  BY <1>3, FinishInv DEF RotatePassword
<1> QED BY <1>1, <1>2, <1>3 DEF RotatePassword

----------------------------------------------------------------------------
(* A database is made *)

\* A new database leaves the sound requests sound.
LEMMA NewDatabaseType ==
  ASSUME IInv, NEW h \in Handlers, NEW c \in {"empty", "data"}, NewDatabase(h, c),
         HasRotated(req[h]), UNCHANGED roles
  PROVE  /\ DatabasesOK(roles', dbs')
         /\ req[h].db \in DOMAIN dbs' /\ dbs'[req[h].db].owner = req[h].role
         /\ \A r \in Request : Sound(r, roles, dbs) => Sound(r, roles', dbs')
<1> DEFINE d == req[h].db
           v == [owner |-> req[h].role, content |-> c]
<1>1. d \in Name /\ d \notin DOMAIN dbs /\ req[h].role \in DOMAIN roles
  BY DEF IInv, Request, NewDatabase, Sound
<1>2. v \in [owner : DOMAIN roles, content : {"empty", "data"}] /\ v.owner = req[h].role
  BY <1>1
<1>3. dbs' = With(dbs, d, v)
  BY DEF NewDatabase
<1>4. /\ DOMAIN dbs' = DOMAIN dbs \cup {d}
      /\ dbs'[d] = v
      /\ \A e \in DOMAIN dbs : dbs'[e] = dbs[e]
      /\ dbs' = [e \in DOMAIN dbs' |-> dbs'[e]]
  BY <1>1, <1>3 DEF With
<1> HIDE DEF d, v
<1>5. DatabasesOK(roles', dbs')
  BY <1>1, <1>2, <1>4 DEF IInv, DatabasesOK
<1>6. \A r \in Request : Sound(r, roles, dbs) => Sound(r, roles', dbs')
  BY <1>4 DEF Sound
<1> QED BY <1>2, <1>4, <1>5, <1>6 DEF d

\* The database is made and the request goes on, possibly to load.
LEMMA NewDatabaseInv ==
  ASSUME IInv, NEW h \in Handlers, NEW c \in {"empty", "data"}, NewDatabase(h, c),
         req[h].pc \in {"copy", "make"},
         NEW r \in Request, req' = [req EXCEPT ![h] = r],
         \/ r = Idle
         \/ \E pc \in {"make", "load", "answer"} : r = [req[h] EXCEPT !.pc = pc],
         UNCHANGED <<roles, accepted>>
  PROVE  IInv'
<1>1. HasRotated(req[h]) /\ req[h] \in Request /\ Sound(req[h], roles, dbs)
  BY DEF HasRotated, IInv
<1>2. /\ DatabasesOK(roles', dbs')
      /\ req[h].db \in DOMAIN dbs' /\ dbs'[req[h].db].owner = req[h].role
      /\ \A q \in Request : Sound(q, roles, dbs) => Sound(q, roles', dbs')
  BY <1>1, NewDatabaseType
<1>3. Sound(r, roles', dbs')
  <2>1. CASE r = Idle
    BY <2>1, IdleType
  <2>2. CASE r # Idle
    <3>1. PICK pc \in {"make", "load", "answer"} : r = [req[h] EXCEPT !.pc = pc]
      BY <2>2
    <3>2. /\ r.pc = pc /\ r.op = req[h].op /\ r.db = req[h].db /\ r.role = req[h].role
          /\ r.pw = req[h].pw /\ r.calm = req[h].calm
      BY <1>1, <3>1 DEF Request
    <3> QED BY <1>1, <1>2, <3>2 DEF Sound, HasRotated
  <2> QED BY <2>1, <2>2
<1>4. \A k \in Handlers : Sound(req'[k], roles', dbs')
  BY <1>2, <1>3 DEF IInv
<1>8. req' \in [Handlers -> Request] /\ UsersOK(roles') /\ accepted' \in 0..MaxRequests
  BY DEF IInv
<1> QED BY <1>2, <1>4, <1>8 DEF IInv

LEMMA CopyTemplateInv ==
  ASSUME IInv, NEW h \in Handlers, CopyTemplate(h)
  PROVE  IInv'
<1>1. CASE /\ req[h].src \in DOMAIN dbs
           /\ NewDatabase(h, dbs[req[h].src].content)
           /\ \E pc \in {"answer", "make"} : GoTo(h, pc)
  <2>1. dbs[req[h].src].content \in {"empty", "data"}
    BY <1>1 DEF IInv, DatabasesOK
  <2>2. PICK pc \in {"answer", "make"} : GoTo(h, pc)
    BY <1>1
  <2>3. /\ [req[h] EXCEPT !.pc = pc] \in Request
        /\ req' = [req EXCEPT ![h] = [req[h] EXCEPT !.pc = pc]]
    BY <2>2, GoToRecord
  <2> QED BY <1>1, <2>1, <2>3, NewDatabaseInv DEF CopyTemplate, At
<1>2. CASE GoTo(h, "make") /\ UNCHANGED dbs
  <2> DEFINE r == [req[h] EXCEPT !.pc = "make"]
  <2>1. r \in Request /\ req' = [req EXCEPT ![h] = r]
    BY <1>2, GoToRecord
  <2>2. Sound(r, roles, dbs)
    BY DEF IInv, CopyTemplate, At, Request, Sound, HasRotated
  <2>3. accepted' \in 0..MaxRequests
    BY DEF CopyTemplate, IInv
  <2> HIDE DEF r
  <2> QED BY <1>2, <2>1, <2>2, <2>3, ReplaceOne DEF CopyTemplate
<1> QED BY <1>1, <1>2 DEF CopyTemplate

LEMMA MakeDatabaseInv ==
  ASSUME IInv, NEW h \in Handlers, MakeDatabase(h)
  PROVE  IInv'
<1>1. CASE NewDatabase(h, "empty") /\ Finish(h)
  BY <1>1, IdleType, NewDatabaseInv DEF MakeDatabase, Finish, At
<1>2. CASE NewDatabase(h, "empty")
           /\ GoTo(h, IF req[h].op = "clone" THEN "load" ELSE "answer")
  <2> DEFINE pc == IF req[h].op = "clone" THEN "load" ELSE "answer"
  <2>1. pc \in {"load", "answer"} /\ GoTo(h, pc)
    BY <1>2
  <2> HIDE DEF pc
  <2>2. /\ [req[h] EXCEPT !.pc = pc] \in Request
        /\ req' = [req EXCEPT ![h] = [req[h] EXCEPT !.pc = pc]]
    BY <2>1, GoToRecord
  <2> QED BY <1>2, <2>1, <2>2, NewDatabaseInv DEF MakeDatabase, At
<1>3. CASE Finish(h) /\ UNCHANGED dbs
  BY <1>3, FinishInv DEF MakeDatabase
<1> QED BY <1>1, <1>2, <1>3 DEF MakeDatabase

----------------------------------------------------------------------------
(* A dump is loaded *)

LEMMA LoadDumpInv ==
  ASSUME IInv, NEW h \in Handlers, LoadDump(h)
  PROVE  IInv'
<1> DEFINE d == req[h].db
           r == [req[h] EXCEPT !.pc = "answer"]
<1>1. /\ DOMAIN dbs' = DOMAIN dbs
      /\ dbs' = [e \in DOMAIN dbs' |-> dbs'[e]]
      /\ \A e \in DOMAIN dbs : /\ dbs'[e].owner = dbs[e].owner
                               /\ dbs'[e] \in [owner : DOMAIN roles,
                                               content : {"empty", "data"}]
  <2>1. CASE UNCHANGED dbs
    BY <2>1 DEF IInv, DatabasesOK
  <2>2. CASE d \in DOMAIN dbs /\ dbs' = [dbs EXCEPT ![d].content = "data"]
    BY <2>2 DEF IInv, DatabasesOK
  <2> QED BY <2>1, <2>2 DEF LoadDump
<1>2. r \in Request /\ req' = [req EXCEPT ![h] = r]
  BY GoToRecord DEF LoadDump
<1>3. Sound(r, roles, dbs)
  BY DEF IInv, LoadDump, At, Request, Sound, HasRotated
<1> HIDE DEF d, r
<1>4. UNCHANGED <<roles, accepted>>
  BY DEF LoadDump
<1>5. \A q \in Request : Sound(q, roles, dbs) => Sound(q, roles', dbs')
  BY <1>1, <1>4 DEF Sound
<1>6. \A k \in Handlers : Sound(req'[k], roles', dbs')
  BY <1>2, <1>3, <1>5 DEF IInv
<1>8. DatabasesOK(roles', dbs')
  BY <1>1, <1>4 DEF IInv, DatabasesOK
<1> QED BY <1>2, <1>4, <1>6, <1>8 DEF IInv

----------------------------------------------------------------------------
(* A database is dropped *)

\* A request is told that a database of its own was dropped.
LEMMA OthersAfterDrop ==
  ASSUME IInv, NEW d, dbs' = [e \in DOMAIN dbs \ {d} |-> dbs[e]], UNCHANGED roles,
         NEW r \in Request, Sound(r, roles, dbs)
  PROVE  LET s == [r EXCEPT !.calm = @ /\ d \notin {r.db, r.src}]
         IN s \in Request /\ Sound(s, roles', dbs')
<1> DEFINE c == r.calm /\ d \notin {r.db, r.src}
           s == [r EXCEPT !.calm = c]
<1>1. c \in BOOLEAN /\ (c => r.calm) /\ (c => d # r.db /\ d # r.src)
  BY DEF Request
<1> HIDE DEF c
<1>2. /\ s \in Request
      /\ s.pc = r.pc /\ s.op = r.op /\ s.db = r.db /\ s.src = r.src /\ s.owner = r.owner
      /\ s.role = r.role /\ s.pw = r.pw /\ s.try = r.try /\ s.calm = c
  BY <1>1 DEF Request
<1>3. s = [r EXCEPT !.calm = @ /\ d \notin {r.db, r.src}]
  BY DEF s, c, Request
<1> HIDE DEF s
<1>4. /\ DOMAIN dbs' = DOMAIN dbs \ {d}
      /\ \A e \in DOMAIN dbs \ {d} : dbs'[e] = dbs[e]
  OBVIOUS
<1>5. Sound(s, roles', dbs')
  BY <1>1, <1>2, <1>4 DEF Sound, HasRotated
<1> QED BY <1>2, <1>3, <1>5

LEMMA DropDatabaseInv ==
  ASSUME IInv, NEW h \in Handlers, DropDatabase(h)
  PROVE  IInv'
<1> DEFINE d == req[h].db
           Told(k) == [req[k] EXCEPT !.calm = @ /\ d \notin {req[k].db, req[k].src}]
<1>1. CASE /\ dbs' = [e \in DOMAIN dbs \ {d} |-> dbs[e]]
           /\ req' = [k \in Handlers |-> IF k = h THEN Idle ELSE Told(k)]
  <2>1. UNCHANGED <<roles, accepted>>
    BY DEF DropDatabase
  <2>2. \A k \in Handlers : Told(k) \in Request /\ Sound(Told(k), roles', dbs')
    <3> SUFFICES ASSUME NEW k \in Handlers
                 PROVE  Told(k) \in Request /\ Sound(Told(k), roles', dbs')
      OBVIOUS
    <3>1. req[k] \in Request /\ Sound(req[k], roles, dbs)
      BY DEF IInv
    <3> QED BY <1>1, <2>1, <3>1, OthersAfterDrop
  <2>3. \A k \in Handlers : req'[k] = IF k = h THEN Idle ELSE Told(k)
    BY <1>1
  <2>5. DatabasesOK(roles', dbs')
    BY <1>1, <2>1 DEF IInv, DatabasesOK
  <2> HIDE DEF Told
  <2>6. req' \in [Handlers -> Request]
    BY <1>1, <2>2, IdleType
  <2>7. \A k \in Handlers : Sound(req'[k], roles', dbs')
    BY <2>2, <2>3, IdleType
  <2> QED BY <2>1, <2>5, <2>6, <2>7 DEF IInv
<1>2. CASE Finish(h) /\ UNCHANGED dbs
  BY <1>2, FinishInv DEF DropDatabase
<1> QED BY <1>1, <1>2 DEF DropDatabase

----------------------------------------------------------------------------
(* The invariant holds *)

LEMMA InitInv == Init => IInv
<1> SUFFICES ASSUME Init PROVE IInv
  OBVIOUS
<1>1. \A d \in DOMAIN FirstOwner : d \in Name /\ FirstOwner[d] \in Name
  BY ProvisioningAssumption
<1>2. FirstRoles \subseteq Name /\ \A d \in DOMAIN FirstOwner : FirstOwner[d] \in FirstRoles
  BY <1>1, Words DEF FirstRoles
<1>3. UsersOK(roles)
  BY <1>2, ProvisioningAssumption DEF Init, UsersOK
<1>4. DatabasesOK(roles, dbs)
  BY <1>1, <1>2 DEF Init, DatabasesOK
<1>5. req \in [Handlers -> Request] /\ \A h \in Handlers : Sound(req[h], roles, dbs)
  BY IdleType DEF Init
<1>7. accepted \in 0..MaxRequests
  BY ProvisioningAssumption DEF Init
<1> QED BY <1>3, <1>4, <1>5, <1>7 DEF IInv

LEMMA NextInv == IInv /\ [Next]_vars => IInv'
<1> SUFFICES ASSUME IInv, [Next]_vars PROVE IInv'
  OBVIOUS
<1>1. CASE Next
  <2> PICK h \in Handlers : Arrive(h) \/ Proceed(h)
    BY <1>1 DEF Next
  <2>1. CASE Arrive(h)
    BY <2>1, CreateDatabaseInv, CloneDatabaseInv, ResetDatabasePasswordInv,
       DeleteDatabaseInv DEF Arrive
  <2>2. CASE Proceed(h)
    BY <2>2, FindFreeNameInv, TryNextNameInv, RotatePasswordInv, CheckNameInv,
       CountConnectionsInv, CopyTemplateInv, MakeDatabaseInv, LoadDumpInv, AnswerInv,
       DropDatabaseInv DEF Proceed
  <2> QED BY <2>1, <2>2
<1>2. CASE UNCHANGED vars
  BY <1>2 DEF vars, IInv
<1> QED BY <1>1, <1>2

LEMMA Inductive == Spec => []IInv
BY InitInv, NextInv, PTL DEF Spec

----------------------------------------------------------------------------
(* Theorems *)

\* Users, databases and requests are well formed at every time: no statement makes a
\* database for a user that does not exist.
THEOREM TypeCorrect == Spec => []TypeOK
<1>1. IInv => TypeOK
  BY DEF IInv, UsersOK, DatabasesOK, TypeOK
<1> QED BY <1>1, Inductive, PTL

\* A connection string that CreateDatabase, CloneDatabase or ResetDatabasePassword
\* answers works, unless another request changed the password or dropped a database.
THEOREM AnswersCorrect == Spec => []AnswerWorks
<1>1. IInv => AnswerWorks
  BY DEF IInv, Sound, AnswerWorks, At, HasRotated
<1> QED BY <1>1, Inductive, PTL

\* A clone changes the password of the source's owner only where the guard of
\* CloneDatabase lets it: with a cut name or with the protected user's.
THEOREM SourceSparedAlways == Spec => SourceSpared
<1>1. IInv /\ [Next]_vars =>
        [\A h \in Handlers : RotatePassword(h) /\ HitsSource(h) =>
           \/ Len(OtherUserOf(req[h].db)) > MaxLen
           \/ UserOf(req[h].db) = Protected]_vars
  <2> SUFFICES ASSUME IInv, NEW h \in Handlers, RotatePassword(h), HitsSource(h)
               PROVE  \/ Len(OtherUserOf(req[h].db)) > MaxLen
                      \/ UserOf(req[h].db) = Protected
    OBVIOUS
  <2> DEFINE owner == dbs[req[h].src].owner
  <2>1. /\ req[h].op = "clone" /\ req[h].pc = "rotate" /\ req[h].calm
        /\ req[h].src \in DOMAIN dbs
        /\ roles'[owner] # roles[owner]
    BY DEF HitsSource, At
  <2>2. req[h].role = CloneUser(req[h].db, owner) /\ req[h].db \in Name
    BY <2>1 DEF IInv, Sound, Request
  <2>3. owner \in DOMAIN roles
    BY <2>1 DEF IInv, DatabasesOK
  <2>4. roles' = roles \/ roles' = With(roles, req[h].role, req[h].pw)
    BY DEF RotatePassword, SetPassword
  <2>5. owner = req[h].role
    BY <2>1, <2>3, <2>4 DEF With
  <2> QED BY <2>2, <2>5, CloneUserSpares
<1> QED BY <1>1, Inductive, PTL DEF Spec, SourceSpared
=============================================================================
