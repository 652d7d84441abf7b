-------------------------- MODULE Whitelist_proofs --------------------------
(***************************************************************************)
(* Theorems about Whitelist for every set of users and sessions: what      *)
(* holds however handlers overlap and whatever the disk does, and what     *)
(* holds when the agent handles one request at a time on an intact disk.   *)
(***************************************************************************)
EXTENDS Whitelist, FiniteSetTheorems, TLAPS

----------------------------------------------------------------------------
(* Types *)

\* Requests name somebody unless they only list.
NamedOK == \A c \in Clients : req[c].op # "list" => req[c].name \in Names

TypeInv == TypeOK /\ NamedOK

\* Lists of users, seeded or empty, are lists of users.
LEMMA ContentType ==
  /\ Empty \in Content
  /\ \A wl \in Content : Seeded(wl) \in Content
BY WhitelistAssumption DEF Empty, Content, Role, Seeded

LEMMA FreeType == Free \in Request
BY ContentType DEF Free, Request, Ops, Asked

\* Answering a request keeps the others as they are.
LEMMA DoneOK ==
  ASSUME TypeInv, NEW c \in Clients, Done(c)
  PROVE  req' \in [Clients -> Request] /\ NamedOK'
BY FreeType DEF Done, TypeInv, TypeOK, NamedOK, Free

\* So does asking the agent something,
LEMMA AskOK ==
  ASSUME TypeInv, NEW c \in Clients, NEW op \in Ops, NEW n \in Names \cup {Nobody},
         NEW role \in Asked, Ask(c, op, n, role), op # "list" => n \in Names
  PROVE  req' \in [Clients -> Request] /\ NamedOK'
<1> DEFINE r == [pc |-> "start", op |-> op, name |-> n, role |-> role, copy |-> Empty]
<1>1. r \in Request
  BY ContentType DEF Request
<1> QED BY <1>1 DEF Ask, TypeInv, TypeOK, NamedOK

\* and moving a request on with another copy.
LEMMA MoveOK ==
  ASSUME TypeInv, NEW c \in Clients, NEW wl \in Content,
         NEW pc \in {"seed", "decide", "write"},
         req' = [req EXCEPT ![c].pc = pc, ![c].copy = wl]
  PROVE  req' \in [Clients -> Request] /\ NamedOK'
<1> DEFINE r == [req[c] EXCEPT !.pc = pc, !.copy = wl]
<1>1. r \in Request /\ r.op = req[c].op /\ r.name = req[c].name
  BY DEF Request, TypeInv, TypeOK
<1>2. req' = [req EXCEPT ![c] = r]
  BY DEF TypeInv, TypeOK, Request
<1> HIDE DEF r
<1> QED BY <1>1, <1>2 DEF TypeInv, TypeOK, NamedOK

\* Whoever a removal promotes is a user, or nobody.
LEMMA SuccessorsType ==
  ASSUME NEW wl \in Content, NEW n \in Names, NEW a \in Successors(wl, n)
  PROVE  a \in Names \cup {Nobody}
BY DEF Successors, Admins, Content

\* Every step of a handler keeps the types.
LEMMA HandlerType ==
  ASSUME TypeInv, NEW c \in Clients, Handler(c)
  PROVE  TypeInv'
<1>0. /\ req[c] \in Request
      /\ req[c].copy \in Content
      /\ file \in Content
  BY DEF TypeInv, TypeOK, Request
<1>1. CASE Read(c)
  <2>1. Seeded(file) \in Content
    BY <1>0, ContentType
  <2>2. req' \in [Clients -> Request] /\ NamedOK'
    BY <1>1, <2>1, MoveOK DEF Read
  <2> QED BY <1>1, <2>2 DEF Read, TypeInv, TypeOK
<1>2. CASE WriteSeed(c)
  <2>1. req' = [req EXCEPT ![c].pc = "decide", ![c].copy = req[c].copy]
    BY <1>2 DEF WriteSeed, TypeInv, TypeOK, Request
  <2>2. req' \in [Clients -> Request] /\ NamedOK'
    BY <1>0, <2>1, MoveOK
  <2>3. file' \in Content
    BY <1>0, <1>2, ContentType DEF WriteSeed
  <2> QED BY <1>2, <2>2, <2>3 DEF WriteSeed, TypeInv, TypeOK
<1>3. CASE Reply(c)
  BY <1>3, DoneOK DEF Reply, TypeInv, TypeOK
<1>4. CASE ClaimAdmin(c)
  <2> DEFINE n == req[c].name
             wl == [admin |-> n, role |-> [req[c].copy.role EXCEPT ![n] = "admin"]]
  <2>1. n \in Names
    BY <1>4 DEF ClaimAdmin, At, TypeInv, NamedOK
  <2>2. wl \in Content
    BY <1>0, <2>1 DEF Content, Role
  <2>3. Done(c) \/ WriteBack(c, wl)
    BY <1>4 DEF ClaimAdmin
  <2>4. req' \in [Clients -> Request] /\ NamedOK'
    BY <2>2, <2>3, DoneOK, MoveOK DEF WriteBack
  <2>5. login' \in [Names -> {"out", "asking", "in"}]
    BY <1>4 DEF ClaimAdmin, TypeInv, TypeOK
  <2> QED BY <1>4, <2>4, <2>5 DEF ClaimAdmin, TypeInv, TypeOK
<1>5. CASE AddWhitelistUser(c)
  <2> DEFINE n == req[c].name
             wl == [req[c].copy EXCEPT !.role[n] = Granted(req[c].role)]
  <2>1. n \in Names
    BY <1>5 DEF AddWhitelistUser, At, TypeInv, NamedOK
  <2>2. wl \in Content
    BY <1>0, <2>1 DEF Content, Role, Granted
  <2>3. Done(c) \/ WriteBack(c, wl)
    BY <1>5 DEF AddWhitelistUser
  <2>4. req' \in [Clients -> Request] /\ NamedOK'
    BY <2>2, <2>3, DoneOK, MoveOK DEF WriteBack
  <2>5. acked' \subseteq Names
    BY <1>5, <2>1 DEF AddWhitelistUser, TypeInv, TypeOK
  <2> QED BY <1>5, <2>4, <2>5 DEF AddWhitelistUser, TypeInv, TypeOK
<1>6. CASE DeleteWhitelistUser(c)
  <2> DEFINE n == req[c].name
             wl(a) == [admin |-> a, role |-> [req[c].copy.role EXCEPT ![n] = "none"]]
  <2>1. n \in Names
    BY <1>6 DEF DeleteWhitelistUser, At, TypeInv, NamedOK
  <2>2. ASSUME NEW a \in Successors(req[c].copy, n) PROVE wl(a) \in Content
    BY <1>0, <2>1, SuccessorsType DEF Content, Role
  <2>3. Done(c) \/ \E a \in Successors(req[c].copy, n) : WriteBack(c, wl(a))
    BY <1>6 DEF DeleteWhitelistUser
  <2>4. req' \in [Clients -> Request] /\ NamedOK'
    BY <2>2, <2>3, DoneOK, MoveOK DEF WriteBack
  <2> QED BY <1>6, <2>4 DEF DeleteWhitelistUser, TypeInv, TypeOK
<1>7. CASE Write(c) \/ WriteFails(c) \/ ReadFails(c)
  <2>1. req' \in [Clients -> Request] /\ NamedOK'
    BY <1>7, DoneOK DEF Write, WriteFails, ReadFails
  <2>2. file' \in Content
    BY <1>0, <1>7, ContentType DEF Write, WriteFails, ReadFails
  <2>3. login' \in [Names -> {"out", "asking", "in"}]
    BY <1>7 DEF Write, WriteFails, ReadFails, TypeInv, TypeOK
  <2>4. claimed' \subseteq Names /\ acked' \subseteq Names
    BY <1>7 DEF Write, WriteFails, ReadFails, TypeInv, TypeOK, NamedOK
  <2> QED BY <2>1, <2>2, <2>3, <2>4 DEF TypeInv, TypeOK
<1> QED BY <1>1, <1>2, <1>3, <1>4, <1>5, <1>6, <1>7 DEF Handler

\* Every step of a sign-in keeps the types.
LEMMA SignInType ==
  ASSUME TypeInv, NEW u \in Names,
         SignIn(u) \/ SignInAnswer(u) \/ SignInFails(u) \/ SignOut(u)
  PROVE  TypeInv'
<1>0. u \in Clients
  BY DEF Clients
<1>1. Ask(u, "list", u, "") \/ Ask(u, "claim", u, "") \/ Done(u) \/ UNCHANGED req
  BY DEF SignIn, SignInAnswer, SignInFails, SignOut
<1>2. req' \in [Clients -> Request] /\ NamedOK'
  <2>1. CASE UNCHANGED req
    BY <2>1 DEF TypeInv, TypeOK, NamedOK
  <2> QED BY <1>0, <1>1, <2>1, AskOK, DoneOK DEF Ops, Asked
<1>3. login' \in [Names -> {"out", "asking", "in"}]
  BY DEF SignIn, SignInAnswer, SignInFails, SignOut, TypeInv, TypeOK
<1>4. UNCHANGED <<file, claimed, acked>>
  BY DEF SignIn, SignInAnswer, SignInFails, SignOut
<1> QED BY <1>2, <1>3, <1>4 DEF TypeInv, TypeOK

LEMMA CrashType == ASSUME TypeInv, Crash PROVE TypeInv'
<1>1. req' \in [Clients -> Request] /\ NamedOK'
  BY FreeType DEF Crash, NamedOK, Free
<1>2. \A c \in Clients : req[c].copy \in Content
  BY DEF TypeInv, TypeOK, Request
<1>3. file' \in Content /\ acked' \subseteq Names
  BY <1>2, ContentType DEF Crash, TypeInv, TypeOK
<1> QED BY <1>1, <1>3 DEF Crash, TypeInv, TypeOK

LEMMA CallType ==
  ASSUME TypeInv, NEW c \in Callers, NEW op \in Ops, NEW n \in Names \cup {Nobody},
         NEW role \in Asked, Call(c, op, n, role), op # "list" => n \in Names
  PROVE  TypeInv'
BY AskOK DEF Call, Clients, TypeInv, TypeOK

LEMMA StepType == ASSUME TypeInv, [Next]_vars PROVE TypeInv'
<1>1. CASE \/ \E c \in Callers : Call(c, "list", Nobody, "")
           \/ \E c \in Callers, n \in Names : Call(c, "remove", n, "")
           \/ \E c \in Callers, n \in Names, role \in Asked : Call(c, "add", n, role)
  BY <1>1, CallType DEF Ops, Asked
<1>2. CASE UNCHANGED vars
  BY <1>2 DEF vars, TypeInv, TypeOK, NamedOK
<1>3. CASE \E c \in Clients : Handler(c)
  BY <1>3, HandlerType
<1>4. CASE \E u \in Names : SignIn(u) \/ SignInAnswer(u) \/ SignInFails(u) \/ SignOut(u)
  BY <1>4, SignInType
<1>5. CASE Crash
  BY <1>5, CrashType
<1> QED BY <1>1, <1>2, <1>3, <1>4, <1>5 DEF Next

LEMMA TypeInvariant == Spec => []TypeInv
<1>1. ASSUME Init PROVE TypeInv
  <2>1. req \in [Clients -> Request]
    BY <1>1, FreeType DEF Init
  <2>2. NamedOK
    BY <1>1 DEF Init, NamedOK, Free
  <2>3. file \in Content
    BY <1>1, ContentType DEF Init
  <2> QED BY <1>1, <2>1, <2>2, <2>3 DEF Init, TypeInv, TypeOK
<1> QED BY <1>1, StepType, PTL DEF Spec

\* The file, the copies of the handlers and the sign-ins stay well formed,
\* whatever overlaps, fails or is cut short.
THEOREM TypeCorrect == Spec => []TypeOK
BY TypeInvariant, PTL DEF TypeInv
----------------------------------------------------------------------------
(* What holds however handlers overlap and writes fail *)

\* The primary admin is listed as an admin; where the environment names one,
\* only an empty list is without.
Sound(wl) ==
  /\ wl.admin # Nobody => wl.role[wl.admin] = "admin"
  /\ EnvPrimary # Nobody /\ wl.admin = Nobody => \A n \in Names : wl.role[n] = "none"

\* A request works on a sound copy, which has an admin once it was read where
\* the environment names one; it writes no claim there.
SoundRequest(r) ==
  /\ Sound(r.copy)
  /\ EnvPrimary # Nobody =>
       /\ r.pc \in {"seed", "decide", "write"} => r.copy.admin # Nobody
       /\ ~(r.pc = "write" /\ r.op = "claim")

SoundInv ==
  /\ Sound(file)
  /\ \A c \in Clients : SoundRequest(req[c])
  /\ EnvironmentDecides

LEMMA EmptySound == Sound(Empty) /\ SoundRequest(Free)
BY DEF Sound, SoundRequest, Empty, Free

\* Seeding gives a sound list an admin.
LEMMA SeededSound ==
  ASSUME NEW wl \in Content, Sound(wl)
  PROVE  Sound(Seeded(wl)) /\ (EnvPrimary # Nobody => Seeded(wl).admin # Nobody)
BY WhitelistAssumption DEF Sound, Seeded, Listed, Content

\* Who is not the sole admin leaves an admin behind.
LEMMA AnotherAdmin ==
  ASSUME NEW wl \in Content, NEW n \in Names, wl.admin = n, ~SoleAdmin(wl, n)
  PROVE  Admins(wl) \ {n} # {}
<1> SUFFICES ASSUME Admins(wl) \subseteq {n} PROVE FALSE
  OBVIOUS
<1>1. IsFiniteSet({n}) /\ Cardinality({n}) = 1
  BY FS_Singleton
<1>2. IsFiniteSet(Admins(wl)) /\ Cardinality(Admins(wl)) <= 1
  BY <1>1, FS_Subset
<1> QED BY <1>2 DEF SoleAdmin

\* A removal leaves a sound list, which has an admin if there was one.
LEMMA RemovalSound ==
  ASSUME NEW wl \in Content, Sound(wl), NEW n \in Names, ~SoleAdmin(wl, n),
         NEW a \in Successors(wl, n)
  PROVE  /\ Sound([admin |-> a, role |-> [wl.role EXCEPT ![n] = "none"]])
         /\ wl.admin # Nobody => a # Nobody
<1>1. CASE wl.admin = n
  <2>1. a \in Admins(wl) \ {n}
    BY <1>1, AnotherAdmin DEF Successors
  <2> QED BY <2>1, WhitelistAssumption DEF Admins, Sound, Content
<1>2. CASE wl.admin # n
  <2>1. a = wl.admin
    BY <1>2 DEF Successors
  <2> QED BY <1>2, <2>1 DEF Sound, Content
<1> QED BY <1>1, <1>2

\* Changing one request to a sound one keeps all of them sound.
LEMMA OneRequest ==
  ASSUME TypeInv, SoundInv, NEW c \in Clients, NEW r, SoundRequest(r),
         req' = [req EXCEPT ![c] = r]
  PROVE  \A d \in Clients : SoundRequest(req'[d])
BY DEF TypeInv, TypeOK, SoundInv

LEMMA DoneSound ==
  ASSUME TypeInv, SoundInv, NEW c \in Clients, Done(c)
  PROVE  \A d \in Clients : SoundRequest(req'[d])
BY OneRequest, EmptySound DEF Done

LEMMA MoveSound ==
  ASSUME TypeInv, SoundInv, NEW c \in Clients, NEW wl,
         NEW pc \in {"seed", "decide", "write"}, Sound(wl),
         EnvPrimary # Nobody => wl.admin # Nobody /\ ~(pc = "write" /\ req[c].op = "claim"),
         req' = [req EXCEPT ![c].pc = pc, ![c].copy = wl]
  PROVE  \A d \in Clients : SoundRequest(req'[d])
<1> DEFINE r == [req[c] EXCEPT !.pc = pc, !.copy = wl]
<1>1. r.pc = pc /\ r.copy = wl /\ r.op = req[c].op
  BY DEF Request, TypeInv, TypeOK
<1>2. req' = [req EXCEPT ![c] = r]
  BY DEF TypeInv, TypeOK, Request
<1> HIDE DEF r
<1> QED BY <1>1, <1>2, OneRequest DEF SoundRequest

\* Every step of a handler keeps the lists sound.
LEMMA HandlerSound ==
  ASSUME TypeInv, SoundInv, NEW c \in Clients, Handler(c)
  PROVE  SoundInv'
<1> DEFINE wl == req[c].copy
           n == req[c].name
<1> USE DEF SoundInv, EnvironmentDecides
<1>0. /\ wl \in Content /\ file \in Content
      /\ Sound(wl) /\ SoundRequest(req[c])
  BY DEF TypeInv, TypeOK, Request, SoundRequest
<1>1. CASE Read(c)
  <2>1. Sound(Seeded(file)) /\ (EnvPrimary # Nobody => Seeded(file).admin # Nobody)
    BY <1>0, SeededSound
  <2>2. \A d \in Clients : SoundRequest(req'[d])
    <3>1. PICK pc \in {"seed", "decide"} :
            req' = [req EXCEPT ![c].pc = pc, ![c].copy = Seeded(file)]
      BY <1>1 DEF Read
    <3> QED BY <2>1, <3>1, MoveSound
  <2> QED BY <1>1, <2>2 DEF Read
<1>2. CASE WriteSeed(c)
  <2>1. req' = [req EXCEPT ![c].pc = "decide", ![c].copy = wl]
    BY <1>2 DEF WriteSeed, TypeInv, TypeOK, Request
  <2>2. EnvPrimary # Nobody => wl.admin # Nobody
    BY <1>0, <1>2 DEF WriteSeed, SoundRequest
  <2>3. \A d \in Clients : SoundRequest(req'[d])
    BY <1>0, <2>1, <2>2, MoveSound
  <2>4. Sound(file')
    BY <1>0, <1>2, EmptySound DEF WriteSeed
  <2> QED BY <1>2, <2>3, <2>4 DEF WriteSeed
<1>3. CASE Reply(c)
  BY <1>3, DoneSound DEF Reply
<1>4. CASE ClaimAdmin(c)
  <2> DEFINE new == [admin |-> n, role |-> [wl.role EXCEPT ![n] = "admin"]]
  <2>1. n \in Names
    BY <1>4 DEF ClaimAdmin, At, TypeInv, NamedOK
  <2>2. CASE wl.admin # Nobody
    BY <1>4, <2>2, DoneSound DEF ClaimAdmin
  <2>3. CASE wl.admin = Nobody
    <3>1. EnvPrimary = Nobody
      BY <1>0, <1>4, <2>3 DEF ClaimAdmin, At, SoundRequest
    <3>2. Sound(new)
      BY <1>0, <2>1, <3>1 DEF Sound, Content
    <3>3. req' = [req EXCEPT ![c].pc = "write", ![c].copy = new]
      BY <1>4, <2>3 DEF ClaimAdmin, WriteBack
    <3>4. \A d \in Clients : SoundRequest(req'[d])
      BY <3>1, <3>2, <3>3, MoveSound
    <3> QED BY <1>4, <3>4 DEF ClaimAdmin
  <2> QED BY <2>2, <2>3
<1>5. CASE AddWhitelistUser(c)
  <2> DEFINE new == [wl EXCEPT !.role[n] = Granted(req[c].role)]
  <2>1. n \in Names /\ ~(req[c].op = "claim") /\ req[c].pc = "decide"
    BY <1>5 DEF AddWhitelistUser, At, TypeInv, NamedOK
  <2>2. CASE Listed(wl, n)
    BY <1>5, <2>2, DoneSound DEF AddWhitelistUser
  <2>3. CASE ~Listed(wl, n)
    <3>1. /\ new.admin = wl.admin
          /\ EnvPrimary # Nobody => wl.admin # Nobody
      BY <1>0, <2>1 DEF SoundRequest, Content
    <3>2. Sound(new)
      BY <1>0, <2>1, <2>3, <3>1 DEF Sound, Content, Listed
    <3>3. req' = [req EXCEPT ![c].pc = "write", ![c].copy = new]
      BY <1>5, <2>3 DEF AddWhitelistUser, WriteBack
    <3> HIDE DEF new
    <3>4. \A d \in Clients : SoundRequest(req'[d])
      BY <2>1, <3>1, <3>2, <3>3, MoveSound
    <3> QED BY <1>5, <3>4 DEF AddWhitelistUser
  <2> QED BY <2>2, <2>3
<1>6. CASE DeleteWhitelistUser(c)
  <2>1. n \in Names /\ ~(req[c].op = "claim") /\ req[c].pc = "decide"
    BY <1>6 DEF DeleteWhitelistUser, At, TypeInv, NamedOK
  <2>2. CASE SoleAdmin(wl, n)
    BY <1>6, <2>2, DoneSound DEF DeleteWhitelistUser
  <2>3. CASE ~SoleAdmin(wl, n)
    <3>1. PICK a \in Successors(wl, n) :
            WriteBack(c, [admin |-> a, role |-> [wl.role EXCEPT ![n] = "none"]])
      BY <1>6, <2>3 DEF DeleteWhitelistUser
    <3>2. /\ Sound([admin |-> a, role |-> [wl.role EXCEPT ![n] = "none"]])
          /\ wl.admin # Nobody => a # Nobody
      BY <1>0, <2>1, <2>3, RemovalSound
    <3>3. EnvPrimary # Nobody => a # Nobody
      BY <1>0, <2>1, <3>2 DEF SoundRequest
    <3>4. \A d \in Clients : SoundRequest(req'[d])
      BY <2>1, <3>1, <3>2, <3>3, MoveSound DEF WriteBack
    <3> QED BY <1>6, <3>4 DEF DeleteWhitelistUser
  <2> QED BY <2>2, <2>3
<1>7. CASE Write(c)
  <2>1. \A d \in Clients : SoundRequest(req'[d])
    BY <1>7, DoneSound DEF Write
  <2>2. EnvPrimary # Nobody => claimed' = {}
    BY <1>0, <1>7 DEF Write, SoundRequest
  <2> QED BY <1>0, <1>7, <2>1, <2>2 DEF Write
<1>8. CASE WriteFails(c) \/ ReadFails(c)
  BY <1>8, DoneSound, EmptySound DEF WriteFails, ReadFails
<1> QED BY <1>1, <1>2, <1>3, <1>4, <1>5, <1>6, <1>7, <1>8 DEF Handler

\* A new request has not read anything yet.
LEMMA AskSound ==
  ASSUME TypeInv, SoundInv, NEW c \in Clients, NEW op, NEW n, NEW role,
         Ask(c, op, n, role)
  PROVE  \A d \in Clients : SoundRequest(req'[d])
<1> DEFINE r == [pc |-> "start", op |-> op, name |-> n, role |-> role, copy |-> Empty]
<1>1. SoundRequest(r)
  BY EmptySound DEF SoundRequest
<1> QED BY <1>1, OneRequest DEF Ask

LEMMA StepSound == ASSUME TypeInv, SoundInv, [Next]_vars PROVE SoundInv'
<1>1. CASE \/ \E c \in Callers : Call(c, "list", Nobody, "")
           \/ \E c \in Callers, n \in Names : Call(c, "remove", n, "")
           \/ \E c \in Callers, n \in Names, role \in Asked : Call(c, "add", n, role)
  BY <1>1, AskSound DEF Call, Clients, SoundInv, EnvironmentDecides
<1>2. CASE \E c \in Clients : Handler(c)
  BY <1>2, HandlerSound
<1>3. ASSUME NEW u \in Names, SignIn(u) \/ SignInAnswer(u) \/ SignInFails(u) \/ SignOut(u)
      PROVE  SoundInv'
  <2>1. Ask(u, "list", u, "") \/ Ask(u, "claim", u, "") \/ Done(u) \/ UNCHANGED req
    BY <1>3 DEF SignIn, SignInAnswer, SignInFails, SignOut
  <2>2. \A d \in Clients : SoundRequest(req'[d])
    BY <2>1, AskSound, DoneSound DEF Clients, SoundInv
  <2> QED BY <1>3, <2>2
          DEF SignIn, SignInAnswer, SignInFails, SignOut, SoundInv, EnvironmentDecides
<1>4. CASE Crash
  <2>1. \A d \in Clients : SoundRequest(req'[d])
    BY <1>4, EmptySound DEF Crash
  <2>2. Sound(file')
    BY <1>4, EmptySound DEF Crash, SoundInv, SoundRequest
  <2> QED BY <1>4, <2>1, <2>2 DEF Crash, SoundInv, EnvironmentDecides
<1>5. CASE UNCHANGED vars
  BY <1>5 DEF vars, SoundInv, EnvironmentDecides
<1> QED BY <1>1, <1>2, <1>3, <1>4, <1>5 DEF Next

LEMMA SoundInvariant == Spec => []SoundInv
<1>1. Init => SoundInv
  BY EmptySound DEF Init, SoundInv, EnvironmentDecides
<1> QED BY <1>1, StepSound, TypeInvariant, PTL DEF Spec

\* The primary admin is listed with the role of an admin in the file and in
\* every copy, for any overlap of handlers and any failure of the disk.
THEOREM PrimaryCorrect == Spec => []PrimaryIsAdmin
<1>1. SoundInv => PrimaryIsAdmin
  BY DEF SoundInv, SoundRequest, Sound, PrimaryIsAdmin
<1> QED BY <1>1, SoundInvariant, PTL

\* Nobody claims the role of an admin the environment gives away.
THEOREM EnvironmentCorrect == Spec => []EnvironmentDecides
BY SoundInvariant, PTL DEF SoundInv
----------------------------------------------------------------------------
(* What holds when handlers do not overlap and the disk is intact *)

OneAtATime == MaxInFlight = 1 /\ ~DiskFails

\* What a handler that may still write knows of the file: it has decided on the
\* file's content, and what it is about to write takes neither the primary
\* admin nor a user away, except for the one it removes.
Current(r, wl) ==
  /\ r.pc = "seed" => r.copy = Seeded(wl)
  /\ r.pc = "decide" /\ r.op # "list" => r.copy = wl
  /\ r.pc = "write" =>
       /\ r.op = "claim" => wl.admin = Nobody
       /\ r.op = "claim" => r.copy.admin # Nobody
       /\ wl.admin # Nobody => r.copy.admin # Nobody
       /\ r.op = "add" => Listed(r.copy, r.name)
       /\ \A n \in Names :
            Listed(wl, n) /\ ~(r.op = "remove" /\ n = r.name) => Listed(r.copy, n)

Busy(r) == r.pc \in {"seed", "write"} \/ (r.pc = "decide" /\ r.op # "list")

SerialInv ==
  /\ \A c, d \in Clients : Busy(req[c]) /\ Busy(req[d]) => c = d
  /\ \A c \in Clients : Current(req[c], file)
  /\ claimed # {} => file.admin # Nobody
  /\ \A u, v \in claimed : u = v
  /\ AddsLast

\* The handlers that may still write are the busy ones.
LEMMA BusyInFlight ==
  ASSUME TypeInv
  PROVE  InFlight = {c \in Clients : Busy(req[c])}
BY DEF InFlight, Busy, TypeInv, TypeOK, Request, Ops

\* Of one handler at a time, none is busy when another starts.
LEMMA NoneBusy ==
  ASSUME OneAtATime, TypeInv, SerialInv, NEW c \in Clients, Read(c)
  PROVE  \A d \in Clients : ~Busy(req[d])
<1> SUFFICES ASSUME NEW d \in Clients, Busy(req[d]) PROVE FALSE
  OBVIOUS
<1>1. InFlight = {d}
  BY BusyInFlight DEF SerialInv
<1>2. Cardinality(InFlight) = 1
  BY <1>1, FS_Singleton
<1> QED BY <1>2 DEF Read, OneAtATime

\* Seeding takes nothing away.
LEMMA SeededKeeps ==
  ASSUME NEW wl \in Content
  PROVE  /\ wl.admin # Nobody => Seeded(wl).admin # Nobody
         /\ \A n \in Names : Listed(wl, n) => Listed(Seeded(wl), n)
BY DEF Seeded, Listed, Content

\* An answered request is neither busy nor bound to the file.
LEMMA FreeCurrent == ~Busy(Free) /\ Current(Free, file) /\ Current(Free, file')
BY DEF Free, Busy, Current

\* While the file stays as it is, one request changes.
LEMMA OneCurrent ==
  ASSUME TypeInv, SerialInv, UNCHANGED <<file, claimed>>, NEW c \in Clients, NEW r,
         req' = [req EXCEPT ![c] = r], Current(r, file'),
         Busy(r) => \A d \in Clients \ {c} : ~Busy(req[d]),
         \A n \in acked' : Listed(file, n)
  PROVE  SerialInv'
<1>1. \A d \in Clients \ {c} : req'[d] = req[d]
  BY DEF TypeInv, TypeOK
<1>2. req'[c] = r
  BY DEF TypeInv, TypeOK
<1>3. \A d \in Clients : Current(req'[d], file') 
  <2> TAKE d \in Clients
  <2>1. CASE d = c
    BY <1>2, <2>1 DEF Current
  <2>2. CASE d # c
    BY <1>1, <2>2 DEF SerialInv, Current
  <2> QED BY <2>1, <2>2
<1>4. \A d, e \in Clients : Busy(req'[d]) /\ Busy(req'[e]) => d = e
  BY <1>1, <1>2 DEF SerialInv
<1> QED BY <1>3, <1>4 DEF SerialInv, AddsLast, Busy, Listed

\* When the file changes, only a handler that wrote it or answered was busy.
LEMMA WriterDone ==
  ASSUME TypeInv, SerialInv, NEW c \in Clients, Busy(req[c]), NEW r,
         req' = [req EXCEPT ![c] = r], Current(r, file')
  PROVE  /\ \A d \in Clients : Current(req'[d], file')
         /\ \A d, e \in Clients : Busy(req'[d]) /\ Busy(req'[e]) => d = e
<1>1. \A d \in Clients \ {c} : req'[d] = req[d] /\ ~Busy(req[d])
  BY DEF TypeInv, TypeOK, SerialInv
<1>2. req'[c] = r
  BY DEF TypeInv, TypeOK
<1>3. ASSUME NEW d \in Clients PROVE Current(req'[d], file')
  BY <1>1, <1>2 DEF Current, Busy
<1> QED BY <1>1, <1>3
\* A handler that answers without having written changes nothing else.
LEMMA AnswerSerial ==
  ASSUME TypeInv, SerialInv, NEW c \in Clients, Done(c), UNCHANGED <<file, claimed>>,
         \A n \in acked' : Listed(file, n)
  PROVE  SerialInv'
BY FreeCurrent, OneCurrent DEF Done

\* A busy handler that decides what to write stays the only one.
LEMMA DecidedSerial ==
  ASSUME TypeInv, SerialInv, NEW c \in Clients, NEW wl, WriteBack(c, wl),
         Busy(req[c]), UNCHANGED <<file, claimed, acked>>,
         req[c].op = "claim" => file.admin = Nobody /\ wl.admin # Nobody,
         file.admin # Nobody => wl.admin # Nobody,
         req[c].op = "add" => Listed(wl, req[c].name),
         \A n \in Names : Listed(file, n) /\ ~(req[c].op = "remove" /\ n = req[c].name)
                            => Listed(wl, n)
  PROVE  SerialInv'
<1> DEFINE r == [req[c] EXCEPT !.pc = "write", !.copy = wl]
<1>1. r.pc = "write" /\ r.copy = wl /\ r.op = req[c].op /\ r.name = req[c].name
  BY DEF Request, TypeInv, TypeOK
<1>2. req' = [req EXCEPT ![c] = r]
  BY DEF WriteBack, TypeInv, TypeOK, Request
<1> HIDE DEF r
<1>3. Current(r, file')
  BY <1>1 DEF Current, Listed
<1>4. \A d \in Clients \ {c} : ~Busy(req[d])
  BY DEF SerialInv
<1> QED BY <1>2, <1>3, <1>4, OneCurrent DEF SerialInv, AddsLast

LEMMA ReadSerial ==
  ASSUME OneAtATime, TypeInv, SerialInv, NEW c \in Clients, Read(c)
  PROVE  SerialInv'
<1>1. PICK pc \in {"seed", "decide"} :
        /\ req' = [req EXCEPT ![c].pc = pc, ![c].copy = Seeded(file)]
        /\ pc = "decide" => Seeded(file) = file
  BY DEF Read
<1> DEFINE r == [req[c] EXCEPT !.pc = pc, !.copy = Seeded(file)]
<1>2. r.pc = pc /\ r.copy = Seeded(file)
  BY DEF Request, TypeInv, TypeOK
<1>3. req' = [req EXCEPT ![c] = r]
  BY <1>1 DEF TypeInv, TypeOK, Request
<1>4. UNCHANGED <<file, claimed, acked>>
  BY DEF Read
<1> HIDE DEF r
<1>5. Current(r, file')
  BY <1>1, <1>2, <1>4 DEF Current, Seeded, Listed
<1> QED BY <1>3, <1>4, <1>5, NoneBusy, OneCurrent DEF SerialInv, AddsLast

LEMMA WriteSeedSerial ==
  ASSUME OneAtATime, TypeInv, SerialInv, NEW c \in Clients, WriteSeed(c)
  PROVE  SerialInv'
<1> DEFINE r == [req[c] EXCEPT !.pc = "decide"]
<1>1. /\ req' = [req EXCEPT ![c] = r]
      /\ r.pc = "decide" /\ r.copy = req[c].copy
  BY DEF WriteSeed, TypeInv, TypeOK, Request
<1>2. /\ file' = req[c].copy /\ req[c].copy = Seeded(file)
      /\ Busy(req[c]) /\ UNCHANGED <<claimed, acked>>
  BY DEF WriteSeed, OneAtATime, SerialInv, Current, Busy
<1> HIDE DEF r
<1>3. Current(r, file')
  BY <1>1, <1>2 DEF Current
<1>4. /\ file.admin # Nobody => file'.admin # Nobody
      /\ \A n \in Names : Listed(file, n) => Listed(file', n)
  BY <1>2, SeededKeeps DEF TypeInv, TypeOK
<1>5. claimed' # {} => file'.admin # Nobody
  BY <1>2, <1>4 DEF SerialInv
<1>6. AddsLast'
  BY <1>2, <1>4 DEF SerialInv, AddsLast, TypeInv, TypeOK
<1>7. /\ \A d \in Clients : Current(req'[d], file')
      /\ \A d, e \in Clients : Busy(req'[d]) /\ Busy(req'[e]) => d = e
  BY <1>1, <1>2, <1>3, WriterDone
<1> QED BY <1>2, <1>5, <1>6, <1>7 DEF SerialInv

LEMMA WriteSerial ==
  ASSUME TypeInv, SerialInv, NEW c \in Clients, Write(c)
  PROVE  SerialInv'
<1> DEFINE n == req[c].name
<1>1. /\ req' = [req EXCEPT ![c] = Free] /\ file' = req[c].copy
      /\ Busy(req[c]) /\ Current(req[c], file) /\ req[c].pc = "write"
  BY DEF Write, Done, Busy, SerialInv
<1>2. /\ \A d \in Clients : Current(req'[d], file')
      /\ \A d, e \in Clients : Busy(req'[d]) /\ Busy(req'[e]) => d = e
  BY <1>1, FreeCurrent, WriterDone
<1>3. claimed' # {} => file'.admin # Nobody
  BY <1>1 DEF Write, Current, SerialInv
<1>4. \A u, v \in claimed' : u = v
  <2>1. CASE req[c].op = "claim"
    <3>1. claimed = {}
      BY <1>1, <2>1 DEF Current, SerialInv
    <3> QED BY <2>1, <3>1 DEF Write
  <2>2. CASE req[c].op # "claim"
    BY <2>2 DEF Write, SerialInv
  <2> QED BY <2>1, <2>2
<1>5. AddsLast'
  <2> SUFFICES ASSUME NEW m \in acked' PROVE Listed(file', m)
    BY DEF AddsLast
  <2>1. CASE req[c].op = "add" /\ m = n
    BY <1>1, <2>1 DEF Current
  <2>2. CASE ~(req[c].op = "add" /\ m = n)
    <3>1. m \in acked /\ ~(req[c].op = "remove" /\ m = n)
      BY <2>2 DEF Write
    <3>2. Listed(file, m) /\ m \in Names
      BY <3>1 DEF SerialInv, AddsLast, TypeInv, TypeOK
    <3> QED BY <1>1, <3>1, <3>2 DEF Current
  <2> QED BY <2>1, <2>2
<1> QED BY <1>2, <1>3, <1>4, <1>5 DEF SerialInv

\* Every step of a handler keeps the handlers in line.
LEMMA HandlerSerial ==
  ASSUME OneAtATime, TypeInv, SerialInv, NEW c \in Clients, Handler(c)
  PROVE  SerialInv'
<1> DEFINE wl == req[c].copy
           n == req[c].name
<1>0. /\ wl \in Content /\ file \in Content
      /\ Current(req[c], file)
      /\ \A m \in acked : Listed(file, m)
  BY DEF TypeInv, TypeOK, Request, SerialInv, AddsLast
<1>1. CASE Reply(c)
  BY <1>0, <1>1, AnswerSerial DEF Reply
<1>2. CASE ClaimAdmin(c)
  <2> DEFINE new == [admin |-> n, role |-> [wl.role EXCEPT ![n] = "admin"]]
  <2>1. n \in Names /\ Busy(req[c]) /\ wl = file /\ req[c].op = "claim"
    BY <1>0, <1>2 DEF ClaimAdmin, At, TypeInv, NamedOK, Busy, Current
  <2>2. CASE wl.admin # Nobody
    BY <1>0, <1>2, <2>2, AnswerSerial DEF ClaimAdmin
  <2>3. CASE wl.admin = Nobody
    <3>1. new.admin # Nobody /\ \A m \in Names : Listed(file, m) => Listed(new, m)
      BY <1>0, <2>1, WhitelistAssumption DEF Content, Listed
    <3>2. WriteBack(c, new) /\ UNCHANGED <<file, claimed, acked>>
      BY <1>2, <2>3 DEF ClaimAdmin
    <3> HIDE DEF new
    <3> QED BY <2>1, <2>3, <3>1, <3>2, DecidedSerial
  <2> QED BY <2>2, <2>3
<1>3. CASE AddWhitelistUser(c)
  <2> DEFINE new == [wl EXCEPT !.role[n] = Granted(req[c].role)]
  <2>1. n \in Names /\ Busy(req[c]) /\ wl = file /\ req[c].op = "add"
    BY <1>0, <1>3 DEF AddWhitelistUser, At, TypeInv, NamedOK, Busy, Current
  <2>2. CASE Listed(wl, n)
    <3>1. \A m \in acked' : Listed(file, m)
      BY <1>0, <1>3, <2>1, <2>2 DEF AddWhitelistUser
    <3> QED BY <1>3, <2>2, <3>1, AnswerSerial DEF AddWhitelistUser
  <2>3. CASE ~Listed(wl, n)
    <3>1. /\ new.admin = file.admin /\ Listed(new, n)
          /\ \A m \in Names : Listed(file, m) => Listed(new, m)
      BY <1>0, <2>1 DEF Content, Listed, Granted
    <3>2. WriteBack(c, new) /\ UNCHANGED <<file, claimed, acked>>
      BY <1>3, <2>3 DEF AddWhitelistUser
    <3> HIDE DEF new
    <3> QED BY <2>1, <3>1, <3>2, DecidedSerial
  <2> QED BY <2>2, <2>3
<1>4. CASE DeleteWhitelistUser(c)
  <2>1. n \in Names /\ Busy(req[c]) /\ wl = file /\ req[c].op = "remove"
    BY <1>0, <1>4 DEF DeleteWhitelistUser, At, TypeInv, NamedOK, Busy, Current
  <2>2. CASE SoleAdmin(wl, n)
    BY <1>0, <1>4, <2>2, AnswerSerial DEF DeleteWhitelistUser
  <2>3. CASE ~SoleAdmin(wl, n)
    <3>1. PICK a \in Successors(wl, n) :
            WriteBack(c, [admin |-> a, role |-> [wl.role EXCEPT ![n] = "none"]])
      BY <1>4, <2>3 DEF DeleteWhitelistUser
    <3> DEFINE new == [admin |-> a, role |-> [wl.role EXCEPT ![n] = "none"]]
    <3>2. file.admin # Nobody => a # Nobody
      BY <1>0, <2>1, <2>3, AnotherAdmin, WhitelistAssumption DEF Successors, Admins
    <3>3. \A m \in Names : Listed(file, m) /\ m # n => Listed(new, m)
      BY <1>0, <2>1 DEF Content, Listed
    <3>4. WriteBack(c, new) /\ UNCHANGED <<file, claimed, acked>> /\ new.admin = a
      BY <1>4, <3>1 DEF DeleteWhitelistUser
    <3> HIDE DEF new
    <3> QED BY <2>1, <3>2, <3>3, <3>4, DecidedSerial
  <2> QED BY <2>2, <2>3
<1>5. CASE WriteFails(c) \/ ReadFails(c)
  BY <1>5 DEF WriteFails, ReadFails, OneAtATime
<1> QED BY <1>1, <1>2, <1>3, <1>4, <1>5, ReadSerial, WriteSeedSerial, WriteSerial DEF Handler

\* A request that was not read yet is not busy.
LEMMA AskSerial ==
  ASSUME TypeInv, SerialInv, NEW c \in Clients, NEW op, NEW n, NEW role,
         Ask(c, op, n, role), UNCHANGED <<file, claimed, acked>>
  PROVE  SerialInv'
<1> DEFINE r == [pc |-> "start", op |-> op, name |-> n, role |-> role, copy |-> Empty]
<1>1. ~Busy(r) /\ Current(r, file')
  BY DEF Busy, Current
<1> HIDE DEF r
<1>2. req' = [req EXCEPT ![c] = r]
  BY DEF Ask, r
<1> QED BY <1>1, <1>2, OneCurrent DEF SerialInv, AddsLast

\* A write that is done but not answered when the agent ends is like any other.
LEMMA CrashSerial ==
  ASSUME OneAtATime, TypeInv, SerialInv, Crash
  PROVE  SerialInv'
<1>1. /\ \A c \in Clients : req'[c] = Free
      /\ UNCHANGED claimed
  BY DEF Crash
<1>2. /\ \A c \in Clients : Current(req'[c], file')
      /\ \A c, d \in Clients : Busy(req'[c]) /\ Busy(req'[d]) => c = d
  BY <1>1, FreeCurrent DEF Current
<1>3. (file.admin # Nobody => file'.admin # Nobody) /\ AddsLast'
  <2>1. CASE UNCHANGED <<file, acked>>
    BY <2>1 DEF SerialInv, AddsLast, Listed
  <2>2. ASSUME NEW c \in Clients, req[c].pc \in {"seed", "write"}, file' = req[c].copy,
               acked' = IF At(c, "write", "remove") THEN acked \ {req[c].name} ELSE acked
        PROVE  (file.admin # Nobody => file'.admin # Nobody) /\ AddsLast'
    <3>1. Current(req[c], file) /\ file \in Content
      BY DEF SerialInv, TypeInv, TypeOK
    <3>2. \A n \in acked : n \in Names /\ Listed(file, n)
      BY DEF SerialInv, AddsLast, TypeInv, TypeOK
    <3>3. CASE req[c].pc = "seed"
      BY <2>2, <3>1, <3>2, <3>3, SeededKeeps DEF Current, At, AddsLast
    <3>4. CASE req[c].pc = "write"
      BY <2>2, <3>1, <3>2, <3>4 DEF Current, At, AddsLast
    <3> QED BY <2>2, <3>3, <3>4
  <2> QED BY <2>1, <2>2 DEF Crash, OneAtATime
<1> QED BY <1>1, <1>2, <1>3 DEF SerialInv

LEMMA StepSerial ==
  ASSUME OneAtATime, TypeInv, SerialInv, [Next]_vars
  PROVE  SerialInv'
<1>1. CASE \/ \E c \in Callers : Call(c, "list", Nobody, "")
           \/ \E c \in Callers, n \in Names : Call(c, "remove", n, "")
           \/ \E c \in Callers, n \in Names, role \in Asked : Call(c, "add", n, role)
  BY <1>1, AskSerial DEF Call, Clients
<1>2. CASE \E c \in Clients : Handler(c)
  BY <1>2, HandlerSerial
<1>3. CASE UNCHANGED <<file, req, claimed, acked>>
  BY <1>3 DEF SerialInv, AddsLast, Current, Listed, Seeded
<1>4. ASSUME NEW u \in Names, SignIn(u) \/ SignInAnswer(u) \/ SignInFails(u) \/ SignOut(u)
      PROVE  SerialInv'
  <2>1. /\ Ask(u, "list", u, "") \/ Ask(u, "claim", u, "") \/ Done(u) \/ UNCHANGED req
        /\ UNCHANGED <<file, claimed, acked>>
    BY <1>4 DEF SignIn, SignInAnswer, SignInFails, SignOut
  <2>2. u \in Clients /\ \A n \in acked : Listed(file, n)
    BY DEF Clients, SerialInv, AddsLast
  <2> QED BY <1>3, <2>1, <2>2, AskSerial, AnswerSerial
<1>5. CASE Crash
  BY <1>5, CrashSerial
<1>6. CASE UNCHANGED vars
  BY <1>3, <1>6 DEF vars
<1> QED BY <1>1, <1>2, <1>4, <1>5, <1>6 DEF Next

LEMMA SerialInvariant == ASSUME OneAtATime PROVE Spec => []SerialInv
<1>1. Init => SerialInv
  BY FreeCurrent DEF Init, SerialInv, AddsLast
<1> QED BY <1>1, StepSerial, TypeInvariant, PTL DEF Spec

\* Of requests handled one at a time only the first claim succeeds, through any
\* number of additions, removals and restarts.
THEOREM ClaimCorrect == ASSUME OneAtATime PROVE Spec => []ClaimedOnce
<1>1. ASSUME SerialInv PROVE ClaimedOnce
  <2>1. CASE claimed = {}
    BY <2>1, FS_EmptySet DEF ClaimedOnce
  <2>2. CASE claimed # {}
    <3>1. PICK u : claimed = {u}
      BY <1>1, <2>2 DEF SerialInv
    <3> QED BY <3>1, FS_Singleton DEF ClaimedOnce
  <2> QED BY <2>1, <2>2
<1> QED BY <1>1, SerialInvariant, PTL

\* An addition that was acknowledged lasts until the user is removed.
THEOREM AddsCorrect == ASSUME OneAtATime PROVE Spec => []AddsLast
BY SerialInvariant, PTL DEF SerialInv
\* A whitelist with a primary admin never loses it.
THEOREM AdminCorrect == ASSUME OneAtATime PROVE Spec => AdminStays
<1>1. ASSUME TypeInv, SerialInv, Next, file.admin # Nobody
      PROVE  file'.admin # Nobody
  <2>1. CASE UNCHANGED file
    BY <1>1, <2>1
  <2>2. ASSUME NEW c \in Clients, req[c].pc \in {"seed", "write"}, file' = req[c].copy
        PROVE  file'.admin # Nobody
    <3>1. Current(req[c], file) /\ file \in Content
      BY <1>1 DEF SerialInv, TypeInv, TypeOK
    <3> QED BY <1>1, <2>2, <3>1, SeededKeeps DEF Current
  <2>3. \/ UNCHANGED file
        \/ \E c \in Clients : req[c].pc \in {"seed", "write"} /\ file' = req[c].copy
    <3>1. CASE \E c \in Clients : Handler(c)
      BY <3>1 DEF OneAtATime, Handler, Read, WriteSeed, ReadFails, Reply, ClaimAdmin,
                  AddWhitelistUser, DeleteWhitelistUser, Write, WriteFails
    <3>2. CASE Crash
      BY <3>2 DEF OneAtATime, Crash
    <3>3. CASE \E u \in Names : \/ SignIn(u) \/ SignInAnswer(u)
                                \/ SignInFails(u) \/ SignOut(u)
      BY <3>3 DEF SignIn, SignInAnswer, SignInFails, SignOut
    <3> QED BY <1>1, <3>1, <3>2, <3>3 DEF Next, Call
  <2> QED BY <2>1, <2>2, <2>3
<1>2. TypeInv /\ SerialInv /\ [Next]_vars =>
        [file.admin # Nobody => file'.admin # Nobody]_vars
  BY <1>1
<1> QED BY <1>2, TypeInvariant, SerialInvariant, PTL DEF Spec, AdminStays
----------------------------------------------------------------------------
(* Handlers that do not overlap serve requests at once *)

\* Who may follow the user n as the primary admin.
Heirs(wl, n) == IF wl.admin = n THEN Admins(wl) \ {n} ELSE {wl.admin}

\* What a request is about to write is its effect on the file.
Effect(r, wl) ==
  \/ /\ r.op = "claim" /\ wl.admin = Nobody
     /\ r.copy = [admin |-> r.name, role |-> [wl.role EXCEPT ![r.name] = "admin"]]
  \/ /\ r.op = "add" /\ ~Listed(wl, r.name)
     /\ \E given \in {"member", "admin"} : r.copy = [wl EXCEPT !.role[r.name] = given]
  \/ /\ r.op = "remove"
     /\ \E a \in Heirs(wl, r.name) :
          r.copy = [admin |-> a, role |-> [wl.role EXCEPT ![r.name] = "none"]]

Exact(r, wl) == r.pc = "write" => Effect(r, wl)

ExactInv == \A c \in Clients : Exact(req[c], file)

\* One request changes; if the file does, no other was about to write.
LEMMA OneExact ==
  ASSUME TypeInv, SerialInv, ExactInv, NEW c \in Clients, NEW r,
         req' = [req EXCEPT ![c] = r], Exact(r, file'),
         UNCHANGED file \/ Busy(req[c])
  PROVE  ExactInv'
<1> SUFFICES ASSUME NEW d \in Clients PROVE Exact(req'[d], file')
  BY DEF ExactInv
<1>1. CASE d = c
  BY <1>1 DEF TypeInv, TypeOK
<1>2. CASE d # c
  <2>1. req'[d] = req[d]
    BY <1>2 DEF TypeInv, TypeOK
  <2>2. CASE UNCHANGED file
    BY <2>1, <2>2 DEF ExactInv
  <2>3. CASE Busy(req[c])
    BY <1>2, <2>1, <2>3 DEF SerialInv, Busy, Exact
  <2> QED BY <2>2, <2>3
<1> QED BY <1>1, <1>2

LEMMA DoneExact ==
  ASSUME TypeInv, SerialInv, ExactInv, NEW c \in Clients, Done(c),
         UNCHANGED file \/ Busy(req[c])
  PROVE  ExactInv'
BY OneExact DEF Done, Exact, Free

LEMMA DecidedExact ==
  ASSUME TypeInv, SerialInv, ExactInv, NEW c \in Clients, NEW wl, WriteBack(c, wl),
         UNCHANGED file,
         \A r : r.op = req[c].op /\ r.name = req[c].name /\ r.copy = wl => Effect(r, file)
  PROVE  ExactInv'
<1> DEFINE r == [req[c] EXCEPT !.pc = "write", !.copy = wl]
<1>1. r.pc = "write" /\ r.copy = wl /\ r.op = req[c].op /\ r.name = req[c].name
  BY DEF Request, TypeInv, TypeOK
<1>2. req' = [req EXCEPT ![c] = r]
  BY DEF WriteBack, TypeInv, TypeOK, Request
<1> HIDE DEF r
<1> QED BY <1>1, <1>2, OneExact DEF Exact

LEMMA HandlerExact ==
  ASSUME OneAtATime, TypeInv, SerialInv, ExactInv, NEW c \in Clients, Handler(c)
  PROVE  ExactInv'
<1> DEFINE wl == req[c].copy
           n == req[c].name
<1>0. /\ req[c] \in Request /\ Current(req[c], file) /\ file \in Content
      /\ \A op \in {"claim", "add", "remove"} : At(c, "decide", op) => wl = file /\ n \in Names
  BY DEF SerialInv, TypeInv, TypeOK, NamedOK, At, Current
<1>1. CASE Read(c)
  <2>1. PICK pc \in {"seed", "decide"} :
          req' = [req EXCEPT ![c].pc = pc, ![c].copy = Seeded(file)]
    BY <1>1 DEF Read
  <2> DEFINE r == [req[c] EXCEPT !.pc = pc, !.copy = Seeded(file)]
  <2>2. r.pc = pc
    BY <1>0 DEF Request
  <2>3. req' = [req EXCEPT ![c] = r]
    BY <1>0, <2>1 DEF TypeInv, TypeOK, Request
  <2> HIDE DEF r
  <2> QED BY <1>1, <2>2, <2>3, OneExact DEF Exact, Read
<1>2. CASE WriteSeed(c)
  <2> DEFINE r == [req[c] EXCEPT !.pc = "decide"]
  <2>1. r.pc = "decide" /\ Busy(req[c])
    BY <1>0, <1>2 DEF Request, WriteSeed, Busy
  <2>2. req' = [req EXCEPT ![c] = r]
    BY <1>0, <1>2 DEF WriteSeed, TypeInv, TypeOK, Request
  <2> HIDE DEF r
  <2> QED BY <2>1, <2>2, OneExact DEF Exact
<1>3. CASE Reply(c) \/ ReadFails(c) \/ WriteFails(c)
  BY <1>3, DoneExact DEF Reply, ReadFails, WriteFails, OneAtATime
<1>4. CASE ClaimAdmin(c)
  <2>1. CASE wl.admin # Nobody
    BY <1>4, <2>1, DoneExact DEF ClaimAdmin
  <2>2. CASE wl.admin = Nobody
    <3>1. wl = file /\ req[c].op = "claim"
      BY <1>0, <1>4 DEF ClaimAdmin, At
    <3>2. WriteBack(c, [admin |-> n, role |-> [wl.role EXCEPT ![n] = "admin"]]) /\ UNCHANGED file
      BY <1>4, <2>2 DEF ClaimAdmin
    <3> QED BY <2>2, <3>1, <3>2, DecidedExact DEF Effect
  <2> QED BY <2>1, <2>2
<1>5. CASE AddWhitelistUser(c)
  <2>1. CASE Listed(wl, n)
    BY <1>5, <2>1, DoneExact DEF AddWhitelistUser
  <2>2. CASE ~Listed(wl, n)
    <3>1. wl = file /\ req[c].op = "add" /\ Granted(req[c].role) \in {"member", "admin"}
      BY <1>0, <1>5 DEF AddWhitelistUser, At, Granted
    <3>2. WriteBack(c, [wl EXCEPT !.role[n] = Granted(req[c].role)]) /\ UNCHANGED file
      BY <1>5, <2>2 DEF AddWhitelistUser
    <3> QED BY <2>2, <3>1, <3>2, DecidedExact DEF Effect
  <2> QED BY <2>1, <2>2
<1>6. CASE DeleteWhitelistUser(c)
  <2>1. CASE SoleAdmin(wl, n)
    BY <1>6, <2>1, DoneExact DEF DeleteWhitelistUser
  <2>2. CASE ~SoleAdmin(wl, n)
    <3>1. wl = file /\ req[c].op = "remove" /\ n \in Names
      BY <1>0, <1>6 DEF DeleteWhitelistUser, At
    <3>2. PICK a \in Successors(wl, n) :
            WriteBack(c, [admin |-> a, role |-> [wl.role EXCEPT ![n] = "none"]])
      BY <1>6, <2>2 DEF DeleteWhitelistUser
    <3>3. a \in Heirs(file, n)
      BY <1>0, <2>2, <3>1, AnotherAdmin DEF Successors, Heirs
    <3>4. UNCHANGED file
      BY <1>6 DEF DeleteWhitelistUser
    <3> QED BY <3>1, <3>2, <3>3, <3>4, DecidedExact DEF Effect
  <2> QED BY <2>1, <2>2
<1>7. CASE Write(c)
  BY <1>7, DoneExact DEF Write, Busy
<1> QED BY <1>1, <1>2, <1>3, <1>4, <1>5, <1>6, <1>7 DEF Handler

LEMMA StepExact ==
  ASSUME OneAtATime, TypeInv, SerialInv, ExactInv, [Next]_vars
  PROVE  ExactInv'
<1>1. ASSUME NEW c \in Clients, NEW op, NEW n, NEW role, Ask(c, op, n, role), UNCHANGED file
      PROVE  ExactInv'
  <2> DEFINE r == [pc |-> "start", op |-> op, name |-> n, role |-> role, copy |-> Empty]
  <2>1. Exact(r, file')
    BY DEF Exact
  <2>2. req' = [req EXCEPT ![c] = r]
    BY <1>1 DEF Ask
  <2> HIDE DEF r
  <2> QED BY <1>1, <2>1, <2>2, OneExact
<1>2. CASE \/ \E c \in Callers : Call(c, "list", Nobody, "")
           \/ \E c \in Callers, n \in Names : Call(c, "remove", n, "")
           \/ \E c \in Callers, n \in Names, role \in Asked : Call(c, "add", n, role)
  BY <1>1, <1>2 DEF Call, Clients
<1>3. CASE \E c \in Clients : Handler(c)
  BY <1>3, HandlerExact
<1>4. CASE UNCHANGED <<file, req>>
  BY <1>4 DEF ExactInv
<1>5. ASSUME NEW u \in Names, SignIn(u) \/ SignInAnswer(u) \/ SignInFails(u) \/ SignOut(u)
      PROVE  ExactInv'
  <2>1. /\ Ask(u, "list", u, "") \/ Ask(u, "claim", u, "") \/ Done(u) \/ UNCHANGED req
        /\ UNCHANGED file
    BY <1>5 DEF SignIn, SignInAnswer, SignInFails, SignOut
  <2>2. u \in Clients
    BY DEF Clients
  <2> QED BY <1>1, <1>4, <2>1, <2>2, DoneExact
<1>6. CASE Crash
  BY <1>6 DEF Crash, ExactInv, Exact, Free
<1> QED BY <1>2, <1>3, <1>4, <1>5, <1>6 DEF Next, vars

LEMMA ExactInvariant == ASSUME OneAtATime PROVE Spec => []ExactInv
<1>1. Init => ExactInv
  <2>1. ~(Free.pc = "write")
    BY DEF Free
  <2> QED BY <2>1 DEF Init, ExactInv, Exact
<1> QED BY <1>1, StepExact, TypeInvariant, SerialInvariant, PTL DEF Spec

\* A write is the effect of its request, answered or not.
LEMMA WriteServes ==
  ASSUME TypeInv, ExactInv, NEW c \in Clients, req[c].pc = "write", file' = req[c].copy,
         claimed' \in {claimed, IF req[c].op = "claim" THEN claimed \cup {req[c].name} ELSE claimed},
         acked' \in {CASE req[c].op = "add" -> acked \cup {req[c].name}
                       [] req[c].op = "remove" -> acked \ {req[c].name}
                       [] OTHER -> acked,
                     IF req[c].op = "remove" THEN acked \ {req[c].name} ELSE acked}
  PROVE  Service!ServiceNext
<1> DEFINE n == req[c].name
           op == req[c].op
<1>1. Effect(req[c], file) /\ file \in Content
  BY DEF ExactInv, Exact, TypeInv, TypeOK
<1>2. op # "list" => n \in Names
  BY DEF TypeInv, NamedOK
<1>3. CASE op = "claim"
  <2>1. /\ file.admin = Nobody /\ file'.admin = n
        /\ file'.role = [file.role EXCEPT ![n] = "admin"]
    BY <1>1, <1>3 DEF Effect
  <2>2. claimed' \in {claimed, claimed \cup {n}} /\ acked' = acked
    BY <1>3
  <2>3. Service!Claim(n)
    BY <2>1, <2>2 DEF Service!Claim
  <2> QED BY <1>2, <1>3, <2>3 DEF Service!ServiceNext
<1>4. CASE op = "add"
  <2>1. PICK given \in {"member", "admin"} : file' = [file EXCEPT !.role[n] = given]
    BY <1>1, <1>4 DEF Effect
  <2>2. /\ file.role[n] = "none" /\ file'.admin = file.admin
        /\ file'.role = [file.role EXCEPT ![n] = given]
    BY <1>1, <1>4, <2>1 DEF Effect, Listed, Content
  <2>3. acked' \in {acked, acked \cup {n}} /\ claimed' = claimed
    BY <1>4
  <2>4. Service!Add(n, given)
    BY <2>2, <2>3 DEF Service!Add, Service!OnList
  <2> QED BY <1>2, <1>4, <2>4 DEF Service!ServiceNext
<1>5. CASE op = "remove"
  <2>1. PICK a \in Heirs(file, n) :
          file' = [admin |-> a, role |-> [file.role EXCEPT ![n] = "none"]]
    BY <1>1, <1>5 DEF Effect
  <2>2. /\ a \in Names \cup {Nobody}
        /\ IF file.admin = n THEN a \in Names \ {n} /\ file.role[a] = "admin" ELSE a = file.admin
    BY <1>1, <2>1 DEF Heirs, Admins, Content
  <2>3. acked' = acked \ {n} /\ claimed' = claimed
    BY <1>5
  <2>4. file'.admin = a /\ file'.role = [file.role EXCEPT ![n] = "none"]
    BY <2>1
  <2>5. Service!Remove(n, a)
    BY <2>2, <2>3, <2>4 DEF Service!Remove
  <2> QED BY <1>2, <1>5, <2>2, <2>5 DEF Service!ServiceNext
<1> QED BY <1>1, <1>3, <1>4, <1>5 DEF Effect

\* So is the write of a list that was completed from the environment.
LEMMA SeedServes ==
  ASSUME TypeInv, SerialInv, NEW c \in Clients, req[c].pc = "seed", file' = req[c].copy,
         UNCHANGED <<claimed, acked>>
  PROVE  [Service!ServiceNext]_(Service!service)
<1>1. file' = Seeded(file) /\ file \in Content
  BY DEF SerialInv, Current, TypeInv, TypeOK
<1>2. CASE file.admin = Nobody /\ EnvPrimary # Nobody
  <2>1. /\ file'.admin = EnvPrimary
        /\ file'.role = [n \in Names |-> IF n \in EnvAdmins /\ ~(file.role[n] # "none") THEN "admin"
                                                                         ELSE file.role[n]]
    BY <1>1, <1>2 DEF Seeded, Listed
  <2> QED BY <1>2, <2>1 DEF Service!ServiceNext, Service!Seed, Service!OnList
<1>3. CASE ~(file.admin = Nobody /\ EnvPrimary # Nobody)
  BY <1>1, <1>3 DEF Seeded, Service!service
<1> QED BY <1>2, <1>3

LEMMA StepServes ==
  ASSUME OneAtATime, TypeInv, SerialInv, ExactInv, [Next]_vars
  PROVE  [Service!ServiceNext]_(Service!service)
<1>1. CASE UNCHANGED <<file, claimed, acked>>
  BY <1>1 DEF Service!service
<1>2. ASSUME NEW c \in Clients, Handler(c)
      PROVE  [Service!ServiceNext]_(Service!service)
  <2>1. CASE Read(c) \/ Reply(c) \/ ClaimAdmin(c) \/ DeleteWhitelistUser(c)
    BY <1>1, <2>1 DEF Read, Reply, ClaimAdmin, DeleteWhitelistUser
  <2>2. CASE WriteSeed(c)
    BY <2>2, SeedServes DEF WriteSeed, OneAtATime
  <2>3. CASE AddWhitelistUser(c)
    <3> DEFINE n == req[c].name
    <3>1. n \in Names /\ req[c].copy = file
      BY <2>3 DEF AddWhitelistUser, At, TypeInv, NamedOK, SerialInv, Current
    <3>2. CASE Listed(file, n)
      <4>1. acked' = acked \cup {n} /\ UNCHANGED <<file, claimed>>
        BY <2>3, <3>1, <3>2 DEF AddWhitelistUser
      <4>2. Service!Confirm(n)
        BY <3>2, <4>1 DEF Service!Confirm, Service!OnList, Listed
      <4> QED BY <3>1, <4>2 DEF Service!ServiceNext
    <3>3. CASE ~Listed(file, n)
      BY <1>1, <2>3, <3>1, <3>3 DEF AddWhitelistUser
    <3> QED BY <3>2, <3>3
  <2>4. CASE Write(c)
    BY <2>4, WriteServes DEF Write
  <2>5. CASE ReadFails(c) \/ WriteFails(c)
    BY <2>5 DEF ReadFails, WriteFails, OneAtATime
  <2> QED BY <1>2, <2>1, <2>2, <2>3, <2>4, <2>5 DEF Handler
<1>3. CASE \E u \in Names : SignIn(u) \/ SignInAnswer(u) \/ SignInFails(u) \/ SignOut(u)
  BY <1>1, <1>3 DEF SignIn, SignInAnswer, SignInFails, SignOut
<1>4. CASE Crash
  <2>1. CASE UNCHANGED <<file, acked>>
    BY <1>1, <1>4, <2>1 DEF Crash
  <2>2. ASSUME NEW c \in Clients, req[c].pc \in {"seed", "write"}, file' = req[c].copy,
               acked' = IF At(c, "write", "remove") THEN acked \ {req[c].name} ELSE acked,
               UNCHANGED claimed
        PROVE  [Service!ServiceNext]_(Service!service)
    <3>1. CASE req[c].pc = "seed"
      BY <2>2, <3>1, SeedServes DEF At
    <3>2. CASE req[c].pc = "write"
      BY <2>2, <3>2, WriteServes DEF At
    <3> QED BY <2>2, <3>1, <3>2
  <2> QED BY <1>4, <2>1, <2>2 DEF Crash, OneAtATime
<1>5. CASE \E c \in Callers, op \in Ops, n \in Names \cup {Nobody}, role \in Asked : Call(c, op, n, role)
  BY <1>1, <1>5 DEF Call
<1> QED BY <1>1, <1>2, <1>3, <1>4, <1>5 DEF Next, vars, Ops, Asked

\* One request at a time, the handlers and the sign-ins amount to claims, additions and
\* removals that take effect at once on the whitelist as it is.
THEOREM ServiceImplemented == ASSUME OneAtATime PROVE Spec => ServesAtOnce
<1>1. Init => Service!ServiceInit
  BY DEF Init, Empty, Service!ServiceInit
<1>2. OneAtATime /\ TypeInv /\ SerialInv /\ ExactInv /\ [Next]_vars
        => [Service!ServiceNext]_(Service!service)
  BY StepServes
<1> QED BY <1>1, <1>2, TypeInvariant, SerialInvariant, ExactInvariant, PTL
        DEF Spec, ServesAtOnce, Service!ServiceSpec
=============================================================================
