-------------------------- MODULE BackupsView_proofs --------------------------
(***************************************************************************)
(* Theorems about BackupsView for any snapshots, schedules and number of   *)
(* requests.                                                               *)
(***************************************************************************)
EXTENDS BackupsView, FiniteSetTheorems, TLAPS

----------------------------------------------------------------------------
(* Requests *)

\* A finite set of requests leaves a number free.
LEMMA FreshNumber ==
  ASSUME NEW cs, IsFiniteSet(cs), NEW kind, NEW cause
  PROVE  Fresh(cs, kind, cause) \in Nat
<1> DEFINE alike == {d \in cs : d.kind = kind /\ d.cause = cause}
           ns == {c.n : c \in alike}
           f == [c \in alike |-> c.n]
<1>1. IsFiniteSet(alike)
  BY FS_Subset
<1>2. f \in Surjection(alike, ns)
  BY DEF Surjection
<1>3. IsFiniteSet(ns)
  BY <1>1, <1>2, FS_Surjection
<1>4. Cardinality(ns) \in Nat
  BY <1>3, FS_CardinalityType
<1>5. \E i \in 0..Cardinality(ns) : i \notin ns
  <2> SUFFICES ASSUME 0..Cardinality(ns) \subseteq ns PROVE FALSE
    OBVIOUS
  <2>1. Cardinality(0..Cardinality(ns)) <= Cardinality(ns)
    BY <1>3, FS_Subset
  <2>2. Cardinality(0..Cardinality(ns)) = Cardinality(ns) + 1
    BY <1>4, FS_Interval
  <2> QED BY <1>4, <2>1, <2>2
<1>6. Fresh(cs, kind, cause) \in 0..Cardinality(ns)
  BY <1>5 DEF Fresh
<1> QED BY <1>4, <1>6

\* Only a load may be awaited by a handler of another kind.
WellSent(c) == c.kind # "load" => c.cause = c.kind

TypeInv == /\ TypeOK
           /\ IsFiniteSet(calls)
           /\ \A c \in calls : WellSent(c)

LEMMA NewCallType ==
  ASSUME NEW cs, IsFiniteSet(cs), edited \subseteq Fields,
         NEW kind \in Operations \union {"load"}, NEW cause \in Operations \union {"user"},
         NEW file \in Files \union {None}, NEW s \in Schedules
  PROVE  LET c == NewCall(cs, kind, cause, file, s)
         IN  /\ c \in Call /\ c.state = "sent" /\ c.ready = {} /\ c.edited = edited
             /\ c.kind = kind /\ c.cause = cause /\ c.file = file /\ c.sched = s
BY FreshNumber DEF NewCall, Call

\* Another request.
LEMMA SentType ==
  ASSUME NEW cs, IsFiniteSet(cs), cs \subseteq Call, \A c \in cs : WellSent(c),
         NEW d \in Call, WellSent(d)
  PROVE  LET ds == cs \union {d}
         IN  IsFiniteSet(ds) /\ ds \subseteq Call /\ \A c \in ds : WellSent(c)
BY FS_AddElement

LEMMA DroppedType ==
  ASSUME NEW cs, IsFiniteSet(cs), cs \subseteq Call, \A e \in cs : WellSent(e), NEW c \in cs
  PROVE  IsFiniteSet(cs \ {c}) /\ cs \ {c} \subseteq Call /\ \A e \in cs \ {c} : WellSent(e)
BY FS_RemoveElement

\* A request that went on.
LEMMA BecomesType ==
  ASSUME TypeInv, NEW c \in calls, NEW d \in Call, WellSent(d), Becomes(c, d)
  PROVE  IsFiniteSet(calls') /\ calls' \subseteq Call /\ \A e \in calls' : WellSent(e)
<1> DEFINE cs == calls \ {c}
<1>1. IsFiniteSet(cs) /\ cs \subseteq Call /\ \A e \in cs : WellSent(e)
  BY DroppedType DEF TypeInv, TypeOK
<1>2. calls' = cs \union {d}
  BY DEF Becomes
<1> HIDE DEF cs
<1> QED BY <1>1, <1>2, SentType

LEMMA LoadType ==
  ASSUME BackupsViewConstants, NEW cs, IsFiniteSet(cs), cs \subseteq Call,
         \A c \in cs : WellSent(c), edited \subseteq Fields,
         NEW cause \in Operations \union {"user"}
  PROVE  /\ IsFiniteSet(Load(cs, cause)) /\ Load(cs, cause) \subseteq Call
         /\ \A c \in Load(cs, cause) : WellSent(c)
<1> DEFINE d == NewCall(cs, "load", cause, None, Default)
<1>1. d \in Call /\ d.kind = "load"
  BY NewCallType DEF BackupsViewConstants
<1> HIDE DEF d
<1>2. Load(cs, cause) = cs \union {d}
  BY DEF Load, d
<1> QED BY <1>1, <1>2, SentType DEF WellSent

\* A load and one of its two reads, as it was answered or made up.
LEMMA ReadType ==
  ASSUME NEW c \in Call, WellSent(c), NEW part \in Parts,
         NEW list \in SUBSET Files, NEW s \in Schedules
  PROVE  LET d == [c EXCEPT !.ready = @ \union {part}, !.list = list]
             e == [c EXCEPT !.ready = @ \union {part}, !.sched = s]
         IN  /\ d \in Call /\ WellSent(d) /\ e \in Call /\ WellSent(e)
             /\ d.kind = c.kind /\ d.cause = c.cause /\ d.sched = c.sched
             /\ e.kind = c.kind /\ e.cause = c.cause /\ e.sched = s
             /\ d.ready = c.ready \union {part} /\ e.ready = c.ready \union {part}
BY DEF Call, WellSent, Parts

LEMMA WrittenType ==
  ASSUME NEW c \in Call, WellSent(c), NEW s \in {"done", "refused"}
  PROVE  LET d == [c EXCEPT !.state = s]
         IN  /\ d \in Call /\ WellSent(d) /\ d.state = s
             /\ d.kind = c.kind /\ d.cause = c.cause /\ d.file = c.file
             /\ d.sched = c.sched /\ d.edited = c.edited
BY DEF Call, WellSent

----------------------------------------------------------------------------
(* Types *)

USE DEF TypeInv, TypeOK

LEMMA AskType ==
  ASSUME BackupsViewConstants, TypeInv, NEW kind \in Operations,
         NEW file \in Files \union {None}, NEW s \in Schedules, Ask(kind, file, s)
  PROVE  TypeInv'
<1> DEFINE d == NewCall(calls, kind, kind, file, s)
<1>1. d \in Call /\ WellSent(d)
  BY NewCallType DEF WellSent
<1> HIDE DEF d
<1>2. /\ calls' = calls \union {d} /\ plain' \in BOOLEAN
      /\ busy' = busy \union {kind} /\ moves' = moves + 1
      /\ UNCHANGED <<files, sched, backups, schedule, edited, loading, modal, chosen, typed, faults>>
  BY DEF Ask, Sends, d, Agent, Form, Modal
<1>3. IsFiniteSet(calls') /\ calls' \subseteq Call /\ \A c \in calls' : WellSent(c)
  BY <1>1, <1>2, SentType
<1> QED BY <1>2, <1>3

LEMMA UserType ==
  ASSUME BackupsViewConstants, TypeInv, User
  PROVE  TypeInv'
<1> USE DEF Agent, Form, Modal
<1>1. CASE Refresh
  <2>1. calls' = Load(calls, "user") /\ plain' \in BOOLEAN
    BY <1>1 DEF Refresh, Sends
  <2>2. IsFiniteSet(calls') /\ calls' \subseteq Call /\ \A c \in calls' : WellSent(c)
    BY <2>1, LoadType
  <2> QED BY <1>1, <2>1, <2>2 DEF Refresh
<1>2. CASE SaveSchedule
  BY <1>2, AskType DEF SaveSchedule, Operations
<1>3. CASE CloseModal
  BY <1>3 DEF CloseModal
<1>4. CASE TypeName
  BY <1>4 DEF TypeName
<1>5. CASE CreateBackup \/ ConfirmRestore \/ ConfirmDelete
  BY <1>5, AskType DEF CreateBackup, ConfirmRestore, ConfirmDelete, Operations, BackupsViewConstants
<1>6. CASE \E f \in Fields, s \in Schedules : EditSchedule(f, s)
  BY <1>6 DEF EditSchedule
<1>7. CASE \E m \in {"create", "restore", "delete"}, f \in Files \union {None} : OpenModal(m, f)
  BY <1>7 DEF OpenModal
<1> QED BY <1>1, <1>2, <1>3, <1>4, <1>5, <1>6, <1>7 DEF User

LEMMA ServeType ==
  ASSUME BackupsViewConstants, TypeInv, NEW c \in calls, ServeWrite(c) \/ \E p \in Parts : ServeRead(c, p)
  PROVE  TypeInv'
<1>1. c \in Call /\ WellSent(c)
  OBVIOUS
<1>2. ASSUME NEW p \in Parts, ServeRead(c, p) PROVE TypeInv'
  <2>1. PICK d \in Call : WellSent(d) /\ Becomes(c, d)
    BY <1>1, <1>2, ReadType DEF ServeRead
  <2> QED BY <1>2, <2>1, BecomesType DEF ServeRead, Agent, Form, Modal
<1>3. CASE ServeWrite(c)
  <2>1. PICK d \in Call : WellSent(d) /\ Becomes(c, d)
    BY <1>1, <1>3, WrittenType DEF ServeWrite
  <2>2. files' \subseteq Files /\ sched' \in Schedules
    BY <1>1, <1>3 DEF ServeWrite, Call
  <2> QED BY <1>3, <2>1, <2>2, BecomesType DEF ServeWrite, Form, Modal
<1> QED BY <1>2, <1>3

LEMMA LoseType ==
  ASSUME BackupsViewConstants, TypeInv, NEW c \in calls, Lose(c)
  PROVE  TypeInv'
<1>1. c \in Call /\ WellSent(c) /\ Invented \in SUBSET Files /\ Default \in Schedules
  BY DEF BackupsViewConstants
<1>2. PICK d \in Call : WellSent(d) /\ Becomes(c, d)
  BY <1>1, ReadType, WrittenType DEF Lose, Parts
<1>3. /\ faults' = faults + 1 /\ plain' = FALSE
      /\ UNCHANGED <<files, sched, backups, schedule, edited, loading, modal, chosen, typed, busy, moves>>
  BY DEF Lose, Agent, Form, Modal
<1>4. IsFiniteSet(calls') /\ calls' \subseteq Call /\ \A e \in calls' : WellSent(e)
  BY <1>2, BecomesType
<1>5. loading' \in BOOLEAN /\ typed' \in BOOLEAN /\ plain' \in BOOLEAN
  BY <1>3
<1>6. faults' \in Nat /\ moves' \in Nat
  BY <1>3
<1>7. /\ files' \subseteq Files /\ sched' \in Schedules
      /\ backups' \subseteq Files /\ schedule' \in Schedules /\ edited' \subseteq Fields
      /\ modal' \in {"create", "restore", "delete", None} /\ chosen' \in Files \union {None}
      /\ busy' \subseteq Operations
  BY <1>3
<1> QED BY <1>4, <1>5, <1>6, <1>7

LEMMA GotType ==
  ASSUME BackupsViewConstants, TypeInv, NEW c \in calls, GotLoad(c) \/ GotSave(c) \/ GotOperation(c)
  PROVE  TypeInv'
<1> USE DEF Sends, Agent, Form, Modal
<1>1. IsFiniteSet(calls \ {c}) /\ calls \ {c} \subseteq Call /\ \A e \in calls \ {c} : WellSent(e)
  BY DroppedType
<1>2. c.sched \in Schedules /\ c.list \subseteq Files
  BY DEF Call
<1>3. CASE GotLoad(c)
  BY <1>1, <1>2, <1>3 DEF GotLoad, Filled
<1>4. CASE GotSave(c)
  BY <1>1, <1>2, <1>4 DEF GotSave, Freed
<1>5. CASE GotOperation(c)
  <2>1. calls' = calls \ {c} \/ calls' = Load(calls \ {c}, c.kind)
    BY <1>5 DEF GotOperation
  <2>2. c.kind \in Operations
    BY <1>5 DEF GotOperation, Operations
  <2>3. IsFiniteSet(calls') /\ calls' \subseteq Call /\ \A e \in calls' : WellSent(e)
    BY <1>1, <2>1, <2>2, LoadType
  <2>4. /\ plain' \in BOOLEAN /\ loading' \in BOOLEAN /\ busy' \subseteq Operations
        /\ modal' \in {"create", "restore", "delete", None} /\ chosen' \in Files \union {None}
    BY <1>5 DEF GotOperation, Freed
  <2>5. typed' \in BOOLEAN /\ UNCHANGED <<files, sched, backups, schedule, edited, moves, faults>>
    BY <1>5 DEF GotOperation
  <2> QED BY <2>3, <2>4, <2>5
<1> QED BY <1>3, <1>4, <1>5

LEMMA InitType ==
  ASSUME BackupsViewConstants, Init
  PROVE  TypeInv
<1>1. IsFiniteSet({})
  BY FS_EmptySet
<1>2. IsFiniteSet(calls) /\ calls \subseteq Call /\ \A c \in calls : WellSent(c)
  BY <1>1, LoadType DEF Init
<1> QED BY <1>2 DEF Init, BackupsViewConstants

LEMMA StepType ==
  ASSUME BackupsViewConstants, TypeInv, [Next]_vars
  PROVE  TypeInv'
<1>1. CASE User
  BY <1>1, UserType
<1>2. CASE \E f \in Files : Prune(f)
  BY <1>2 DEF Prune, Form, Modal
<1>3. ASSUME NEW c \in calls,
             \/ \E p \in Parts : ServeRead(c, p)
             \/ ServeWrite(c) \/ Lose(c) \/ GotLoad(c) \/ GotSave(c) \/ GotOperation(c)
      PROVE  TypeInv'
  BY <1>3, ServeType, LoseType, GotType
<1>4. CASE UNCHANGED vars
  BY <1>4 DEF vars, Agent, Form, Modal
<1> QED BY <1>1, <1>2, <1>3, <1>4 DEF Next

\* The agent, the tab and its requests keep their types, whatever is lost, pruned or
\* overlaps.
THEOREM TypeCorrect ==
  ASSUME BackupsViewConstants
  PROVE  Spec => []TypeOK
<1>1. Init => TypeInv
  BY InitType
<1>2. TypeInv /\ [Next]_vars => TypeInv'
  BY StepType
<1>3. TypeInv => TypeOK
  OBVIOUS
<1> QED BY <1>1, <1>2, <1>3, PTL DEF Spec

----------------------------------------------------------------------------
(* Buttons *)

\* The requests that release what waits.
Releases(cs, waits, load) ==
  /\ \A k \in waits : \E c \in cs : c.cause = k
  /\ load => \E c \in cs : c.kind = "load"

LEMMA LoadReleases ==
  ASSUME NEW cs, NEW cause
  PROVE  /\ cs \subseteq Load(cs, cause)
         /\ \E d \in Load(cs, cause) : d.cause = cause /\ d.kind = "load"
<1>1. LET d == NewCall(cs, "load", cause, None, Default) IN d.cause = cause /\ d.kind = "load"
  BY DEF NewCall
<1> QED BY <1>1 DEF Load

LEMMA AskReleases ==
  ASSUME Releases(calls, busy, loading), NEW kind, NEW file, NEW s, Ask(kind, file, s)
  PROVE  Releases(calls, busy, loading)'
<1>1. /\ calls' = calls \union {NewCall(calls, kind, kind, file, s)}
      /\ busy' = busy \union {kind} /\ UNCHANGED loading
  BY DEF Ask, Sends
<1>2. NewCall(calls, kind, kind, file, s).cause = kind
  BY DEF NewCall
<1> QED BY <1>1, <1>2 DEF Releases

LEMMA UserReleases ==
  ASSUME Releases(calls, busy, loading), User
  PROVE  Releases(calls, busy, loading)'
<1>1. CASE Refresh
  BY <1>1, LoadReleases DEF Refresh, Sends, Releases
<1>2. CASE SaveSchedule \/ CreateBackup \/ ConfirmRestore \/ ConfirmDelete
  BY <1>2, AskReleases DEF SaveSchedule, CreateBackup, ConfirmRestore, ConfirmDelete
<1>3. CASE \/ CloseModal \/ TypeName
           \/ \E f \in Fields, s \in Schedules : EditSchedule(f, s)
           \/ \E m \in {"create", "restore", "delete"}, f \in Files \union {None} : OpenModal(m, f)
  <2>1. UNCHANGED <<calls, busy, loading>>
    BY <1>3 DEF CloseModal, TypeName, EditSchedule, OpenModal
  <2> QED BY <2>1
<1> QED BY <1>1, <1>2, <1>3 DEF User

\* A request that goes on keeps its kind and its cause.
Network(c) == ServeWrite(c) \/ Lose(c) \/ \E p \in Parts : ServeRead(c, p)

Like(c, d) == /\ d.kind = c.kind /\ d.cause = c.cause
              /\ c.kind # "load" => d.file = c.file

LEMMA Goes ==
  ASSUME TypeInv, NEW c \in calls, Network(c)
  PROVE  /\ UNCHANGED <<modal, chosen, busy, loading>>
         /\ \E d : calls' = (calls \ {c}) \union {d} /\ Like(c, d)
<1>1. c \in Call /\ WellSent(c)
  OBVIOUS
<1>2. UNCHANGED <<modal, chosen, busy, loading>>
  BY DEF Network, ServeRead, ServeWrite, Lose, Modal
<1>3. \E d : Becomes(c, d) /\ Like(c, d)
  <2>1. ASSUME NEW p \in Parts, ServeRead(c, p) PROVE \E d : Becomes(c, d) /\ Like(c, d)
    <3> DEFINE d == [c EXCEPT !.ready = @ \union {p}, !.list = files]
               e == [c EXCEPT !.ready = @ \union {p}, !.sched = sched]
    <3>1. Like(c, d) /\ Like(c, e)
      BY <1>1 DEF Call, Like
    <3>2. Becomes(c, d) \/ Becomes(c, e)
      BY <2>1 DEF ServeRead
    <3> HIDE DEF d, e
    <3> QED BY <3>1, <3>2
  <2>2. CASE ServeWrite(c)
    <3> DEFINE s == IF Refuses(c) THEN "refused" ELSE "done"
               d == [c EXCEPT !.state = s]
    <3>1. Like(c, d)
      BY <1>1 DEF Call, Like
    <3>2. Becomes(c, d)
      BY <2>2 DEF ServeWrite
    <3> HIDE DEF d
    <3> QED BY <3>1, <3>2
  <2>3. CASE Lose(c)
    <3> DEFINE d == [c EXCEPT !.ready = @ \union {"list"}, !.list = Invented]
               e == [c EXCEPT !.ready = @ \union {"schedule"}, !.sched = Default]
               r == [c EXCEPT !.state = "refused"]
    <3>1. Like(c, d) /\ Like(c, e) /\ Like(c, r)
      BY <1>1 DEF Call, Like
    <3>2. Becomes(c, d) \/ Becomes(c, e) \/ Becomes(c, r)
      BY <2>3 DEF Lose
    <3> HIDE DEF d, e, r
    <3> QED BY <3>1, <3>2
  <2> QED BY <2>1, <2>2, <2>3 DEF Network
<1> QED BY <1>2, <1>3 DEF Becomes

LEMMA GoesReleases ==
  ASSUME TypeInv, Releases(calls, busy, loading), NEW c \in calls, Network(c)
  PROVE  Releases(calls, busy, loading)'
<1>1. PICK d : calls' = (calls \ {c}) \union {d} /\ Like(c, d)
  BY Goes
<1>2. UNCHANGED <<busy, loading>>
  BY Goes
<1> QED BY <1>1, <1>2 DEF Releases, Like

LEMMA GotReleases ==
  ASSUME TypeInv, Releases(calls, busy, loading), NEW c \in calls,
         GotLoad(c) \/ GotSave(c) \/ GotOperation(c)
  PROVE  Releases(calls, busy, loading)'
<1>1. CASE GotLoad(c)
  BY <1>1 DEF GotLoad, Sends, Releases
<1>2. CASE GotSave(c)
  BY <1>2 DEF GotSave, Sends, Freed, WellSent, Releases
<1>3. CASE GotOperation(c)
  <2>1. c.kind # "load" /\ c.cause = c.kind
    BY <1>3 DEF GotOperation, WellSent
  <2>2. CASE Reported(c)
    <3>1. calls' = Load(calls \ {c}, c.kind) /\ busy' = busy
      BY <1>3, <2>2 DEF GotOperation, Sends
    <3> QED BY <2>1, <3>1, LoadReleases DEF Releases
  <2>3. CASE ~Reported(c)
    <3>1. calls' = calls \ {c} /\ busy' = busy \ {c.kind} /\ UNCHANGED loading
      BY <1>3, <2>3 DEF GotOperation, Sends, Freed
    <3> QED BY <2>1, <3>1 DEF Releases
  <2> QED BY <2>2, <2>3
<1> QED BY <1>1, <1>2, <1>3

LEMMA StepReleases ==
  ASSUME TypeInv, Releases(calls, busy, loading), [Next]_vars
  PROVE  Releases(calls, busy, loading)'
<1>1. CASE User
  BY <1>1, UserReleases
<1>2. CASE \E f \in Files : Prune(f)
  BY <1>2 DEF Prune, Releases
<1>3. CASE \E c \in calls : Network(c)
  BY <1>3, GoesReleases
<1>4. CASE \E c \in calls : GotLoad(c) \/ GotSave(c) \/ GotOperation(c)
  BY <1>4, GotReleases
<1>5. CASE UNCHANGED vars
  BY <1>5 DEF vars, Releases
<1> QED BY <1>1, <1>2, <1>3, <1>4, <1>5 DEF Next, Network

LEMMA InitReleases ==
  ASSUME Init
  PROVE  Releases(calls, busy, loading)
BY LoadReleases DEF Init, Releases

\* Every button that waits, and the list that is being read, has a request under way
\* that releases it, for any number of overlapping requests and lost answers.
THEOREM ButtonsCorrect ==
  ASSUME BackupsViewConstants
  PROVE  Spec => []TabReleased
<1>1. Init => TypeInv /\ Releases(calls, busy, loading)
  BY InitType, InitReleases
<1>2. TypeInv /\ Releases(calls, busy, loading) /\ [Next]_vars
      => TypeInv' /\ Releases(calls, busy, loading)'
  BY StepType, StepReleases
<1>3. Releases(calls, busy, loading) => TabReleased
  BY DEF Releases, TabReleased
<1> QED BY <1>1, <1>2, <1>3, PTL DEF Spec

----------------------------------------------------------------------------
(* Restores and deletions *)

\* A handler that waits keeps its button down, so that it is the only one of its kind,
\* and the modal of a restore or a deletion stays.
OneEach(cs, waits) ==
  /\ \A c \in cs : c.cause # "user" => c.cause \in waits
  /\ \A c, d \in cs : c.cause # "user" /\ c.cause = d.cause => c = d

Destroys(c) == c.kind \in {"restore", "delete"}

Shown(cs, m, f) == \A c \in cs : Destroys(c) => m = c.kind /\ f = c.file

Alone == OneEach(calls, busy) /\ Shown(calls, modal, chosen)

LEMMA AskAlone ==
  ASSUME Alone, NEW kind \in Operations, NEW file, NEW s, Ask(kind, file, s),
         kind \in {"restore", "delete"} => modal = kind /\ chosen = file
  PROVE  Alone'
<1> DEFINE d == NewCall(calls, kind, kind, file, s)
<1>1. d.cause = kind /\ d.kind = kind /\ d.file = file
  BY DEF NewCall
<1> HIDE DEF d
<1>2. /\ calls' = calls \union {d} /\ kind \notin busy /\ busy' = busy \union {kind}
      /\ UNCHANGED <<modal, chosen>>
  BY DEF Ask, Sends, Modal, d
<1>3. kind # "user"
  BY DEF Operations
<1>4. OneEach(calls, busy)'
  BY <1>1, <1>2, <1>3 DEF Alone, OneEach
<1>5. Shown(calls, modal, chosen)'
  BY <1>1, <1>2 DEF Alone, Shown, Destroys
<1> QED BY <1>4, <1>5 DEF Alone

LEMMA UserAlone ==
  ASSUME BackupsViewConstants, TypeInv, Alone, User
  PROVE  Alone'
<1>1. CASE Refresh
  <2> DEFINE d == NewCall(calls, "load", "user", None, Default)
  <2>1. d.cause = "user" /\ d.kind = "load"
    BY DEF NewCall
  <2> HIDE DEF d
  <2>2. calls' = calls \union {d} /\ UNCHANGED <<busy, modal, chosen>>
    BY <1>1 DEF Refresh, Sends, Load, Modal, d
  <2>3. OneEach(calls, busy)'
    BY <2>1, <2>2 DEF Alone, OneEach
  <2> QED BY <2>1, <2>2, <2>3 DEF Alone, Shown, Destroys
<1>2. CASE SaveSchedule \/ CreateBackup \/ ConfirmRestore \/ ConfirmDelete
  BY <1>2, AskAlone DEF SaveSchedule, CreateBackup, ConfirmRestore, ConfirmDelete, Operations
<1>3. CASE CloseModal
  <2>1. \A c \in calls : ~Destroys(c)
    BY <1>3 DEF CloseModal, Held, Alone, OneEach, Shown, Destroys, WellSent
  <2> QED BY <1>3, <2>1 DEF CloseModal, Alone, Shown
<1>4. CASE \E m \in {"create", "restore", "delete"}, f \in Files \union {None} : OpenModal(m, f)
  <2>1. \A c \in calls : ~Destroys(c)
    BY <1>4 DEF OpenModal, Alone, Shown, Destroys, BackupsViewConstants
  <2> QED BY <1>4, <2>1 DEF OpenModal, Alone, Shown
<1>5. CASE TypeName \/ \E f \in Fields, s \in Schedules : EditSchedule(f, s)
  <2>1. UNCHANGED <<calls, busy, modal, chosen>>
    BY <1>5 DEF TypeName, EditSchedule, Modal
  <2> QED BY <2>1 DEF Alone, OneEach, Shown
<1> QED BY <1>1, <1>2, <1>3, <1>4, <1>5 DEF User

LEMMA GoesAlone ==
  ASSUME TypeInv, Alone, NEW c \in calls, Network(c)
  PROVE  Alone'
<1>1. PICK d : calls' = (calls \ {c}) \union {d} /\ Like(c, d)
  BY Goes
<1>2. UNCHANGED <<modal, chosen, busy>>
  BY Goes
<1>3. OneEach(calls, busy)'
  BY <1>1, <1>2 DEF Alone, OneEach, Like
<1> QED BY <1>1, <1>2, <1>3 DEF Alone, Shown, Destroys, Like

LEMMA GotAlone ==
  ASSUME TypeInv, Alone, NEW c \in calls, GotLoad(c) \/ GotSave(c) \/ GotOperation(c)
  PROVE  Alone'
<1>1. CASE GotLoad(c) \/ GotSave(c)
  <2>1. calls' = calls \ {c} /\ busy' = busy \ {c.cause} /\ UNCHANGED <<modal, chosen>>
    BY <1>1 DEF GotLoad, GotSave, Sends, Modal, Freed, WellSent
  <2>2. OneEach(calls, busy)'
    BY <2>1 DEF Alone, OneEach
  <2> QED BY <2>1, <2>2 DEF Alone, Shown
<1>2. CASE GotOperation(c)
  <2>1. c.kind # "load" /\ c.cause = c.kind /\ c.cause # "user" /\ c.cause \in busy
    BY <1>2 DEF GotOperation, WellSent, Alone, OneEach
  <2>2. CASE Reported(c)
    <3> DEFINE d == NewCall(calls \ {c}, "load", c.kind, None, Default)
    <3>1. d.cause = c.cause /\ d.kind = "load"
      BY <2>1 DEF NewCall
    <3> HIDE DEF d
    <3>2. calls' = (calls \ {c}) \union {d} /\ busy' = busy
      BY <1>2, <2>2 DEF GotOperation, Sends, Load, d
    <3>3. OneEach(calls, busy)'
      BY <2>1, <3>1, <3>2 DEF Alone, OneEach
    <3>4. CASE modal = c.kind
      <4>1. \A e \in calls \ {c} : ~Destroys(e)
        BY <2>1, <3>4 DEF Alone, OneEach, Shown, Destroys, WellSent
      <4> QED BY <3>1, <3>2, <3>3, <4>1 DEF Alone, Shown, Destroys
    <3>5. CASE modal # c.kind
      <4>1. UNCHANGED <<modal, chosen>>
        BY <1>2, <2>2, <3>5 DEF GotOperation
      <4> QED BY <3>1, <3>2, <3>3, <4>1 DEF Alone, Shown, Destroys
    <3> QED BY <3>4, <3>5
  <2>3. CASE ~Reported(c)
    <3>1. calls' = calls \ {c} /\ busy' = busy \ {c.cause} /\ UNCHANGED <<modal, chosen>>
      BY <1>2, <2>1, <2>3 DEF GotOperation, Sends, Freed, Modal
    <3>2. OneEach(calls, busy)'
      BY <2>1, <3>1 DEF Alone, OneEach
    <3> QED BY <3>1, <3>2 DEF Alone, Shown
  <2> QED BY <2>2, <2>3
<1> QED BY <1>1, <1>2

LEMMA StepAlone ==
  ASSUME BackupsViewConstants, TypeInv, Alone, [Next]_vars
  PROVE  Alone'
<1>1. CASE User
  BY <1>1, UserAlone
<1>2. CASE \E f \in Files : Prune(f)
  BY <1>2 DEF Prune, Modal, Alone, OneEach, Shown
<1>3. CASE \E c \in calls : Network(c)
  BY <1>3, GoesAlone
<1>4. CASE \E c \in calls : GotLoad(c) \/ GotSave(c) \/ GotOperation(c)
  BY <1>4, GotAlone
<1>5. CASE UNCHANGED vars
  BY <1>5 DEF vars, Modal, Alone, OneEach, Shown
<1> QED BY <1>1, <1>2, <1>3, <1>4, <1>5 DEF Next, Network

LEMMA InitAlone ==
  ASSUME Init
  PROVE  Alone
<1> DEFINE d == NewCall({}, "load", "user", None, Default)
<1>1. d.cause = "user" /\ d.kind = "load"
  BY DEF NewCall
<1> HIDE DEF d
<1>2. calls = {d}
  BY DEF Init, Load, d
<1> QED BY <1>1, <1>2 DEF Alone, OneEach, Shown, Destroys

\* A restore or a deletion under way is the only one, and acts on the snapshot its modal
\* shows, for any number of snapshots and requests.
THEOREM DestructionCorrect ==
  ASSUME BackupsViewConstants
  PROVE  Spec => []OneDestructive
<1>1. Init => TypeInv /\ Alone
  BY InitType, InitAlone
<1>2. TypeInv /\ Alone /\ [Next]_vars => TypeInv' /\ Alone'
  BY StepType, StepAlone
<1>3. TypeInv /\ Alone => OneDestructive
  BY DEF Alone, OneEach, Shown, Destroys, WellSent, OneDestructive
<1> QED BY <1>1, <1>2, <1>3, PTL DEF Spec

----------------------------------------------------------------------------
(* Saving the schedule *)

\* s and t differ at most where the user edited.
Same(s, t, e) == \A f \in Fields \ e : s[f] = t[f]

Saves(c, state) == c.kind = "save" /\ c.state = state

\* While nothing was lost and no save overlapped a read: what was read or saved is what
\* the agent has, and what is to be saved differs from it only where the user edited.
Current ==
  /\ ~Overlap(calls)
  /\ \A c \in calls : c.kind = "load" /\ "schedule" \in c.ready => c.sched = sched
  /\ \A c \in calls : Saves(c, "done") => c.sched = sched
  /\ \A c \in calls : Saves(c, "sent") => Same(c.sched, sched, c.edited)
  /\ (\A c \in calls : c.kind # "load" /\ ~Saves(c, "done")) => Same(schedule, sched, edited)

FormInv == plain => Current

LEMMA SendCurrent ==
  ASSUME FormInv, NEW d, d.state = "sent", d.ready = {},
         d.kind = "save" => d.sched = schedule /\ d.edited = edited /\ "save" \notin busy,
         Alone, TypeInv, Sends(calls \union {d}), UNCHANGED <<sched, schedule, edited>>
  PROVE  FormInv'
<1> SUFFICES ASSUME plain' PROVE Current'
  BY DEF FormInv
<1>1. calls' = calls \union {d} /\ Current /\ ~Overlap(calls')
  BY DEF Sends, FormInv
<1>2. d.kind = "save" => Same(schedule, sched, edited)
  <2> SUFFICES ASSUME d.kind = "save" PROVE \A c \in calls : c.kind # "load" /\ ~Saves(c, "done")
    BY <1>1 DEF Current
  <2>1. \A c \in calls : c.kind # "load"
    BY <1>1 DEF Overlap
  <2>2. \A c \in calls : c.kind # "save"
    BY DEF Alone, OneEach, WellSent
  <2> QED BY <2>1, <2>2 DEF Saves
<1> QED BY <1>1, <1>2 DEF Current, Saves, Same

LEMMA StillCurrent ==
  ASSUME FormInv, UNCHANGED <<sched, schedule, edited, calls, plain>>
  PROVE  FormInv'
BY DEF FormInv, Current, Overlap, Same, Saves

LEMMA AskCurrent ==
  ASSUME FormInv, Alone, TypeInv, NEW kind, NEW file, NEW s, Ask(kind, file, s),
         kind = "save" => s = schedule
  PROVE  FormInv'
<1> DEFINE d == NewCall(calls, kind, kind, file, s)
<1>1. d.state = "sent" /\ d.ready = {} /\ d.kind = kind /\ d.sched = s /\ d.edited = edited
  BY DEF NewCall
<1>2. Sends(calls \union {d}) /\ kind \notin busy /\ UNCHANGED <<sched, schedule, edited>>
  BY DEF Ask, Agent, Form
<1> HIDE DEF d
<1> QED BY <1>1, <1>2, SendCurrent

LEMMA UserCurrent ==
  ASSUME FormInv, Alone, TypeInv, User
  PROVE  FormInv'
<1>1. CASE Refresh
  <2> DEFINE d == NewCall(calls, "load", "user", None, Default)
  <2>1. d.state = "sent" /\ d.ready = {} /\ d.kind = "load"
    BY DEF NewCall
  <2>2. Sends(calls \union {d}) /\ UNCHANGED <<sched, schedule, edited>>
    BY <1>1 DEF Refresh, Load, Agent, Form
  <2> HIDE DEF d
  <2> QED BY <2>1, <2>2, SendCurrent
<1>2. CASE SaveSchedule
  BY <1>2, AskCurrent DEF SaveSchedule
<1>3. CASE CreateBackup \/ ConfirmRestore \/ ConfirmDelete
  BY <1>3, AskCurrent DEF CreateBackup, ConfirmRestore, ConfirmDelete
<1>4. CASE CloseModal \/ TypeName
  BY <1>4, StillCurrent DEF CloseModal, TypeName, Agent, Form
<1>5. ASSUME NEW f \in Fields, NEW s \in Schedules, EditSchedule(f, s)
      PROVE  FormInv'
  <2>1. /\ UNCHANGED <<sched, calls, plain>> /\ edited' = edited \union {f}
        /\ \A g \in Fields \ {f} : schedule'[g] = schedule[g]
    BY <1>5 DEF EditSchedule, Schedules, Fields, Agent
  <2>2. Same(schedule, sched, edited) => Same(schedule, sched, edited)'
    BY <2>1 DEF Same
  <2> QED BY <2>1, <2>2 DEF FormInv, Current, Overlap, Saves, Same
<1>6. CASE \E m \in {"create", "restore", "delete"}, f \in Files \union {None} : OpenModal(m, f)
  BY <1>6, StillCurrent DEF OpenModal, Agent, Form
<1> QED BY <1>1, <1>2, <1>3, <1>4, <1>5, <1>6 DEF User

LEMMA ServeReadCurrent ==
  ASSUME FormInv, TypeInv, NEW c \in calls, NEW p \in Parts, ServeRead(c, p)
  PROVE  FormInv'
<1> SUFFICES ASSUME plain PROVE Current'
  BY DEF ServeRead, FormInv
<1>1. Current /\ c.kind = "load" /\ UNCHANGED <<sched, schedule, edited>>
  BY DEF FormInv, ServeRead, Agent, Form
<1>2. PICK d : /\ calls' = (calls \ {c}) \union {d} /\ d.kind = "load"
               /\ "schedule" \in d.ready => d.sched = sched
  <2>1. CASE p = "list"
    <3> DEFINE d == [c EXCEPT !.ready = @ \union {p}, !.list = files]
    <3>1. d.kind = "load" /\ d.ready = c.ready \union {p} /\ d.sched = c.sched
      BY <1>1 DEF Call
    <3>2. calls' = (calls \ {c}) \union {d}
      BY <2>1 DEF ServeRead, Becomes
    <3>3. "schedule" \in d.ready => d.sched = sched
      BY <1>1, <2>1, <3>1 DEF Current
    <3> HIDE DEF d
    <3> QED BY <3>1, <3>2, <3>3
  <2>2. CASE p # "list"
    <3> DEFINE d == [c EXCEPT !.ready = @ \union {p}, !.sched = sched]
    <3>1. d.kind = "load" /\ d.sched = sched
      BY <1>1 DEF Call
    <3>2. calls' = (calls \ {c}) \union {d}
      BY <2>2 DEF ServeRead, Becomes
    <3> HIDE DEF d
    <3> QED BY <3>1, <3>2
  <2> QED BY <2>1, <2>2
<1> QED BY <1>1, <1>2 DEF Current, Overlap, Saves, Same

\* Only a save the agent takes changes its schedule, and then no read is under way.
LEMMA ServeWriteCurrent ==
  ASSUME FormInv, Alone, TypeInv, NEW c \in calls, ServeWrite(c)
  PROVE  FormInv'
<1> SUFFICES ASSUME plain PROVE Current'
  BY DEF ServeWrite, FormInv
<1> DEFINE s == IF Refuses(c) THEN "refused" ELSE "done"
           d == [c EXCEPT !.state = s]
<1>1. Current /\ c.kind # "load" /\ c.state = "sent" /\ UNCHANGED <<schedule, edited>>
  BY DEF FormInv, ServeWrite, Form
<1>2. d.kind = c.kind /\ d.sched = c.sched /\ d.state = s
  BY DEF Call
<1>3. calls' = (calls \ {c}) \union {d}
  BY DEF ServeWrite, Becomes
<1> HIDE DEF d
<1>4. CASE c.kind = "save" /\ ~Refuses(c)
  <2>1. sched' = c.sched /\ d.state = "done"
    BY <1>2, <1>4 DEF ServeWrite
  <2>2. \A e \in calls \ {c} : e.kind # "load" /\ e.kind # "save"
    BY <1>1, <1>4 DEF Current, Overlap, Alone, OneEach, WellSent
  <2> QED BY <1>1, <1>2, <1>3, <1>4, <2>1, <2>2 DEF Current, Overlap, Saves
<1>5. CASE ~(c.kind = "save" /\ ~Refuses(c))
  <2>1. sched' = sched /\ (d.kind = "save" => d.state = "refused")
    BY <1>2, <1>5 DEF ServeWrite
  <2>2. ~Saves(c, "done") /\ ~Saves(d, "done") /\ ~Saves(d, "sent") /\ d.kind # "load"
    BY <1>1, <1>2, <2>1 DEF Saves
  <2>3. ~Overlap(calls')
    BY <1>1, <1>2, <1>3 DEF Current, Overlap
  <2> QED BY <1>1, <1>3, <2>1, <2>2, <2>3 DEF Current, Saves, Same
<1> QED BY <1>4, <1>5

LEMMA GotCurrent ==
  ASSUME FormInv, Alone, TypeInv, NEW c \in calls,
         GotLoad(c) \/ GotSave(c) \/ GotOperation(c)
  PROVE  FormInv'
<1> SUFFICES ASSUME plain' PROVE Current'
  BY DEF FormInv
<1>1. Current /\ plain /\ ~Overlap(calls') /\ UNCHANGED sched
  BY DEF FormInv, GotLoad, GotSave, GotOperation, Sends, Agent
<1>2. CASE GotLoad(c)
  <2>1. calls' = calls \ {c} /\ schedule' = sched
    BY <1>1, <1>2 DEF GotLoad, Sends, Filled, Parts, Current
  <2> QED BY <1>1, <2>1 DEF Current, Saves, Same
<1>3. CASE GotSave(c)
  <2>1. calls' = calls \ {c} /\ c.kind = "save"
    BY <1>3 DEF GotSave, Sends
  <2>2. CASE c.state = "done"
    <3>1. schedule' = sched
      BY <1>1, <1>3, <2>2 DEF GotSave, Current, Saves
    <3> QED BY <1>1, <2>1, <3>1 DEF Current, Saves, Same
  <2>3. CASE c.state # "done"
    <3>1. UNCHANGED <<schedule, edited>>
      BY <1>3, <2>3 DEF GotSave, Form
    <3> QED BY <1>1, <2>1, <2>3, <3>1 DEF Current, Saves, Same
  <2> QED BY <2>2, <2>3
<1>4. CASE GotOperation(c)
  <2>1. c.kind # "load" /\ c.kind # "save" /\ UNCHANGED <<schedule, edited>>
    BY <1>4 DEF GotOperation, Form
  <2>2. CASE Reported(c)
    <3> DEFINE d == NewCall(calls \ {c}, "load", c.kind, None, Default)
    <3>1. d.kind = "load" /\ d.ready = {}
      BY DEF NewCall
    <3>2. calls' = (calls \ {c}) \union {d}
      BY <1>4, <2>2 DEF GotOperation, Sends, Load
    <3> HIDE DEF d
    <3> QED BY <1>1, <2>1, <3>1, <3>2 DEF Current, Saves, Same
  <2>3. CASE ~Reported(c)
    <3>1. calls' = calls \ {c}
      BY <1>4, <2>3 DEF GotOperation, Sends
    <3> QED BY <1>1, <2>1, <3>1 DEF Current, Saves, Same
  <2> QED BY <2>2, <2>3
<1> QED BY <1>2, <1>3, <1>4

LEMMA StepCurrent ==
  ASSUME FormInv, Alone, TypeInv, [Next]_vars
  PROVE  FormInv'
<1>1. CASE User
  BY <1>1, UserCurrent
<1>2. CASE \E f \in Files : Prune(f)
  BY <1>2, StillCurrent DEF Prune, Form
<1>3. CASE \E c \in calls : \E p \in Parts : ServeRead(c, p)
  BY <1>3, ServeReadCurrent
<1>4. CASE \E c \in calls : ServeWrite(c)
  BY <1>4, ServeWriteCurrent
<1>5. CASE \E c \in calls : Lose(c)
  BY <1>5 DEF Lose, FormInv
<1>6. CASE \E c \in calls : GotLoad(c) \/ GotSave(c) \/ GotOperation(c)
  BY <1>6, GotCurrent
<1>7. CASE UNCHANGED vars
  BY <1>7, StillCurrent DEF vars, Agent, Form
<1> QED BY <1>1, <1>2, <1>3, <1>4, <1>5, <1>6, <1>7 DEF Next

LEMMA InitCurrent ==
  ASSUME Init
  PROVE  FormInv
<1> DEFINE d == NewCall({}, "load", "user", None, Default)
<1>1. d.kind = "load" /\ d.ready = {}
  BY DEF NewCall
<1> HIDE DEF d
<1>2. calls = {d}
  BY DEF Init, Load, d
<1> QED BY <1>1, <1>2 DEF FormInv, Current, Overlap, Saves

\* As long as nothing was lost and no save overlapped a read of the form, saving the
\* schedule changes only what the user edited, for any schedules and number of requests.
THEOREM SaveCorrect ==
  ASSUME BackupsViewConstants
  PROVE  Spec => []SavesWhatWasRead
<1>1. Init => TypeInv /\ Alone /\ FormInv
  BY InitType, InitAlone, InitCurrent
<1>2. TypeInv /\ Alone /\ FormInv /\ [Next]_vars => TypeInv' /\ Alone' /\ FormInv'
  BY StepType, StepAlone, StepCurrent
<1>3. FormInv => SavesWhatWasRead
  BY DEF FormInv, Current, Saves, Same, SavesWhatWasRead
<1> QED BY <1>1, <1>2, <1>3, PTL DEF Spec
=============================================================================
