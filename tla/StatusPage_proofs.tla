-------------------------- MODULE StatusPage_proofs --------------------------
(***************************************************************************)
(* Theorems about StatusPage for any identifiers, settings, simulation and *)
(* number of requests.                                                     *)
(***************************************************************************)
EXTENDS StatusPage, FiniteSetTheorems, TLAPS

----------------------------------------------------------------------------
(* Numbers of requests *)

\* A finite set of requests leaves a number free.
LEMMA FreshNumber ==
  ASSUME NEW cs, IsFiniteSet(cs), NEW kind, NEW cause
  PROVE  Fresh(cs, kind, cause) \in Nat
<1> DEFINE alike == {d \in cs : d.kind = kind /\ d.cause = cause}
           ns == {c.n : c \in alike}
           f == [c \in alike |-> c.n]
<1>1. IsFiniteSet(alike)
  BY FS_Subset
<1>2. f \in Surjection(alike, ns)
  BY DEF Surjection
<1>3. IsFiniteSet(ns)
  BY <1>1, <1>2, FS_Surjection
<1>4. Cardinality(ns) \in Nat
  BY <1>3, FS_CardinalityType
<1>5. \E i \in 0..Cardinality(ns) : i \notin ns
  <2> SUFFICES ASSUME 0..Cardinality(ns) \subseteq ns PROVE FALSE
    OBVIOUS
  <2>1. Cardinality(0..Cardinality(ns)) <= Cardinality(ns)
    BY <1>3, FS_Subset
  <2>2. Cardinality(0..Cardinality(ns)) = Cardinality(ns) + 1
    BY <1>4, FS_Interval
  <2> QED BY <1>4, <2>1, <2>2
<1>6. Fresh(cs, kind, cause) \in 0..Cardinality(ns)
  BY <1>5 DEF Fresh
<1> QED BY <1>4, <1>6

----------------------------------------------------------------------------
(* Types *)

\* Only a read has a cause, and a write that sets something says what.
WellSent(c) == /\ c.kind # "status" => c.cause = "none"
               /\ c.kind \in {"add", "update", "toggle"} => c.set \in Monitor

TypeInv == /\ TypeOK
           /\ IsFiniteSet(calls)
           /\ \A c \in calls : WellSent(c)

LEMMA NewCallType ==
  ASSUME StatusConstants, NEW cs, IsFiniteSet(cs),
         NEW kind \in Kinds, NEW cause \in Causes,
         NEW id \in Ids \union {Absent}, NEW set \in Monitor \union {Absent}
  PROVE  LET c == NewCall(cs, kind, cause, id, set)
         IN  /\ c \in Call /\ c.state = "sent"
             /\ c.kind = kind /\ c.cause = cause /\ c.id = id /\ c.set = set
BY FreshNumber DEF NewCall, Call, StatusConstants

\* Another request.
LEMMA SentType ==
  ASSUME StatusConstants, NEW cs, IsFiniteSet(cs), cs \subseteq Call, \A c \in cs : WellSent(c),
         NEW kind \in Kinds, NEW cause \in Causes,
         NEW id \in Ids \union {Absent}, NEW set \in Monitor \union {Absent},
         kind # "status" => cause = "none",
         kind \in {"add", "update", "toggle"} => set \in Monitor
  PROVE  LET ds == cs \union {NewCall(cs, kind, cause, id, set)}
         IN  IsFiniteSet(ds) /\ ds \subseteq Call /\ \A c \in ds : WellSent(c)
<1> DEFINE d == NewCall(cs, kind, cause, id, set)
<1>1. d \in Call /\ WellSent(d)
  BY NewCallType DEF WellSent
<1> HIDE DEF d
<1>2. IsFiniteSet(cs \union {d})
  BY FS_AddElement
<1> QED BY <1>1, <1>2 DEF d

LEMMA LoadType ==
  ASSUME StatusConstants, NEW cs, IsFiniteSet(cs), cs \subseteq Call, \A c \in cs : WellSent(c),
         NEW cause \in Causes
  PROVE  /\ IsFiniteSet(Load(cs, cause)) /\ Load(cs, cause) \subseteq Call
         /\ \A c \in Load(cs, cause) : WellSent(c)
<1>1. "status" \in Kinds /\ "status" \notin {"add", "update", "toggle"}
  BY DEF Kinds
<1> QED BY <1>1, SentType DEF Load

\* A request that went on.
LEMMA ChangedType ==
  ASSUME NEW cs, IsFiniteSet(cs), cs \subseteq Call, \A e \in cs : WellSent(e),
         NEW c \in cs, NEW d \in Call, WellSent(d)
  PROVE  LET ds == (cs \ {c}) \union {d}
         IN  IsFiniteSet(ds) /\ ds \subseteq Call /\ \A e \in ds : WellSent(e)
<1>1. IsFiniteSet(cs \ {c})
  BY FS_RemoveElement
<1>2. IsFiniteSet((cs \ {c}) \union {d})
  BY <1>1, FS_AddElement
<1> QED BY <1>2

LEMMA DroppedType ==
  ASSUME NEW cs, IsFiniteSet(cs), cs \subseteq Call, \A e \in cs : WellSent(e), NEW c \in cs
  PROVE  IsFiniteSet(cs \ {c}) /\ cs \ {c} \subseteq Call /\ \A e \in cs \ {c} : WellSent(e)
BY FS_RemoveElement

\* The answer to a request.
LEMMA ServedType ==
  ASSUME NEW c \in Call, WellSent(c), NEW s \in {"served", "lost"}, NEW g \in Monitors
  PROVE  LET d == [c EXCEPT !.state = s, !.got = g]
             e == [c EXCEPT !.state = s]
         IN  /\ d \in Call /\ WellSent(d) /\ e \in Call /\ WellSent(e)
             /\ d.kind = c.kind /\ d.cause = c.cause /\ d.id = c.id /\ d.set = c.set
             /\ e.kind = c.kind /\ e.cause = c.cause /\ e.id = c.id /\ e.set = c.set
             /\ d.state = s /\ e.state = s /\ d.got = g /\ e.got = c.got
BY DEF Call, WellSent

LEMMA AfterType ==
  ASSUME StatusConstants, NEW ms \in Monitors, NEW c \in Call, WellSent(c), NEW m \in After(ms, c)
  PROVE  m \in Monitors
BY DEF After, Monitors, Monitor, Call, WellSent, StatusConstants

LEMMA OptimisticType ==
  ASSUME StatusConstants, TypeOK, NEW c \in calls, WellSent(c)
  PROVE  Optimistic(c) \in Monitors
BY DEF Optimistic, TypeOK, Monitors, Monitor, Call, WellSent, StatusConstants

USE DEF TypeInv, TypeOK

\* Requests of the user.
LEMMA AskType ==
  ASSUME StatusConstants, TypeInv, NEW kind \in Kinds \ {"status"},
         NEW id \in Ids \union {Absent}, NEW set \in Monitor \union {Absent},
         kind \in {"add", "update", "toggle"} => set \in Monitor,
         Ask(kind, id, set), form' \in Ids \union {Absent},
         {adding', refreshing', updating', submitting', probing'} \subseteq BOOLEAN
  PROVE  TypeInv'
<1>1. "none" \in Causes
  BY DEF Causes
<1>2. /\ calls' = calls \union {NewCall(calls, kind, "none", id, set)}
      /\ moves' = moves + 1 /\ plain' \in BOOLEAN
      /\ UNCHANGED <<monitors, shown, simulated, loading, faults>>
  BY DEF Ask, Move, Sends, Page
<1>3. IsFiniteSet(calls') /\ calls' \subseteq Call /\ \A c \in calls' : WellSent(c)
  BY <1>1, <1>2, SentType
<1> QED BY <1>2, <1>3

LEMMA LoadingType ==
  ASSUME StatusConstants, TypeInv, NEW cause \in Causes, Sends(Load(calls, cause)),
         moves' \in Nat, refreshing' \in BOOLEAN,
         UNCHANGED <<monitors, Page, form, adding, updating, submitting, probing, faults>>
  PROVE  TypeInv'
<1>1. calls' = Load(calls, cause) /\ plain' \in BOOLEAN
  BY DEF Sends
<1>2. IsFiniteSet(calls') /\ calls' \subseteq Call /\ \A c \in calls' : WellSent(c)
  BY <1>1, LoadType
<1> QED BY <1>1, <1>2 DEF Page

LEMMA UserType ==
  ASSUME StatusConstants, TypeInv, User
  PROVE  TypeInv'
<1> USE DEF Busy, Kinds, Writes
<1>1. CASE Refresh
  BY <1>1, LoadingType DEF Refresh, Move, Causes
<1>2. CASE ProbeSite
  BY <1>2, AskType DEF ProbeSite
<1>3. CASE OpenAdd \/ Close
  BY <1>3 DEF OpenAdd, Close, Page
<1>4. CASE \E i \in Ids : OpenEdit(i)
  BY <1>4 DEF OpenEdit, Page
<1>5. ASSUME NEW i \in Ids, DeleteMonitor(i) PROVE TypeInv'
  BY <1>5, AskType DEF DeleteMonitor
<1>6. ASSUME NEW i \in Ids, ToggleMonitor(i) PROVE TypeInv'
  <2>1. [shown[i] EXCEPT !.active = ~@] \in Monitor
    BY <1>6 DEF ToggleMonitor, Monitors, Monitor
  <2> QED BY <1>6, <2>1, AskType DEF ToggleMonitor
<1>7. ASSUME NEW s \in Settings, AddMonitor(s) PROVE TypeInv'
  <2>1. [settings |-> s, active |-> TRUE] \in Monitor
    BY DEF Monitor
  <2> QED BY <1>7, <2>1, AskType DEF AddMonitor
<1>8. ASSUME NEW s \in Settings, UpdateMonitor(s) PROVE TypeInv'
  <2>1. [settings |-> s, active |-> TRUE] \in Monitor
    BY DEF Monitor
  <2> QED BY <1>8, <2>1, AskType DEF UpdateMonitor
<1> QED BY <1>1, <1>2, <1>3, <1>4, <1>5, <1>6, <1>7, <1>8 DEF User

LEMMA NetworkType ==
  ASSUME StatusConstants, TypeInv, NEW c \in calls, Serve(c) \/ Lose(c)
  PROVE  TypeInv'
<1>1. c \in Call /\ WellSent(c) /\ c.got \in Monitors
  BY DEF Call
<1>2. CASE Serve(c)
  <2> DEFINE g == IF c.kind = "status" THEN monitors ELSE c.got
             d == [c EXCEPT !.state = "served", !.got = g]
  <2>1. calls' = (calls \ {c}) \union {d}
    BY <1>2 DEF Serve
  <2>2. d \in Call /\ WellSent(d)
    BY <1>1, ServedType
  <2> HIDE DEF d
  <2>3. IsFiniteSet(calls') /\ calls' \subseteq Call /\ \A e \in calls' : WellSent(e)
    BY <2>1, <2>2, ChangedType
  <2>4. monitors' \in Monitors
    BY <1>1, <1>2, AfterType DEF Serve
  <2> QED BY <1>2, <2>3, <2>4 DEF Serve, Page, Busy
<1>3. CASE Lose(c)
  <2> DEFINE d == [c EXCEPT !.state = "lost"]
  <2>1. calls' = (calls \ {c}) \union {d}
    BY <1>3 DEF Lose
  <2>2. d \in Call /\ WellSent(d)
    BY <1>1, ServedType
  <2> HIDE DEF d
  <2>3. IsFiniteSet(calls') /\ calls' \subseteq Call /\ \A e \in calls' : WellSent(e)
    BY <2>1, <2>2, ChangedType
  <2>4. /\ faults' = faults + 1 /\ plain' = FALSE
        /\ UNCHANGED <<monitors, shown, simulated, loading, form, adding, refreshing, updating,
                       submitting, probing, moves>>
    BY <1>3 DEF Lose, Page, Busy
  <2>5. {simulated', loading', adding', refreshing', updating', submitting', probing', plain'} \subseteq BOOLEAN
    BY <2>4
  <2>6. faults' \in Nat /\ moves' \in Nat /\ monitors' \in Monitors /\ shown' \in Monitors /\ form' \in Ids \union {Absent}
    BY <2>4
  <2> QED BY <2>3, <2>5, <2>6
<1> QED BY <1>2, <1>3

LEMMA AnswerType ==
  ASSUME StatusConstants, TypeInv, NEW c \in calls, Answer(c)
  PROVE  TypeInv'
<1>1. IsFiniteSet(calls \ {c}) /\ calls \ {c} \subseteq Call /\ \A e \in calls \ {c} : WellSent(e)
  BY DroppedType
<1>2. CASE GotStatus(c)
  <2>1. shown' \in Monitors
    BY <1>2, c \in Call DEF GotStatus, Call, StatusConstants
  <2>2. simulated' \in BOOLEAN
    BY <1>2 DEF GotStatus, Failed
  <2> QED BY <1>1, <1>2, <2>1, <2>2 DEF GotStatus, Sends, Waits
<1>3. CASE GotWrite(c)
  <2>1. calls' = calls \ {c} \/ calls' = Load(calls \ {c}, c.kind)
    BY <1>3 DEF GotWrite, Sends
  <2>2. IsFiniteSet(calls') /\ calls' \subseteq Call /\ \A e \in calls' : WellSent(e)
    <3>1. CASE calls' = calls \ {c}
      BY <1>1, <3>1
    <3>2. CASE calls' # calls \ {c}
      <4>1. calls' = Load(calls \ {c}, c.kind) /\ c.kind \in {"add", "update", "delete"}
        BY <1>3, <3>2 DEF GotWrite, Sends, Writes
      <4>2. c.kind \in Causes
        BY <4>1 DEF Causes
      <4> QED BY <1>1, <4>1, <4>2, LoadType
    <3> QED BY <3>1, <3>2
  <2>3. shown' \in Monitors
    BY <1>3, OptimisticType DEF GotWrite
  <2> QED BY <1>3, <2>2, <2>3 DEF GotWrite, Sends
<1>4. CASE GotProbe(c)
  BY <1>1, <1>4 DEF GotProbe, Sends, Page
<1> QED BY <1>2, <1>3, <1>4 DEF Answer

LEMMA InitType ==
  ASSUME StatusConstants, Init
  PROVE  TypeInv
<1>1. IsFiniteSet({})
  BY FS_EmptySet
<1>2. "poll" \in Causes
  BY DEF Causes
<1>3. IsFiniteSet(calls) /\ calls \subseteq Call /\ \A c \in calls : WellSent(c)
  BY <1>1, <1>2, LoadType DEF Init
<1> QED BY <1>3 DEF Init, StatusConstants, Monitors, NoMonitors

LEMMA StepType ==
  ASSUME StatusConstants, TypeInv, [Next]_vars
  PROVE  TypeInv'
<1>1. CASE User
  BY <1>1, UserType
<1>2. CASE Poll
  BY <1>2, LoadingType DEF Poll, Busy, Causes
<1>3. CASE \E c \in calls : Serve(c) \/ Lose(c) \/ Answer(c)
  BY <1>3, NetworkType, AnswerType
<1>4. CASE UNCHANGED vars
  BY <1>4 DEF vars
<1> QED BY <1>1, <1>2, <1>3, <1>4 DEF Next

\* Safety is enough for the three theorems: they need no fairness.
LEMMA TypeSafe ==
  ASSUME StatusConstants
  PROVE  Safety => []TypeOK
<1>1. Init => TypeInv
  BY InitType
<1>2. TypeInv /\ [Next]_vars => TypeInv'
  BY StepType
<1>3. TypeInv => TypeOK
  OBVIOUS
<1> QED BY <1>1, <1>2, <1>3, PTL DEF Safety

\* The monitors, the page and the requests keep their types, whatever is lost, overlaps
\* or comes back in whatever order.
THEOREM TypeCorrect ==
  ASSUME StatusConstants
  PROVE  Spec => []TypeOK
BY TypeSafe, PTL DEF Spec

----------------------------------------------------------------------------
(* Buttons *)

\* The requests that release what waits.
Releases(cs, load, refresh, update, submit, probe) ==
  /\ load    => \E c \in cs : c.cause = "poll"
  /\ refresh => \E c \in cs : c.cause = "refresh"
  /\ update  => \E c \in cs : c.kind = "update" \/ c.cause = "update"
  /\ submit  => \E c \in cs : c.kind = "add" \/ c.cause = "add"
  /\ probe   => \E c \in cs : c.kind = "probe"

Released == Releases(calls, loading, refreshing, updating, submitting, probing)

\* What is asked of the sentinel has its kind and its cause.
LEMMA AskReleases ==
  ASSUME NEW kind, NEW id, NEW set, Ask(kind, id, set)
  PROVE  /\ calls \subseteq calls'
         /\ \E d \in calls' : d.kind = kind
         /\ UNCHANGED loading
<1>1. calls' = calls \union {NewCall(calls, kind, "none", id, set)} /\ UNCHANGED loading
  BY DEF Ask, Sends, Page
<1>2. NewCall(calls, kind, "none", id, set).kind = kind
  BY DEF NewCall
<1> QED BY <1>1, <1>2

LEMMA LoadReleases ==
  ASSUME NEW cs, NEW cause
  PROVE  /\ cs \subseteq Load(cs, cause)
         /\ \E d \in Load(cs, cause) : d.cause = cause /\ d.kind = "status"
<1>1. LET d == NewCall(cs, "status", cause, Absent, Absent) IN d.cause = cause /\ d.kind = "status"
  BY DEF NewCall
<1> QED BY <1>1 DEF Load

LEMMA UserReleases ==
  ASSUME Released, User
  PROVE  Released'
<1> USE DEF Released, Releases
<1>1. CASE Refresh
  <2>1. calls' = Load(calls, "refresh")
    BY <1>1 DEF Refresh, Sends
  <2> QED BY <1>1, <2>1, LoadReleases DEF Refresh, Page
<1>2. CASE ProbeSite
  BY <1>2, AskReleases DEF ProbeSite
<1>3. CASE OpenAdd \/ Close \/ \E i \in Ids : OpenEdit(i)
  BY <1>3 DEF OpenAdd, OpenEdit, Close, Page
<1>4. CASE \E i \in Ids : DeleteMonitor(i) \/ ToggleMonitor(i)
  BY <1>4, AskReleases DEF DeleteMonitor, ToggleMonitor, Busy
<1>5. CASE \E m \in Settings : AddMonitor(m)
  BY <1>5, AskReleases DEF AddMonitor
<1>6. CASE \E m \in Settings : UpdateMonitor(m)
  BY <1>6, AskReleases DEF UpdateMonitor
<1> QED BY <1>1, <1>2, <1>3, <1>4, <1>5, <1>6 DEF User

LEMMA ChangeReleases ==
  ASSUME Released, NEW c \in calls, NEW d, d.kind = c.kind, d.cause = c.cause,
         calls' = (calls \ {c}) \union {d},
         UNCHANGED <<loading, refreshing, updating, submitting, probing>>
  PROVE  Released'
<1>1. \A e \in calls : \E f \in calls' : f.kind = e.kind /\ f.cause = e.cause
  OBVIOUS
<1> QED BY <1>1 DEF Released, Releases

LEMMA NetworkReleases ==
  ASSUME TypeInv, Released, NEW c \in calls, Serve(c) \/ Lose(c)
  PROVE  Released'
<1>1. c \in Call /\ WellSent(c) /\ c.got \in Monitors
  BY DEF Call
<1>2. UNCHANGED <<loading, refreshing, updating, submitting, probing>>
  BY DEF Serve, Lose, Page, Busy
<1>3. PICK d : d.kind = c.kind /\ d.cause = c.cause /\ calls' = (calls \ {c}) \union {d}
  <2>1. CASE Serve(c)
    <3> DEFINE g == IF c.kind = "status" THEN monitors ELSE c.got
               d == [c EXCEPT !.state = "served", !.got = g]
    <3>1. d.kind = c.kind /\ d.cause = c.cause
      BY <1>1 DEF Call
    <3>2. calls' = (calls \ {c}) \union {d}
      BY <2>1 DEF Serve
    <3> HIDE DEF d
    <3> QED BY <3>1, <3>2
  <2>2. CASE Lose(c)
    <3> DEFINE d == [c EXCEPT !.state = "lost"]
    <3>1. d.kind = c.kind /\ d.cause = c.cause
      BY <1>1, ServedType
    <3>2. calls' = (calls \ {c}) \union {d}
      BY <2>2 DEF Lose
    <3> HIDE DEF d
    <3> QED BY <3>1, <3>2
  <2> QED BY <2>1, <2>2
<1> QED BY <1>2, <1>3, ChangeReleases

LEMMA AnswerReleases ==
  ASSUME TypeInv, Released, NEW c \in calls, Answer(c)
  PROVE  Released'
<1>1. CASE GotStatus(c)
  BY <1>1 DEF GotStatus, Sends, Waits, Released, Releases
<1>2. CASE GotWrite(c)
  <2>1. /\ c.kind \in Writes /\ c.cause = "none"
        /\ calls' = IF c.kind = "toggle" THEN calls \ {c} ELSE Load(calls \ {c}, c.kind)
        /\ UNCHANGED <<loading, refreshing, updating, submitting, probing>>
    BY <1>2 DEF GotWrite, Sends, WellSent, Writes
  <2>2. calls \ {c} \subseteq calls'
    BY <2>1, LoadReleases
  <2>3. c.kind \in {"add", "update"} => \E d \in calls' : d.cause = c.kind
    BY <2>1, LoadReleases
  <2> QED BY <2>1, <2>2, <2>3 DEF Released, Releases, Writes
<1>3. CASE GotProbe(c)
  BY <1>3 DEF GotProbe, Sends, Page, WellSent, Released, Releases
<1> QED BY <1>1, <1>2, <1>3 DEF Answer

LEMMA StepReleases ==
  ASSUME StatusConstants, TypeInv, Released, [Next]_vars
  PROVE  Released'
<1>1. CASE User
  BY <1>1, UserReleases
<1>2. CASE Poll
  <2>1. calls' = Load(calls, "poll")
    BY <1>2 DEF Poll, Sends
  <2> QED BY <1>2, <2>1, LoadReleases DEF Poll, Page, Busy, Released, Releases
<1>3. CASE \E c \in calls : Serve(c) \/ Lose(c) \/ Answer(c)
  BY <1>3, NetworkReleases, AnswerReleases
<1>4. CASE UNCHANGED vars
  BY <1>4 DEF vars, Released, Releases
<1> QED BY <1>1, <1>2, <1>3, <1>4 DEF Next

LEMMA ButtonsSafe ==
  ASSUME StatusConstants
  PROVE  Safety => []ButtonsReleased
<1>1. Init => TypeInv /\ Released
  <2>1. Init => Released
    BY LoadReleases DEF Init, Released, Releases
  <2> QED BY <2>1, InitType
<1>2. TypeInv /\ Released /\ [Next]_vars => TypeInv' /\ Released'
  BY StepType, StepReleases
<1>3. Released => ButtonsReleased
  BY DEF Released, Releases, ButtonsReleased
<1> QED BY <1>1, <1>2, <1>3, PTL DEF Safety

\* A button that waits has a request under way that releases it, for any number of
\* overlapping requests and lost answers.
THEOREM ButtonsCorrect ==
  ASSUME StatusConstants
  PROVE  Spec => []ButtonsReleased
BY ButtonsSafe, PTL DEF Spec

----------------------------------------------------------------------------
(* A page at rest *)

\* While nothing was lost and nothing overlapped: answers on their way are still right,
\* and a page that waits for none of them shows what the sentinel has.
Agrees ==
  /\ \A c \in calls : c.state # "lost"
  /\ ~Overlap(calls)
  /\ \A c \in calls : c.kind = "status" /\ c.state = "served" => c.got = monitors
  /\ \A c \in calls : c.kind = "toggle" /\ c.state = "served" => TrueTo(Optimistic(c))
  /\ (\A c \in calls : c.kind # "status" /\ (c.kind \in Writes => c.state = "sent")) => TrueTo(shown)

Settled == plain => Agrees

\* The page foresees what the sentinel makes of a toggle, when it showed what it had.
LEMMA Foresight ==
  ASSUME StatusConstants, TypeInv, NEW c \in calls, NEW d, c.kind = d.kind, c.id = d.id, c.set = d.set,
         c.kind = "toggle", monitors' \in After(monitors, c), TrueTo(shown), UNCHANGED <<shown, simulated>>
  PROVE  /\ IF monitors' = NoMonitors THEN simulated ELSE Optimistic(d) = monitors' /\ ~simulated
<1>1. CASE monitors = NoMonitors
  <2>1. monitors' = monitors
    <3>1. monitors[c.id] = Absent \/ c.id \notin Ids
      BY <1>1 DEF NoMonitors
    <3>2. c.id \notin Ids => [monitors EXCEPT ![c.id].active = c.set.active] = monitors
      BY DEF Monitors
    <3> QED BY <3>1, <3>2 DEF After
  <2> QED BY <1>1, <2>1 DEF TrueTo
<1>2. CASE monitors # NoMonitors
  <2>1. shown = monitors /\ ~simulated
    BY <1>2 DEF TrueTo
  <2>2. Optimistic(d) = monitors'
    BY <2>1 DEF After, Optimistic
  <2>3. monitors' # NoMonitors
    <3>1. PICK i \in Ids : monitors[i] # Absent
      BY <1>2 DEF NoMonitors, Monitors
    <3>2. monitors[i] \in Monitor /\ c.set \in Monitor
      BY <3>1 DEF Monitors, WellSent
    <3>3. monitors'[i] \in Monitor
      BY <3>1, <3>2 DEF After, Monitors, Monitor
    <3>4. NoMonitors[i] \notin Monitor
      BY DEF NoMonitors, StatusConstants
    <3> QED BY <3>3, <3>4
  <2> QED BY <2>1, <2>2, <2>3
<1> QED BY <1>1, <1>2

LEMMA NoWrite ==
  ASSUME NEW c, NEW m \in After(monitors, c), c.kind \notin Writes
  PROVE  m = monitors
BY DEF After, Writes

LEMMA SendSettles ==
  ASSUME Settled, NEW w, w.state = "sent", Sends(calls \union {w}), UNCHANGED <<monitors, shown, simulated>>
  PROVE  Settled'
<1> SUFFICES ASSUME plain' PROVE Agrees'
  BY DEF Settled
<1>1. calls' = calls \union {w} /\ plain /\ ~Overlap(calls')
  BY DEF Sends
<1>2. \A c : UNCHANGED Optimistic(c)
  BY DEF Optimistic
<1>3. \A ms : UNCHANGED TrueTo(ms)
  BY DEF TrueTo
<1> QED BY <1>1, <1>2, <1>3 DEF Settled, Agrees

LEMMA LoadSettles ==
  ASSUME Settled, NEW cause, Sends(Load(calls, cause)), UNCHANGED <<monitors, shown, simulated>>
  PROVE  Settled'
<1>1. NewCall(calls, "status", cause, Absent, Absent).state = "sent"
  BY DEF NewCall
<1> QED BY <1>1, SendSettles DEF Load

LEMMA AskSettles ==
  ASSUME Settled, NEW kind, NEW id, NEW set, Ask(kind, id, set)
  PROVE  Settled'
<1>1. NewCall(calls, kind, "none", id, set).state = "sent"
  BY DEF NewCall
<1> QED BY <1>1, SendSettles DEF Ask, Page

LEMMA StillSettles ==
  ASSUME Settled, UNCHANGED <<monitors, shown, simulated, calls, plain>>
  PROVE  Settled'
<1>1. \A c : UNCHANGED Optimistic(c)
  BY DEF Optimistic
<1>2. \A ms : UNCHANGED TrueTo(ms)
  BY DEF TrueTo
<1> QED BY <1>1, <1>2 DEF Settled, Agrees, Overlap

LEMMA UserSettles ==
  ASSUME Settled, User
  PROVE  Settled'
<1>1. CASE Refresh
  BY <1>1, LoadSettles DEF Refresh, Page
<1>2. CASE ProbeSite \/ \E i \in Ids : DeleteMonitor(i) \/ ToggleMonitor(i)
  BY <1>2, AskSettles DEF ProbeSite, DeleteMonitor, ToggleMonitor
<1>3. CASE \E s \in Settings : AddMonitor(s) \/ UpdateMonitor(s)
  BY <1>3, AskSettles DEF AddMonitor, UpdateMonitor
<1>4. CASE OpenAdd \/ Close \/ \E i \in Ids : OpenEdit(i)
  BY <1>4, StillSettles DEF OpenAdd, Close, OpenEdit, Page
<1> QED BY <1>1, <1>2, <1>3, <1>4 DEF User

\* The sentinel serves a request: only a write that is alone changes what it has.
LEMMA ServeSettles ==
  ASSUME StatusConstants, TypeInv, Settled, NEW c \in calls, Serve(c)
  PROVE  Settled'
<1> SUFFICES ASSUME plain PROVE Agrees'
  BY DEF Serve, Settled
<1> DEFINE g == IF c.kind = "status" THEN monitors ELSE c.got
           d == [c EXCEPT !.state = "served", !.got = g]
<1>1. d.kind = c.kind /\ d.id = c.id /\ d.set = c.set /\ d.state = "served" /\ d.got = g
  BY DEF Call
<1>2. calls' = (calls \ {c}) \union {d}
  BY DEF Serve
<1>3. c.state = "sent" /\ monitors' \in After(monitors, c) /\ UNCHANGED <<shown, simulated>>
  BY DEF Serve, Page
<1>4. Agrees
  BY DEF Settled
<1>5. \A e : UNCHANGED Optimistic(e)
  BY <1>3 DEF Optimistic
<1> HIDE DEF d
<1>6. ~Overlap(calls')
  BY <1>1, <1>2, <1>4 DEF Agrees, Overlap
<1>7. CASE c.kind \notin Writes
  <2>1. monitors' = monitors
    BY <1>3, <1>7, NoWrite
  <2>2. d.kind = "status" => d.got = monitors
    BY <1>1
  <2>3. \A ms : UNCHANGED TrueTo(ms)
    BY <1>3, <2>1 DEF TrueTo
  <2> QED BY <1>1, <1>2, <1>4, <1>5, <1>6, <1>7, <1>3, <2>1, <2>2, <2>3 DEF Agrees, Writes
<1>8. CASE c.kind \in Writes
  <2>1. \A e \in calls \ {c} : e.kind = "probe"
    BY <1>4, <1>8 DEF Agrees, Overlap
  <2>2. TrueTo(shown)
    BY <1>3, <1>4, <1>8, <2>1 DEF Agrees, Writes
  <2>3. c.kind = "toggle" =>
          IF monitors' = NoMonitors THEN simulated ELSE Optimistic(d) = monitors' /\ ~simulated
    BY <1>1, <1>3, <2>2, Foresight
  <2>4. d \in calls' /\ d.kind \in Writes /\ d.state = "served"
    BY <1>1, <1>2, <1>8
  <2>5. \A e \in calls' : e # d => e.kind = "probe"
    BY <1>2, <2>1
  <2>6. \A e \in calls' : e.kind = "toggle" => TrueTo(Optimistic(e))'
    <3> SUFFICES ASSUME NEW e \in calls', e.kind = "toggle"
                 PROVE  IF monitors' = NoMonitors THEN simulated' ELSE Optimistic(e)' = monitors' /\ ~simulated'
      BY DEF TrueTo
    <3>1. e = d
      BY <2>5
    <3> QED BY <3>1, <1>1, <1>3, <1>5, <2>3
  <2>7. \A e \in calls' : e.state # "lost"
    BY <1>1, <1>2, <1>4 DEF Agrees
  <2> QED BY <1>6, <2>4, <2>5, <2>6, <2>7, <1>8 DEF Agrees, Writes
<1> QED BY <1>7, <1>8

LEMMA AnswerSettles ==
  ASSUME TypeInv, Settled, NEW c \in calls, Answer(c)
  PROVE  Settled'
<1> SUFFICES ASSUME plain' PROVE Agrees'
  BY DEF Settled
<1>1. plain /\ ~Overlap(calls') /\ UNCHANGED monitors
  BY DEF Answer, GotStatus, GotWrite, GotProbe, Sends
<1>2. Agrees
  BY <1>1 DEF Settled
<1>3. c.state = "served"
  BY <1>2 DEF Answer, GotStatus, GotWrite, GotProbe, Ready, Agrees, Call
<1>4. CASE GotStatus(c)
  <2>1. /\ c.kind = "status" /\ calls' = calls \ {c}
        /\ TrueTo(shown)'
    BY <1>1, <1>2, <1>3, <1>4 DEF GotStatus, Sends, Agrees, TrueTo, Failed
  <2>2. \A e \in calls : e.kind \notin Writes
    BY <1>2, <2>1 DEF Agrees, Overlap, Writes
  <2> QED BY <1>1, <1>2, <2>1, <2>2 DEF Agrees, Writes
<1>5. CASE GotWrite(c)
  <2>1. c.kind \in Writes /\ shown' = Optimistic(c) /\ UNCHANGED simulated
    BY <1>5 DEF GotWrite
  <2>2. \A e \in calls \ {c} : e.kind = "probe"
    BY <1>2, <2>1 DEF Agrees, Overlap
  <2>3. CASE c.kind = "toggle"
    <3>1. calls' = calls \ {c} /\ TrueTo(shown)'
      BY <1>1, <1>2, <1>3, <1>5, <2>1, <2>3 DEF GotWrite, Sends, Agrees, TrueTo
    <3> QED BY <1>1, <1>2, <2>1, <2>2, <3>1 DEF Agrees, Writes
  <2>4. CASE c.kind # "toggle"
    <3> DEFINE w == NewCall(calls \ {c}, "status", c.kind, Absent, Absent)
    <3>1. calls' = (calls \ {c}) \union {w}
      BY <1>5, <2>4 DEF GotWrite, Sends, Load
    <3>2. w.kind = "status" /\ w.state = "sent"
      BY DEF NewCall
    <3> HIDE DEF w
    <3> QED BY <1>1, <1>2, <2>1, <2>2, <3>1, <3>2 DEF Agrees, Writes
  <2> QED BY <2>3, <2>4
<1>6. CASE GotProbe(c)
  <2>1. c.kind = "probe" /\ calls' = calls \ {c} /\ UNCHANGED <<shown, simulated>>
    BY <1>6 DEF GotProbe, Sends, Page
  <2>2. \A e : UNCHANGED Optimistic(e)
    BY <2>1 DEF Optimistic
  <2>3. \A ms : UNCHANGED TrueTo(ms)
    BY <1>1, <2>1 DEF TrueTo
  <2> QED BY <1>1, <1>2, <2>1, <2>2, <2>3 DEF Agrees, Writes
<1> QED BY <1>4, <1>5, <1>6 DEF Answer

LEMMA StepSettles ==
  ASSUME StatusConstants, TypeInv, Settled, [Next]_vars
  PROVE  Settled'
<1>1. CASE User
  BY <1>1, UserSettles
<1>2. CASE Poll
  BY <1>2, LoadSettles DEF Poll, Page
<1>3. CASE \E c \in calls : Serve(c) \/ Answer(c)
  BY <1>3, ServeSettles, AnswerSettles
<1>4. CASE \E c \in calls : Lose(c)
  BY <1>4 DEF Lose, Settled
<1>5. CASE UNCHANGED vars
  BY <1>5, StillSettles DEF vars
<1> QED BY <1>1, <1>2, <1>3, <1>4, <1>5 DEF Next

LEMMA SettledSafe ==
  ASSUME StatusConstants
  PROVE  Safety => []SettledPage
<1>1. Init => TypeInv /\ Settled
  <2> SUFFICES ASSUME Init PROVE TypeInv /\ Settled
    OBVIOUS
  <2> DEFINE w == NewCall({}, "status", "poll", Absent, Absent)
  <2>1. calls = {w}
    BY DEF Init, Load
  <2>2. w.kind = "status" /\ w.state = "sent"
    BY DEF NewCall
  <2> HIDE DEF w
  <2> QED BY <2>1, <2>2, InitType DEF Init, Settled, Agrees, Overlap, Writes
<1>2. TypeInv /\ Settled /\ [Next]_vars => TypeInv' /\ Settled'
  BY StepType, StepSettles
<1>3. Settled => SettledPage
  BY DEF Settled, Agrees, SettledPage
<1> QED BY <1>1, <1>2, <1>3, PTL DEF Safety

\* As long as nothing was lost and no write overlapped another request, a page at rest
\* shows the sentinel's monitors, for any number of them but none, of which the page shows
\* invented ones.
THEOREM SettledCorrect ==
  ASSUME StatusConstants
  PROVE  Spec => []SettledPage
BY SettledSafe, PTL DEF Spec
=============================================================================
