-------------------------- MODULE SentinelScheduler --------------------------
(***************************************************************************)
(* The watchdog loop of Sentinel (sentinel/main.go, startScheduler) with   *)
(* the store tables it reads and writes (sentinel/storage/sqlite.go) and   *)
(* the monitor API that edits them (sentinel/handler/api.go).              *)
(*                                                                         *)
(* Every tick the scheduler lists the monitors and starts one goroutine    *)
(* for each that is due.  A goroutine probes its target, records a         *)
(* heartbeat, compares the result with activeIncidentMap - a plain Go map  *)
(* shared by all goroutines and kept in memory only - and on a change      *)
(* updates the map, then the incidents table, then starts a send to each   *)
(* Telegram subscriber.  These are separate steps: ticks, API calls, other *)
(* goroutines and the end of the process come in between.  Nobody waits    *)
(* for a send: it takes up to 45 s, may fail, may overtake an earlier one, *)
(* and its error is only logged (sentinel/telegram/bot.go, Broadcast).     *)
(*                                                                         *)
(* Time is counted in scheduler ticks (5 s).  Of the incidents table only  *)
(* the number of rows with status 'active' is kept per monitor, of the     *)
(* heartbeats table only the newest row.                                   *)
(***************************************************************************)
EXTENDS Integers, FiniteSets

CONSTANTS
  MonitorIds,       \* ids a monitors row can have
  DefaultIds,       \* the ids seedDefaultMonitors inserts
  Urls,             \* probe targets
  SeedUrl,          \* the target of each default monitor
  Slots,            \* goroutines one monitor can have in flight: a bound
  IntervalInputs,   \* interval_sec in a request, in ticks; 0 when omitted
  AddDefault,       \* the 60 s given to a new monitor without an interval
  UpdateDefault,    \* the 30 s used everywhere else
  MaxInterval,      \* largest interval that occurs, in ticks: a bound
  MaxRestarts,      \* times the process may end and start again: a bound
  MaxOpen,          \* active incidents at which targets stop failing: a bound
  Editable,         \* the monitors that are edited and deleted: a bound
  StoreMayFail,     \* whether a store call of the scheduler may return an error
  MaxRaces,         \* writes to the shared map that may be lost: a bound
  Chats,            \* the subscribers; none without a bot token
  Admin,            \* the chat of the administrator, who cannot be removed
  NoRow             \* no row with this id in the monitors table

Status == {"up", "down", "degraded"}
Row == [url : Urls, interval : 1..MaxInterval, active : BOOLEAN]

ASSUME ScheduleAssumption ==
  /\ DefaultIds \subseteq MonitorIds
  /\ SeedUrl \in [DefaultIds -> Urls]
  /\ MaxInterval \in Nat
  /\ AddDefault \in 1..MaxInterval
  /\ UpdateDefault \in 1..MaxInterval
  /\ IntervalInputs \subseteq Int
  /\ \A i \in IntervalInputs : i <= MaxInterval
  /\ MaxRestarts \in Nat
  /\ MaxOpen \in Nat
  /\ Editable \subseteq MonitorIds
  /\ StoreMayFail \in BOOLEAN
  /\ MaxRaces \in Nat
  /\ Chats # {} => Admin \in Chats
  /\ NoRow \notin Row

VARIABLES
  monitors,           \* the monitors table
  open,               \* number of active rows in incidents, per monitor
  beat,               \* status of the newest heartbeat, per monitor
  activeIncidentMap,  \* the scheduler's memory of open incidents
  lastProbe,          \* ticks since the last probe began (lastProbeMap)
  probe,              \* the goroutines in flight
  health,             \* what a probe of a target sees now
  announced,          \* last broadcast this process began, per monitor
  sending,            \* the sends of all broadcasts that are under way
  inherited,          \* active rows left over by earlier processes
  restarts,           \* processes that have ended
  races               \* writes to the map that were lost

table == <<monitors, beat>>
memory == <<activeIncidentMap, lastProbe, probe>>
news == <<announced, sending>>
ghost == <<inherited, restarts, races>>
vars == <<monitors, open, beat, activeIncidentMap, lastProbe, probe, health,
          announced, sending, inherited, restarts, races>>

Never == MaxInterval + 1     \* lastProbe of a monitor that is not in lastProbeMap
Steps == {"idle", "probing", "record", "check", "set", "store", "notify"}
Goroutine == [pc : Steps, url : Urls \cup {"none"}, result : Status \cup {"none"}]
Idle == [pc |-> "idle", url |-> "none", result |-> "none"]
Texts == {"alert", "recovery"}
Message == [of : MonitorIds, to : Chats, text : Texts]

\* Mutant of Normalised: an interval of 0 gets through.
NormalisedKeepsZero(i, default) == IF i < 0 THEN default ELSE i

Normalised(i, default) == IF i <= 0 THEN default ELSE i

SeededRow(m) == [url |-> SeedUrl[m], interval |-> AddDefault, active |-> TRUE]

\* seedDefaultMonitors: only an empty table gets the default monitors
Seeded(rows) ==
  IF \A m \in MonitorIds : rows[m] = NoRow
  THEN [m \in MonitorIds |-> IF m \in DefaultIds THEN SeededRow(m) ELSE NoRow]
  ELSE rows

Init ==
  /\ monitors = Seeded([m \in MonitorIds |-> NoRow])
  /\ open = [m \in MonitorIds |-> 0]
  /\ beat = [m \in MonitorIds |-> "none"]
  /\ activeIncidentMap = [m \in MonitorIds |-> FALSE]
  /\ lastProbe = [m \in MonitorIds |-> Never]
  /\ probe = [m \in MonitorIds |-> [s \in Slots |-> Idle]]
  /\ health \in [Urls -> Status]
  /\ announced = [m \in MonitorIds |-> "none"]
  /\ sending = {}
  /\ inherited = [m \in MonitorIds |-> 0]
  /\ restarts = 0
  /\ races = 0

----------------------------------------------------------------------------
(* checkAndProbe *)

Listed(m) == monitors[m] # NoRow
Quiet(m) == \A s \in Slots : probe[m][s].pc = "idle"
FreeSlots(m) == {s \in Slots : probe[m][s].pc = "idle"}

\* A tick after the last one, lastProbe tells how long ago each probe began.
Aged(m) == IF lastProbe[m] >= MaxInterval THEN lastProbe[m] ELSE lastProbe[m] + 1

\* Mutant of Due: a monitor is probed once per process.
DueOnce(m) == Listed(m) /\ monitors[m].active /\ lastProbe[m] = Never

Due(m) ==
  /\ Listed(m)
  /\ monitors[m].active
  /\ \/ lastProbe[m] = Never
     \/ Aged(m) >= Normalised(monitors[m].interval, UpdateDefault)

\* A due monitor whose slots are all taken holds the tick back: Slots bounds
\* how far probes of one monitor overlap, and one slot says that a goroutine
\* ends before its monitor is due again.
Tick ==
  LET due == {m \in MonitorIds : Due(m)} IN
  /\ \A m \in due : FreeSlots(m) # {}
  /\ lastProbe' = [m \in MonitorIds |-> IF m \in due THEN 0 ELSE Aged(m)]
  /\ probe' = [m \in MonitorIds |->
                 IF m \in due
                 THEN [probe[m] EXCEPT ![CHOOSE s \in FreeSlots(m) : TRUE] =
                         [pc |-> "probing", url |-> monitors[m].url, result |-> "none"]]
                 ELSE probe[m]]
  /\ UNCHANGED <<table, open, activeIncidentMap, health, news, ghost>>

\* ListMonitors returned an error: nothing is probed on this tick.
TickFails ==
  /\ StoreMayFail
  /\ lastProbe' = [m \in MonitorIds |-> Aged(m)]
  /\ UNCHANGED <<table, open, activeIncidentMap, probe, health, news, ghost>>

----------------------------------------------------------------------------
(* The goroutine of one probe *)

At(m, s, step) == probe[m][s].pc = step
Result(m, s) == probe[m][s].result
GoTo(m, s, step) == probe' = [probe EXCEPT ![m][s].pc = step]
Finish(m, s) == probe' = [probe EXCEPT ![m][s] = Idle]

\* The goroutine works on the copy of the row it was started with.
ProbeTarget(m, s) ==
  /\ At(m, s, "probing")
  /\ probe' = [probe EXCEPT ![m][s].pc = "record",
                            ![m][s].result = health[probe[m][s].url]]
  /\ UNCHANGED <<table, open, activeIncidentMap, lastProbe, health, news, ghost>>

\* The error is ignored.  The insert may also fail, or leave a row behind, for
\* a monitor deleted meanwhile: PRAGMA foreign_keys holds for one connection of
\* the pool only.
RecordHeartbeat(m, s) ==
  /\ At(m, s, "record")
  /\ GoTo(m, s, "check")
  /\ \/ beat' = [beat EXCEPT ![m] = Result(m, s)]
     \/ (StoreMayFail \/ ~Listed(m)) /\ beat' = beat
  /\ UNCHANGED <<monitors, open, activeIncidentMap, lastProbe, health, news, ghost>>

\* Mutants of MustChange: the map is not consulted; recoveries are not handled.
MustChangeAlways(m, s) == Result(m, s) # "degraded"
MustChangeOnDown(m, s) == Result(m, s) = "down" /\ ~activeIncidentMap[m]

MustChange(m, s) ==
  \/ Result(m, s) = "down" /\ ~activeIncidentMap[m]
  \/ Result(m, s) = "up" /\ activeIncidentMap[m]

\* Reads the map; writing it is another step.
CheckMap(m, s) ==
  /\ At(m, s, "check")
  /\ IF MustChange(m, s) THEN GoTo(m, s, "set") ELSE Finish(m, s)
  /\ UNCHANGED <<table, open, activeIncidentMap, lastProbe, health, news, ghost>>

\* Mutant of SetMap: a recovery does not clear the entry.
SetMapSticky(m, s) ==
  /\ At(m, s, "set")
  /\ activeIncidentMap' = [activeIncidentMap EXCEPT ![m] = TRUE]
  /\ GoTo(m, s, "store")
  /\ UNCHANGED <<table, open, lastProbe, health, news, ghost>>

SetMap(m, s) ==
  /\ At(m, s, "set")
  /\ activeIncidentMap' = [activeIncidentMap EXCEPT ![m] = (Result(m, s) = "down")]
  /\ GoTo(m, s, "store")
  /\ UNCHANGED <<table, open, lastProbe, health, news, ghost>>

\* Two goroutines, of any monitors, touch the unsynchronised map and one writes.
MapAccess(m, s, n, t) ==
  /\ <<m, s>> # <<n, t>>
  /\ At(m, s, "set")
  /\ At(n, t, "set") \/ At(n, t, "check")

\* Two goroutines, of one monitor or of two, write the map at the same time.  One outcome
\* is that the first one's write is lost; another is that the runtime ends the process:
\* Restart.
CollidingWrites(m, s, n, t) ==
  /\ races < MaxRaces
  /\ races' = races + 1
  /\ MapAccess(m, s, n, t) /\ At(n, t, "set")
  /\ activeIncidentMap' = [activeIncidentMap EXCEPT ![n] = (Result(n, t) = "down")]
  /\ probe' = [probe EXCEPT ![m][s].pc = "store", ![n][t].pc = "store"]
  /\ UNCHANGED <<table, open, lastProbe, health, news, inherited, restarts>>

\* Mutant of RecordIncident: the goroutine returns before it alerts anybody.
RecordIncidentSilently(m, s) ==
  /\ At(m, s, "store")
  /\ Result(m, s) = "down"
  /\ Finish(m, s)
  /\ open' = [open EXCEPT ![m] = @ + 1]
  /\ UNCHANGED <<table, activeIncidentMap, lastProbe, health, news, ghost>>

RecordIncident(m, s) ==
  /\ At(m, s, "store")
  /\ Result(m, s) = "down"
  /\ GoTo(m, s, "notify")
  /\ \/ open' = [open EXCEPT ![m] = @ + 1]
     \/ StoreMayFail /\ open' = open
  /\ UNCHANGED <<table, activeIncidentMap, lastProbe, health, news, ghost>>

\* Mutant of ResolveIncident: the row is looked up and not updated.
ResolveIncidentReadsOnly(m, s) ==
  /\ At(m, s, "store")
  /\ Result(m, s) = "up"
  /\ GoTo(m, s, "notify")
  /\ UNCHANGED <<table, open, activeIncidentMap, lastProbe, health, news, ghost>>

\* Closes the newest active row; none is no error.
ResolveIncident(m, s) ==
  /\ At(m, s, "store")
  /\ Result(m, s) = "up"
  /\ GoTo(m, s, "notify")
  /\ \/ open' = [open EXCEPT ![m] = IF @ = 0 THEN 0 ELSE @ - 1]
     \/ StoreMayFail /\ open' = open
  /\ UNCHANGED <<table, activeIncidentMap, lastProbe, health, news, ghost>>

\* ListTelegramSubscribers: an error leaves the administrator.
Recipients == {Chats} \cup (IF StoreMayFail THEN {Chats \cap {Admin}} ELSE {})

UnderWay(m) == {x.text : x \in {y \in sending : y.of = m}}

\* BroadcastAlert and BroadcastRecovery: a send to each recipient starts, and the
\* goroutine is done.  Bound: a send, which takes 45 s at most, is over before the next
\* broadcast with the same text.
Notify(m, s) ==
  LET text == IF Result(m, s) = "down" THEN "alert" ELSE "recovery"
  IN  /\ At(m, s, "notify")
      /\ text \notin UnderWay(m)
      /\ announced' = [announced EXCEPT ![m] = text]
      /\ \E to \in Recipients :
           sending' = sending \cup {[of |-> m, to |-> c, text |-> text] : c \in to}
      /\ Finish(m, s)
      /\ UNCHANGED <<table, open, activeIncidentMap, lastProbe, health, ghost>>

\* SendMessage returns: the text has arrived, or the error is logged.  Neither is
\* repeated or waited for, and sends end in any order.
SendEnds(x) ==
  /\ x \in sending
  /\ sending' = sending \ {x}
  /\ UNCHANGED <<table, open, memory, health, announced, ghost>>

GoroutineStep(m, s) ==
  \/ ProbeTarget(m, s)
  \/ RecordHeartbeat(m, s)
  \/ CheckMap(m, s)
  \/ SetMap(m, s)
  \/ RecordIncident(m, s)
  \/ ResolveIncident(m, s)
  \/ Notify(m, s)

----------------------------------------------------------------------------
(* The monitor API *)

\* A new id is random.  One that nothing refers to any more stands for it.
Fresh(m) ==
  /\ m \notin DefaultIds
  /\ ~Listed(m)
  /\ Quiet(m)
  /\ ~activeIncidentMap[m]
  /\ open[m] = 0
  /\ UnderWay(m) = {}

AddMonitor(m, u, i) ==
  /\ Fresh(m)
  /\ monitors' = [monitors EXCEPT ![m] =
                    [url |-> u, interval |-> Normalised(i, AddDefault), active |-> TRUE]]
  /\ beat' = [beat EXCEPT ![m] = "none"]
  /\ lastProbe' = [lastProbe EXCEPT ![m] = Never]
  /\ announced' = [announced EXCEPT ![m] = "none"]
  /\ UNCHANGED <<open, activeIncidentMap, probe, health, sending, ghost>>

UpdateMonitor(m, u, i) ==
  /\ Listed(m)
  /\ monitors' = [monitors EXCEPT ![m].url = u,
                                  ![m].interval = Normalised(i, UpdateDefault)]
  /\ UNCHANGED <<open, beat, memory, health, news, ghost>>

ToggleMonitor(m, on) ==
  /\ Listed(m)
  /\ monitors' = [monitors EXCEPT ![m].active = on]
  /\ UNCHANGED <<open, beat, memory, health, news, ghost>>

\* Incidents have no foreign key: their rows stay, whatever their status.
DeleteMonitor(m) ==
  /\ Listed(m)
  /\ monitors' = [monitors EXCEPT ![m] = NoRow]
  /\ beat' \in {beat, [beat EXCEPT ![m] = "none"]}
  /\ UNCHANGED <<open, memory, health, news, ghost>>

----------------------------------------------------------------------------
(* The rest of the world *)

\* Rows older than 30 days go; only a monitor that is not probed has no newer one.
PruneOldData(m) ==
  /\ Listed(m) => ~monitors[m].active
  /\ beat' = [beat EXCEPT ![m] = "none"]
  /\ UNCHANGED <<monitors, open, memory, health, news, ghost>>

\* With MaxOpen active incidents on record no target goes down again.
TargetChanges(u, h) ==
  /\ h = "down" => \A m \in MonitorIds : open[m] < MaxOpen
  /\ health' = [health EXCEPT ![u] = h]
  /\ UNCHANGED <<table, open, memory, news, ghost>>

\* The process ends, at any point, and systemd starts it again: the tables
\* survive, the maps, the goroutines and the sends do not.
Restart ==
  /\ restarts < MaxRestarts
  /\ restarts' = restarts + 1
  /\ monitors' = Seeded(monitors)
  /\ activeIncidentMap' = [m \in MonitorIds |-> FALSE]
  /\ lastProbe' = [m \in MonitorIds |-> Never]
  /\ probe' = [m \in MonitorIds |-> [s \in Slots |-> Idle]]
  /\ announced' = [m \in MonitorIds |-> "none"]
  /\ sending' = {}
  /\ inherited' = open
  /\ UNCHANGED <<open, beat, health, races>>

Api ==
  \/ \E m \in MonitorIds, u \in Urls, i \in IntervalInputs : AddMonitor(m, u, i)
  \/ \E m \in Editable, u \in Urls, i \in IntervalInputs : UpdateMonitor(m, u, i)
  \/ \E m \in Editable, on \in BOOLEAN : ToggleMonitor(m, on)
  \/ \E m \in Editable : DeleteMonitor(m)

Environment ==
  \/ \E m \in MonitorIds : PruneOldData(m)
  \/ \E u \in Urls, h \in Status : TargetChanges(u, h)
  \/ \E x \in sending : SendEnds(x)
  \/ Restart

Next ==
  \/ Tick
  \/ TickFails
  \/ \E m \in MonitorIds, s \in Slots : GoroutineStep(m, s)
  \/ \E m, n \in MonitorIds, s, t \in Slots : CollidingWrites(m, s, n, t)
  \/ Api
  \/ Environment

Spec == Init /\ [][Next]_vars

\* The ticker keeps firing, the Go runtime keeps running every goroutine, and the HTTP
\* client of a send gives up after 45 s.
Fairness ==
  /\ WF_vars(Tick)
  /\ \A m \in MonitorIds, s \in Slots : WF_vars(GoroutineStep(m, s))
  /\ \A x \in Message : WF_vars(SendEnds(x))

FairSpec == Spec /\ Fairness

----------------------------------------------------------------------------
(* Properties *)

\* The tables, the maps and the goroutines hold what the code can put there.
TypeOK ==
  /\ monitors \in [MonitorIds -> Row \cup {NoRow}]
  /\ open \in [MonitorIds -> Nat]
  /\ beat \in [MonitorIds -> Status \cup {"none"}]
  /\ activeIncidentMap \in [MonitorIds -> BOOLEAN]
  /\ lastProbe \in [MonitorIds -> 0..Never]
  /\ probe \in [MonitorIds -> [Slots -> Goroutine]]
  /\ \A m \in MonitorIds, s \in Slots :
       /\ ~At(m, s, "idle") => probe[m][s].url \in Urls
       /\ ~At(m, s, "idle") /\ ~At(m, s, "probing") => Result(m, s) \in Status
       /\ At(m, s, "set") \/ At(m, s, "store") \/ At(m, s, "notify")
            => Result(m, s) \in {"up", "down"}
  /\ health \in [Urls -> Status]
  /\ announced \in [MonitorIds -> Texts \cup {"none"}]
  /\ sending \subseteq Message
  /\ inherited \in [MonitorIds -> Nat]
  /\ restarts \in Nat
  /\ races \in Nat

Tracked(m) == IF activeIncidentMap[m] THEN 1 ELSE 0

\* Between probes of a monitor the incidents table holds, besides what earlier
\* processes left, exactly the incident activeIncidentMap says is open: three
\* separate steps of a goroutine (map, table, message) and every API call,
\* tick and restart between them never let the two drift apart.
LedgerBalanced ==
  \A m \in MonitorIds : Quiet(m) => open[m] = inherited[m] + Tracked(m)

\* No second alert is broadcast for one outage, and no recovery from one that was not
\* broadcast.  This is about the broadcasts a process begins (BroadcastAlert,
\* BroadcastRecovery); what reaches a subscriber, and in which order, is anybody's guess.
BroadcastsAlternate ==
  \A m \in MonitorIds, s \in Slots :
    At(m, s, "notify") => (Result(m, s) = "down" <=> announced[m] # "alert")

\* A process leaves at most one incident of a monitor unresolved, wherever in a
\* goroutine it ends and however often outages came and went before.
OneLeftoverPerProcess ==
  \A m \in MonitorIds : open[m] <= restarts + 1

\* The status page takes a monitor's state from its newest heartbeat and its
\* outage from the incidents: once this process has probed the monitor and no
\* probe is in flight, the two agree.
PageAgreesWithLog ==
  \A m \in MonitorIds :
    Listed(m) /\ Quiet(m) /\ lastProbe[m] # Never =>
      /\ beat[m] = "down" => open[m] > inherited[m]
      /\ beat[m] = "up" => open[m] = inherited[m]

Watches(m, u) == Listed(m) /\ monitors[m].active /\ monitors[m].url = u
SteadilyDown(m, u) == Watches(m, u) /\ health[u] = "down"
SteadilyUp(m, u) == Watches(m, u) /\ health[u] = "up"

\* A target that stays down while it is watched is logged and its alert broadcast, also
\* when the process was restarted in the middle of reporting it; each send of the
\* broadcast ends, with a text that arrived or an error.
OutageReported ==
  \A m \in MonitorIds, u \in Urls :
    <>[]SteadilyDown(m, u) =>
      <>[](open[m] > inherited[m] /\ announced[m] = "alert" /\ UnderWay(m) = {})

\* A target that stays up while it is watched ends with every incident this
\* process opened closed, no alert the last broadcast, and no send left hanging.
RecoveryReported ==
  \A m \in MonitorIds, u \in Urls :
    <>[]SteadilyUp(m, u) =>
      <>[](open[m] = inherited[m] /\ announced[m] # "alert" /\ UnderWay(m) = {})

\* Whatever the store fails at, and whichever monitor's write to the map another one's
\* destroys, an outage that lasts is noticed for good.
OutageNoticed ==
  \A m \in MonitorIds, u \in Urls : <>[]SteadilyDown(m, u) => <>[]activeIncidentMap[m]

\* The status page calls every unresolved incident an active outage
\* (web/app/status/page.tsx): such a row is closed when its target stays up.
ActiveOutageEnds ==
  \A m \in MonitorIds, u \in Urls : <>[]SteadilyUp(m, u) => <>[](open[m] = 0)

\* The phase of an outage as the table and the broadcasts show it.
ReportedPhase(m) ==
  IF open[m] > inherited[m]
  THEN IF announced[m] = "alert" THEN "alerted" ELSE "logged"
  ELSE IF announced[m] = "alert" THEN "closed" ELSE "calm"

Lifecycle == INSTANCE IncidentLifecycle
  WITH Monitors <- MonitorIds,
       phase <- [m \in MonitorIds |-> ReportedPhase(m)],
       mail <- [m \in MonitorIds |-> UnderWay(m)],
       abandoned <- inherited

\* The scheduler implements the lifecycle of an outage.
ImplementsLifecycle == Lifecycle!LifecycleSpec
=============================================================================
