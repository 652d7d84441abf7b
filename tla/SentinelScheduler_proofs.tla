---------------------- MODULE SentinelScheduler_proofs ----------------------
(***************************************************************************)
(* Theorems about SentinelScheduler for every set of monitors, goroutine   *)
(* slots and targets, every interval and any number of restarts.           *)
(***************************************************************************)
EXTENDS SentinelScheduler, TLAPS

\* Every interval that reaches the table is a positive number of ticks.
LEMMA NormalisedType ==
  ASSUME NEW i \in IntervalInputs, NEW d \in 1..MaxInterval
  PROVE  Normalised(i, d) \in 1..MaxInterval
BY ScheduleAssumption DEF Normalised

\* Seeding turns a table of monitors into a table of monitors.
LEMMA SeededType ==
  ASSUME NEW rows \in [MonitorIds -> Row \cup {NoRow}]
  PROVE  Seeded(rows) \in [MonitorIds -> Row \cup {NoRow}]
BY ScheduleAssumption DEF Seeded, SeededRow, Row

\* The age of a probe stays within its range.
LEMMA AgedType ==
  ASSUME TypeOK, NEW m \in MonitorIds
  PROVE  Aged(m) \in 0..Never
BY ScheduleAssumption DEF TypeOK, Aged, Never

\* An idle goroutine slot is a goroutine record.
LEMMA IdleType == Idle \in Goroutine
BY DEF Idle, Goroutine, Steps

\* The initial states are well typed.
LEMMA InitTypeOK == Init => TypeOK
<1> SUFFICES ASSUME Init PROVE TypeOK
  OBVIOUS
<1>1. monitors \in [MonitorIds -> Row \cup {NoRow}]
  <2>1. [m \in MonitorIds |-> NoRow] \in [MonitorIds -> Row \cup {NoRow}]
    OBVIOUS
  <2> QED BY <2>1, SeededType DEF Init
<1>2. lastProbe \in [MonitorIds -> 0..Never]
  BY ScheduleAssumption DEF Init, Never
<1>3. /\ probe \in [MonitorIds -> [Slots -> Goroutine]]
      /\ \A m \in MonitorIds, s \in Slots : At(m, s, "idle")
  BY IdleType DEF Init, At, Idle
<1>4. \A m \in MonitorIds, s \in Slots :
        ~At(m, s, "set") /\ ~At(m, s, "store") /\ ~At(m, s, "notify")
  BY <1>3 DEF At
<1> QED BY <1>1, <1>2, <1>3, <1>4 DEF Init, TypeOK

\* The shape of one goroutine: what its record holds at each step.
GoroutineOK(g) ==
  /\ g \in Goroutine
  /\ g.pc # "idle" => g.url \in Urls
  /\ g.pc \notin {"idle", "probing"} => g.result \in Status
  /\ g.pc \in {"set", "store", "notify"} => g.result \in {"up", "down"}

GoroutinesOK(p) ==
  /\ p \in [MonitorIds -> [Slots -> Goroutine]]
  /\ \A m \in MonitorIds, s \in Slots : GoroutineOK(p[m][s])

ProbeOK == GoroutinesOK(probe)

TablesOK ==
  /\ monitors \in [MonitorIds -> Row \cup {NoRow}]
  /\ open \in [MonitorIds -> Nat]
  /\ beat \in [MonitorIds -> Status \cup {"none"}]
  /\ activeIncidentMap \in [MonitorIds -> BOOLEAN]
  /\ lastProbe \in [MonitorIds -> 0..Never]
  /\ health \in [Urls -> Status]
  /\ announced \in [MonitorIds -> Texts \cup {"none"}]
  /\ sending \subseteq Message
  /\ inherited \in [MonitorIds -> Nat]
  /\ restarts \in Nat
  /\ races \in Nat

\* The type invariant is about the tables and, slot by slot, the goroutines.
LEMMA TypeSplit ==
  /\ TypeOK <=> TablesOK /\ ProbeOK
  /\ TypeOK' <=> TablesOK' /\ ProbeOK'
BY DEF TypeOK, TablesOK, ProbeOK, GoroutinesOK, GoroutineOK, At, Result, Goroutine

\* Changing one slot to a well-formed goroutine keeps all of them well formed.
LEMMA OneSlotChanges ==
  ASSUME NEW p, GoroutinesOK(p), NEW m \in MonitorIds, NEW s \in Slots,
         NEW g, GoroutineOK(g)
  PROVE  GoroutinesOK([p EXCEPT ![m][s] = g])
BY DEF GoroutinesOK, GoroutineOK

\* Moving a goroutine on keeps it well formed if its result fits the new step.
LEMMA GoToOK ==
  ASSUME ProbeOK, NEW m \in MonitorIds, NEW s \in Slots, NEW step \in Steps,
         ~At(m, s, "idle"), ~At(m, s, "probing"), GoTo(m, s, step),
         step \in {"set", "store", "notify"} => Result(m, s) \in {"up", "down"}
  PROVE  ProbeOK'
<1> DEFINE g == [probe[m][s] EXCEPT !.pc = step]
<1>1. GoroutineOK(g)
  BY DEF ProbeOK, GoroutinesOK, GoroutineOK, Goroutine, At, Result
<1>2. probe' = [probe EXCEPT ![m][s] = g]
  BY DEF GoTo, ProbeOK, GoroutinesOK
<1> HIDE DEF g
<1> QED BY <1>1, <1>2, OneSlotChanges DEF ProbeOK

\* A goroutine that ends leaves a well-formed idle slot.
LEMMA FinishOK ==
  ASSUME ProbeOK, NEW m \in MonitorIds, NEW s \in Slots, Finish(m, s)
  PROVE  ProbeOK'
<1>1. GoroutineOK(Idle)
  BY IdleType DEF GoroutineOK, Idle
<1> QED BY <1>1, OneSlotChanges DEF Finish, ProbeOK

\* Every step of a goroutine keeps the type invariant.
LEMMA GoroutineTypeOK ==
  ASSUME TypeOK, NEW m \in MonitorIds, NEW s \in Slots, GoroutineStep(m, s)
  PROVE  TypeOK'
<1> USE TypeSplit
<1>1. CASE ProbeTarget(m, s)
  <2> DEFINE g == [probe[m][s] EXCEPT !.pc = "record", !.result = health[probe[m][s].url]]
  <2> /\ probe[m][s] \in Goroutine
      /\ probe[m][s].url \in Urls
    BY <1>1 DEF ProbeTarget, ProbeOK, GoroutinesOK, GoroutineOK, At
  <2> health[probe[m][s].url] \in Status
    BY DEF TablesOK
  <2>1. GoroutineOK(g)
    BY DEF GoroutineOK, Goroutine, Steps
  <2>2. probe' = [probe EXCEPT ![m][s] = g]
    BY <1>1 DEF ProbeTarget, ProbeOK, GoroutinesOK
  <2> HIDE DEF g
  <2>3. ProbeOK'
    BY <2>1, <2>2, OneSlotChanges DEF ProbeOK
  <2> QED BY <1>1, <2>3 DEF ProbeTarget, TablesOK, table, news, ghost
<1>2. CASE RecordHeartbeat(m, s)
  <2>1. ProbeOK'
    BY <1>2, GoToOK DEF RecordHeartbeat, At, Steps
  <2>2. beat' \in [MonitorIds -> Status \cup {"none"}]
    BY <1>2 DEF RecordHeartbeat, TablesOK, ProbeOK, GoroutinesOK, GoroutineOK, At, Result
  <2> QED BY <1>2, <2>1, <2>2 DEF RecordHeartbeat, TablesOK, news, ghost
<1>3. CASE CheckMap(m, s)
  <2>1. CASE MustChange(m, s)
    <3>1. ProbeOK'
      BY <1>3, <2>1, GoToOK DEF CheckMap, MustChange, At, Steps
    <3> QED BY <1>3, <3>1 DEF CheckMap, TablesOK, table, news, ghost
  <2>2. CASE ~MustChange(m, s)
    <3>1. ProbeOK'
      BY <1>3, <2>2, FinishOK DEF CheckMap
    <3> QED BY <1>3, <3>1 DEF CheckMap, TablesOK, table, news, ghost
  <2> QED BY <2>1, <2>2
<1>4. CASE SetMap(m, s)
  <2>1. ProbeOK'
    BY <1>4, GoToOK DEF SetMap, At, Steps, ProbeOK, GoroutinesOK, GoroutineOK, Result
  <2> QED BY <1>4, <2>1 DEF SetMap, TablesOK, table, news, ghost
<1>5. CASE RecordIncident(m, s)
  <2>1. ProbeOK'
    BY <1>5, GoToOK DEF RecordIncident, At, Steps
  <2> QED BY <1>5, <2>1 DEF RecordIncident, TablesOK, table, news, ghost
<1>6. CASE ResolveIncident(m, s)
  <2>1. ProbeOK'
    BY <1>6, GoToOK DEF ResolveIncident, At, Steps
  <2>2. open' \in [MonitorIds -> Nat]
    BY <1>6 DEF ResolveIncident, TablesOK
  <2> QED BY <1>6, <2>1, <2>2 DEF ResolveIncident, TablesOK, table, news, ghost
<1>7. CASE Notify(m, s)
  <2>1. ProbeOK'
    BY <1>7, FinishOK DEF Notify
  <2>2. announced' \in [MonitorIds -> Texts \cup {"none"}]
    BY <1>7 DEF Notify, TablesOK, Texts
  <2>3. sending' \subseteq Message
    BY <1>7 DEF Notify, Recipients, TablesOK, Message, Texts
  <2> QED BY <1>7, <2>1, <2>2, <2>3 DEF Notify, TablesOK, table, news, ghost
<1> QED BY <1>1, <1>2, <1>3, <1>4, <1>5, <1>6, <1>7 DEF GoroutineStep

\* Every API call keeps the type invariant.
LEMMA ApiTypeOK == TypeOK /\ Api => TypeOK'
<1> SUFFICES ASSUME TypeOK, Api PROVE TypeOK'
  OBVIOUS
<1> USE TypeSplit
<1>1. ASSUME NEW m \in MonitorIds, NEW u \in Urls, NEW i \in IntervalInputs,
             AddMonitor(m, u, i)
      PROVE  TypeOK'
  <2>1. Normalised(i, AddDefault) \in 1..MaxInterval
    BY NormalisedType, ScheduleAssumption
  <2>2. monitors' \in [MonitorIds -> Row \cup {NoRow}]
    BY <1>1, <2>1 DEF AddMonitor, TablesOK, Row
  <2>3. Never \in 0..Never
    BY ScheduleAssumption DEF Never
  <2> QED BY <1>1, <2>2, <2>3 DEF AddMonitor, TablesOK, ProbeOK, GoroutinesOK, news, ghost
<1>2. ASSUME NEW m \in MonitorIds, NEW u \in Urls, NEW i \in IntervalInputs,
             UpdateMonitor(m, u, i)
      PROVE  TypeOK'
  <2>1. Normalised(i, UpdateDefault) \in 1..MaxInterval
    BY NormalisedType, ScheduleAssumption
  <2>2. monitors[m] \in Row
    BY <1>2 DEF UpdateMonitor, Listed, TablesOK
  <2>3. monitors' \in [MonitorIds -> Row \cup {NoRow}]
    BY <1>2, <2>1, <2>2 DEF UpdateMonitor, TablesOK, Row
  <2> QED BY <1>2, <2>3 DEF UpdateMonitor, TablesOK, ProbeOK, GoroutinesOK, memory, news, ghost
<1>3. ASSUME NEW m \in MonitorIds, NEW on \in BOOLEAN, ToggleMonitor(m, on)
      PROVE  TypeOK'
  <2>1. monitors[m] \in Row
    BY <1>3 DEF ToggleMonitor, Listed, TablesOK
  <2>2. monitors' \in [MonitorIds -> Row \cup {NoRow}]
    BY <1>3, <2>1 DEF ToggleMonitor, TablesOK, Row
  <2> QED BY <1>3, <2>2 DEF ToggleMonitor, TablesOK, ProbeOK, GoroutinesOK, memory, news, ghost
<1>4. ASSUME NEW m \in MonitorIds, DeleteMonitor(m)
      PROVE  TypeOK'
  BY <1>4 DEF DeleteMonitor, TablesOK, ProbeOK, GoroutinesOK, memory, news, ghost
<1> QED BY <1>1, <1>2, <1>3, <1>4, ScheduleAssumption DEF Api

\* So do the environment and a restart.
LEMMA EnvironmentTypeOK == TypeOK /\ Environment => TypeOK'
<1> SUFFICES ASSUME TypeOK, Environment PROVE TypeOK'
  OBVIOUS
<1> USE TypeSplit
<1>1. ASSUME NEW m \in MonitorIds, PruneOldData(m) PROVE TypeOK'
  BY <1>1 DEF PruneOldData, TablesOK, ProbeOK, GoroutinesOK, memory, news, ghost
<1>2. ASSUME NEW u \in Urls, NEW h \in Status, TargetChanges(u, h) PROVE TypeOK'
  BY <1>2 DEF TargetChanges, TablesOK, ProbeOK, GoroutinesOK, table, memory, news, ghost
<1>4. ASSUME NEW x \in sending, SendEnds(x) PROVE TypeOK'
  BY <1>4 DEF SendEnds, TablesOK, ProbeOK, GoroutinesOK, table, memory, news, ghost
<1>3. CASE Restart
  <2>1. Never \in 0..Never
    BY ScheduleAssumption DEF Never
  <2>2. ProbeOK'
    BY <1>3, IdleType DEF Restart, ProbeOK, GoroutinesOK, GoroutineOK, Idle
  <2>3. monitors' \in [MonitorIds -> Row \cup {NoRow}]
    BY <1>3, SeededType DEF Restart, TablesOK
  <2> QED BY <1>3, <2>1, <2>2, <2>3 DEF Restart, TablesOK
<1> QED BY <1>1, <1>2, <1>3, <1>4 DEF Environment

\* A tick ages every probe and puts a well-formed goroutine in a free slot.
LEMMA TickTypeOK == TypeOK /\ Tick => TypeOK'
<1> SUFFICES ASSUME TypeOK, Tick PROVE TypeOK'
  OBVIOUS
<1> USE TypeSplit
<1> DEFINE due == {m \in MonitorIds : Due(m)}
           slot(m) == CHOOSE s \in FreeSlots(m) : TRUE
           g(m) == [pc |-> "probing", url |-> monitors[m].url, result |-> "none"]
<1>1. ASSUME NEW m \in due
      PROVE  slot(m) \in Slots /\ GoroutineOK(g(m))
  <2>1. FreeSlots(m) # {}
    BY DEF Tick
  <2>2. slot(m) \in FreeSlots(m)
    BY <2>1
  <2>3. monitors[m] \in Row
    BY DEF Due, Listed, TablesOK
  <2> QED BY <2>2, <2>3 DEF FreeSlots, GoroutineOK, Goroutine, Steps, Row
<1>2. probe' = [m \in MonitorIds |->
                  IF m \in due THEN [probe[m] EXCEPT ![slot(m)] = g(m)] ELSE probe[m]]
  BY DEF Tick
<1>3. 0 \in 0..Never
  BY ScheduleAssumption DEF Never
<1>4. lastProbe' \in [MonitorIds -> 0..Never]
  BY <1>3, AgedType DEF Tick
<1> HIDE DEF due, slot, g
<1>5. ProbeOK'
  BY <1>1, <1>2 DEF ProbeOK, GoroutinesOK, GoroutineOK
<1> QED BY <1>4, <1>5 DEF Tick, TablesOK, table, news, ghost

\* Every step keeps the type invariant.
LEMMA NextTypeOK == TypeOK /\ [Next]_vars => TypeOK'
<1> SUFFICES ASSUME TypeOK, [Next]_vars PROVE TypeOK'
  OBVIOUS
<1>1. CASE Tick
  BY <1>1, TickTypeOK
<1>2. CASE TickFails
  BY <1>2, AgedType, TypeSplit DEF TickFails, TablesOK, ProbeOK, GoroutinesOK, table, news, ghost
<1>3. ASSUME NEW m \in MonitorIds, NEW s \in Slots, GoroutineStep(m, s) PROVE TypeOK'
  BY <1>3, GoroutineTypeOK
<1>4. ASSUME NEW m \in MonitorIds, NEW n \in MonitorIds, NEW s \in Slots, NEW t \in Slots,
             CollidingWrites(m, s, n, t)
      PROVE  TypeOK'
  <2> USE TypeSplit
  <2> DEFINE f == [probe[m][s] EXCEPT !.pc = "store"]
             one == [probe EXCEPT ![m][s] = f]
             g == [one[n][t] EXCEPT !.pc = "store"]
  <2>1. At(m, s, "set") /\ At(n, t, "set")
    BY <1>4 DEF CollidingWrites, MapAccess
  <2>2. GoroutineOK(f)
    <3>1. GoroutineOK(probe[m][s]) /\ probe[m][s].pc = "set"
      BY <2>1 DEF ProbeOK, GoroutinesOK, At
    <3> QED BY <3>1 DEF GoroutineOK, Goroutine, Steps
  <2>3. GoroutinesOK(one)
    BY <2>2, OneSlotChanges DEF ProbeOK
  <2>4. one[n][t].pc \in {"set", "store"}
    BY <2>1 DEF At, ProbeOK, GoroutinesOK, Goroutine
  <2>5. GoroutineOK(g)
    BY <2>3, <2>4 DEF GoroutinesOK, GoroutineOK, Goroutine, Steps
  <2>6. probe' = [one EXCEPT ![n][t] = g]
    BY <1>4 DEF CollidingWrites, ProbeOK, GoroutinesOK, Goroutine
  <2> HIDE DEF one, g
  <2>7. ProbeOK'
    BY <2>3, <2>5, <2>6, OneSlotChanges DEF ProbeOK
  <2> QED BY <1>4, <2>7 DEF CollidingWrites, TablesOK, table, news, ghost
<1>5. CASE Api
  BY <1>5, ApiTypeOK
<1>6. CASE Environment
  BY <1>6, EnvironmentTypeOK
<1>7. CASE UNCHANGED vars
  BY <1>7, TypeSplit DEF vars, TablesOK, ProbeOK, GoroutinesOK
<1> QED BY <1>1, <1>2, <1>3, <1>4, <1>5, <1>6, <1>7 DEF Next

\* Whatever overlaps, fails or restarts, the tables, the scheduler's maps and
\* the goroutines stay well formed: in particular no interval below one tick
\* reaches the table and only a result of up or down ever leads to a change.
THEOREM TypeCorrect == Spec => []TypeOK
BY InitTypeOK, NextTypeOK, PTL DEF Spec

----------------------------------------------------------------------------
(***************************************************************************)
(* The incident ledger.  With one probe of a monitor at a time, a store    *)
(* that works and no lost map write, the map, the incidents table and what *)
(* was broadcast differ only while a goroutine is between the      *)
(* steps that change them, and only by that one change.                    *)
(***************************************************************************)

Sequential ==
  /\ \A s, t \in Slots : s = t
  /\ ~StoreMayFail
  /\ MaxRaces = 0

\* Some goroutine of m is at one of these steps.
Between(m, steps) == \E s \in Slots : probe[m][s].pc \in steps

\* Whether the open incident is in the table, and broadcast.
Booked(m) == activeIncidentMap[m] <=> ~Between(m, {"store"})
Voiced(m) == activeIncidentMap[m] <=> ~Between(m, {"store", "notify"})

\* A goroutine that is changing something has a result the map disagrees with
\* before, and agrees with after, it has written the map.
ResultFits(m) ==
  \A s \in Slots :
    /\ probe[m][s].pc = "set" => (Result(m, s) = "down" <=> ~activeIncidentMap[m])
    /\ probe[m][s].pc \in {"store", "notify"} =>
         (Result(m, s) = "down" <=> activeIncidentMap[m])

LedgerFits(m) == open[m] = inherited[m] + IF Booked(m) THEN 1 ELSE 0

AnnouncedFits(m) == announced[m] = "alert" <=> Voiced(m)

Probed(m) == Listed(m) /\ lastProbe[m] # Never

BeatFits(m) ==
  Probed(m) =>
    /\ \A s \in Slots :
         probe[m][s].pc \in {"check", "set", "store", "notify"} =>
           beat[m] \in {Result(m, s), "none"}
    /\ Quiet(m) => /\ beat[m] = "down" => activeIncidentMap[m]
                   /\ beat[m] = "up" => ~activeIncidentMap[m]

MonitorInv(m) ==
  /\ ResultFits(m)
  /\ LedgerFits(m)
  /\ AnnouncedFits(m)
  /\ BeatFits(m)
  /\ inherited[m] <= restarts

LedgerInv == \A m \in MonitorIds : MonitorInv(m)

\* With one slot, what the goroutines of a monitor do is what this one does.
LEMMA OnlySlot ==
  ASSUME Sequential, NEW m \in MonitorIds, NEW s \in Slots
  PROVE  /\ \A steps : Between(m, steps) <=> probe[m][s].pc \in steps
         /\ \A steps : Between(m, steps)' <=> probe'[m][s].pc \in steps
         /\ Quiet(m) <=> probe[m][s].pc = "idle"
         /\ Quiet(m)' <=> probe'[m][s].pc = "idle"
BY DEF Sequential, Between, Quiet

\* A step that leaves a monitor's goroutines, map entry, incidents and messages
\* alone keeps its part of the invariant; it may drop the newest heartbeat,
\* delete the row or forget when it was probed.
LEMMA FrameKeeps ==
  ASSUME NEW m \in MonitorIds, MonitorInv(m),
         probe'[m] = probe[m], open'[m] = open[m],
         activeIncidentMap'[m] = activeIncidentMap[m], announced'[m] = announced[m],
         inherited'[m] = inherited[m], restarts' = restarts,
         beat'[m] \in {beat[m], "none"},
         Probed(m)' => Probed(m)
  PROVE  MonitorInv(m)'
<1>1. ResultFits(m)'
  BY DEF MonitorInv, ResultFits, Result
<1>2. LedgerFits(m)'
  BY DEF MonitorInv, LedgerFits, Booked, Between
<1>3. AnnouncedFits(m)'
  BY DEF MonitorInv, AnnouncedFits, Voiced, Between
<1>4. BeatFits(m)'
  BY DEF MonitorInv, BeatFits, Quiet, Result
<1> QED BY <1>1, <1>2, <1>3, <1>4 DEF MonitorInv

\* It holds initially.
LEMMA InitLedger == Init => LedgerInv
<1> SUFFICES ASSUME Init, NEW m \in MonitorIds PROVE MonitorInv(m)
  BY DEF LedgerInv
<1>1. \A s \in Slots : probe[m][s].pc = "idle"
  BY DEF Init, Idle
<1>2. ResultFits(m)
  BY <1>1 DEF ResultFits
<1>3. \A steps : "idle" \notin steps => ~Between(m, steps)
  BY <1>1 DEF Between
<1>4. LedgerFits(m) /\ AnnouncedFits(m)
  BY <1>3 DEF LedgerFits, AnnouncedFits, Booked, Voiced, Init
<1>5. ~Probed(m)
  BY DEF Probed, Init
<1> QED BY <1>2, <1>4, <1>5 DEF MonitorInv, BeatFits, Init

\* A step of a goroutine does not touch the other monitors.
LEMMA OtherMonitors ==
  ASSUME LedgerInv, TypeOK, NEW m \in MonitorIds, NEW s \in Slots, GoroutineStep(m, s),
         NEW n \in MonitorIds \ {m}
  PROVE  MonitorInv(n)'
<1>1. /\ probe'[n] = probe[n]
      /\ open'[n] = open[n]
      /\ beat'[n] = beat[n]
      /\ activeIncidentMap'[n] = activeIncidentMap[n]
      /\ announced'[n] = announced[n]
      /\ UNCHANGED <<monitors, lastProbe, inherited, restarts>>
  BY DEF TypeOK, GoroutineStep, ProbeTarget, RecordHeartbeat, CheckMap, SetMap,
         RecordIncident, ResolveIncident, Notify, GoTo, Finish, table, news, ghost
<1>2. Probed(n)' => Probed(n)
  BY <1>1 DEF Probed, Listed
<1> QED BY <1>1, <1>2, FrameKeeps DEF LedgerInv, news, ghost

\* A step of a goroutine keeps the invariant of its own monitor.
LEMMA OwnMonitor ==
  ASSUME Sequential, TypeOK, LedgerInv, NEW m \in MonitorIds, NEW s \in Slots,
         GoroutineStep(m, s)
  PROVE  MonitorInv(m)'
<1> DEFINE g == probe[m][s]
<1>0. /\ MonitorInv(m)
      /\ \A t \in Slots : t = s
      /\ g \in Goroutine
      /\ activeIncidentMap[m] \in BOOLEAN
      /\ probe \in [MonitorIds -> [Slots -> Goroutine]]
  BY DEF LedgerInv, Sequential, TypeOK
<1>1. CASE ProbeTarget(m, s)
  <2>1. g.pc = "probing" /\ probe'[m][s].pc = "record"
    BY <1>0, <1>1 DEF ProbeTarget, At, Goroutine
  <2> QED BY <1>0, <1>1, <2>1, OnlySlot
          DEF ProbeTarget, MonitorInv, ResultFits, LedgerFits, AnnouncedFits, BeatFits,
              Booked, Voiced, Probed, Listed, table, news, ghost
<1>2. CASE RecordHeartbeat(m, s)
  <2>1. g.pc = "record" /\ probe'[m][s] = [g EXCEPT !.pc = "check"]
    BY <1>0, <1>2 DEF RecordHeartbeat, At, GoTo
  <2>2. Listed(m) => beat'[m] = Result(m, s)
    BY <1>2 DEF RecordHeartbeat, Sequential, TypeOK
  <2>3. Result(m, s)' = Result(m, s)
    BY <1>0, <2>1 DEF Result, Goroutine
  <2>4. BeatFits(m)'
    BY <1>0, <1>2, <2>1, <2>2, <2>3, OnlySlot
       DEF RecordHeartbeat, BeatFits, Probed, Listed, Goroutine
  <2> QED BY <1>0, <1>2, <2>1, <2>4, OnlySlot
          DEF RecordHeartbeat, MonitorInv, ResultFits, LedgerFits, AnnouncedFits,
              Booked, Voiced, Goroutine, news, ghost
<1>3. CASE CheckMap(m, s)
  <2>1. g.pc = "check" /\ Result(m, s) \in Status
    BY <1>3 DEF CheckMap, At, TypeOK
  <2>2. CASE MustChange(m, s)
    <3>1. probe'[m][s] = [g EXCEPT !.pc = "set"]
      BY <1>0, <1>3, <2>2 DEF CheckMap, GoTo
    <3>2. Result(m, s)' = Result(m, s)
      BY <1>0, <3>1 DEF Result, Goroutine
    <3>3. ResultFits(m)'
      BY <1>0, <1>3, <2>2, <3>1, <3>2 DEF CheckMap, MustChange, ResultFits, Goroutine
    <3>4. BeatFits(m)'
      BY <1>0, <1>3, <2>1, <3>1, <3>2, OnlySlot
         DEF CheckMap, MonitorInv, BeatFits, Probed, Listed, Goroutine, table
    <3> QED BY <1>0, <1>3, <2>1, <3>1, <3>3, <3>4, OnlySlot
            DEF CheckMap, MonitorInv, LedgerFits, AnnouncedFits, Booked, Voiced, Goroutine, news, ghost
  <2>3. CASE ~MustChange(m, s)
    <3>1. probe'[m][s] = Idle
      BY <1>0, <1>3, <2>3 DEF CheckMap, Finish
    <3>2. BeatFits(m)'
      BY <1>0, <1>3, <2>1, <2>3, <3>1, OnlySlot
         DEF CheckMap, MustChange, MonitorInv, BeatFits, Probed, Listed, Idle, Status, table
    <3> QED BY <1>0, <1>3, <2>1, <3>1, <3>2, OnlySlot
            DEF CheckMap, MonitorInv, ResultFits, LedgerFits, AnnouncedFits, Booked, Voiced,
                Idle, news, ghost
  <2> QED BY <2>2, <2>3
<1>4. CASE SetMap(m, s)
  <2>1. g.pc = "set" /\ probe'[m][s] = [g EXCEPT !.pc = "store"]
    BY <1>0, <1>4 DEF SetMap, At, GoTo
  <2>2. Result(m, s)' = Result(m, s)
    BY <1>0, <2>1 DEF Result, Goroutine
  <2>3. activeIncidentMap'[m] = (Result(m, s) = "down")
    BY <1>4 DEF SetMap, TypeOK
  <2>4. Result(m, s) = "down" <=> ~activeIncidentMap[m]
    BY <1>0, <2>1 DEF MonitorInv, ResultFits
  <2>5. ResultFits(m)'
    BY <1>0, <2>1, <2>2, <2>3 DEF ResultFits, Goroutine
  <2>6. BeatFits(m)'
    BY <1>0, <1>4, <2>1, <2>2, OnlySlot
       DEF SetMap, MonitorInv, BeatFits, Probed, Listed, Goroutine, table
  <2>7. (Booked(m)' <=> Booked(m)) /\ (Voiced(m)' <=> Voiced(m))
    <3>1. activeIncidentMap'[m] <=> ~activeIncidentMap[m]
      BY <2>3, <2>4
    <3>2. /\ Between(m, {"store"})' /\ Between(m, {"store", "notify"})'
          /\ ~Between(m, {"store"}) /\ ~Between(m, {"store", "notify"})
      BY <1>0, <2>1, OnlySlot DEF Goroutine
    <3> QED BY <3>1, <3>2 DEF Booked, Voiced
  <2> QED BY <1>0, <1>4, <2>5, <2>6, <2>7
          DEF SetMap, MonitorInv, LedgerFits, AnnouncedFits, news, ghost
<1>5. CASE RecordIncident(m, s) \/ ResolveIncident(m, s)
  <2>1. g.pc = "store" /\ probe'[m][s] = [g EXCEPT !.pc = "notify"]
    BY <1>0, <1>5 DEF RecordIncident, ResolveIncident, At, GoTo
  <2>2. Result(m, s)' = Result(m, s)
    BY <1>0, <2>1 DEF Result, Goroutine
  <2>3. UNCHANGED <<monitors, beat, activeIncidentMap, lastProbe, announced, inherited, restarts>>
    BY <1>5 DEF RecordIncident, ResolveIncident, table, news, ghost
  <2>4. Result(m, s) = "down" <=> activeIncidentMap[m]
    BY <1>0, <2>1 DEF MonitorInv, ResultFits
  <2>5. ResultFits(m)' /\ AnnouncedFits(m)'
    BY <1>0, <2>1, <2>2, <2>3, <2>4, OnlySlot
       DEF MonitorInv, ResultFits, AnnouncedFits, Voiced, Goroutine
  <2>6. BeatFits(m)'
    BY <1>0, <2>1, <2>2, <2>3, OnlySlot DEF MonitorInv, BeatFits, Probed, Listed, Goroutine
  <2>7. /\ Booked(m) <=> ~activeIncidentMap[m]
        /\ Booked(m)' <=> activeIncidentMap[m]
    BY <1>0, <2>1, <2>3, OnlySlot DEF Booked, Goroutine
  <2>8. open[m] \in Nat /\ inherited[m] \in Nat
    BY DEF TypeOK
  <2>9. LedgerFits(m)'
    <3>1. CASE RecordIncident(m, s)
      <4>1. open'[m] = open[m] + 1 /\ activeIncidentMap[m]
        BY <3>1, <2>4 DEF RecordIncident, Sequential, TypeOK
      <4> QED BY <1>0, <2>3, <2>7, <2>8, <4>1 DEF MonitorInv, LedgerFits
    <3>2. CASE ResolveIncident(m, s)
      <4>1. ~activeIncidentMap[m] /\ open[m] = inherited[m] + 1
        BY <1>0, <3>2, <2>4, <2>7 DEF ResolveIncident, MonitorInv, LedgerFits
      <4>2. open'[m] = open[m] - 1
        BY <3>2, <2>8, <4>1 DEF ResolveIncident, Sequential, TypeOK
      <4> QED BY <2>3, <2>7, <2>8, <4>1, <4>2 DEF LedgerFits
    <3> QED BY <1>5, <3>1, <3>2
  <2> QED BY <1>0, <2>3, <2>5, <2>6, <2>9 DEF MonitorInv
<1>6. CASE Notify(m, s)
  <2>1. g.pc = "notify" /\ probe'[m][s] = Idle
    BY <1>0, <1>6 DEF Notify, At, Finish
  <2>2. Result(m, s) = "down" <=> activeIncidentMap[m]
    BY <1>0, <2>1 DEF MonitorInv, ResultFits
  <2>3. announced'[m] = "alert" <=> activeIncidentMap[m]
    BY <1>6, <2>2 DEF Notify, TypeOK
  <2>4. Result(m, s) \in {"up", "down"}
    BY <2>1 DEF TypeOK, At
  <2>5. BeatFits(m)'
    BY <1>0, <1>6, <2>1, <2>2, <2>4, OnlySlot
       DEF Notify, MonitorInv, BeatFits, Probed, Listed, Idle, table
  <2>6. LedgerFits(m)'
    BY <1>0, <1>6, <2>1, OnlySlot DEF Notify, MonitorInv, LedgerFits, Booked, Idle, news, ghost
  <2>7. AnnouncedFits(m)' /\ ResultFits(m)'
    BY <1>0, <1>6, <2>1, <2>3, OnlySlot DEF Notify, AnnouncedFits, ResultFits, Voiced, Idle
  <2> QED BY <1>0, <1>6, <2>5, <2>6, <2>7 DEF Notify, MonitorInv, news, ghost
<1> QED BY <1>1, <1>2, <1>3, <1>4, <1>5, <1>6 DEF GoroutineStep

\* A tick starts goroutines, at most one of a monitor, and changes nothing else.
LEMMA TickLedger == Sequential /\ TypeOK /\ LedgerInv /\ Tick => LedgerInv'
<1> SUFFICES ASSUME Sequential, TypeOK, LedgerInv, Tick, NEW m \in MonitorIds
             PROVE  MonitorInv(m)'
  BY DEF LedgerInv
<1>0. MonitorInv(m)
  BY DEF LedgerInv
<1>1. UNCHANGED <<monitors, open, beat, activeIncidentMap, announced, inherited, restarts>>
  BY DEF Tick, table, news, ghost
<1>2. CASE Due(m)
  <2>1. PICK s \in Slots : probe[m][s].pc = "idle"
    BY <1>2 DEF Tick, FreeSlots
  <2>2. FreeSlots(m) = {s} /\ \A t \in Slots : t = s
    BY <2>1 DEF FreeSlots, Sequential
  <2>3. probe'[m] = [probe[m] EXCEPT ![s] = [pc |-> "probing", url |-> monitors[m].url,
                                             result |-> "none"]]
    BY <1>2, <2>2 DEF Tick
  <2>4. probe'[m][s].pc = "probing"
    BY <2>3 DEF TypeOK
  <2>5. ResultFits(m)' /\ BeatFits(m)'
    BY <2>2, <2>4 DEF ResultFits, BeatFits, Quiet
  <2>6. LedgerFits(m)' /\ AnnouncedFits(m)'
    BY <1>0, <1>1, <2>1, <2>4, OnlySlot DEF MonitorInv, LedgerFits, AnnouncedFits, Booked, Voiced
  <2> QED BY <1>0, <1>1, <2>5, <2>6 DEF MonitorInv
<1>3. CASE ~Due(m)
  <2>1. probe'[m] = probe[m] /\ lastProbe'[m] = Aged(m)
    BY <1>3 DEF Tick
  <2>2. Probed(m)' => Probed(m)
    BY <1>1, <2>1, ScheduleAssumption DEF Probed, Listed, Aged, Never, TypeOK
  <2> QED BY <1>0, <1>1, <2>1, <2>2, FrameKeeps
<1> QED BY <1>2, <1>3

\* An API call leaves every monitor's ledger alone; a new one starts empty.
LEMMA ApiLedger == TypeOK /\ LedgerInv /\ Api => LedgerInv'
<1> SUFFICES ASSUME TypeOK, LedgerInv, Api, NEW n \in MonitorIds
             PROVE  MonitorInv(n)'
  BY DEF LedgerInv
<1>0. MonitorInv(n)
  BY DEF LedgerInv
<1>1. ASSUME NEW m \in MonitorIds, NEW u \in Urls, NEW i \in IntervalInputs,
             AddMonitor(m, u, i)
      PROVE  MonitorInv(n)'
  <2>1. UNCHANGED <<open, activeIncidentMap, probe, inherited, restarts>>
    BY <1>1 DEF AddMonitor, news, ghost
  <2>2. CASE n = m
    <3>1. ~activeIncidentMap[n] /\ \A s \in Slots : probe[n][s].pc = "idle"
      BY <1>1, <2>2 DEF AddMonitor, Fresh, Quiet
    <3>2. ~Probed(n)' /\ announced'[n] = "none"
      BY <1>1, <2>2 DEF AddMonitor, Probed, TypeOK
    <3>3. ~Voiced(n)'
      BY <2>1, <3>1 DEF Voiced, Between
    <3>4. ResultFits(n)' /\ LedgerFits(n)'
      BY <1>0, <2>1, <3>1 DEF MonitorInv, ResultFits, LedgerFits, Booked, Between
    <3> QED BY <1>0, <2>1, <3>2, <3>3, <3>4 DEF MonitorInv, AnnouncedFits, BeatFits
  <2>3. CASE n # m
    <3>1. announced'[n] = announced[n] /\ beat'[n] = beat[n] /\ (Probed(n)' <=> Probed(n))
      BY <1>1, <2>3 DEF AddMonitor, Probed, Listed, TypeOK
    <3> QED BY <1>0, <2>1, <3>1, FrameKeeps
  <2> QED BY <2>2, <2>3
<1>2. ASSUME NEW m \in MonitorIds, NEW u \in Urls, NEW i \in IntervalInputs,
             UpdateMonitor(m, u, i)
      PROVE  MonitorInv(n)'
  <2>1. Probed(n)' => Probed(n)
    BY <1>2 DEF UpdateMonitor, Probed, Listed, TypeOK, memory
  <2> QED BY <1>0, <1>2, <2>1, FrameKeeps DEF UpdateMonitor, memory, news, ghost
<1>3. ASSUME NEW m \in MonitorIds, NEW on \in BOOLEAN, ToggleMonitor(m, on)
      PROVE  MonitorInv(n)'
  <2>1. Probed(n)' => Probed(n)
    BY <1>3 DEF ToggleMonitor, Probed, Listed, TypeOK, memory
  <2> QED BY <1>0, <1>3, <2>1, FrameKeeps DEF ToggleMonitor, memory, news, ghost
<1>4. ASSUME NEW m \in MonitorIds, DeleteMonitor(m)
      PROVE  MonitorInv(n)'
  <2>1. Probed(n)' => Probed(n)
    BY <1>4 DEF DeleteMonitor, Probed, Listed, TypeOK, memory
  <2>2. beat'[n] \in {beat[n], "none"}
    BY <1>4 DEF DeleteMonitor, TypeOK
  <2> QED BY <1>0, <1>4, <2>1, <2>2, FrameKeeps DEF DeleteMonitor, memory, news, ghost
<1> QED BY <1>1, <1>2, <1>3, <1>4, ScheduleAssumption DEF Api

\* A restart moves the open incidents to the inherited ones.
LEMMA EnvironmentLedger == TypeOK /\ LedgerInv /\ Environment => LedgerInv'
<1> SUFFICES ASSUME TypeOK, LedgerInv, Environment, NEW n \in MonitorIds
             PROVE  MonitorInv(n)'
  BY DEF LedgerInv
<1>0. MonitorInv(n)
  BY DEF LedgerInv
<1>1. ASSUME NEW m \in MonitorIds, PruneOldData(m) PROVE MonitorInv(n)'
  <2>1. beat'[n] \in {beat[n], "none"}
    BY <1>1 DEF PruneOldData, TypeOK
  <2>2. Probed(n)' => Probed(n)
    BY <1>1 DEF PruneOldData, Probed, Listed, memory
  <2> QED BY <1>0, <1>1, <2>1, <2>2, FrameKeeps DEF PruneOldData, memory, news, ghost
<1>2. ASSUME NEW u \in Urls, NEW h \in Status, TargetChanges(u, h) PROVE MonitorInv(n)'
  <2>1. Probed(n)' => Probed(n)
    BY <1>2 DEF TargetChanges, Probed, Listed, memory, table
  <2> QED BY <1>0, <1>2, <2>1, FrameKeeps DEF TargetChanges, table, memory, news, ghost
<1>4. ASSUME NEW x \in sending, SendEnds(x) PROVE MonitorInv(n)'
  <2>1. Probed(n)' => Probed(n)
    BY <1>4 DEF SendEnds, Probed, Listed, memory, table
  <2> QED BY <1>0, <1>4, <2>1, FrameKeeps DEF SendEnds, table, memory, news, ghost
<1>3. CASE Restart
  <2>1. ~activeIncidentMap'[n] /\ \A s \in Slots : probe'[n][s].pc = "idle"
    BY <1>3 DEF Restart, Idle
  <2>2. ~Probed(n)'
    BY <1>3 DEF Restart, Probed
  <2>3. /\ open'[n] = open[n] /\ inherited'[n] = open[n]
        /\ announced'[n] = "none" /\ restarts' = restarts + 1
    BY <1>3 DEF Restart
  <2>4. open[n] \in Nat /\ inherited[n] \in Nat /\ restarts \in Nat
    BY DEF TypeOK
  <2>5. ~Booked(n)' /\ ~Voiced(n)' /\ ResultFits(n)'
    BY <2>1 DEF Booked, Voiced, Between, ResultFits
  <2>6. LedgerFits(n)' /\ AnnouncedFits(n)' /\ BeatFits(n)'
    BY <2>2, <2>3, <2>4, <2>5 DEF LedgerFits, AnnouncedFits, BeatFits
  <2>7. inherited'[n] <= restarts'
    BY <1>0, <2>3, <2>4 DEF MonitorInv, LedgerFits
  <2> QED BY <2>5, <2>6, <2>7 DEF MonitorInv
<1> QED BY <1>1, <1>2, <1>3, <1>4 DEF Environment

\* Every step keeps the ledger invariant.
LEMMA NextLedger == Sequential /\ TypeOK /\ LedgerInv /\ [Next]_vars => LedgerInv'
<1> SUFFICES ASSUME Sequential, TypeOK, LedgerInv, [Next]_vars PROVE LedgerInv'
  OBVIOUS
<1>1. CASE Tick
  BY <1>1, TickLedger
<1>2. CASE TickFails
  BY <1>2 DEF TickFails, Sequential
<1>3. ASSUME NEW m \in MonitorIds, NEW s \in Slots, GoroutineStep(m, s) PROVE LedgerInv'
  BY <1>3, OwnMonitor, OtherMonitors DEF LedgerInv
<1>4. ASSUME NEW m \in MonitorIds, NEW n \in MonitorIds, NEW s \in Slots, NEW t \in Slots,
             CollidingWrites(m, s, n, t)
      PROVE  LedgerInv'
  <2>1. races \in Nat /\ races < MaxRaces
    BY <1>4 DEF CollidingWrites, TypeOK
  <2> QED BY <2>1 DEF Sequential
<1>5. CASE Api
  BY <1>5, ApiLedger
<1>6. CASE Environment
  BY <1>6, EnvironmentLedger
<1>7. CASE UNCHANGED vars
  <2> SUFFICES ASSUME NEW m \in MonitorIds PROVE MonitorInv(m)'
    BY DEF LedgerInv
  <2>1. Probed(m)' => Probed(m)
    BY <1>7 DEF vars, Probed, Listed
  <2> QED BY <1>7, <2>1, FrameKeeps DEF vars, LedgerInv
<1> QED BY <1>1, <1>2, <1>3, <1>4, <1>5, <1>6, <1>7 DEF Next

\* The ledger invariant is an invariant.
LEMMA LedgerInvariant == ASSUME Sequential PROVE Spec => [](TypeOK /\ LedgerInv)
<1>1. Init => TypeOK /\ LedgerInv
  BY InitTypeOK, InitLedger
<1>2. TypeOK /\ LedgerInv /\ [Next]_vars => TypeOK' /\ LedgerInv'
  BY NextTypeOK, NextLedger
<1> QED BY <1>1, <1>2, PTL DEF Spec

\* Between probes of a monitor the incidents table holds exactly the incident
\* of the map besides what earlier processes left: for any number of monitors
\* and restarts, with API calls and ticks in between.
THEOREM LedgerCorrect == ASSUME Sequential PROVE Spec => []LedgerBalanced
<1>1. TypeOK /\ LedgerInv => LedgerBalanced
  <2> SUFFICES ASSUME TypeOK, LedgerInv, NEW m \in MonitorIds, Quiet(m)
               PROVE  open[m] = inherited[m] + Tracked(m)
    BY DEF LedgerBalanced
  <2>1. ~Between(m, {"store"})
    BY DEF Quiet, Between
  <2> QED BY <2>1 DEF LedgerInv, MonitorInv, LedgerFits, Booked, Tracked
<1> QED BY <1>1, LedgerInvariant, PTL

\* A process broadcasts one alert for an outage and its end once, as long as the probes of
\* a monitor do not overlap.
THEOREM BroadcastsCorrect == ASSUME Sequential PROVE Spec => []BroadcastsAlternate
<1>1. TypeOK /\ LedgerInv => BroadcastsAlternate
  <2> SUFFICES ASSUME TypeOK, LedgerInv, NEW m \in MonitorIds, NEW s \in Slots,
                      At(m, s, "notify")
               PROVE  Result(m, s) = "down" <=> announced[m] # "alert"
    BY DEF BroadcastsAlternate
  <2>1. Between(m, {"store", "notify"})
    BY DEF Between, At
  <2> QED BY <2>1 DEF LedgerInv, MonitorInv, ResultFits, AnnouncedFits, Voiced, At
<1> QED BY <1>1, LedgerInvariant, PTL

\* A process leaves at most one unresolved incident of a monitor behind.
THEOREM LeftoversBounded == ASSUME Sequential PROVE Spec => []OneLeftoverPerProcess
<1>1. TypeOK /\ LedgerInv => OneLeftoverPerProcess
  <2> SUFFICES ASSUME TypeOK, LedgerInv, NEW m \in MonitorIds
               PROVE  open[m] <= restarts + 1
    BY DEF OneLeftoverPerProcess
  <2>1. open[m] \in Nat /\ inherited[m] \in Nat /\ restarts \in Nat
    BY DEF TypeOK
  <2> QED BY <2>1 DEF LedgerInv, MonitorInv, LedgerFits
<1> QED BY <1>1, LedgerInvariant, PTL

\* What the newest heartbeat says of a monitor and what the incidents say agree.
THEOREM PageCorrect == ASSUME Sequential PROVE Spec => []PageAgreesWithLog
<1>1. TypeOK /\ LedgerInv => PageAgreesWithLog
  <2> SUFFICES ASSUME TypeOK, LedgerInv, NEW m \in MonitorIds,
                      Listed(m), Quiet(m), lastProbe[m] # Never
               PROVE  /\ beat[m] = "down" => open[m] > inherited[m]
                      /\ beat[m] = "up" => open[m] = inherited[m]
    BY DEF PageAgreesWithLog
  <2>1. ~Between(m, {"store"})
    BY DEF Quiet, Between
  <2>2. open[m] \in Nat /\ inherited[m] \in Nat
    BY DEF TypeOK
  <2>3. open[m] = inherited[m] + IF activeIncidentMap[m] THEN 1 ELSE 0
    BY <2>1 DEF LedgerInv, MonitorInv, LedgerFits, Booked
  <2>4. /\ beat[m] = "down" => activeIncidentMap[m]
        /\ beat[m] = "up" => ~activeIncidentMap[m]
    BY DEF LedgerInv, MonitorInv, BeatFits, Probed
  <2> QED BY <2>2, <2>3, <2>4
<1> QED BY <1>1, LedgerInvariant, PTL

----------------------------------------------------------------------------
(* The scheduler implements the safety part of IncidentLifecycle. *)

Phases == [m \in MonitorIds |-> ReportedPhase(m)]
Mails == [m \in MonitorIds |-> UnderWay(m)]

\* A step of one goroutine that changes the phase of its monitor changes no other.
LEMMA OnePhaseChanges ==
  ASSUME TypeOK, NEW m \in MonitorIds, NEW from, NEW to,
         ReportedPhase(m) = from, ReportedPhase(m)' = to,
         \A n \in MonitorIds \ {m} : open'[n] = open[n] /\ announced'[n] = announced[n],
         UNCHANGED inherited
  PROVE  Lifecycle!Advance(m, from, to)
<1>1. \A n \in MonitorIds \ {m} : ReportedPhase(n)' = ReportedPhase(n)
  BY DEF ReportedPhase
<1> QED BY <1>1 DEF Lifecycle!Advance

\* Messages that stay the same are under way as before.
LEMMA SameMail ==
  ASSUME UNCHANGED sending
  PROVE  UNCHANGED Mails
BY DEF Mails, UnderWay

\* A step that changes neither incidents nor broadcasts is invisible.
LEMMA InvisibleStep ==
  ASSUME UNCHANGED <<open, announced, sending, inherited>>
  PROVE  UNCHANGED <<Phases, Mails, inherited>>
BY SameMail DEF Phases, ReportedPhase

\* The sends of a broadcast put its text under way, for its monitor alone.
LEMMA SendsStart ==
  ASSUME NEW m \in MonitorIds, NEW text, NEW to,
         sending' = sending \cup {[of |-> m, to |-> c, text |-> text] : c \in to}
  PROVE  Mails' = [Mails EXCEPT ![m] = @ \cup {text}] \/ UNCHANGED Mails
<1> DEFINE new == {[of |-> m, to |-> c, text |-> text] : c \in to}
<1>1. \A x \in new : x.of = m /\ x.text = text
  OBVIOUS
<1>2. sending' = sending \cup new
  OBVIOUS
<1>3. ASSUME to # {} PROVE \E x \in new : x.of = m /\ x.text = text
  <2>1. PICK c \in to : TRUE
    BY <1>3
  <2>2. [of |-> m, to |-> c, text |-> text] \in new
    OBVIOUS
  <2> QED BY <1>1, <2>2
<1>4. to = {} => new = {}
  OBVIOUS
<1> HIDE DEF new
<1>5. \A n \in MonitorIds \ {m} : UnderWay(n)' = UnderWay(n)
  BY <1>1, <1>2 DEF UnderWay
<1>6. CASE to = {}
  BY <1>2, <1>4, <1>6, SameMail
<1>7. CASE to # {}
  <2>1. UnderWay(m)' = UnderWay(m) \cup {text}
    BY <1>1, <1>2, <1>3, <1>7 DEF UnderWay
  <2> QED BY <1>5, <2>1 DEF Mails
<1> QED BY <1>6, <1>7

\* A send that ends takes its text away from its monitor, unless another chat waits for it.
LEMMA SendEndsRefines ==
  ASSUME TypeOK, NEW x \in sending, SendEnds(x)
  PROVE  Lifecycle!LifecycleNext \/ UNCHANGED <<Phases, Mails, inherited>>
<1>1. x \in Message /\ x.of \in MonitorIds
  BY DEF TypeOK, Message
<1>2. /\ UNCHANGED <<open, announced, inherited>>
      /\ sending' = sending \ {x}
  BY DEF SendEnds, ghost
<1>3. UNCHANGED Phases
  BY <1>2 DEF Phases, ReportedPhase
<1>4. \A n \in MonitorIds \ {x.of} : UnderWay(n)' = UnderWay(n)
  BY <1>2 DEF UnderWay
<1>5. CASE \E y \in sending \ {x} : y.of = x.of /\ y.text = x.text
  <2>1. UnderWay(x.of)' = UnderWay(x.of)
    BY <1>2, <1>5 DEF UnderWay
  <2>2. \A n \in MonitorIds : UnderWay(n)' = UnderWay(n)
    BY <1>4, <2>1
  <2> QED BY <1>2, <1>3, <2>2 DEF Mails
<1>6. CASE ~\E y \in sending \ {x} : y.of = x.of /\ y.text = x.text
  <2>1. UnderWay(x.of)' = UnderWay(x.of) \ {x.text} /\ x.text \in UnderWay(x.of)
    BY <1>2, <1>6 DEF UnderWay
  <2>2. /\ x.text \in Mails[x.of]
        /\ Mails' = [Mails EXCEPT ![x.of] = @ \ {x.text}]
    BY <1>1, <1>4, <2>1 DEF Mails
  <2>3. Lifecycle!MessageEnds(x.of, x.text)
    BY <1>2, <1>3, <2>2 DEF Lifecycle!MessageEnds, Mails, Phases
  <2> QED BY <1>1, <2>2, <2>3 DEF Lifecycle!LifecycleNext, Mails
<1> QED BY <1>5, <1>6

\* Every step of a goroutine is a step of the lifecycle or invisible.
LEMMA GoroutineRefines ==
  ASSUME Sequential, TypeOK, LedgerInv, NEW m \in MonitorIds, NEW s \in Slots,
         GoroutineStep(m, s)
  PROVE  \/ Lifecycle!LifecycleNext
         \/ UNCHANGED <<Phases, Mails, inherited>>
<1>0. /\ MonitorInv(m)
      /\ open[m] \in Nat /\ inherited[m] \in Nat
  BY DEF LedgerInv, TypeOK
<1>1. CASE \/ ProbeTarget(m, s) \/ RecordHeartbeat(m, s)
           \/ CheckMap(m, s) \/ SetMap(m, s)
  BY <1>1, InvisibleStep DEF ProbeTarget, RecordHeartbeat, CheckMap, SetMap, news, ghost
<1>2. CASE RecordIncident(m, s)
  <2>1. activeIncidentMap[m] /\ probe[m][s].pc = "store"
    BY <1>0, <1>2 DEF RecordIncident, At, MonitorInv, ResultFits
  <2>2. ReportedPhase(m) = "calm"
    BY <1>0, <2>1, OnlySlot
       DEF MonitorInv, LedgerFits, AnnouncedFits, Booked, Voiced, ReportedPhase
  <2>3. open[m] = inherited[m] /\ announced[m] # "alert"
    BY <1>0, <2>1, OnlySlot DEF MonitorInv, LedgerFits, AnnouncedFits, Booked, Voiced
  <2>4. open' = [open EXCEPT ![m] = @ + 1] /\ UNCHANGED <<announced, sending, inherited>>
    BY <1>2 DEF RecordIncident, Sequential, news, ghost
  <2>5. ReportedPhase(m)' = "logged"
    BY <1>0, <2>3, <2>4 DEF ReportedPhase, TypeOK
  <2>6. Lifecycle!LogIncident(m)
    BY <2>2, <2>4, <2>5, OnePhaseChanges, SameMail
       DEF Lifecycle!LogIncident, Lifecycle!Record, Mails, TypeOK
  <2> QED BY <2>6 DEF Lifecycle!LifecycleNext
<1>3. CASE ResolveIncident(m, s)
  <2>1. ~activeIncidentMap[m] /\ probe[m][s].pc = "store"
    BY <1>0, <1>3 DEF ResolveIncident, At, MonitorInv, ResultFits
  <2>2. open[m] = inherited[m] + 1 /\ announced[m] = "alert"
    BY <1>0, <2>1, OnlySlot DEF MonitorInv, LedgerFits, AnnouncedFits, Booked, Voiced
  <2>3. open' = [open EXCEPT ![m] = @ - 1] /\ UNCHANGED <<announced, sending, inherited>>
    BY <1>0, <1>3, <2>2 DEF ResolveIncident, Sequential, news, ghost, TypeOK
  <2>4. ReportedPhase(m) = "alerted" /\ ReportedPhase(m)' = "closed"
    BY <1>0, <2>2, <2>3 DEF ReportedPhase, TypeOK
  <2>5. Lifecycle!CloseIncident(m)
    BY <2>3, <2>4, OnePhaseChanges, SameMail
       DEF Lifecycle!CloseIncident, Lifecycle!Record, Mails, TypeOK
  <2> QED BY <2>5 DEF Lifecycle!LifecycleNext
<1>4. CASE Notify(m, s)
  <2>1. probe[m][s].pc = "notify" /\ Result(m, s) \in {"up", "down"}
    BY <1>4 DEF Notify, At, TypeOK
  <2>2. Result(m, s) = "down" <=> activeIncidentMap[m]
    BY <1>0, <2>1 DEF MonitorInv, ResultFits
  <2>3. UNCHANGED <<open, inherited>>
    BY <1>4 DEF Notify, news, ghost
  <2>4. CASE Result(m, s) = "down"
    <3>1. open[m] = inherited[m] + 1 /\ announced[m] # "alert"
      BY <1>0, <2>1, <2>2, <2>4, OnlySlot
         DEF MonitorInv, LedgerFits, AnnouncedFits, Booked, Voiced
    <3>2. announced' = [announced EXCEPT ![m] = "alert"]
      BY <1>4, <2>4 DEF Notify
    <3>3. ReportedPhase(m) = "logged" /\ ReportedPhase(m)' = "alerted"
      BY <1>0, <2>3, <3>1, <3>2 DEF ReportedPhase, TypeOK
    <3>4. Mails' = [Mails EXCEPT ![m] = @ \cup {"alert"}] \/ UNCHANGED Mails
      <4>1. PICK to \in Recipients :
              sending' = sending \cup {[of |-> m, to |-> c, text |-> "alert"] : c \in to}
        BY <1>4, <2>4 DEF Notify
      <4> QED BY <4>1, SendsStart
    <3>5. Lifecycle!BroadcastAlert(m)
      BY <2>3, <3>2, <3>3, <3>4, OnePhaseChanges
         DEF Lifecycle!BroadcastAlert, Lifecycle!Broadcast, Mails, TypeOK
    <3> QED BY <3>5 DEF Lifecycle!LifecycleNext
  <2>5. CASE Result(m, s) # "down"
    <3>1. open[m] = inherited[m] /\ announced[m] = "alert"
      BY <1>0, <2>1, <2>2, <2>5, OnlySlot
         DEF MonitorInv, LedgerFits, AnnouncedFits, Booked, Voiced
    <3>2. announced' = [announced EXCEPT ![m] = "recovery"]
      BY <1>4, <2>5 DEF Notify
    <3>3. ReportedPhase(m) = "closed" /\ ReportedPhase(m)' = "calm"
      BY <1>0, <2>3, <3>1, <3>2 DEF ReportedPhase, TypeOK
    <3>4. Mails' = [Mails EXCEPT ![m] = @ \cup {"recovery"}] \/ UNCHANGED Mails
      <4>1. PICK to \in Recipients :
              sending' = sending \cup {[of |-> m, to |-> c, text |-> "recovery"] : c \in to}
        BY <1>4, <2>5 DEF Notify
      <4> QED BY <4>1, SendsStart
    <3>5. Lifecycle!BroadcastRecovery(m)
      BY <2>3, <3>2, <3>3, <3>4, OnePhaseChanges
         DEF Lifecycle!BroadcastRecovery, Lifecycle!Broadcast, Mails, TypeOK
    <3> QED BY <3>5 DEF Lifecycle!LifecycleNext
  <2> QED BY <2>4, <2>5
<1> QED BY <1>1, <1>2, <1>3, <1>4 DEF GoroutineStep

\* A new monitor starts calm, as the id it takes was.
LEMMA AddRefines ==
  ASSUME TypeOK, LedgerInv, NEW m \in MonitorIds, NEW u \in Urls,
         NEW i \in IntervalInputs, AddMonitor(m, u, i)
  PROVE  UNCHANGED <<Phases, Mails, inherited>>
<1>1. /\ ~activeIncidentMap[m] /\ open[m] = 0
      /\ \A s \in Slots : probe[m][s].pc = "idle"
  BY DEF AddMonitor, Fresh, Quiet
<1>2. announced[m] # "alert"
  BY <1>1 DEF LedgerInv, MonitorInv, AnnouncedFits, Voiced, Between
<1>3. announced'[m] = "none" /\ UNCHANGED <<open, sending, inherited>>
  BY DEF AddMonitor, TypeOK, news, ghost
<1>4. ReportedPhase(m)' = ReportedPhase(m)
  BY <1>2, <1>3 DEF ReportedPhase
<1>5. \A n \in MonitorIds \ {m} : ReportedPhase(n)' = ReportedPhase(n)
  BY <1>3 DEF AddMonitor, ReportedPhase, TypeOK
<1> QED BY <1>3, <1>4, <1>5, SameMail DEF Phases

\* A restart abandons the incidents that are open.
LEMMA RestartRefines ==
  ASSUME TypeOK, LedgerInv, Restart
  PROVE  Lifecycle!Abandon
<1>1. /\ inherited' = open /\ open' = open
      /\ announced' = [m \in MonitorIds |-> "none"] /\ sending' = {}
  BY DEF Restart
<1>2. ASSUME NEW m \in MonitorIds
      PROVE  /\ ReportedPhase(m)' = "calm"
             /\ inherited'[m] = IF ReportedPhase(m) \in {"logged", "alerted"}
                                THEN inherited[m] + 1 ELSE inherited[m]
  <2>1. open[m] \in Nat /\ inherited[m] \in Nat
    BY DEF TypeOK
  <2>2. open[m] \in {inherited[m], inherited[m] + 1}
    BY <2>1 DEF LedgerInv, MonitorInv, LedgerFits
  <2>3. ReportedPhase(m)' = "calm"
    BY <1>1, <2>1 DEF ReportedPhase
  <2>4. ReportedPhase(m) \in {"logged", "alerted"} <=> open[m] > inherited[m]
    BY <2>1 DEF ReportedPhase
  <2> QED BY <1>1, <2>1, <2>2, <2>3, <2>4
<1>3. inherited' = [m \in MonitorIds |-> inherited'[m]]
  BY <1>1 DEF TypeOK
<1>4. [m \in MonitorIds |-> UnderWay(m)]' = [m \in MonitorIds |-> {}]
  BY <1>1 DEF UnderWay
<1> QED BY <1>2, <1>3, <1>4 DEF Lifecycle!Abandon

\* Every step of the scheduler is a step of the lifecycle or invisible.
LEMMA StepRefines ==
  ASSUME Sequential, TypeOK, LedgerInv, [Next]_vars
  PROVE  \/ Lifecycle!LifecycleNext
         \/ UNCHANGED <<Phases, Mails, inherited>>
<1>1. CASE Tick \/ TickFails
  BY <1>1, InvisibleStep DEF Tick, TickFails, news, ghost
<1>2. ASSUME NEW m \in MonitorIds, NEW s \in Slots, GoroutineStep(m, s)
      PROVE  \/ Lifecycle!LifecycleNext
             \/ UNCHANGED <<Phases, Mails, inherited>>
  BY <1>2, GoroutineRefines
<1>3. CASE \E m, n \in MonitorIds, s, t \in Slots : CollidingWrites(m, s, n, t)
  <2>1. races \in Nat /\ races < MaxRaces
    BY <1>3 DEF CollidingWrites, TypeOK
  <2> QED BY <2>1 DEF Sequential
<1>4. CASE Api
  <2>1. ASSUME NEW m \in MonitorIds, NEW u \in Urls, NEW i \in IntervalInputs,
               AddMonitor(m, u, i)
        PROVE  UNCHANGED <<Phases, Mails, inherited>>
    BY <2>1, AddRefines
  <2>2. CASE ~\E m \in MonitorIds, u \in Urls, i \in IntervalInputs : AddMonitor(m, u, i)
    <3>1. UNCHANGED <<open, announced, sending, inherited>>
      BY <1>4, <2>2 DEF Api, UpdateMonitor, ToggleMonitor, DeleteMonitor, news, ghost
    <3> QED BY <3>1, InvisibleStep
  <2> QED BY <2>1, <2>2
<1>5. CASE Environment
  <2>1. CASE Restart
    BY <2>1, RestartRefines DEF Lifecycle!LifecycleNext
  <2>2. CASE \E x \in sending : SendEnds(x)
    BY <2>2, SendEndsRefines
  <2>3. CASE \E m \in MonitorIds : PruneOldData(m)
    BY <2>3, InvisibleStep DEF PruneOldData, news, ghost
  <2>4. CASE \E u \in Urls, h \in Status : TargetChanges(u, h)
    BY <2>4, InvisibleStep DEF TargetChanges, news, ghost
  <2> QED BY <1>5, <2>1, <2>2, <2>3, <2>4 DEF Environment
<1>6. CASE UNCHANGED vars
  BY <1>6, InvisibleStep DEF vars
<1> QED BY <1>1, <1>2, <1>3, <1>4, <1>5, <1>6 DEF Next

\* The incidents table and the broadcasts go through the lifecycle of an outage in order,
\* and their messages end in any, for any number of monitors, chats and restarts.
THEOREM LifecycleImplemented == ASSUME Sequential PROVE Spec => Lifecycle!LifecycleSafety
<1>1. Init => Lifecycle!LifecycleInit
  BY DEF Init, ReportedPhase, UnderWay, Lifecycle!LifecycleInit
<1>2. TypeOK /\ LedgerInv /\ [Next]_vars =>
        [Lifecycle!LifecycleNext]_Lifecycle!report
  BY StepRefines DEF Lifecycle!report, Phases, Mails
<1> QED BY <1>1, <1>2, LedgerInvariant, PTL DEF Spec, Lifecycle!LifecycleSafety
=============================================================================
