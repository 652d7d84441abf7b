# A verification of MindZed Hub

MindZed Hub is a self-hosted operations dashboard: a Next.js web application
(`src/web`), a Go agent on the server that provisions PostgreSQL databases,
backs them up and keeps the user whitelist (`src/agent`), and a second Go
service, Sentinel, that probes services and tells people about outages
(`src/sentinel`). This directory holds TLA+ models of the parts that carry state
over time, the TLC configurations that check them on small instances, and proofs
checked by TLAPS for every size of instance.

## The system

| Component | State | Operations | Talks to |
|---|---|---|---|
| Sentinel scheduler (`sentinel/main.go`) | `activeIncidentMap`, `lastProbeMap`, probe goroutines - all in memory | tick every 5 s, one goroutine per due monitor | store, prober, bot |
| Prober (`sentinel/engine/prober.go`) | none | probe a target: up, down, degraded | the network |
| Store (`sentinel/storage/sqlite.go`) | tables monitors, heartbeats, incidents, subscribers | record, resolve, list, aggregate, prune | SQLite |
| Monitor API (`sentinel/handler/api.go`) | none | add, edit, pause, delete, list monitors; status page data | store |
| Telegram bot (`sentinel/telegram/bot.go`) | update offset in memory, subscribers in the store | broadcasts, commands by long polling | Telegram, store, prober |
| Whitelist (`agent/handler/db.go` from line 763) | one JSON file | list, claim, add, remove, verify | sign-in |
| Sign-in (`web/app/api/auth/[...nextauth]/route.ts`) | a JWT per session | list the whitelist, claim the admin role | agent |
| Provisioning (`agent/handler/db.go` to line 761) | PostgreSQL roles, passwords, databases | create, clone, delete, reset a password, list | PostgreSQL |
| Backups (`agent/handler/backup.go`) | dump files, schedules in memory and in a JSON file, cron entries | dump, restore, prune, schedule | pg_dump, pg_restore, cron |
| Explorer (`agent/handler/explorer.go`) | a cache of connection pools | browse and edit tables, ad-hoc SQL | PostgreSQL |
| Bandwidth, vitals, mail scripts (`agent`) | none of their own | read counters, format reports | vnstat, /proc, SMTP |
| Table studio (`web/app/databases/[name]/page.tsx`) | query, grid, schema, ticks, cell being edited | browse, filter, tick, delete, insert, edit, run SQL | explorer, by `agent-client.ts` and the proxy |
| Databases page (`web/app/databases/page.tsx`, four modals) | list, open modal; passwords in localStorage | create, clone, reset, drop | provisioning |
| Backups tab (`web/components/db/DatabaseBackupsView.tsx`) | snapshots, schedule form, open modal | snapshot, restore, delete, schedule | backups |
| Cron explainer (`web/lib/cron-explainer.ts`) | none | say in words when a schedule runs | the backups tab |
| Status page (`web/app/status/page.tsx`) | monitors shown, forms | poll, add, edit, pause, delete, probe | monitor API, by `sentinel-client.ts` and the watchdog proxy |
| Proxies (`web/app/api/proxy`, `web/app/api/watchdog`) | none | pass requests on, with a time limit and a token | agent, Sentinel |
| Other pages (vitals, bandwidth, ports), navigation bar | React state | read, show | agent |

What is hard, and what each component has to get right:

- *Scheduler.* Every probe is a goroutine of several steps - probe, heartbeat,
  map, incident, message - and ticks, edits, other goroutines and the end of the
  process come between them. The map and the incidents table must not drift
  apart; an outage must be broadcast once and its end once; a lasting outage must
  be noticed. The map is lost on restart, it is shared by all monitors without a
  lock, probes of one monitor can overlap, and a broadcast is one send per
  subscriber that nobody waits for: it may be overtaken, or fail unseen.
- *Store.* Aggregates over heartbeats (daily and hourly buckets, uptime) have to
  agree with the rows; intervals have defaults in two places.
- *Whitelist.* Read, decide and write are separate; a write is not atomic; a file
  that does not parse counts as empty, and an empty whitelist can be claimed.
  There must be one first admin, an admin must remain, an addition must last.
- *Sign-in.* Two requests, of which the second one's answer is not looked at.
- *Provisioning.* Several SQL statements outside a transaction; roles shared by
  the databases of a project; names derived and truncated.
- *Backups.* Long dumps that overlap, files named by second, retention decided by
  parsing file names, schedules changed while their jobs run.
- *Bot.* Updates are handled at least once; roles depend on the order of commands.
- *Pages.* A handler that resumes after an `await` works with the state of its
  click; answers overtake each other; the clients turn failures into invented data
  or into successes. What the page shows, and what its next click names, must be
  what the agent has; a button that waits must be released.

## Modules

| Module | What it is |
|---|---|
| `SentinelScheduler` | the scheduler with the tables and the API it works with |
| `IncidentLifecycle` | what the scheduler promises of one outage: log, broadcast the alert, close, broadcast the recovery, in this order; and what it does not: that messages arrive, or in this order |
| `SentinelScheduler_proofs` | type correctness, the ledger between map and table, the refinement |
| `Whitelist` | the whitelist file, its five endpoints, the sign-in callback |
| `WhitelistService` | what the agent promises of the whitelist: each request takes effect at once |
| `Whitelist_proofs` | type correctness, the refinement, what holds under any interleaving, what holds one handler at a time |
| `Backups` | dumps, cron runs, pruning, restores, schedules and their file |
| `Backups_proofs` | type correctness, manual backups stay, schedules survive, the window bounds the disk, pruning leaves a newer backup |
| `Provisioning` | creating, cloning, resetting and deleting databases, one SQL statement a step, and the names they derive |
| `Provisioning_proofs` | type correctness, answers work, when a clone spares the source's owner |
| `TableStudio` | the table studio of one database and the explorer behind it |
| `StatusPage` | the status page, its client, the monitors of the sentinel |
| `BackupsView` | the backups tab, its client, the snapshots and the schedule of the agent |
| `DatabasesPage` | the list of databases with its modals, the vault of passwords, the agent's users |
| `CronExplainer` | what the explainer says of a schedule against the schedule cron makes of it |
| `Dashboard` | the five pages, a browser tab showing one of them: it extends `DatabasesPage` and instantiates the other four |
| `TableStudio_proofs`, `StatusPage_proofs`, `BackupsView_proofs` | type correctness and the safety properties of these pages |
| `Dashboard_proofs` | the same of the databases page, the explainer, and all of it carried over to `Dashboard` |
| `MCSentinel`, `MCWhitelist`, `MCBackups`, `MCProvisioning` | names for the values of small instances |
| `MCWeb` | names for the values of a small `Dashboard` |

`PROJECT.json` maps every definition to the lines it models.

### SentinelScheduler

| In the model | In the code |
|---|---|
| `monitors`, `beat`, `open` | tables monitors, heartbeats (newest row), incidents (number of rows with status active) |
| `activeIncidentMap`, `lastProbe` | the two maps of `startScheduler` |
| `probe[m][s]` | goroutine `s` probing monitor `m`, with its copy of the URL and its result |
| `Tick`, `TickFails` | `checkAndProbe`; the list query failing |
| `ProbeTarget`, `RecordHeartbeat`, `CheckMap`, `SetMap`, `RecordIncident`, `ResolveIncident`, `Notify` | one step of the goroutine each |
| `CollidingWrites` | two goroutines, of one monitor or of two, writing the unsynchronised map at once, of which one write is lost |
| `Recipients`, `sending`, `SendEnds` | the subscribers, or the administrator when they cannot be listed; the goroutines of `Broadcast` that wait for Telegram; one of them ends, with or without success |
| `AddMonitor`, `UpdateMonitor`, `ToggleMonitor`, `DeleteMonitor` | the API handlers |
| `PruneOldData`, `TargetChanges`, `Restart` | the daily clean-up, the world, systemd |
| `announced`, `inherited`, `restarts`, `races` | history: the last broadcast begun, the active rows at the start of this process, ended processes, lost map writes |

Abstractions: time is counted in ticks of 5 s and the jitter of the ticker is
left out; `lastProbe` is the time since a probe, not a date; a probe's latency,
certificate and DNS data are left out; without a bot token `Chats` is empty; the
subscribers do not change while the model runs; a text about a monitor is over
(a send takes 45 s at most) before the next broadcast of the same text about it, so a
send is told by monitor, chat and text; a deleted
monitor's id may be used again, which stands for any fresh id; an abort of the
Go runtime on a concurrent map write is a `Restart`. A tick waits when a monitor
has no free slot: `Slots` bounds how many probes of one monitor overlap.

### Whitelist

| In the model | In the code |
|---|---|
| `file` | what `readWhitelistFile` gets from the JSON file |
| `req[c]` | the handler working for client `c`: its step, its arguments, its copy of the file |
| `Read`, `WriteSeed`, `ReadFails` | `readWhitelistFile` with the seeding from the environment |
| `Reply`, `ClaimAdmin`, `AddWhitelistUser`, `DeleteWhitelistUser` | what each handler decides on its copy |
| `Write`, `WriteFails` | `writeWhitelistFile`; a write may fail or be cut short |
| `SignIn`, `SignInAnswer`, `SignInFails`, `SignOut` | the `signIn` callback: list, then claim |
| `Crash` | the agent ends; a write under way may be cut short |
| `claimed`, `acked` | history: successful claims, acknowledged additions |

Abstractions: the order of the list is dropped, so the successor of a removed
admin is any of the candidates; names are compared as values, not by case; a
file that does not parse and one that is missing are both `Empty`, as they read
the same; the environment does not change.

### Backups

| In the model | In the code |
|---|---|
| `disk[f]` | the file of that name: absent, partial (being written or cut off), torn (two dumps wrote to it), complete |
| `job[j]` | a handler or cron run at work: dumping natively or through docker, about to prune, report or restore |
| `CreateBackup`, `RunScheduledBackup`, `RestoreBackup` | the starts of `performBackupInternal` |
| `DumpEnds`, `FallBack`, `DumpFails` | the outcomes of `executeDump`; the file of a dump that failed is removed, unless that fails too |
| `Prune` | `pruneSlidingWindow` with the window read just before; any of the removals may fail, which nobody sees |
| `Saved` | `saveSchedulesToDisk`, whose callers drop its error: the file is written, stays as it was, or is cut short |
| `Report` | the end of `runScheduledBackup` |
| `RestoreRuns` | `executeRestore` and its answer |
| `DeleteBackup`, `SaveSchedule` | the handlers |
| `Loaded`, `Crash` | `loadSchedulesFromDisk` after the agent ended |
| `acked`, `misled`, `gone` | history: backups reported as made; databases whose restore was wrongly answered with success; the user deleted the file of this job |
| `unsaved`, `missed` | history: the last write of the schedules file failed; the removals of a database that failed since pruning last removed all it should |

A file name is its parts and its time, because `ParseBackupFilename` splits at
every `__` and labels and database names may hold one. An enabled schedule is
its cron entry. A unit of `now` is long enough to tell two file names apart and
for cron to run a schedule again. With one `CronJobs` element runs of cron do
not overlap; with two they do. `SameSecond` allows two dumps to the same name,
`WritesFail` writes of the schedules file that fail or cut it short; `MaxMissed`
bounds the removals that fail.

### Provisioning

| In the model | In the code |
|---|---|
| `roles`, `dbs` | PostgreSQL's users with their passwords (numbered as they are generated) and its databases with owner and content |
| `req[h]` | the handler at work: which statement is next and the local variables read or derived so far |
| `CreateDatabase`, `CloneDatabase`, `ResetDatabasePassword`, `DeleteDatabase` | the handlers up to their first statement that changes something; the clone's reads the source's owner |
| `FindFreeName`, `TryNextName` | the loop over suffixes; 50 of them in the code, `Suffix` in the model |
| `CloneUser` | the name of the clone's user, cut, with the safety guard |
| `RotatePassword` | the `DO` block that creates or alters the user; the `ALTER USER` of a reset, whose user exists |
| `CheckName`, `CountConnections`, `CopyTemplate`, `MakeDatabase`, `LoadDump`, `DropDatabase` | one statement, or the pair of processes, each |
| `Answer` | the grant, whose failure is ignored, and the answer |
| `calm` | history: no other request changed the password this one set or dropped one of its databases |

A name is a sequence of parts joined by `_`, since project, environment and
target may hold one: `db_crm_test` is the test environment of crm and a database
named without one, and its user may be that of a project crm_test. Characters are
not counted: cutting a user name after 60 characters is keeping `MaxLen` parts.
Names of databases are short enough for PostgreSQL, which cuts at 63. The branch
for an invalid user name (db.go:440) is dead, as the target was validated. A
statement that fails may have been carried out (`MayFail`): its context ends with
a timeout or with the client's connection.

### The pages

The five page modules are built alike. The page's React state is one variable
each; `calls` are the requests under way, each a record of what it asks, of the
values its handler's closure holds, and of what came back. A user's action
sends a request; `Serve` is the agent or the sentinel carrying it out; a `Got`
action is the rest of the handler after its `await`, with everything it calls.
Requests of one page are served and answered in any order. `Lose` (`Fails` in the
studio) is a request refused by the proxy, timed out, or carried out and not
answered, as the client makes it look to the handler.

| In the model | In the code |
|---|---|
| `TableStudio`: `Render` | React's render after a handler: the effects on table, query and view, in the order of the file |
| `query`, `grid`, `schemaOf`, `ticked`, `editing`, `inspecting` | the state of `DatabaseStudioPage`; `grid.of` is the query the rows answer |
| `SelectTable` to `Reload` | the sidebar, footer, column headers, filter bar, tabs, search, reload |
| `Tick`, `EditCell`, `SaveCell`, `DeleteSelected`, `InsertRow`, `CreateTable`, `RunSql` | the handlers that write, with the drawer and the table builder |
| `Orders`, `Pages`, `Rejects`, `Effects` | `GetRows` - any of the pages that LIMIT and OFFSET may give of rows which only a sort column orders -, `DeleteRows`, `InsertRow`, `UpdateRow`, `CreateTable`, `ExecuteSQL` of the explorer, and the proxy's methods |
| `StatusPage`: `Poll`, `GotStatus` | the 30 s timer; `loadStatus` with `getStatusPageData` |
| `GotWrite`, `Optimistic` | the handlers of add, edit, delete and pause after their request |
| `Simulation`, `simulated`, `Failed` | what `sentinel-client.ts` returns when it cannot read, and when the sentinel has no monitor: it then sends null for the list (api.go:85) |
| `BackupsView`: `Load`, `GotLoad` | `loadData`: two reads awaited together |
| `Held`, `OpenModal`, `CloseModal` | which modal can be left, and when |
| `Invented`, `Default`, `Reported` | what `agent-client.ts` makes up for a list, a schedule, a deletion |
| `DatabasesPage`: `vault`, `mock` | the entries of localStorage, the databases the client invented |
| `card`, `mount` | the password on the connection card; which card asked for a reset |
| `NewPassword`, `Shares` | a password changes for the user, and so for all its databases; the vault keeps one per database |
| `CronExplainer`: `Explain`, `Parses`, `Runs` | the sentence as the times it names, and whether it calls its hours UTC; the agent's cron library |
| `Sloppy`, `Loose`, `Spread` | what one side only reads: steps with letters behind them, lists as `Number()` and `split` take them, ranges with a step |
| `Zones`, `HostTime` | how far the agent's host may be ahead of UTC: `cron.New()` (backup.go:130) runs in the time of the host |

A history variable says what went out of the ordinary (`plain`, in the studio and
on the databases page the set `trouble`), so that a property can name its
exceptions instead of leaving the cases out of the model.

Abstractions: a row is its key, and rows of different tables have equal keys; cells
have no types; a monitor is its settings and whether it is active; a password is
its number; the sentence of the explainer is the set of times it names. The agent
carries a request out in one step: its own interleavings are the business of
`Provisioning`, `Backups` and `SentinelScheduler`. The time that passes is left
out, except that a poll is over before the next one is due (30 s against a limit of
6 s). A host is whole hours ahead of UTC; the labels of the presets (cron-explainer.ts:12)
are left out. The demo mode and the session are left out.

## Runs

Passing runs:

| Run | Instance | Shows |
|---|---|---|
| `sched_restart` | one monitor, two URLs, one subscriber whose messages come in any order or not at all, two restarts at any step, one probe at a time, a working store | between probes the map and the incidents table agree (`LedgerBalanced`); the broadcasts begun are an alert and a recovery in turn; a process leaves at most one row unresolved; status page and log agree; refinement of `IncidentLifecycle`; a lasting outage is logged and its alert broadcast, a lasting recovery closes it, and no send is left hanging |
| `sched_hostile` | two monitors, one of them added by a user, whose goroutines share the map: one write to it is lost; any call of the store fails | an outage that lasts is noticed all the same |
| `whitelist_serial` | two users, one dashboard session, one handler at a time, intact disk | one claim succeeds; additions last; requests take effect at once (`ServesAtOnce`), so the list keeps its admin |
| `whitelist_rough` | three users, a session, two handlers at a time, failing and torn writes, crashes, an admin from the environment | the primary admin is listed as an admin in the file and in every copy; with an admin from the environment nobody claims the role |
| `backups_rough` | overlapping runs of cron, a window of 1, a crash, two removals in a row that fail, writes of the schedules file that fail or tear it | scheduled backups on disk are bounded; schedules survive a restart, unless the last write had failed |
| `backups_sound` | a user's requests, restores and deletions beside one run of cron at a time | a reported manual backup stays; pruning leaves a newer good backup |
| `prov_rough` | three requests, two at a time, two projects of which one's name continues the other's, two suffixes, user names of four parts, failing statements | an answered connection string works unless another request came between; the guard spares the source's owner but for two kinds of names; every request is answered |
| `web` | a browser tab on the studio (two tables), the status page (two monitors), the backups tab, the databases page (two databases of one project) or the schedule form (300 expressions, a host in UTC and one two hours ahead) | buttons and spinners are released (`ModalsReleased`, and `WaitsEnd` for the studio, the status page and the backups tab); a write, restore, save or drop is of what the page shows; a page at rest shows what the agent holds, and turning the pages of a sorted table every row once; passwords shown open the databases; the status page ends up right whatever was lost, but for a fleet without monitors; what is said of a schedule is when it runs, but for the exceptions below |

Runs that find the program at odds with what its text says:

| Run | Property | What happens |
|---|---|---|
| `sched_amnesia` | `ActiveOutageEnds` | an incident open at a restart is never resolved: the map starts empty |
| `whitelist_race` | `AddsLast` | two handlers read the same file; the later write drops the other's user |
| `backups_restore` | `RestoredMeansRestored` | the file is gone when the restore comes to read it; the answer is success |
| `studio_edits` | `EditsReachTheAgent` | an inline edit is sent with PATCH, which the proxy does not export; no edit is ever stored |

While modelling `Provisioning` more was seen. The first kind of name that
`SourceSpared` excepts: the user of a clone and the one the guard falls back on are
both cut to 60 characters (db.go:447), and so to the name of the source's owner when
that is as long; its password is changed. The second: a clone to `db_school_erp` is given the user
`usr_school_erp_clone` without a look at whether that is the source's owner.
The README of the repository promises "unique, dedicated users" (src/README.md:176),
but the environments of a project share one, and creating the second changes the
password of the first (`calm` in `AnswerWorks`). A refused creation (409) has
changed it, too. A clone whose dump fails is answered with success.

While modelling `Backups` more was seen that no run is spent on, because the
premise of a theorem or a constant names it: when runs of cron overlap, the
unfinished file of one counts as the newest backup for the pruning of the other
(backup.go:346, 381), which removes the good one, and the unfinished dump may
fail (`backups_sound` has one run at a time); a label such as
`release__shop__auto` makes a manual backup an automatic one of shop (excluded
by `Plain`); two dumps with the same label and second share a file
(`SameSecond`); backups of a database with `__` in its name are never pruned
(such names are not in the instances); a save or a report whose write fails is
answered all the same, and a restart brings back the schedules of before, or none
when the file was cut short (backup.go:716, 749; `unsaved` in `SchedulesSurvive`); a
removal that fails leaves its file for as long as the disk refuses (`missed` in
`WindowBoundsDisk`); a failed safety snapshot does not stop the restore (`DumpFails`
leads to the restore).

Of the scheduler: an alert that is slow arrives after the recovery, and one that fails is
never sent again, since the map is set (bot.go:113); nothing in the code prevents it, so
`IncidentLifecycle` promises broadcasts and not their arrival. Probes of one monitor that
overlap both log an outage and both alert, and one of the two rows stays active: the
properties of `sched_restart` are about one probe at a time. Of the whitelist: when its
file is torn or cannot be read and no admin comes from the environment, the admin role
may be claimed again (`ClaimedOnce` is about an intact disk).

While modelling the pages more was seen, each the exception a property names:

- *Studio.* `WritesHitWhatWasShown` and `SettledGrid` hold as long as `trouble` is
  empty. Rows requests of two tables under way at once (`mixed`), answers out of order
  (`late`), a reload with the query of the click (`stale`), a row ticked before the
  columns of its table are known (`hasty`), a table that is gone (`gone`) each let the
  grid stand under another table's name, or a deletion name rows by another table's
  key. Sort and filters survive a change of table, so the rows request of a table
  without those columns is refused and the old rows stay. The footer offers 250 rows
  a page, the agent serves 50 of them (explorer.go:293), and the page counts pages of
  250: rows beyond are not shown (`EveryRowReachable` is about the other sizes). Without
  a sort column the query has no ORDER BY (explorer.go:367), and a sort column in which
  rows are equal leaves them unordered, so a row may be on two pages or on none
  (`EveryRowReachable` is about sort columns that tell the rows apart).
- *Status page.* A toggle reads nothing back; when two toggles cross, the page shows
  the wrong state until the next poll. While the sentinel cannot be read, the buttons of
  invented monitors act on real identifiers. After the last monitor was deleted the page
  shows invented ones for good: an empty list is sent as null (api.go:85, 153), which the
  client takes for a failure (sentinel-client.ts:113). `SettledPage` and `Converges` say so.
- *Backups tab.* A read that failed puts the default schedule into the form, and
  saving an edit writes it over the real one (`SavesWhatWasRead` needs `plain`). The save
  button works before the first read has answered.
- *Databases page.* A reset changes the password of the user, the vault only learns it
  for the one database: the entries of the other databases of the project are stale
  (`shared`). A reset whose answer is lost shows and saves an invented password (`lost`).
- *Explainer.* Day of week 7, a step such as `*/5min` and what only `Number()` reads
  (`1,`, `-5`, `0x10`, `1.5`, `1-2-3`) are explained and refused by the agent; "every 45
  minutes" runs at 0 and 45; a day of the month and a day of the week are joined with "and"
  where cron means "or"; an hour is called UTC and runs in the time of the agent's host.

None of these has a run that expects a violation: each is stated as the exception of the
property that would otherwise be false, or as the constant or premise that leaves it out.

### Bounds

- One monitor is enough for the properties of a monitor as long as no write to the map is
  lost: monitors share only the map, of which each uses its own entry, and the theorems
  cover any number of them. `sched_hostile` has two monitors, the fewest of which one can
  lose the other's write; `MaxRaces` lets that happen once. It has no subscribers (what is
  sent plays no part in `OutageNoticed`) and its monitors are not edited (`Editable`).
- The interval is one tick: the probe of a monitor and its next tick follow each other
  closely. Two URLs let a goroutine in flight probe the old one.
- One subscriber has two texts under way at once, in either order; more would be told
  apart by nothing but their name.
- `MaxOpen` stops targets from failing anew once so many incidents are open. Except
  in `sched_hostile` it exceeds what the allowed restarts can leave open, so it
  cuts off nothing. In `sched_hostile` a lost map write logs one outage again;
  `OutageNoticed` is about an outage that has begun.
- Two handlers at a time are the fewest that lose an update; a third user makes
  the choice of a successor matter.
- A window of 1 and file times up to 3 let pruning remove a file, keep one, and meet one
  that was cut off; two removals in a row may fail (`MaxMissed`) before one works, which
  sets the count back. `backups_sound` and `backups_restore` have no failing removal;
  `ManualCorrect` and `PruneCorrect` cover them.
- `backups_sound` has no crash, to stay small; `ManualCorrect` and `PruneCorrect` cover
  crashes, and `backups_rough` has one.
- Two requests at a time let every pair of handlers interleave; the third makes a
  database be dropped and made again under a clone, or a clone be cloned. Two suffixes
  let the search for a name end in the middle and at its limit; four parts keep the
  first clone's user whole and cut that of a clone of a clone. The databases at the
  start are one a project owns.
- `web`: `MaxOpen` is 1, so the user acts while one request is under way, and the
  requests a handler or an effect sends come on top. Three actions (`MaxMoves`) in the
  studio, the tab and the list, two on the status page, are the fewest for what the
  hazards need: select or open, change something, and act on it before the answer; a
  card that is opened counts. One loss (`MaxFaults`) lets every answer be lost at every
  point. In the studio the user stops after something went out of the ordinary
  (`Undaunted`), as no property says more then; page sizes 1 and 3 against a limit of 2
  are one the agent serves and one it replaces; one of the two tables has a column in which
  all rows are equal. One tab shows one page, so the five
  parts do not multiply. The theorems are for every bound, and the proof of
  `WritesCorrect` found two cases beyond these (the columns of another table arriving
  late, a table changing under the open inspector), which are in `trouble` now.

### Fairness

`FairSpec` of the scheduler assumes that the ticker keeps firing (`WF` of
`Tick`), that the Go runtime runs every goroutine on (`WF` of
`GoroutineStep`, for each goroutine), and that every send ends (`WF` of `SendEnds`: the
client of the bot gives up after 45 s, bot.go:55). The first two are what `time.Ticker` and the Go
scheduler give; every step of a goroutine has a time limit (probe context, HTTP
client, SQLite busy timeout). Restarts, API calls and the targets are not fair.
`Spec` of `Provisioning` assumes that a handler whose next statement can return
goes on (`WF` of `Proceed`): every handler has a context with a timeout of 10, 15 or
90 seconds, at which statements fail and pg_dump and psql are killed. Requests are
not fair. `StatusPage` assumes that its timer fires (`WF` of `Poll`; the interval is
cleared only when the page is left), and that a request is served and an answer is
handled (`WF` of `Serve`, `Answer`): the page gives a read six seconds and the
proxy any request twelve, after which it counts as lost, which `Ready` includes.
The user is not fair. `WebSpec` of `Dashboard` assumes this of the status page only while
that page is shown: on another page its timer does not exist, and a fairness that no step
can meet would leave no behaviour to speak of. `Whitelist`, `Backups` and the other pages have safety properties
only, and assume no fairness.

## Proofs

All theorems hold for every value of the constants that satisfies the named
assumption of the module (`ScheduleAssumption`, `WhitelistAssumption`,
`BackupsAssumption`, `ProvisioningAssumption`), or, for a page on its own, the hypothesis
`StudioConstants`, `StatusConstants`, `BackupsViewConstants`, `DatabasesConstants` or
`ExplainerConstants`; `DashboardAssumption` is the five together. These say no more than that the constants have the right
type and the defaults of the code are in range.

- `SentinelScheduler_proofs`. `TypeCorrect` needs no premise. The others assume
  `Sequential`: one probe of a monitor at a time, a working store, no lost map
  write. `LedgerBalanced` is not inductive: it says nothing while a goroutine is
  under way. `LedgerInv` says at each step of a goroutine what the map, the
  table, the heartbeat and the last broadcast are (a goroutine past `SetMap` and
  before the table write is the one place where map and table differ).
  `LedgerCorrect`, `BroadcastsCorrect`, `LeftoversBounded`, `PageCorrect` and the
  refinement `LifecycleImplemented` follow from it; the end of a send is a step of the
  lifecycle when it is the last one of its text, and a stutter otherwise.
- `Whitelist_proofs`. `SoundInv` - in the file and in every copy the primary
  admin is listed as an admin, and with an admin from the environment every copy
  that is decided on has one - holds under any interleaving and any disk failure;
  from it `PrimaryCorrect` and `EnvironmentCorrect`. With one handler at a time
  and an intact disk (`OneAtATime`), `SerialInv` says that the copy of the handler
  under way is the file, up to what it is about to write; from it `ClaimCorrect`,
  `AddsCorrect` and `AdminCorrect`. For the refinement `ServiceImplemented` that is not
  enough: `ExactInv` says that a handler about to write holds the file with the effect of
  its request and nothing else, so the write - answered or not - is a step of
  `WhitelistService`, and every other step but the acknowledgement of a user who was
  already listed is a stutter. The promise is what an overlap breaks (`whitelist_race`).
- `Backups_proofs`. `TypeCorrect` needs no premise; `Named` is added to the type
  invariant, since a dump writes to the file its job names. `ManualCorrect`
  assumes `Plain`: no `__` in labels and names, no two dumps to one name.
  `ManualStays` is not inductive, as a dump under way could be to a file already
  reported. `ManualInv` adds that no two dumps write to one file and that the
  file of a manual dump is unreported and partial, or deleted by the user.
  `SchedulesCorrect` rests on `SavedInv`: unless the last write failed, the file
  holds what is in memory. `WindowCorrect` assumes `Counted` (one-part names, finite sets). It
  counts apart the files nobody writes to (`Settled`), which only grow when a run goes on
  to prune; a crash may leave the file of every run that was under way, so each crash
  adds as many as there are runs, and a removal that fails adds one until pruning next
  removes all it should. `PruneCorrect` assumes `Single`: `Plain`, and one run of
  cron at a time. `PruneInv` says that the file of a run is the newest of its database,
  and complete and reported once it is written, unless a user deleted it (`Fresh`).
- `Provisioning_proofs`. `IInv` adds to the type invariant what is `Sound` of each
  request: a user it has given a password is there, with that password while the
  request is `calm`; the database it made or found is its user's; until a clone gives
  its user a password the source is whose it was. From it `TypeCorrect` and
  `AnswersCorrect`. `SourceSparedAlways` also needs `CloneUserSpares`, a lemma on the
  derivation of names alone: the user of a clone is the source's owner only if its
  name is too long or the protected one was left for it.

- `TableStudio_proofs`. `TypeInv` adds to the types that every set of request numbers
  has a largest one, so that a new request has a new number (a spinner is then seen
  to start), and that a request names the table of its query. `SpinnerCorrect` follows
  through `Render`, which only adds requests, and the answers, which keep those of
  other kinds. `WritesHitWhatWasShown` speaks of requests under way only; `WriteInv`
  says where they come from: the reads under way are of the selected table, the grid,
  once loaded, is too, and so is every row ticked, edited or inspected, whose key
  column is that of the schema the page has. `SettledGrid` speaks of a page at rest;
  `SettleInv` says what it will show: the newest load that no later one has overtaken
  is for the query, and its answer, or the grid once no such load is left, holds what
  the agent stores (`Current`) or a write whose answer reloads it is still to be seen
  (`Unseen`). `RowsReachable` needs no invariant beyond the types: a sort
  column that tells the rows apart leaves postgres one order, in which the rank of a row
  is the number of rows before it (`RankIsPlace`), and pages that hold the places one
  after the other hold every row once (`PagesPartition`, from the facts about division
  `PageOfRank` and `PageOfOne`).
- `StatusPage_proofs`. `ButtonsCorrect` needs that the read a handler awaits carries
  its cause. `SettledPage` is about a page at rest; `Agrees` says what the page will show
  once the request under way is answered, which without an overlap is one.
- `BackupsView_proofs`. `OneDestructive` is made inductive by `Alone` and `Shown`: a
  restore or deletion keeps its modal open and its button waiting. `FormInv` follows the
  form: the fields not edited are the agent's, as a load or a save is not under way
  with the other.
- `Dashboard_proofs`, databases page. `Faced` is to `DropsWhatIsNamed` what `Alone` is to
  `OneDestructive`. For the vault, one invariant says for each database that is there
  that the saved password is its user's or a list or write under way is about it, and
  for each write served that it carries the newest password of that user.
- `Dashboard_proofs`, explainer. Explaining a schedule writes only what is said of it, so
  `CronInv` has little to keep: what is said is `Explain` of the expression. The work is in
  showing that an explanation claims the right times for every expression of the
  constants. A period that divides its clock, counted from 0 all around it, meets just
  the multiples of the period (`AroundTheClock`); what the parser takes is in the range of
  its field, so that reading a day of week modulo 7 changes nothing; and an explained
  schedule the parser refuses has a 7 for Sunday, letters behind a step or loose numbers
  (`RefusalsAreKnown`).
- `Dashboard_proofs`, composition. A step of the dashboard is a step of the page shown and
  leaves the others alone (`PagesInside`), so each page behaves as its own specification
  says, and the theorems of the pages hold in it. They are proved of other instances of
  the same modules; lemmas such as `StudioSame` say that both mean the same.

There is a theorem for every invariant and every action property of a passing run.
Only model-checked are the liveness properties (`OutageReported`, `RecoveryReported`,
`OutageNoticed`, `Answered`, `Converges`), which are beyond these provers, and of
`ImplementsLifecycle` the part on fairness; its steps are proved. The runs that expect a
violation have no theorem.

## Not modelled

- What probes measure, the aggregates over heartbeats, the read-only API answers:
  formatting or data; the aggregates are in the plan.
- Commands and polling of the bot: a subscriber's commands and the offset of long
  polling; the two broadcasts are in `SentinelScheduler`.
- The pool cache of the explorer, the row search (which the agent ignores), the
  types and values of cells, SQL that changes columns, the CSV export.
- The pages of vitals, bandwidth and ports, and the navigation bar: an answer
  overwrites what is displayed, nothing is written. The whitelist dialog of the bar
  calls the endpoints that `Whitelist` models.
- Bandwidth, vitals, mail scripts: they read and format, and keep no state.
- Headers and tokens of the proxies, the middleware's redirect, the demo mode.
- `GetSchedule` storing the next run time, `ListBackups`, `DownloadBackup`.

## Plan

1. `SentinelScheduler` with `IncidentLifecycle` as its abstract specification - done.
2. `Whitelist` with the sign-in, `WhitelistService` as its abstract specification - done.
3. `Backups`: dumps as steps, the directory as a function from parsed names, the
   window, restores with their safety snapshot, the schedules file - done.
4. `Provisioning`: roles and databases of one PostgreSQL, each handler one SQL
   statement per step, interleaved - done.
5. The pages - `TableStudio`, `StatusPage`, `BackupsView`, `DatabasesPage`,
   `CronExplainer`, composed in `Dashboard` - done.
6. `TelegramBot`: polling offset, subscribers and roles, at-least-once commands - not done.
7. `Buckets`: the aggregation functions of the store against a reference definition - not done.
8. `ExplorerPool`: the pool cache against a database that is dropped or whose password
   changes - not done.
