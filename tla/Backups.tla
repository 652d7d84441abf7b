------------------------------- MODULE Backups -------------------------------
(***************************************************************************)
(* Backups of the agent (agent/handler/backup.go): dumps made on request   *)
(* and by cron, the sliding window that prunes the automatic ones,         *)
(* restores with the safety snapshot before them, and the schedules.       *)
(*                                                                         *)
(* A dump takes long: it is a job that creates its file when it starts and *)
(* ends, fails or is cut off by the end of the agent later on.  What a     *)
(* backup is - of which database, of which type, how old - is known from   *)
(* its file name only, <label>__<database>__<type>__<second>.dump, split   *)
(* at each "__".  Labels and databases may hold a "__" themselves, so both *)
(* are sequences of parts.                                                 *)
(***************************************************************************)
EXTENDS Integers, Sequences, FiniteSets

CONSTANTS
  Databases,      \* database names, as parts
  Labels,         \* labels users give, sanitized, as parts
  AutoLabel,      \* the label of scheduled backups
  SafetyLabel,    \* the label of safety snapshots
  MaxWindow,      \* largest sliding window: 5 in the code
  WindowInputs,   \* sliding_window in a request
  UserJobs,       \* requests in flight that dump or restore: a bound
  CronJobs,       \* runs of cron in flight: a bound
  MaxTime,        \* last second: a bound
  MaxCrashes,     \* times the agent may end: a bound
  SameSecond,     \* whether a file name may be used twice
  WritesFail,     \* whether writing the schedules file may fail
  MaxMissed,      \* removals in a row that may fail, by database: a bound
  NoSchedule,     \* no schedule for a database
  Lost,           \* a schedules file that does not parse
  NoName          \* no file

Jobs == UserJobs \cup CronJobs

Types == {"manual", "auto"}
NameOf(label, d, type, at) == [parts |-> label \o d \o <<type>>, at |-> at]
TypeOf(f) == f.parts[Len(f.parts)]
Names == {NameOf(l, d, ty, t) : l \in Labels \cup {AutoLabel, SafetyLabel},
                                d \in Databases, ty \in Types, t \in 0..MaxTime}

Schedule == [enabled : BOOLEAN, window : 1..MaxWindow,
             status : {"none", "success", "failed"}]
Schedules == [Databases -> Schedule \cup {NoSchedule}]

\* "native" and "docker" are the two ways to dump that are tried.
Job == [pc : {"idle", "native", "docker", "prune", "report", "restore"},
        type : Types, db : Databases, name : Names \cup {NoName},
        source : Names \cup {NoName}, ok : BOOLEAN, gone : BOOLEAN]

ASSUME BackupsAssumption ==
  /\ \A p \in Databases \cup Labels \cup {AutoLabel, SafetyLabel} :
       p \in Seq(STRING) /\ p # <<>>
  /\ Databases # {}
  /\ NoSchedule \notin Schedule
  /\ NoName \notin Names
  /\ Lost \notin Schedules
  /\ MaxWindow \in Nat \ {0}
  /\ WindowInputs \subseteq Int
  /\ MaxTime \in Nat
  /\ MaxCrashes \in Nat
  /\ MaxMissed \in Nat
  /\ {SameSecond, WritesFail} \subseteq BOOLEAN

VARIABLES
  disk,       \* the backup directory
  job,        \* the handlers and cron runs that are under way
  schedules,  \* schedules in memory; an enabled one has a cron entry
  saved,      \* the schedules file
  unsaved,    \* whether the last write of it failed
  ran,        \* databases cron has run, registered or reloaded this minute
  now,        \* the clock
  crashes,    \* times the agent has ended
  acked,      \* backups reported as made, neither pruned nor deleted since
  missed,     \* removals that have failed since pruning last removed all it should
  misled      \* databases whose restore was answered with success wrongly

files == <<disk, acked, missed>>
table == <<schedules, saved, unsaved>>
plan == <<schedules, saved, unsaved, ran>>
vars == <<disk, job, schedules, saved, unsaved, ran, now, crashes, acked, missed, misled>>

Idle == [pc |-> "idle", type |-> "manual", db |-> CHOOSE d \in Databases : TRUE,
         name |-> NoName, source |-> NoName, ok |-> FALSE, gone |-> FALSE]

Init ==
  /\ disk = [f \in Names |-> "absent"]
  /\ job = [j \in Jobs |-> Idle]
  /\ schedules = [d \in Databases |-> NoSchedule]
  /\ saved = [d \in Databases |-> NoSchedule]
  /\ unsaved = FALSE
  /\ ran = {}
  /\ now = 0
  /\ crashes = 0
  /\ acked = {}
  /\ missed = [d \in Databases |-> 0]
  /\ misled = {}

----------------------------------------------------------------------------
(* File names *)

OnDisk == {f \in Names : disk[f] # "absent"}

\* ParseBackupFilename: the first parts are taken for label, database, type and
\* time; where the fourth part is not a time the backup is taken for a new one.
ParsedDatabase(f) == <<f.parts[2]>>
ParsedType(f) == f.parts[3]
ParsedTime(f) == IF Len(f.parts) = 3 THEN f.at ELSE now

\* Mutant of AutoBackups: the type is not looked at.
AutoBackupsOfAnyType(d) == {f \in OnDisk : ParsedDatabase(f) = d}

\* The files pruneSlidingWindow takes for automatic backups of d.
AutoBackups(d) == {f \in OnDisk : ParsedDatabase(f) = d /\ ParsedType(f) = "auto"}

----------------------------------------------------------------------------
(* A dump *)

Running(j) == job[j].pc # "idle"
Dumping(j) == job[j].pc \in {"native", "docker"}
Finish(j) == job' = [job EXCEPT ![j] = Idle]

\* pg_dump creates or truncates the file.
Opened(j, f) ==
  [disk EXCEPT ![f] = IF \E k \in Jobs \ {j} : Dumping(k) /\ job[k].name = f
                      THEN "torn" ELSE "partial"]

StartDump(j, label, d, type, source) ==
  LET f == NameOf(label, d, type, now) IN
  /\ ~Running(j)
  /\ SameSecond \/ (disk[f] = "absent" /\ \A k \in Jobs : job[k].name # f)
  /\ job' = [job EXCEPT ![j] = [pc |-> "native", type |-> type, db |-> d, name |-> f,
                                source |-> source, ok |-> FALSE, gone |-> FALSE]]
  /\ disk' = Opened(j, f)

CreateBackup(j, d, label) ==
  /\ StartDump(j, label, d, "manual", NoName)
  /\ UNCHANGED <<plan, now, crashes, acked, missed, misled>>

\* Cron runs a schedule at most once a minute, and not in the minute it was
\* registered in.  It does not wait for the last run: with one CronJob the runs
\* are short enough not to overlap.
RunScheduledBackup(j, d) ==
  /\ schedules[d] # NoSchedule
  /\ schedules[d].enabled
  /\ d \notin ran
  /\ StartDump(j, AutoLabel, d, "auto", NoName)
  /\ ran' = ran \cup {d}
  /\ UNCHANGED <<table, now, crashes, acked, missed, misled>>

\* The file to restore is only looked for; the safety snapshot comes first.
RestoreBackup(j, d, f) ==
  /\ disk[f] # "absent"
  /\ StartDump(j, SafetyLabel, d, "manual", f)
  /\ UNCHANGED <<plan, now, crashes, acked, missed, misled>>

\* Where a job goes when its dump has ended.
AfterDump(j, ok) ==
  IF job[j].source # NoName THEN job' = [job EXCEPT ![j].pc = "restore"]
  ELSE IF job[j].type = "manual" THEN Finish(j)
  ELSE job' = [job EXCEPT ![j].pc = IF ok THEN "prune" ELSE "report", ![j].ok = ok]

\* The file is complete, unless somebody else wrote to it or deleted it; the
\* dump is reported as made in any case.
DumpEnds(j) ==
  LET f == job[j].name IN
  /\ Dumping(j)
  /\ disk' = [disk EXCEPT ![f] = IF @ = "partial" THEN "complete" ELSE @]
  /\ AfterDump(j, TRUE)
  /\ acked' = IF job[j].gone THEN acked ELSE acked \cup {f}
  /\ UNCHANGED <<plan, now, crashes, missed, misled>>

\* The failed file is removed and docker exec tried.
FallBack(j) ==
  /\ job[j].pc = "native"
  /\ disk' = Opened(j, job[j].name)
  /\ job' = [job EXCEPT ![j].pc = "docker", ![j].gone = FALSE]
  /\ UNCHANGED <<plan, now, crashes, acked, missed, misled>>

\* A file of d that was to go stays: an error of the removal is ignored.
Miss(d) ==
  /\ missed[d] < MaxMissed
  /\ missed' = [missed EXCEPT ![d] = @ + 1]

DumpFails(j) ==
  /\ job[j].pc = "docker"
  /\ \/ /\ disk' = [disk EXCEPT ![job[j].name] = "absent"]
        /\ UNCHANGED missed
     \/ /\ Miss(job[j].db)
        /\ UNCHANGED disk
  /\ AfterDump(j, FALSE)
  /\ UNCHANGED <<plan, now, crashes, acked, misled>>

----------------------------------------------------------------------------
(* The end of a scheduled backup *)

\* Mutant of Window: one file more is kept.
WindowPlusOne(d) ==
  IF schedules[d] = NoSchedule THEN MaxWindow + 1 ELSE schedules[d].window + 1

Window(d) == IF schedules[d] = NoSchedule THEN MaxWindow ELSE schedules[d].window

\* Mutant of Newest: the oldest are kept.
NewestLast(keep, candidates) ==
  \A f \in keep, g \in candidates \ keep : ParsedTime(f) <= ParsedTime(g)

Newest(keep, candidates) ==
  \A f \in keep, g \in candidates \ keep : ParsedTime(f) >= ParsedTime(g)

\* pruneSlidingWindow.  The sort does not order files of the same time.  Where the
\* directory cannot be read nothing is removed, and a file that cannot be removed
\* is passed over.
Prune(j) ==
  LET d == job[j].db
      candidates == AutoBackups(d)
  IN
  /\ job[j].pc = "prune"
  /\ \E keep \in SUBSET candidates : \E removed \in SUBSET (candidates \ keep) :
       /\ Newest(keep, candidates)
       /\ IF Cardinality(candidates) <= Window(d)
          THEN keep = candidates
          ELSE Cardinality(keep) = Window(d)
       /\ IF removed = candidates \ keep
          THEN missed' = [missed EXCEPT ![d] = 0]
          ELSE Miss(d)
       /\ disk' = [f \in Names |-> IF f \in removed THEN "absent" ELSE disk[f]]
       /\ acked' = {f \in acked : TypeOf(f) = "manual" \/ f \notin removed}
  /\ job' = [job EXCEPT ![j].pc = "report"]
  /\ UNCHANGED <<plan, now, crashes, misled>>

\* saveSchedulesToDisk, called with the lock held, writes all schedules.  Its
\* callers ignore an error: the file stays as it was, or is cut short.
Saved(s) ==
  \/ saved' = s /\ unsaved' = FALSE
  \/ WritesFail /\ saved' \in {saved, Lost} /\ unsaved' = TRUE

\* Mutant of Report: the result is kept in memory only.
ReportUnsaved(j) ==
  LET d == job[j].db IN
  /\ job[j].pc = "report"
  /\ Finish(j)
  /\ IF schedules[d] = NoSchedule
     THEN UNCHANGED table
     ELSE /\ schedules' = [schedules EXCEPT ![d].status =
                             IF job[j].ok THEN "success" ELSE "failed"]
          /\ UNCHANGED <<saved, unsaved>>
  /\ UNCHANGED <<files, ran, now, crashes, misled>>

\* The result goes to the schedule there is now.
Report(j) ==
  LET d == job[j].db IN
  /\ job[j].pc = "report"
  /\ Finish(j)
  /\ IF schedules[d] = NoSchedule
     THEN UNCHANGED table
     ELSE /\ schedules' = [schedules EXCEPT ![d].status =
                             IF job[j].ok THEN "success" ELSE "failed"]
          /\ Saved(schedules')
  /\ UNCHANGED <<files, ran, now, crashes, misled>>

----------------------------------------------------------------------------
(* The rest of a restore *)

\* pg_restore works on whatever the file is by now.  An error whose text has no
\* "fatal:", such as that of a file which is gone or cut short, is answered with
\* success.
RestoreRuns(j) ==
  /\ job[j].pc = "restore"
  /\ Finish(j)
  /\ \/ UNCHANGED misled
     \/ /\ disk[job[j].source] = "complete"
        /\ misled' = misled \ {job[j].db}
     \/ /\ disk[job[j].source] # "complete"
        /\ misled' = misled \cup {job[j].db}
  /\ UNCHANGED <<files, plan, now, crashes>>

----------------------------------------------------------------------------
(* Other requests *)

DeleteBackup(f) ==
  /\ disk[f] # "absent"
  /\ disk' = [disk EXCEPT ![f] = "absent"]
  /\ acked' = acked \ {f}
  /\ job' = [j \in Jobs |-> [job[j] EXCEPT !.gone = @ \/ job[j].name = f]]
  /\ UNCHANGED <<plan, now, crashes, missed, misled>>

\* Mutant of Clamped: a window of 0 gets through.
ClampedAbove(w) == IF w > MaxWindow THEN MaxWindow ELSE w

Clamped(w) == IF w <= 0 \/ w > MaxWindow THEN MaxWindow ELSE w

SaveSchedule(d, on, w) ==
  /\ schedules' = [schedules EXCEPT ![d] = [enabled |-> on, window |-> Clamped(w),
                                            status |-> "none"]]
  /\ ran' = ran \cup {d}
  /\ Saved(schedules')
  /\ UNCHANGED <<files, job, now, crashes, misled>>

----------------------------------------------------------------------------
(* The rest of the world *)

Clock ==
  /\ now < MaxTime
  /\ now' = now + 1
  /\ ran' = {}
  /\ UNCHANGED <<files, job, table, crashes, misled>>

\* loadSchedulesFromDisk: a file that does not parse gives no schedules.
Loaded == IF saved = Lost THEN [d \in Databases |-> NoSchedule] ELSE saved

\* The agent ends and is started again.
Crash ==
  /\ crashes < MaxCrashes
  /\ crashes' = crashes + 1
  /\ job' = [j \in Jobs |-> Idle]
  /\ schedules' = Loaded
  /\ unsaved' = FALSE
  /\ ran' = Databases
  /\ UNCHANGED <<files, saved, now, misled>>

Request ==
  \/ \E j \in UserJobs, d \in Databases, l \in Labels : CreateBackup(j, d, l)
  \/ \E j \in UserJobs, d \in Databases, f \in Names : RestoreBackup(j, d, f)
  \/ \E f \in Names : DeleteBackup(f)
  \/ \E d \in Databases, on \in BOOLEAN, w \in WindowInputs : SaveSchedule(d, on, w)

JobStep(j) ==
  \/ DumpEnds(j) \/ FallBack(j) \/ DumpFails(j)
  \/ Prune(j) \/ Report(j) \/ RestoreRuns(j)

Next ==
  \/ Request
  \/ \E j \in CronJobs, d \in Databases : RunScheduledBackup(j, d)
  \/ \E j \in Jobs : JobStep(j)
  \/ Clock
  \/ Crash

Spec == Init /\ [][Next]_vars

----------------------------------------------------------------------------
(* Properties *)

\* Files, jobs and schedules have the shape the code gives them; a window is
\* at least one backup (SaveSchedule).
TypeOK ==
  /\ disk \in [Names -> {"absent", "partial", "torn", "complete"}]
  /\ job \in [Jobs -> Job]
  /\ schedules \in Schedules
  /\ saved \in Schedules \cup {Lost}
  /\ unsaved \in BOOLEAN
  /\ ran \subseteq Databases
  /\ now \in 0..MaxTime
  /\ crashes \in 0..MaxCrashes
  /\ acked \subseteq Names
  /\ missed \in [Databases -> 0..MaxMissed]
  /\ misled \subseteq Databases

\* A manual backup that was reported as made stays on disk, whole, until a user
\* deletes it: no later backup, run of cron, failed dump or crash touches it
\* (DatabaseBackupsView.tsx: manual snapshots are never deleted).
ManualStays ==
  \A f \in acked : TypeOf(f) = "manual" => disk[f] = "complete"

ScheduledName(d) == AutoLabel \o d \o <<"auto">>

\* Pruning removes a good backup of a database only if it leaves a newer good
\* one, whatever dumps and removals failed and whatever a crash left lying about -
\* unless a user deletes the file of the run that prunes.
PruneLeavesNewer ==
  [][\A f \in acked, d \in Databases :
       /\ f.parts = ScheduledName(d)
       /\ disk[f] = "complete" /\ disk'[f] = "absent"
       /\ \E j \in Jobs : job[j].pc # job'[j].pc /\ ~job[j].gone
       => \E g \in acked : /\ g.parts = f.parts
                           /\ g.at > f.at
                           /\ disk'[g] = "complete"]_vars

RunsOf(d) == {j \in Jobs : Running(j) /\ job[j].db = d /\ job[j].type = "auto"}

Scheduled(d) == {f \in OnDisk : f.parts = ScheduledName(d)}

\* The disk does not fill up with scheduled backups: a database has no more than
\* its window, one for each run that has not come to its pruning yet, one for each
\* run a crash cut off, and one for each removal that has failed since pruning
\* last removed all it should: it then makes up for the failures before.
WindowBoundsDisk ==
  \A d \in Databases :
    Cardinality(Scheduled(d))
      <= MaxWindow + Cardinality(RunsOf(d)) + crashes * Cardinality(CronJobs) + missed[d]

\* What was scheduled, and how the last run went, is the same after a restart
\* unless the last write of the file failed.  A write that failed earlier costs
\* nothing, whichever database it was about: the next one makes up for it
\* (SaveSchedule, runScheduledBackup, loadSchedulesFromDisk).
SchedulesSurvive ==
  [][crashes' # crashes /\ ~unsaved => schedules' = schedules]_vars

\* A restore that was answered with success has restored a complete dump, also
\* when the file was still being written, was pruned or was deleted after it was
\* looked for (RestoreBackup: "restored successfully").
RestoredMeansRestored == misled = {}
=============================================================================
