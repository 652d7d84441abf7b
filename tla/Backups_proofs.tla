--------------------------- MODULE Backups_proofs ---------------------------
(***************************************************************************)
(* Theorems about Backups for every set of databases and labels and every  *)
(* number of jobs.                                                         *)
(***************************************************************************)
EXTENDS Backups, SequenceTheorems, FiniteSetTheorems, TLAPS

----------------------------------------------------------------------------
(* The constants *)

LEMMA Bounds ==
  /\ MaxTime \in Nat
  /\ MaxCrashes \in Nat
  /\ MaxWindow \in Nat \ {0}
  /\ MaxMissed \in Nat
  /\ WindowInputs \subseteq Int
BY BackupsAssumption

LEMMA PartsType ==
  \A p \in Databases \cup Labels \cup {AutoLabel, SafetyLabel} : p \in Seq(STRING)
BY BackupsAssumption

----------------------------------------------------------------------------
(* File names *)

\* A sequence of elements of a set is one of elements of a larger set.
LEMMA LargerSeq ==
  ASSUME NEW S, NEW T, S \subseteq T, NEW q \in Seq(S)
  PROVE  q \in Seq(T)
<1>1. Len(q) \in Nat /\ q = [i \in 1..Len(q) |-> q[i]] /\ \A i \in 1..Len(q) : q[i] \in S
  OBVIOUS
<1>2. [i \in 1..Len(q) |-> q[i]] \in Seq(T)
  BY <1>1, SeqDef
<1> QED BY <1>1, <1>2

AllLabels == Labels \cup {AutoLabel, SafetyLabel}

\* The name of a backup is a file name and tells its type.
LEMMA NameOfBackup ==
  ASSUME NEW l \in AllLabels, NEW d \in Databases, NEW ty \in Types, NEW t \in 0..MaxTime
  PROVE  /\ NameOf(l, d, ty, t) \in Names
         /\ TypeOf(NameOf(l, d, ty, t)) = ty
         /\ Len(NameOf(l, d, ty, t).parts) = Len(l) + Len(d) + 1
<1>1. NameOf(l, d, ty, t) \in Names
  BY DEF AllLabels, Names
<1> DEFINE S == STRING \cup Types
           p == l \o d
<1>2. l \in Seq(S) /\ d \in Seq(S) /\ <<ty>> \in Seq(S)
  <2>1. l \in Seq(STRING) /\ d \in Seq(STRING)
    BY PartsType DEF AllLabels
  <2>2. STRING \subseteq S
    OBVIOUS
  <2> HIDE DEF S
  <2>3. l \in Seq(S) /\ d \in Seq(S)
    BY <2>1, <2>2, LargerSeq
  <2> QED BY <2>3 DEF S
<1> HIDE DEF S
<1>3. p \in Seq(S)
  BY <1>2, ConcatProperties
<1>4. Len(p \o <<ty>>) = Len(p) + 1
  BY <1>2, <1>3, ConcatProperties
<1>5. (p \o <<ty>>)[Len(p) + 1] = ty
  BY <1>2, <1>3, ConcatProperties
<1>6. TypeOf(NameOf(l, d, ty, t)) = (p \o <<ty>>)[Len(p \o <<ty>>)]
  BY DEF TypeOf, NameOf
<1>7. Len(NameOf(l, d, ty, t).parts) = Len(l) + Len(d) + 1
  BY <1>2, <1>4, ConcatProperties DEF NameOf
<1> QED BY <1>1, <1>4, <1>5, <1>6, <1>7

----------------------------------------------------------------------------
(* Types *)

\* A dump writes to a file.
Named == \A j \in Jobs : Dumping(j) => job[j].name \in Names

TypeInv == TypeOK /\ Named

LEMMA IdleType == Idle \in Job /\ Idle.pc = "idle"
BY BackupsAssumption DEF Idle, Job, Types

\* Ending a job keeps the others as they are.
LEMMA FinishType ==
  ASSUME TypeInv, NEW j \in Jobs, Finish(j)
  PROVE  job' \in [Jobs -> Job] /\ Named'
BY IdleType DEF Finish, TypeInv, TypeOK, Named, Dumping

\* So does replacing one by another that is no dump, or dumps to a file.
LEMMA MoveType ==
  ASSUME TypeInv, NEW j \in Jobs, NEW r \in Job,
         r.pc \in {"native", "docker"} => r.name \in Names,
         job' = [job EXCEPT ![j] = r]
  PROVE  job' \in [Jobs -> Job] /\ Named'
BY DEF TypeInv, TypeOK, Named, Dumping

\* A file that is opened is a partial or a torn one.
LEMMA OpenedType ==
  ASSUME TypeInv, NEW j \in Jobs, NEW f \in Names
  PROVE  Opened(j, f) \in [Names -> {"absent", "partial", "torn", "complete"}]
BY DEF TypeInv, TypeOK, Opened

LEMMA StartDumpType ==
  ASSUME TypeInv, NEW j \in Jobs, NEW l \in AllLabels, NEW d \in Databases,
         NEW ty \in Types, NEW source \in Names \cup {NoName},
         StartDump(j, l, d, ty, source)
  PROVE  /\ job' \in [Jobs -> Job] /\ Named'
         /\ disk' \in [Names -> {"absent", "partial", "torn", "complete"}]
<1> DEFINE f == NameOf(l, d, ty, now)
           r == [pc |-> "native", type |-> ty, db |-> d, name |-> f,
                 source |-> source, ok |-> FALSE, gone |-> FALSE]
<1>1. f \in Names
  BY NameOfBackup DEF TypeInv, TypeOK
<1>2. r \in Job /\ r.name \in Names
  BY <1>1 DEF Job
<1>3. job' = [job EXCEPT ![j] = r] /\ disk' = Opened(j, f)
  BY DEF StartDump
<1> HIDE DEF r, f
<1> QED BY <1>1, <1>2, <1>3, OpenedType, MoveType DEF TypeInv

LEMMA AfterDumpType ==
  ASSUME TypeInv, NEW j \in Jobs, NEW ok \in BOOLEAN, AfterDump(j, ok)
  PROVE  job' \in [Jobs -> Job] /\ Named'
<1>1. CASE Finish(j)
  BY <1>1, FinishType
<1>2. CASE job' = [job EXCEPT ![j].pc = "restore"]
  <2> DEFINE r == [job[j] EXCEPT !.pc = "restore"]
  <2>1. r \in Job /\ r.pc = "restore"
    BY DEF TypeInv, TypeOK, Job
  <2> HIDE DEF r
  <2> QED BY <1>2, <2>1, MoveType DEF r
<1>3. CASE job' = [job EXCEPT ![j].pc = IF ok THEN "prune" ELSE "report", ![j].ok = ok]
  <2> DEFINE pc == IF ok THEN "prune" ELSE "report"
             r == [job[j] EXCEPT !.pc = pc, !.ok = ok]
  <2>1. r \in Job /\ r.pc \in {"prune", "report"}
    BY DEF TypeInv, TypeOK, Job
  <2>2. job' = [job EXCEPT ![j] = r]
    BY <1>3 DEF TypeInv, TypeOK, Job
  <2> HIDE DEF r, pc
  <2> QED BY <2>1, <2>2, MoveType
<1> QED BY <1>1, <1>2, <1>3 DEF AfterDump

\* A removal that failed is counted.
LEMMA MissCounts ==
  ASSUME TypeInv, NEW d \in Databases, Miss(d)
  PROVE  /\ missed' \in [Databases -> 0..MaxMissed]
         /\ missed'[d] = missed[d] + 1
         /\ \A e \in Databases \ {d} : missed'[e] = missed[e]
<1>1. missed[d] \in 0..MaxMissed /\ missed[d] < MaxMissed
  BY DEF Miss, TypeInv, TypeOK
<1>2. missed[d] + 1 \in 0..MaxMissed
  BY <1>1, Bounds
<1> QED BY <1>2 DEF Miss, TypeInv, TypeOK

LEMMA RequestType ==
  ASSUME TypeInv,
         Request \/ (\E j \in CronJobs, d \in Databases : RunScheduledBackup(j, d))
  PROVE  TypeInv'
<1>0. /\ NoName \in Names \cup {NoName}
      /\ "manual" \in Types /\ "auto" \in Types
      /\ SafetyLabel \in AllLabels /\ AutoLabel \in AllLabels /\ Labels \subseteq AllLabels
      /\ UserJobs \subseteq Jobs /\ CronJobs \subseteq Jobs
  BY DEF Types, AllLabels, Jobs
<1>1. ASSUME NEW j \in UserJobs, NEW d \in Databases, NEW l \in Labels,
             CreateBackup(j, d, l)
      PROVE  TypeInv'
  <2>1. StartDump(j, l, d, "manual", NoName) /\ l \in AllLabels /\ j \in Jobs
    BY <1>0, <1>1 DEF CreateBackup
  <2> QED BY <1>0, <1>1, <2>1, StartDumpType DEF CreateBackup, TypeInv, TypeOK, plan
<1>2. ASSUME NEW j \in UserJobs, NEW d \in Databases, NEW f \in Names,
             RestoreBackup(j, d, f)
      PROVE  TypeInv'
  <2>1. StartDump(j, SafetyLabel, d, "manual", f) /\ j \in Jobs
    BY <1>0, <1>2 DEF RestoreBackup
  <2> QED BY <1>0, <1>2, <2>1, StartDumpType DEF RestoreBackup, TypeInv, TypeOK, plan
<1>3. ASSUME NEW j \in CronJobs, NEW d \in Databases, RunScheduledBackup(j, d)
      PROVE  TypeInv'
  <2>1. StartDump(j, AutoLabel, d, "auto", NoName) /\ j \in Jobs
    BY <1>0, <1>3 DEF RunScheduledBackup
  <2> QED BY <1>0, <1>3, <2>1, StartDumpType DEF RunScheduledBackup, TypeInv, TypeOK, table
<1>4. ASSUME NEW f \in Names, DeleteBackup(f)
      PROVE  TypeInv'
  <2>1. \A j \in Jobs : LET r == [job[j] EXCEPT !.gone = @ \/ job[j].name = f] IN
          r \in Job /\ r.pc = job[j].pc /\ r.name = job[j].name
    BY DEF TypeInv, TypeOK, Job
  <2> QED BY <1>4, <2>1 DEF DeleteBackup, TypeInv, TypeOK, Named, Dumping, plan
<1>5. ASSUME NEW d \in Databases, NEW on \in BOOLEAN, NEW w \in WindowInputs,
             SaveSchedule(d, on, w)
      PROVE  TypeInv'
  <2>1. Clamped(w) \in 1..MaxWindow
    BY Bounds DEF Clamped
  <2>2. [enabled |-> on, window |-> Clamped(w), status |-> "none"] \in Schedule
    BY <2>1 DEF Schedule
  <2>3. schedules' \in Schedules
    BY <1>5, <2>2 DEF SaveSchedule, TypeInv, TypeOK, Schedules
  <2>4. saved' \in Schedules \cup {Lost} /\ unsaved' \in BOOLEAN
    BY <1>5, <2>3 DEF SaveSchedule, Saved, TypeInv, TypeOK
  <2> QED BY <1>5, <2>3, <2>4 DEF SaveSchedule, TypeInv, TypeOK, Named, Dumping, files
<1> QED BY <1>1, <1>2, <1>3, <1>4, <1>5 DEF Request

LEMMA JobStepType ==
  ASSUME TypeInv, NEW j \in Jobs, JobStep(j)
  PROVE  TypeInv'
<1>0. job[j] \in Job
  BY DEF TypeInv, TypeOK
<1>1. CASE DumpEnds(j)
  <2>1. job' \in [Jobs -> Job] /\ Named'
    BY <1>1, AfterDumpType DEF DumpEnds
  <2>2. job[j].name \in Names
    BY <1>1 DEF DumpEnds, TypeInv, Named
  <2> QED BY <1>1, <2>1, <2>2 DEF DumpEnds, TypeInv, TypeOK, plan
<1>2. CASE FallBack(j)
  <2> DEFINE r == [job[j] EXCEPT !.pc = "docker", !.gone = FALSE]
  <2>1. job[j].name \in Names
    BY <1>2 DEF FallBack, TypeInv, Named, Dumping
  <2>2. r \in Job /\ r.name \in Names
    BY <1>0, <2>1 DEF Job
  <2>3. job' = [job EXCEPT ![j] = r]
    BY <1>0, <1>2 DEF FallBack, TypeInv, TypeOK, Job
  <2> HIDE DEF r
  <2>4. job' \in [Jobs -> Job] /\ Named'
    BY <2>2, <2>3, MoveType
  <2> QED BY <1>2, <2>1, <2>4, OpenedType DEF FallBack, TypeInv, TypeOK, plan
<1>3. CASE DumpFails(j)
  <2>1. job' \in [Jobs -> Job] /\ Named'
    BY <1>3, AfterDumpType DEF DumpFails
  <2>2. /\ disk' \in [Names -> {"absent", "partial", "torn", "complete"}]
        /\ missed' \in [Databases -> 0..MaxMissed]
    BY <1>0, <1>3, MissCounts DEF DumpFails, Job, TypeInv, TypeOK
  <2> QED BY <1>3, <2>1, <2>2 DEF DumpFails, TypeInv, TypeOK, plan
<1>4. CASE Prune(j)
  <2> DEFINE r == [job[j] EXCEPT !.pc = "report"]
  <2>1. r \in Job /\ r.pc = "report"
    BY <1>0 DEF Job
  <2>2. job' = [job EXCEPT ![j] = r]
    BY <1>4 DEF Prune
  <2> HIDE DEF r
  <2>3. job' \in [Jobs -> Job] /\ Named'
    BY <2>1, <2>2, MoveType
  <2>4. disk' \in [Names -> {"absent", "partial", "torn", "complete"}]
    BY <1>4 DEF Prune, TypeInv, TypeOK
  <2>5. acked' \subseteq Names
    BY <1>4 DEF Prune, TypeInv, TypeOK
  <2>6. missed' \in [Databases -> 0..MaxMissed]
    <3>1. job[j].db \in Databases /\ 0 \in 0..MaxMissed
      BY <1>0, Bounds DEF Job
    <3>2. missed' = [missed EXCEPT ![job[j].db] = 0] \/ Miss(job[j].db)
      BY <1>4 DEF Prune
    <3> QED BY <3>1, <3>2, MissCounts DEF TypeInv, TypeOK
  <2> QED BY <1>4, <2>3, <2>4, <2>5, <2>6 DEF Prune, TypeInv, TypeOK, plan
<1>5. CASE Report(j)
  <2>1. job' \in [Jobs -> Job] /\ Named'
    BY <1>5, FinishType DEF Report
  <2>2. schedules' \in Schedules /\ saved' \in Schedules \cup {Lost} /\ unsaved' \in BOOLEAN
    <3> DEFINE d == job[j].db
    <3>1. CASE schedules[d] = NoSchedule
      BY <1>5, <3>1 DEF Report, TypeInv, TypeOK, table
    <3>2. CASE schedules[d] # NoSchedule
      <4>1. d \in Databases /\ schedules[d] \in Schedule
        BY <1>0, <3>2 DEF Job, TypeInv, TypeOK, Schedules
      <4> DEFINE v == IF job[j].ok THEN "success" ELSE "failed"
      <4>2. [schedules[d] EXCEPT !.status = v] \in Schedule
        BY <4>1 DEF Schedule
      <4>3. schedules' = [schedules EXCEPT ![d].status = v]
        BY <1>5, <3>2 DEF Report
      <4>4. schedules' \in Schedules
        BY <4>1, <4>2, <4>3 DEF TypeInv, TypeOK, Schedules
      <4> QED BY <1>5, <3>2, <4>4 DEF Report, Saved, TypeInv, TypeOK
    <3> QED BY <3>1, <3>2
  <2> QED BY <1>5, <2>1, <2>2 DEF Report, TypeInv, TypeOK, files
<1>6. CASE RestoreRuns(j)
  <2>1. job' \in [Jobs -> Job] /\ Named'
    BY <1>6, FinishType DEF RestoreRuns
  <2>2. misled' \subseteq Databases
    BY <1>0, <1>6 DEF RestoreRuns, TypeInv, TypeOK, Job
  <2> QED BY <1>6, <2>1, <2>2 DEF RestoreRuns, TypeInv, TypeOK, files, plan
<1> QED BY <1>1, <1>2, <1>3, <1>4, <1>5, <1>6 DEF JobStep

LEMMA TypeInvariant == Spec => []TypeInv
<1>1. Init => TypeInv
  <2>1. 0 \in 0..MaxMissed /\ 0 \in 0..MaxTime /\ 0 \in 0..MaxCrashes
    BY Bounds
  <2> QED BY <2>1, IdleType DEF Init, TypeInv, TypeOK, Named, Dumping, Schedules
<1>2. TypeInv /\ [Next]_vars => TypeInv'
  <2> SUFFICES ASSUME TypeInv, [Next]_vars PROVE TypeInv'
    OBVIOUS
  <2>1. CASE Clock
    <3>1. now \in 0..MaxTime /\ now < MaxTime /\ now' = now + 1
      BY <2>1 DEF Clock, TypeInv, TypeOK
    <3>2. now' \in 0..MaxTime
      BY <3>1, Bounds
    <3> QED BY <2>1, <3>2 DEF Clock, TypeInv, TypeOK, Named, Dumping, files, table
  <2>2. CASE Crash
    <3>1. Loaded \in Schedules
      BY DEF Loaded, TypeInv, TypeOK, Schedules
    <3>2. job' \in [Jobs -> Job] /\ Named'
      BY <2>2, IdleType DEF Crash, Named, Dumping
    <3>3. crashes' \in 0..MaxCrashes
      <4>1. crashes \in 0..MaxCrashes /\ crashes < MaxCrashes /\ crashes' = crashes + 1
        BY <2>2 DEF Crash, TypeInv, TypeOK
      <4> QED BY <4>1, Bounds
    <3> QED BY <2>2, <3>1, <3>2, <3>3 DEF Crash, TypeInv, TypeOK, files
  <2>3. CASE UNCHANGED vars
    BY <2>3 DEF vars, TypeInv, TypeOK, Named, Dumping
  <2> QED BY <2>1, <2>2, <2>3, RequestType, JobStepType DEF Next
<1> QED BY <1>1, <1>2, PTL DEF Spec

\* Files, jobs and schedules keep their shape, and no window is below one,
\* whatever overlaps, collides, fails or is lost.
THEOREM TypeCorrect == Spec => []TypeOK
BY TypeInvariant, PTL DEF TypeInv

----------------------------------------------------------------------------
(* Manual backups *)

\* No label or database has a "__" in it, and no two dumps are made to the same
\* file.
Plain ==
  /\ ~SameSecond
  /\ \A p \in Databases \cup AllLabels : Len(p) = 1

\* Then pruning takes a file for what it is.
LEMMA PlainType ==
  ASSUME Plain, NEW f \in Names
  PROVE  ParsedType(f) = TypeOf(f)
<1>1. PICK l \in AllLabels, d \in Databases, ty \in Types, t \in 0..MaxTime :
        f = NameOf(l, d, ty, t)
  BY DEF Names, AllLabels
<1>2. l \in Seq(STRING) /\ d \in Seq(STRING) /\ Len(l) = 1 /\ Len(d) = 1
  BY PartsType DEF Plain, AllLabels
<1>3. Len(f.parts) = 3
  <2>1. Len(f.parts) = Len(l) + Len(d) + 1
    BY <1>1, NameOfBackup
  <2> QED BY <1>2, <2>1
<1> QED BY <1>3 DEF ParsedType, TypeOf

\* Two dumps never write to one file.
Distinct ==
  \A j, k \in Jobs :
    Dumping(j) /\ Dumping(k) /\ job[j].name = job[k].name => j = k

\* A manual dump writes to a file nobody was told of yet.
Unreported ==
  \A j \in Jobs :
    Dumping(j) /\ TypeOf(job[j].name) = "manual" =>
      /\ job[j].name \notin acked
      /\ job[j].gone \/ disk[job[j].name] = "partial"

ManualInv == ManualStays /\ Distinct /\ Unreported

\* What StartDump does to the files.
LEMMA StartDumpManual ==
  ASSUME Plain, TypeInv, ManualInv, NEW j \in Jobs, NEW l \in AllLabels, NEW d \in Databases,
         NEW ty \in Types, NEW source \in Names \cup {NoName},
         StartDump(j, l, d, ty, source), acked' = acked
  PROVE  ManualInv'
<1> DEFINE f == NameOf(l, d, ty, now)
           r == [pc |-> "native", type |-> ty, db |-> d, name |-> f,
                 source |-> source, ok |-> FALSE, gone |-> FALSE]
<1>1. f \in Names
  BY NameOfBackup DEF TypeInv, TypeOK
<1>2. disk[f] = "absent" /\ \A k \in Jobs : job[k].name # f
  BY DEF StartDump, Plain
<1>3. job' = [job EXCEPT ![j] = r] /\ disk' = Opened(j, f)
  BY DEF StartDump
<1>4. disk' = [disk EXCEPT ![f] = "partial"]
  BY <1>2, <1>3 DEF Opened
<1>5. r.pc = "native" /\ r.name = f
  OBVIOUS
<1> HIDE DEF r, f
<1>6. /\ job'[j] = r
      /\ \A k \in Jobs \ {j} : job'[k] = job[k]
  BY <1>3 DEF TypeInv, TypeOK
<1>7. /\ disk'[f] = "partial"
      /\ \A g \in Names \ {f} : disk'[g] = disk[g]
  BY <1>1, <1>4 DEF TypeInv, TypeOK
<1>8. ManualStays'
  BY <1>2, <1>7 DEF ManualInv, ManualStays, TypeInv, TypeOK
<1>9. Distinct'
  BY <1>2, <1>5, <1>6 DEF ManualInv, Distinct, Dumping
<1>10. Unreported'
  <2>1. TypeOf(f) = "manual" => f \notin acked
    BY <1>1, <1>2 DEF ManualInv, ManualStays
  <2>2. ASSUME NEW k \in Jobs \ {j}, Dumping(k)', TypeOf(job'[k].name) = "manual"
        PROVE  /\ job'[k].name \notin acked'
               /\ job'[k].gone \/ disk'[job'[k].name] = "partial"
    <3>1. Dumping(k) /\ job[k].name \in Names
      BY <1>6, <2>2 DEF Dumping, TypeInv, Named
    <3> QED BY <1>2, <1>6, <1>7, <2>2, <3>1 DEF ManualInv, Unreported
  <2> QED BY <1>5, <1>6, <1>7, <2>1, <2>2 DEF Unreported
<1> QED BY <1>8, <1>9, <1>10 DEF ManualInv

\* A job that stops dumping, files of others staying as they are.
LEMMA StopDumpManual ==
  ASSUME TypeInv, ManualInv, NEW j \in Jobs, NEW F \in SUBSET Names,
         \A k \in Jobs \ {j} : job'[k] = job[k],
         ~Dumping(j)',
         \A k \in Jobs \ {j} : Dumping(k) => job[k].name \notin F,
         \A f \in Names \ F : disk'[f] = disk[f],
         acked' \subseteq acked \cup F,
         \A f \in F : f \in acked' /\ TypeOf(f) = "manual" => disk'[f] = "complete"
  PROVE  ManualInv'
<1>1. ManualStays'
  BY DEF ManualInv, ManualStays, TypeInv, TypeOK
<1>2. \A k \in Jobs : Dumping(k)' => k # j /\ Dumping(k)
  BY DEF Dumping
<1>3. Distinct'
  BY <1>2 DEF ManualInv, Distinct
<1>4. Unreported'
  <2>1. ASSUME NEW k \in Jobs, Dumping(k)', TypeOf(job'[k].name) = "manual"
        PROVE  /\ job'[k].name \notin acked'
               /\ job'[k].gone \/ disk'[job'[k].name] = "partial"
    <3>1. Dumping(k) /\ job'[k] = job[k] /\ job[k].name \in Names \ F
      BY <1>2, <2>1 DEF TypeInv, Named
    <3> QED BY <2>1, <3>1 DEF ManualInv, Unreported
  <2> QED BY <2>1 DEF Unreported
<1> QED BY <1>1, <1>3, <1>4 DEF ManualInv

\* Where AfterDump sends a job it no longer dumps.
LEMMA AfterDumpStops ==
  ASSUME TypeInv, NEW j \in Jobs, NEW ok \in BOOLEAN, AfterDump(j, ok)
  PROVE  ~Dumping(j)' /\ \A k \in Jobs \ {j} : job'[k] = job[k]
<1>1. CASE Finish(j)
  BY <1>1, IdleType DEF Finish, Dumping, TypeInv, TypeOK
<1>2. CASE job' = [job EXCEPT ![j].pc = "restore"]
  BY <1>2 DEF Dumping, TypeInv, TypeOK, Job
<1>3. CASE job' = [job EXCEPT ![j].pc = IF ok THEN "prune" ELSE "report", ![j].ok = ok]
  BY <1>3 DEF Dumping, TypeInv, TypeOK, Job
<1> QED BY <1>1, <1>2, <1>3 DEF AfterDump

LEMMA RequestManual ==
  ASSUME Plain, TypeInv, ManualInv,
         Request \/ (\E j \in CronJobs, d \in Databases : RunScheduledBackup(j, d))
  PROVE  ManualInv'
<1>0. /\ NoName \in Names \cup {NoName}
      /\ "manual" \in Types /\ "auto" \in Types
      /\ SafetyLabel \in AllLabels /\ AutoLabel \in AllLabels /\ Labels \subseteq AllLabels
      /\ UserJobs \subseteq Jobs /\ CronJobs \subseteq Jobs
  BY DEF Types, AllLabels, Jobs
<1>1. ASSUME NEW j \in UserJobs, NEW d \in Databases, NEW l \in Labels,
             CreateBackup(j, d, l)
      PROVE  ManualInv'
  <2>1. StartDump(j, l, d, "manual", NoName) /\ l \in AllLabels /\ j \in Jobs /\ acked' = acked
    BY <1>0, <1>1 DEF CreateBackup
  <2> QED BY <1>0, <2>1, StartDumpManual
<1>2. ASSUME NEW j \in UserJobs, NEW d \in Databases, NEW f \in Names,
             RestoreBackup(j, d, f)
      PROVE  ManualInv'
  <2>1. StartDump(j, SafetyLabel, d, "manual", f) /\ j \in Jobs /\ acked' = acked
    BY <1>0, <1>2 DEF RestoreBackup
  <2> QED BY <1>0, <2>1, StartDumpManual
<1>3. ASSUME NEW j \in CronJobs, NEW d \in Databases, RunScheduledBackup(j, d)
      PROVE  ManualInv'
  <2>1. StartDump(j, AutoLabel, d, "auto", NoName) /\ j \in Jobs /\ acked' = acked
    BY <1>0, <1>3 DEF RunScheduledBackup
  <2> QED BY <1>0, <2>1, StartDumpManual
<1>4. ASSUME NEW f \in Names, DeleteBackup(f)
      PROVE  ManualInv'
  <2>1. \A k \in Jobs : /\ job'[k].pc = job[k].pc /\ job'[k].name = job[k].name
                        /\ job'[k].gone = (job[k].gone \/ job[k].name = f)
    BY <1>4 DEF DeleteBackup, TypeInv, TypeOK, Job
  <2>2. acked' = acked \ {f} /\ \A g \in Names \ {f} : disk'[g] = disk[g]
    BY <1>4 DEF DeleteBackup, TypeInv, TypeOK
  <2>3. ManualStays'
    BY <2>2 DEF ManualInv, ManualStays, TypeInv, TypeOK
  <2>4. Distinct'
    BY <2>1 DEF ManualInv, Distinct, Dumping
  <2>5. Unreported'
    <3>1. ASSUME NEW k \in Jobs, Dumping(k)', TypeOf(job'[k].name) = "manual"
          PROVE  /\ job'[k].name \notin acked'
                 /\ job'[k].gone \/ disk'[job'[k].name] = "partial"
      <4>1. Dumping(k) /\ job[k].name \in Names
        BY <2>1, <3>1 DEF Dumping, TypeInv, Named
      <4> QED BY <2>1, <2>2, <3>1, <4>1 DEF ManualInv, Unreported
    <3> QED BY <3>1 DEF Unreported
  <2> QED BY <2>3, <2>4, <2>5 DEF ManualInv
<1>5. ASSUME NEW d \in Databases, NEW on \in BOOLEAN, NEW w \in WindowInputs,
             SaveSchedule(d, on, w)
      PROVE  ManualInv'
  BY <1>5 DEF SaveSchedule, ManualInv, ManualStays, Distinct, Unreported, Dumping, files
<1> QED BY <1>1, <1>2, <1>3, <1>4, <1>5 DEF Request

LEMMA JobStepManual ==
  ASSUME Plain, TypeInv, ManualInv, NEW j \in Jobs, JobStep(j)
  PROVE  ManualInv'
<1> DEFINE f == job[j].name
<1>0. job[j] \in Job
  BY DEF TypeInv, TypeOK
<1>1. CASE DumpEnds(j)
  <2>1. Dumping(j) /\ f \in Names
    BY <1>1 DEF DumpEnds, TypeInv, Named
  <2>2. /\ ~Dumping(j)'
        /\ \A k \in Jobs \ {j} : job'[k] = job[k]
    BY <1>1, AfterDumpStops DEF DumpEnds
  <2>3. \A k \in Jobs \ {j} : Dumping(k) => job[k].name \notin {f}
    BY <2>1 DEF ManualInv, Distinct
  <2>4. \A g \in Names \ {f} : disk'[g] = disk[g]
    BY <1>1 DEF DumpEnds, TypeInv, TypeOK
  <2>5. acked' \subseteq acked \cup {f}
    BY <1>1 DEF DumpEnds
  <2>6. f \in acked' /\ TypeOf(f) = "manual" => disk'[f] = "complete"
    BY <1>1, <2>1 DEF DumpEnds, ManualInv, Unreported, TypeInv, TypeOK
  <2> HIDE DEF f
  <2>7. {f} \in SUBSET Names
    BY <2>1
  <2> QED BY <2>2, <2>3, <2>4, <2>5, <2>6, <2>7, StopDumpManual
<1>2. CASE FallBack(j)
  <2>1. Dumping(j) /\ f \in Names
    BY <1>2 DEF FallBack, Dumping, TypeInv, Named
  <2>2. \A k \in Jobs \ {j} : Dumping(k) => job[k].name # f
    BY <2>1 DEF ManualInv, Distinct
  <2>3. disk' = [disk EXCEPT ![f] = "partial"]
    BY <1>2, <2>2 DEF FallBack, Opened
  <2>4. /\ \A k \in Jobs : job'[k].name = job[k].name
        /\ \A k \in Jobs \ {j} : job'[k] = job[k]
        /\ job'[j].pc = "docker"
        /\ acked' = acked
    BY <1>0, <1>2 DEF FallBack, TypeInv, TypeOK, Job
  <2>5. TypeOf(f) = "manual" => f \notin acked
    BY <2>1 DEF ManualInv, Unreported
  <2> HIDE DEF f
  <2>6. disk'[f] = "partial" /\ \A g \in Names \ {f} : disk'[g] = disk[g]
    BY <2>1, <2>3 DEF TypeInv, TypeOK
  <2>7. ManualStays'
    BY <2>4, <2>5, <2>6 DEF ManualInv, ManualStays, TypeInv, TypeOK
  <2>8. \A k \in Jobs : Dumping(k)' <=> Dumping(k)
    BY <2>1, <2>4 DEF Dumping
  <2>9. Distinct'
    BY <2>4, <2>8 DEF ManualInv, Distinct
  <2>10. Unreported'
    <3>1. ASSUME NEW k \in Jobs, Dumping(k)', TypeOf(job'[k].name) = "manual"
          PROVE  /\ job'[k].name \notin acked'
                 /\ job'[k].gone \/ disk'[job'[k].name] = "partial"
      <4>1. Dumping(k) /\ job[k].name \in Names
        BY <2>8, <3>1 DEF TypeInv, Named
      <4>2. CASE k = j
        BY <2>4, <2>5, <2>6, <3>1, <4>2 DEF f
      <4>3. CASE k # j
        BY <2>2, <2>4, <2>6, <3>1, <4>1, <4>3 DEF ManualInv, Unreported
      <4> QED BY <4>2, <4>3
    <3> QED BY <3>1 DEF Unreported
  <2> QED BY <2>7, <2>9, <2>10 DEF ManualInv
<1>3. CASE DumpFails(j)
  <2>1. Dumping(j) /\ f \in Names
    BY <1>3 DEF DumpFails, Dumping, TypeInv, Named
  <2>2. /\ ~Dumping(j)'
        /\ \A k \in Jobs \ {j} : job'[k] = job[k]
    BY <1>3, AfterDumpStops DEF DumpFails
  <2>3. \A k \in Jobs \ {j} : Dumping(k) => job[k].name \notin {f}
    BY <2>1 DEF ManualInv, Distinct
  <2>4. \A g \in Names \ {f} : disk'[g] = disk[g]
    BY <1>3 DEF DumpFails, TypeInv, TypeOK
  <2>5. acked' = acked
    BY <1>3 DEF DumpFails
  <2>6. TypeOf(f) = "manual" => f \notin acked
    BY <2>1 DEF ManualInv, Unreported
  <2> HIDE DEF f
  <2>7. {f} \in SUBSET Names
    BY <2>1
  <2> QED BY <2>2, <2>3, <2>4, <2>5, <2>6, <2>7, StopDumpManual
<1>4. CASE Prune(j)
  <2>1. job'[j].pc = "report" /\ \A k \in Jobs \ {j} : job'[k] = job[k]
    BY <1>4 DEF Prune, TypeInv, TypeOK, Job
  <2>2. /\ \A k \in Jobs : Dumping(k)' <=> Dumping(k)
        /\ \A k \in Jobs : Dumping(k) => job'[k] = job[k]
    BY <1>4, <2>1 DEF Dumping, Prune
  <2>3. PICK removed \in SUBSET AutoBackups(job[j].db) :
          /\ disk' = [g \in Names |-> IF g \in removed THEN "absent" ELSE disk[g]]
          /\ acked' \subseteq acked
    BY <1>4 DEF Prune
  <2>4. \A g \in AutoBackups(job[j].db) : TypeOf(g) # "manual"
    BY PlainType DEF AutoBackups, OnDisk
  <2>5. \A g \in Names : TypeOf(g) = "manual" => disk'[g] = disk[g]
    BY <2>3, <2>4
  <2>6. ManualStays'
    BY <2>3, <2>5 DEF ManualInv, ManualStays, TypeInv, TypeOK
  <2>7. Distinct'
    BY <2>2 DEF ManualInv, Distinct
  <2>8. Unreported'
    BY <2>2, <2>3, <2>5 DEF ManualInv, Unreported, TypeInv, Named
  <2> QED BY <2>6, <2>7, <2>8 DEF ManualInv
<1>5. CASE Report(j) \/ RestoreRuns(j)
  <2>1. Finish(j) /\ disk' = disk /\ acked' = acked
    BY <1>5 DEF Report, RestoreRuns, files
  <2>2. ~Dumping(j)' /\ \A k \in Jobs \ {j} : job'[k] = job[k]
    BY <2>1, IdleType DEF Finish, Dumping, TypeInv, TypeOK
  <2>3. {} \in SUBSET Names
    OBVIOUS
  <2> QED BY <2>1, <2>2, <2>3, StopDumpManual
<1> QED BY <1>1, <1>2, <1>3, <1>4, <1>5 DEF JobStep

LEMMA ManualInvariant == ASSUME Plain PROVE Spec => []ManualInv
<1>1. Init => ManualInv
  BY IdleType DEF Init, ManualInv, ManualStays, Distinct, Unreported, Dumping
<1>2. TypeInv /\ ManualInv /\ [Next]_vars => ManualInv'
  <2> SUFFICES ASSUME TypeInv, ManualInv, [Next]_vars PROVE ManualInv'
    OBVIOUS
  <2>1. CASE Clock
    BY <2>1 DEF Clock, ManualInv, ManualStays, Distinct, Unreported, Dumping, files
  <2>2. CASE Crash
    <3>1. \A k \in Jobs : ~Dumping(k)'
      BY <2>2, IdleType DEF Crash, Dumping
    <3> QED BY <2>2, <3>1 DEF Crash, ManualInv, ManualStays, Distinct, Unreported, files
  <2>3. CASE UNCHANGED vars
    BY <2>3 DEF vars, ManualInv, ManualStays, Distinct, Unreported, Dumping
  <2> QED BY <2>1, <2>2, <2>3, RequestManual, JobStepManual DEF Next
<1> QED BY <1>1, <1>2, TypeInvariant, PTL DEF Spec

\* With plain labels and database names and no two dumps in one second, a manual
\* backup that was reported as made stays whole until a user deletes it, with any
\* number of jobs, failed dumps, torn schedules files and crashes.
THEOREM ManualCorrect == ASSUME Plain PROVE Spec => []ManualStays
<1>1. Spec => []ManualInv
  BY ManualInvariant
<1>2. ManualInv => ManualStays
  BY DEF ManualInv
<1> QED BY <1>1, <1>2, PTL

----------------------------------------------------------------------------
(* The window *)

\* No label or database has a "__" in it.
OnePart == \A p \in Databases \cup AllLabels : Len(p) = 1

\* What is counted is finite, too.
Counted ==
  /\ OnePart
  /\ IsFiniteSet(Names)
  /\ IsFiniteSet(CronJobs)

\* What is put last is last.
LEMMA LastPart ==
  ASSUME NEW S, NEW p \in Seq(S), NEW c \in S
  PROVE  (p \o <<c>>)[Len(p) + 1] = c
BY ConcatProperties

\* A name of three parts.
LEMMA ThreeParts ==
  ASSUME NEW S, NEW a \in Seq(S), NEW b \in Seq(S), NEW c \in S, Len(a) = 1, Len(b) = 1
  PROVE  /\ Len(a \o b \o <<c>>) = 3
         /\ (a \o b \o <<c>>)[2] = b[1]
         /\ (a \o b \o <<c>>)[3] = c
<1> DEFINE x == b[1]
<1>1. x \in S /\ b = <<x>>
  OBVIOUS
<1> HIDE DEF x
<1> DEFINE p == a \o <<x>>
<1>2. p \in Seq(S) /\ Len(p) = 2
  <2>1. <<x>> \in Seq(S) /\ Len(<<x>>) = 1
    BY <1>1
  <2>2. a \o <<x>> \in Seq(S) /\ Len(a \o <<x>>) = Len(a) + Len(<<x>>)
    BY <2>1, ConcatProperties, Zenon
  <2> QED BY <2>1, <2>2
<1>3. p[Len(a) + 1] = x
  BY <1>1, LastPart
<1> HIDE DEF p
<1>4. /\ Len(p \o <<c>>) = 3
      /\ (p \o <<c>>)[2] = p[2]
      /\ (p \o <<c>>)[3] = c
  BY <1>2, ConcatProperties, SMTT(30)
<1>5. p[2] = x
  BY <1>3
<1> QED BY <1>1, <1>4, <1>5 DEF p, x

\* Then the name of a scheduled backup tells its database and its type.
LEMMA ScheduledNames ==
  ASSUME OnePart, NEW d \in Databases, NEW f \in Names, f.parts = ScheduledName(d)
  PROVE  /\ ParsedDatabase(f) = d /\ ParsedType(f) = "auto" /\ TypeOf(f) = "auto"
         /\ ParsedTime(f) = f.at
<1> DEFINE S == STRING \cup Types
<1>1. AutoLabel \in Seq(STRING) /\ d \in Seq(STRING)
  BY PartsType
<1>2. Len(AutoLabel) = 1 /\ Len(d) = 1
  BY DEF OnePart, AllLabels
<1>3. STRING \subseteq S /\ "auto" \in S
  BY DEF Types
<1> HIDE DEF S
<1>4. AutoLabel \in Seq(S) /\ d \in Seq(S)
  BY <1>1, <1>3, LargerSeq
<1>5. Len(f.parts) = 3 /\ f.parts[2] = d[1] /\ f.parts[3] = "auto"
  BY <1>2, <1>3, <1>4, ThreeParts DEF ScheduledName
<1>6. <<d[1]>> = d
  BY <1>1, <1>2
<1> QED BY <1>5, <1>6 DEF ParsedDatabase, ParsedType, ParsedTime, TypeOf

\* What a job j with record r may be: only cron makes automatic backups, and a
\* dump writes to a file whose name says what it is.
Honest(j, r) ==
  /\ r.type = "auto" /\ r.pc # "idle" => j \in CronJobs /\ r.source = NoName
  /\ r.pc = "prune" => r.type = "auto"
  /\ r.pc \in {"native", "docker"} =>
       \/ r.type = "auto" /\ r.name.parts = ScheduledName(r.db)
       \/ r.type = "manual" /\ TypeOf(r.name) = "manual"

HonestInv == \A j \in Jobs : Honest(j, job[j])

\* Scheduled backups nobody writes to any more, and the runs they came from
\* that have not pruned yet.
Settled(d) == {f \in Scheduled(d) : \A j \in Jobs : Dumping(j) => job[j].name # f}
Pruning(d) == {j \in Jobs : job[j].pc = "prune" /\ job[j].db = d}
Writing(d) == {j \in Jobs : Dumping(j) /\ job[j].db = d /\ job[j].type = "auto"}

Bound(d) ==
  Cardinality(Settled(d))
    <= MaxWindow + Cardinality(Pruning(d)) + crashes * Cardinality(CronJobs) + missed[d]

BoundInv == HonestInv /\ \A d \in Databases : Bound(d)

\* The sets that are counted are finite.
LEMMA CountedSets ==
  ASSUME Counted, TypeInv, HonestInv, NEW d \in Databases
  PROVE  /\ IsFiniteSet(Scheduled(d)) /\ IsFiniteSet(Settled(d))
         /\ Pruning(d) \subseteq CronJobs /\ IsFiniteSet(Pruning(d))
         /\ Writing(d) \subseteq CronJobs /\ IsFiniteSet(Writing(d))
         /\ Pruning(d) \cap Writing(d) = {}
<1>1. Scheduled(d) \in SUBSET Names /\ Settled(d) \in SUBSET Names
  BY DEF Scheduled, Settled, OnDisk
<1>2. Pruning(d) \in SUBSET CronJobs /\ Writing(d) \in SUBSET CronJobs
  BY DEF HonestInv, Honest, Pruning, Writing, Dumping
<1>3. Pruning(d) \cap Writing(d) = {}
  BY DEF Pruning, Writing, Dumping
<1> QED BY <1>1, <1>2, <1>3, FS_Subset DEF Counted

\* A scheduled backup somebody writes to belongs to a run of its database.
LEMMA WrittenByRun ==
  ASSUME Counted, TypeInv, HonestInv, NEW d \in Databases,
         NEW f \in Scheduled(d), NEW j \in Jobs, Dumping(j), job[j].name = f
  PROVE  j \in Writing(d)
<1>1. f \in Names /\ f.parts = ScheduledName(d)
  BY DEF Scheduled, OnDisk
<1>2. ParsedDatabase(f) = d /\ TypeOf(f) = "auto"
  BY <1>1, ScheduledNames DEF Counted
<1>3. job[j].type = "auto" /\ f.parts = ScheduledName(job[j].db)
  BY <1>2 DEF HonestInv, Honest, Dumping
<1>4. job[j].db \in Databases
  BY DEF TypeInv, TypeOK, Job
<1>5. ParsedDatabase(f) = job[j].db
  BY <1>1, <1>3, <1>4, ScheduledNames DEF Counted
<1> QED BY <1>2, <1>3, <1>5 DEF Writing

\* There are no more files that are written to than runs that write.
LEMMA AllScheduled ==
  ASSUME Counted, TypeInv, HonestInv, NEW d \in Databases
  PROVE  Cardinality(Scheduled(d)) <= Cardinality(Settled(d)) + Cardinality(Writing(d))
<1> DEFINE open == Scheduled(d) \ Settled(d)
           writers == {j \in Writing(d) : job[j].name \in open}
           w == [j \in writers |-> job[j].name]
<1>1. IsFiniteSet(Scheduled(d)) /\ IsFiniteSet(Settled(d)) /\ IsFiniteSet(Writing(d))
  BY CountedSets
<1>2. \A f \in open : \E j \in writers : w[j] = f
  BY WrittenByRun DEF Settled
<1>3. w \in [writers -> open]
  OBVIOUS
<1>4. w \in Surjection(writers, open)
  BY <1>2, <1>3 DEF Surjection
<1>5. writers \in SUBSET Writing(d)
  OBVIOUS
<1> HIDE DEF w, writers
<1>6. IsFiniteSet(writers) /\ Cardinality(writers) <= Cardinality(Writing(d))
  BY <1>1, <1>5, FS_Subset
<1>7. IsFiniteSet(open) /\ Cardinality(open) <= Cardinality(writers)
  BY <1>4, <1>6, FS_Surjection
<1>8. Scheduled(d) = Settled(d) \cup open
  BY DEF Settled
<1> HIDE DEF open
<1>9. Cardinality(Scheduled(d))
        = Cardinality(Settled(d)) + Cardinality(open) - Cardinality(Settled(d) \cap open)
  BY <1>1, <1>7, <1>8, FS_Union
<1>10. Settled(d) \cap open \in SUBSET open
  OBVIOUS
<1>11. IsFiniteSet(Settled(d) \cap open)
  BY <1>7, <1>10, FS_Subset
<1>12. /\ Cardinality(Settled(d)) \in Nat /\ Cardinality(open) \in Nat
       /\ Cardinality(Settled(d) \cap open) \in Nat
       /\ Cardinality(writers) \in Nat /\ Cardinality(Writing(d)) \in Nat
  BY <1>1, <1>6, <1>7, <1>11, FS_CardinalityType
<1> QED BY <1>6, <1>7, <1>9, <1>12

\* Replacing a job by one that is honest.
LEMMA HonestMove ==
  ASSUME TypeInv, HonestInv, NEW j \in Jobs, NEW r, Honest(j, r),
         job' = [job EXCEPT ![j] = r]
  PROVE  HonestInv'
<1>1. job'[j] = r /\ \A k \in Jobs \ {j} : job'[k] = job[k]
  BY DEF TypeInv, TypeOK
<1>2. \A k \in Jobs : Honest(k, job'[k])
  BY <1>1 DEF HonestInv
<1> QED BY <1>2 DEF HonestInv, Honest

LEMMA IdleHonest ==
  ASSUME NEW j \in Jobs
  PROVE  Honest(j, Idle) /\ Idle.pc = "idle"
BY DEF Honest, Idle

LEMMA StartDumpHonest ==
  ASSUME TypeInv, HonestInv, NEW j \in Jobs, NEW l \in AllLabels, NEW d \in Databases,
         NEW ty \in Types, NEW source, StartDump(j, l, d, ty, source),
         ty = "auto" => j \in CronJobs /\ source = NoName /\ l = AutoLabel
  PROVE  HonestInv'
<1> DEFINE f == NameOf(l, d, ty, now)
           r == [pc |-> "native", type |-> ty, db |-> d, name |-> f,
                 source |-> source, ok |-> FALSE, gone |-> FALSE]
<1>1. TypeOf(f) = ty
  BY NameOfBackup DEF TypeInv, TypeOK
<1>2. ty = "auto" => f.parts = ScheduledName(d)
  BY DEF NameOf, ScheduledName
<1> HIDE DEF f
<1>3. Honest(j, r)
  BY <1>1, <1>2 DEF Honest, Types
<1>4. job' = [job EXCEPT ![j] = r]
  BY DEF StartDump, f
<1> HIDE DEF r
<1> QED BY <1>3, <1>4, HonestMove

\* What AfterDump makes of a job.
LEMMA AfterDumpRecord ==
  ASSUME TypeInv, HonestInv, NEW j \in Jobs, NEW ok \in BOOLEAN,
         Dumping(j), AfterDump(j, ok)
  PROVE  \E r \in Job :
           /\ job' = [job EXCEPT ![j] = r]
           /\ Honest(j, r)
           /\ r.pc \notin {"native", "docker"}
           /\ r.pc = "prune" <=> job[j].type = "auto" /\ ok
           /\ \/ r.pc = "idle"
              \/ /\ r.type = job[j].type /\ r.db = job[j].db
                 /\ r.name = job[j].name /\ r.gone = job[j].gone
<1>0. job[j] \in Job /\ Honest(j, job[j]) /\ job \in [Jobs -> Job]
  BY DEF TypeInv, TypeOK, HonestInv
<1>1. CASE job[j].source # NoName
  <2> DEFINE r == [job[j] EXCEPT !.pc = "restore"]
  <2>1. /\ r \in Job /\ r.pc = "restore" /\ r.db = job[j].db /\ r.type = job[j].type
        /\ r.name = job[j].name /\ r.gone = job[j].gone
    BY <1>0 DEF Job
  <2>2. job[j].type # "auto"
    BY <1>0, <1>1 DEF Honest, Dumping
  <2>3. job' = [job EXCEPT ![j] = r]
    BY <1>1 DEF AfterDump
  <2> HIDE DEF r
  <2>4. Honest(j, r)
    BY <2>1, <2>2 DEF Honest
  <2> QED BY <2>1, <2>2, <2>3, <2>4
<1>2. CASE job[j].source = NoName /\ job[j].type = "manual"
  <2>1. job' = [job EXCEPT ![j] = Idle]
    BY <1>2 DEF AfterDump, Finish
  <2> QED BY <1>2, <2>1, IdleHonest, IdleType
<1>3. CASE job[j].source = NoName /\ job[j].type # "manual"
  <2> DEFINE pc == IF ok THEN "prune" ELSE "report"
             r == [job[j] EXCEPT !.pc = pc, !.ok = ok]
  <2>1. job[j].type = "auto"
    BY <1>0, <1>3 DEF Job, Types
  <2>2. /\ r \in Job /\ r.pc = pc /\ r.db = job[j].db /\ r.type = "auto"
        /\ r.source = NoName /\ r.name = job[j].name /\ r.gone = job[j].gone
    BY <1>0, <1>3, <2>1 DEF Job
  <2>3. job' = [job EXCEPT ![j] = r]
    BY <1>0, <1>3 DEF AfterDump, Job
  <2>4. pc \in {"prune", "report"} /\ (pc = "prune" <=> ok)
    OBVIOUS
  <2> HIDE DEF r, pc
  <2>5. j \in CronJobs
    BY <1>0, <2>1 DEF Honest, Dumping
  <2>6. Honest(j, r)
    BY <2>2, <2>4, <2>5 DEF Honest
  <2> QED BY <2>1, <2>2, <2>3, <2>4, <2>6
<1> QED BY <1>1, <1>2, <1>3

LEMMA RequestHonest ==
  ASSUME TypeInv, HonestInv,
         Request \/ (\E j \in CronJobs, d \in Databases : RunScheduledBackup(j, d))
  PROVE  HonestInv'
<1>0. /\ "manual" \in Types /\ "auto" \in Types /\ "manual" # "auto"
      /\ SafetyLabel \in AllLabels /\ AutoLabel \in AllLabels /\ Labels \subseteq AllLabels
      /\ UserJobs \subseteq Jobs /\ CronJobs \subseteq Jobs
  BY DEF Types, AllLabels, Jobs
<1>1. ASSUME NEW j \in UserJobs, NEW d \in Databases, NEW l \in Labels,
             CreateBackup(j, d, l)
      PROVE  HonestInv'
  <2>1. StartDump(j, l, d, "manual", NoName) /\ l \in AllLabels /\ j \in Jobs
    BY <1>0, <1>1 DEF CreateBackup
  <2> QED BY <1>0, <2>1, StartDumpHonest
<1>2. ASSUME NEW j \in UserJobs, NEW d \in Databases, NEW f \in Names,
             RestoreBackup(j, d, f)
      PROVE  HonestInv'
  <2>1. StartDump(j, SafetyLabel, d, "manual", f) /\ j \in Jobs
    BY <1>0, <1>2 DEF RestoreBackup
  <2> QED BY <1>0, <2>1, StartDumpHonest
<1>3. ASSUME NEW j \in CronJobs, NEW d \in Databases, RunScheduledBackup(j, d)
      PROVE  HonestInv'
  <2>1. StartDump(j, AutoLabel, d, "auto", NoName) /\ j \in Jobs
    BY <1>0, <1>3 DEF RunScheduledBackup
  <2> QED BY <1>0, <2>1, StartDumpHonest
<1>4. ASSUME NEW f \in Names, DeleteBackup(f)
      PROVE  HonestInv'
  <2>1. \A k \in Jobs : /\ job'[k].pc = job[k].pc /\ job'[k].name = job[k].name
                        /\ job'[k].type = job[k].type /\ job'[k].db = job[k].db
                        /\ job'[k].source = job[k].source
    BY <1>4 DEF DeleteBackup, TypeInv, TypeOK, Job
  <2> QED BY <2>1 DEF HonestInv, Honest
<1>5. ASSUME NEW d \in Databases, NEW on \in BOOLEAN, NEW w \in WindowInputs,
             SaveSchedule(d, on, w)
      PROVE  HonestInv'
  BY <1>5 DEF SaveSchedule, HonestInv, Honest
<1> QED BY <1>1, <1>2, <1>3, <1>4, <1>5 DEF Request

LEMMA JobStepHonest ==
  ASSUME TypeInv, HonestInv, NEW j \in Jobs, JobStep(j)
  PROVE  HonestInv'
<1>0. job[j] \in Job /\ Honest(j, job[j])
  BY DEF TypeInv, TypeOK, HonestInv
<1>1. CASE DumpEnds(j) \/ DumpFails(j)
  <2>1. PICK ok \in BOOLEAN : Dumping(j) /\ AfterDump(j, ok)
    BY <1>1 DEF DumpEnds, DumpFails, Dumping
  <2>2. PICK r \in Job : job' = [job EXCEPT ![j] = r] /\ Honest(j, r)
    BY <2>1, AfterDumpRecord
  <2> QED BY <2>2, HonestMove
<1>2. CASE FallBack(j)
  <2> DEFINE r == [job[j] EXCEPT !.pc = "docker", !.gone = FALSE]
  <2>1. job' = [job EXCEPT ![j] = r] /\ job[j].pc = "native"
    BY <1>0, <1>2 DEF FallBack, TypeInv, TypeOK, Job
  <2>2. /\ r.pc = "docker" /\ r.type = job[j].type /\ r.source = job[j].source
        /\ r.db = job[j].db /\ r.name = job[j].name
    BY <1>0 DEF Job
  <2> HIDE DEF r
  <2>3. Honest(j, r)
    BY <1>0, <2>1, <2>2 DEF Honest
  <2> QED BY <2>1, <2>3, HonestMove
<1>3. CASE Prune(j)
  <2> DEFINE r == [job[j] EXCEPT !.pc = "report"]
  <2>1. job' = [job EXCEPT ![j] = r] /\ job[j].pc = "prune"
    BY <1>3 DEF Prune
  <2>2. r.pc = "report" /\ r.type = job[j].type /\ r.source = job[j].source
    BY <1>0 DEF Job
  <2> HIDE DEF r
  <2>3. Honest(j, r)
    BY <1>0, <2>1, <2>2 DEF Honest
  <2> QED BY <2>1, <2>3, HonestMove
<1>4. CASE Report(j) \/ RestoreRuns(j)
  BY <1>4, IdleHonest, HonestMove DEF Report, RestoreRuns, Finish
<1> QED BY <1>1, <1>2, <1>3, <1>4 DEF JobStep

\* A database keeps its bound when no file of it gets settled and none of its
\* runs stops being about to prune.
LEMMA BoundKept ==
  ASSUME Counted, TypeInv, HonestInv, HonestInv', TypeInv', NEW d \in Databases, Bound(d),
         Settled(d)' \subseteq Settled(d),
         Pruning(d) \subseteq Pruning(d)',
         crashes' = crashes, missed'[d] >= missed[d]
  PROVE  Bound(d)'
<1> DEFINE s == Settled(d)
           t == Settled(d)'
           p == Pruning(d)
           q == Pruning(d)'
           m == crashes * Cardinality(CronJobs)
           x == missed[d]
           y == missed'[d]
<1>1. IsFiniteSet(s) /\ IsFiniteSet(p)
  BY CountedSets
<1>2. q \in SUBSET CronJobs
  BY DEF Pruning, HonestInv, Honest
<1>3. IsFiniteSet(q)
  BY <1>2, FS_Subset DEF Counted
<1> HIDE DEF s, t, p, q
<1>4. t \in SUBSET s /\ p \in SUBSET q
  BY DEF s, t, p, q
<1>5. Cardinality(t) <= Cardinality(s) /\ Cardinality(p) <= Cardinality(q) /\ IsFiniteSet(t)
  BY <1>1, <1>3, <1>4, FS_Subset
<1>6. /\ Cardinality(s) \in Nat /\ Cardinality(t) \in Nat
      /\ Cardinality(p) \in Nat /\ Cardinality(q) \in Nat
      /\ Cardinality(CronJobs) \in Nat /\ crashes \in Nat /\ MaxWindow \in Nat
  BY <1>1, <1>3, <1>5, FS_CardinalityType, Bounds DEF Counted, TypeInv, TypeOK
<1>7. m \in Nat
  BY <1>6
<1>10. x \in Nat /\ y \in Nat /\ y >= x
  BY DEF TypeInv, TypeOK
<1> HIDE DEF m, x, y
<1>8. Cardinality(s) <= MaxWindow + Cardinality(p) + m + x
  BY DEF Bound, s, p, m, x
<1>9. Cardinality(t) <= MaxWindow + Cardinality(q) + m + y
  BY <1>5, <1>6, <1>7, <1>8, <1>10
<1> QED BY <1>9 DEF Bound, t, q, m, y

\* A set with an element more.
LEMMA OneMore ==
  ASSUME NEW S, IsFiniteSet(S), NEW e
  PROVE  /\ Cardinality(S) \in Nat
         /\ IsFiniteSet(S \cup {e}) /\ Cardinality(S \cup {e}) \in Nat
         /\ Cardinality(S \cup {e}) <= Cardinality(S) + 1
<1>1. IsFiniteSet(S \cup {e}) /\ Cardinality(S) \in Nat /\ Cardinality(S \cup {e}) \in Nat
  BY FS_AddElement, FS_CardinalityType
<1>2. Cardinality(S \cup {e}) = IF e \in S THEN Cardinality(S) ELSE Cardinality(S) + 1
  BY FS_AddElement
<1> QED BY <1>1, <1>2

\* So does one when a file gets settled whose run is about to prune.
LEMMA BoundGrows ==
  ASSUME Counted, TypeInv, NEW d \in Databases, Bound(d), NEW f, NEW j,
         IsFiniteSet(Settled(d)), IsFiniteSet(Pruning(d)),
         Settled(d)' \subseteq Settled(d) \cup {f},
         Pruning(d)' = Pruning(d) \cup {j},
         j \notin Pruning(d),
         crashes' = crashes, missed'[d] = missed[d]
  PROVE  Bound(d)'
<1> DEFINE s == Settled(d)
           t == Settled(d)'
           p == Pruning(d)
           q == Pruning(d)'
           m == crashes * Cardinality(CronJobs)
           x == missed[d]
<1>0. IsFiniteSet(s) /\ IsFiniteSet(p) /\ t \in SUBSET (s \cup {f}) /\ q = p \cup {j} /\ j \notin p
  OBVIOUS
<1> HIDE DEF s, t, p, q
<1>1. /\ IsFiniteSet(s \cup {f}) /\ Cardinality(s \cup {f}) <= Cardinality(s) + 1
  <2>1. Cardinality(s) \in Nat
    BY <1>0, FS_CardinalityType
  <2>2. IsFiniteSet(s \cup {f})
    BY <1>0, FS_AddElement
  <2>3. Cardinality(s \cup {f}) = IF f \in s THEN Cardinality(s) ELSE Cardinality(s) + 1
    BY <1>0, FS_AddElement
  <2> QED BY <2>1, <2>2, <2>3
<1>2. IsFiniteSet(t) /\ Cardinality(t) <= Cardinality(s \cup {f})
  BY <1>0, <1>1, FS_Subset
<1>3. Cardinality(q) = Cardinality(p) + 1
  BY <1>0, FS_AddElement
<1>4. /\ Cardinality(s) \in Nat /\ Cardinality(t) \in Nat /\ Cardinality(s \cup {f}) \in Nat
      /\ Cardinality(p) \in Nat
      /\ Cardinality(CronJobs) \in Nat /\ crashes \in Nat /\ MaxWindow \in Nat
  BY <1>0, <1>1, <1>2, FS_CardinalityType, Bounds DEF Counted, TypeInv, TypeOK
<1>5. m \in Nat /\ x \in Nat
  BY <1>4 DEF TypeInv, TypeOK
<1> HIDE DEF m, x
<1>6. Cardinality(s) <= MaxWindow + Cardinality(p) + m + x
  BY DEF Bound, s, p, m, x
<1>7. Cardinality(t) <= MaxWindow + Cardinality(q) + m + x
  BY <1>1, <1>2, <1>3, <1>4, <1>5, <1>6
<1> QED BY <1>7 DEF Bound, t, q, m, x

\* And one with a removal that failed: a file more is settled, or a run less is
\* about to prune.
LEMMA BoundMissed ==
  ASSUME Counted, TypeInv, TypeInv', HonestInv, HonestInv', NEW d \in Databases, Bound(d),
         NEW f, NEW j,
         crashes' = crashes, missed'[d] = missed[d] + 1,
         \/ Settled(d)' \subseteq Settled(d) \cup {f} /\ Pruning(d) \subseteq Pruning(d)'
         \/ Settled(d)' \subseteq Settled(d) /\ Pruning(d) \subseteq Pruning(d)' \cup {j}
  PROVE  Bound(d)'
<1> DEFINE s == Settled(d)
           t == Settled(d)'
           p == Pruning(d)
           q == Pruning(d)'
           m == crashes * Cardinality(CronJobs)
           x == missed[d]
<1>1. IsFiniteSet(s) /\ IsFiniteSet(p)
  BY CountedSets
<1>2. q \in SUBSET CronJobs
  BY DEF Pruning, HonestInv, Honest
<1>3. IsFiniteSet(q)
  BY <1>2, FS_Subset DEF Counted
<1>4. m \in Nat /\ x \in Nat /\ MaxWindow \in Nat
  <2>1. crashes \in Nat /\ Cardinality(CronJobs) \in Nat
    BY FS_CardinalityType, Bounds DEF Counted, TypeInv, TypeOK
  <2> QED BY <2>1, Bounds DEF TypeInv, TypeOK
<1>5. Cardinality(s) <= MaxWindow + Cardinality(p) + m + x
  BY DEF Bound
<1>6. \/ t \subseteq s \cup {f} /\ p \subseteq q
      \/ t \subseteq s /\ p \subseteq q \cup {j}
  OBVIOUS
<1> HIDE DEF s, t, p, q, m, x
<1>7. /\ Cardinality(s) \in Nat /\ Cardinality(p) \in Nat /\ Cardinality(q) \in Nat
      /\ IsFiniteSet(s \cup {f}) /\ IsFiniteSet(q \cup {j})
      /\ Cardinality(s \cup {f}) \in Nat /\ Cardinality(q \cup {j}) \in Nat
      /\ Cardinality(s \cup {f}) <= Cardinality(s) + 1
      /\ Cardinality(q \cup {j}) <= Cardinality(q) + 1
  BY <1>1, <1>3, OneMore
<1>8. CASE t \subseteq s \cup {f} /\ p \subseteq q
  <2>1. /\ Cardinality(t) <= Cardinality(s \cup {f}) /\ Cardinality(p) <= Cardinality(q)
        /\ IsFiniteSet(t)
    BY <1>3, <1>7, <1>8, FS_Subset
  <2>2. Cardinality(t) \in Nat
    BY <2>1, FS_CardinalityType
  <2>3. Cardinality(t) <= MaxWindow + Cardinality(q) + m + (x + 1)
    BY <1>4, <1>5, <1>7, <2>1, <2>2
  <2> QED BY <2>3 DEF Bound, t, q, m, x
<1>9. CASE t \subseteq s /\ p \subseteq q \cup {j}
  <2>1. /\ Cardinality(t) <= Cardinality(s) /\ Cardinality(p) <= Cardinality(q \cup {j})
        /\ IsFiniteSet(t)
    BY <1>1, <1>7, <1>9, FS_Subset
  <2>2. Cardinality(t) \in Nat
    BY <2>1, FS_CardinalityType
  <2>3. Cardinality(t) <= MaxWindow + Cardinality(q) + m + (x + 1)
    BY <1>4, <1>5, <1>7, <2>1, <2>2
  <2> QED BY <2>3 DEF Bound, t, q, m, x
<1> QED BY <1>6, <1>8, <1>9

LEMMA StartDumpBound ==
  ASSUME Counted, TypeInv, TypeInv', BoundInv, NEW j \in Jobs, NEW l \in AllLabels,
         NEW d \in Databases, NEW ty \in Types, NEW source, StartDump(j, l, d, ty, source),
         ty = "auto" => j \in CronJobs /\ source = NoName /\ l = AutoLabel,
         crashes' = crashes, missed' = missed
  PROVE  BoundInv'
<1> DEFINE f == NameOf(l, d, ty, now)
           r == [pc |-> "native", type |-> ty, db |-> d, name |-> f,
                 source |-> source, ok |-> FALSE, gone |-> FALSE]
<1>1. HonestInv'
  BY StartDumpHonest DEF BoundInv
<1>2. job' = [job EXCEPT ![j] = r] /\ disk' = Opened(j, f) /\ ~Running(j)
  BY DEF StartDump
<1>3. r.pc = "native" /\ r.name = f
  OBVIOUS
<1> HIDE DEF r, f
<1>4. job'[j] = r /\ \A k \in Jobs \ {j} : job'[k] = job[k]
  BY <1>2 DEF TypeInv, TypeOK
<1>5. \A g \in Names \ {f} : disk'[g] = disk[g]
  BY <1>2 DEF Opened, TypeInv, TypeOK
<1>6. ASSUME NEW e \in Databases
      PROVE  Settled(e)' \subseteq Settled(e) /\ Pruning(e) \subseteq Pruning(e)'
  <2>1. ASSUME NEW g \in Settled(e)' PROVE g \in Settled(e)
    <3>1. g \in Names /\ g # f /\ disk'[g] # "absent" /\ g.parts = ScheduledName(e)
      BY <1>3, <1>4 DEF Settled, Scheduled, OnDisk, Dumping
    <3>2. \A k \in Jobs : Dumping(k) => job[k].name # g
      BY <1>2, <1>4, <2>1 DEF Settled, Dumping, Running
    <3> QED BY <1>5, <3>1, <3>2 DEF Settled, Scheduled, OnDisk
  <2>2. Pruning(e) \subseteq Pruning(e)'
    BY <1>2, <1>4 DEF Pruning, Running
  <2> QED BY <2>1, <2>2
<1>7. \A e \in Databases : missed'[e] >= missed[e]
  BY DEF TypeInv, TypeOK
<1> QED BY <1>1, <1>6, <1>7, BoundKept DEF BoundInv

\* Deleting files, and whatever leaves the jobs' dumps alone.
LEMMA DumpsAlone ==
  ASSUME Counted, TypeInv, TypeInv', BoundInv, crashes' = crashes, missed' = missed,
         \A k \in Jobs : /\ job'[k].pc = job[k].pc /\ job'[k].name = job[k].name
                         /\ job'[k].type = job[k].type /\ job'[k].db = job[k].db
                         /\ job'[k].source = job[k].source,
         \A f \in Names : disk'[f] # "absent" => disk[f] # "absent"
  PROVE  BoundInv'
<1>1. HonestInv'
  BY DEF BoundInv, HonestInv, Honest
<1>2. ASSUME NEW e \in Databases
      PROVE  Settled(e)' \subseteq Settled(e) /\ Pruning(e) \subseteq Pruning(e)'
  <2>1. Scheduled(e)' \subseteq Scheduled(e)
    BY DEF Scheduled, OnDisk
  <2>2. Settled(e)' \subseteq Settled(e)
    BY <2>1 DEF Settled, Dumping
  <2> QED BY <2>2 DEF Pruning
<1>3. \A e \in Databases : missed'[e] >= missed[e]
  BY DEF TypeInv, TypeOK
<1> QED BY <1>1, <1>2, <1>3, BoundKept DEF BoundInv

LEMMA RequestBound ==
  ASSUME Counted, TypeInv, TypeInv', BoundInv,
         Request \/ (\E j \in CronJobs, d \in Databases : RunScheduledBackup(j, d))
  PROVE  BoundInv'
<1>0. /\ "manual" \in Types /\ "auto" \in Types /\ "manual" # "auto"
      /\ SafetyLabel \in AllLabels /\ AutoLabel \in AllLabels /\ Labels \subseteq AllLabels
      /\ UserJobs \subseteq Jobs /\ CronJobs \subseteq Jobs
  BY DEF Types, AllLabels, Jobs
<1>1. ASSUME NEW j \in UserJobs, NEW d \in Databases, NEW l \in Labels,
             CreateBackup(j, d, l)
      PROVE  BoundInv'
  <2>1. /\ StartDump(j, l, d, "manual", NoName)
        /\ l \in AllLabels /\ j \in Jobs /\ UNCHANGED <<crashes, missed>>
    BY <1>0, <1>1 DEF CreateBackup
  <2> QED BY <1>0, <2>1, StartDumpBound
<1>2. ASSUME NEW j \in UserJobs, NEW d \in Databases, NEW f \in Names,
             RestoreBackup(j, d, f)
      PROVE  BoundInv'
  <2>1. StartDump(j, SafetyLabel, d, "manual", f) /\ j \in Jobs /\ UNCHANGED <<crashes, missed>>
    BY <1>0, <1>2 DEF RestoreBackup
  <2> QED BY <1>0, <2>1, StartDumpBound
<1>3. ASSUME NEW j \in CronJobs, NEW d \in Databases, RunScheduledBackup(j, d)
      PROVE  BoundInv'
  <2>1. StartDump(j, AutoLabel, d, "auto", NoName) /\ j \in Jobs /\ UNCHANGED <<crashes, missed>>
    BY <1>0, <1>3 DEF RunScheduledBackup
  <2> QED BY <1>0, <2>1, StartDumpBound
<1>4. ASSUME NEW f \in Names, DeleteBackup(f)
      PROVE  BoundInv'
  <2>1. \A k \in Jobs : /\ job'[k].pc = job[k].pc /\ job'[k].name = job[k].name
                        /\ job'[k].type = job[k].type /\ job'[k].db = job[k].db
                        /\ job'[k].source = job[k].source
    BY <1>4 DEF DeleteBackup, TypeInv, TypeOK, Job
  <2>2. \A g \in Names : disk'[g] # "absent" => disk[g] # "absent"
    BY <1>4 DEF DeleteBackup, TypeInv, TypeOK
  <2> QED BY <1>4, <2>1, <2>2, DumpsAlone DEF DeleteBackup
<1>5. ASSUME NEW d \in Databases, NEW on \in BOOLEAN, NEW w \in WindowInputs,
             SaveSchedule(d, on, w)
      PROVE  BoundInv'
  BY <1>5, DumpsAlone DEF SaveSchedule, files
<1> QED BY <1>1, <1>2, <1>3, <1>4, <1>5 DEF Request

\* A job that stops being a dump and is about to prune only if it had made one; the file of one that
\* failed is removed, or missed.
LEMMA DumpStops ==
  ASSUME Counted, TypeInv, TypeInv', BoundInv, NEW j \in Jobs, NEW ok \in BOOLEAN,
         Dumping(j), AfterDump(j, ok), crashes' = crashes,
         \A f \in Names \ {job[j].name} : disk'[f] = disk[f],
         \/ missed' = missed /\ (disk'[job[j].name] # "absent" => ok)
         \/ Miss(job[j].db)
  PROVE  BoundInv'
<1> DEFINE f == job[j].name
<1>1. PICK r \in Job : /\ job' = [job EXCEPT ![j] = r]
                       /\ Honest(j, r)
                       /\ r.pc \notin {"native", "docker"}
                       /\ r.pc = "prune" <=> job[j].type = "auto" /\ ok
                       /\ r.pc = "idle" \/ r.db = job[j].db
  BY AfterDumpRecord DEF BoundInv
<1>2. HonestInv'
  BY <1>1, HonestMove DEF BoundInv
<1>3. job'[j] = r /\ \A k \in Jobs \ {j} : job'[k] = job[k]
  BY <1>1 DEF TypeInv, TypeOK
<1>4. job[j].db \in Databases /\ \A d \in Databases : missed'[d] >= missed[d]
  <2>1. job[j].db \in Databases
    BY DEF TypeInv, TypeOK, Job
  <2> QED BY <2>1, MissCounts DEF TypeInv, TypeOK
<1>5. ASSUME NEW d \in Databases PROVE Bound(d)'
  <2>1. Pruning(d) \subseteq Pruning(d)'
    BY <1>3 DEF Pruning, Dumping
  <2>2. \A g \in Settled(d)' : g = f \/ g \in Settled(d)
    <3> SUFFICES ASSUME NEW g \in Settled(d)', g # f PROVE g \in Settled(d)
      OBVIOUS
    <3>1. g \in Names /\ disk[g] # "absent" /\ g.parts = ScheduledName(d)
      BY DEF Settled, Scheduled, OnDisk
    <3>2. \A k \in Jobs : Dumping(k) => job[k].name # g
      BY <1>3 DEF Settled, Dumping
    <3> QED BY <3>1, <3>2 DEF Settled, Scheduled, OnDisk
  <2>3. CASE f \notin Settled(d)'
    <3>1. Settled(d)' \subseteq Settled(d)
      BY <2>2, <2>3
    <3> QED BY <1>2, <1>4, <2>1, <3>1, BoundKept DEF BoundInv
  <2>4. CASE f \in Settled(d)'
    <3>1. f \in Names /\ disk'[f] # "absent" /\ f.parts = ScheduledName(d)
      BY <2>4 DEF Settled, Scheduled, OnDisk
    <3>2. TypeOf(f) = "auto" /\ ParsedDatabase(f) = d
      BY <3>1, ScheduledNames DEF Counted
    <3>3. job[j].type = "auto" /\ f.parts = ScheduledName(job[j].db)
      BY <3>2 DEF BoundInv, HonestInv, Honest, Dumping
    <3>4. job[j].db = d
      BY <1>4, <3>1, <3>2, <3>3, ScheduledNames DEF Counted
    <3>5. Settled(d)' \subseteq Settled(d) \cup {f}
      BY <2>2
    <3>6. CASE missed' = missed /\ ok
      <4>1. r.pc = "prune" /\ r.db = d
        BY <1>1, <3>3, <3>4, <3>6
      <4>2. Pruning(d)' = Pruning(d) \cup {j} /\ j \notin Pruning(d)
        BY <1>3, <4>1 DEF Pruning, Dumping
      <4>3. IsFiniteSet(Settled(d)) /\ IsFiniteSet(Pruning(d))
        BY CountedSets DEF BoundInv
      <4> QED BY <3>5, <3>6, <4>2, <4>3, BoundGrows DEF BoundInv
    <3>7. CASE Miss(job[j].db)
      <4>1. missed'[d] = missed[d] + 1
        BY <3>4, <3>7, MissCounts
      <4> QED BY <1>2, <2>1, <3>5, <4>1, BoundMissed DEF BoundInv
    <3> QED BY <3>1, <3>6, <3>7
  <2> QED BY <2>3, <2>4
<1> QED BY <1>2, <1>5 DEF BoundInv

LEMMA PruneBound ==
  ASSUME Counted, TypeInv, TypeInv', BoundInv, NEW j \in Jobs, Prune(j)
  PROVE  BoundInv'
<1>0. job[j] \in Job /\ Honest(j, job[j]) /\ job[j].pc = "prune"
  BY DEF TypeInv, TypeOK, BoundInv, HonestInv, Prune
<1> PICK e \in Databases : e = job[j].db
  BY <1>0 DEF Job
<1> DEFINE candidates == AutoBackups(e)
           r == [job[j] EXCEPT !.pc = "report"]
<1>1. PICK keep \in SUBSET candidates, removed \in SUBSET candidates :
        /\ removed \subseteq candidates \ keep
        /\ IF Cardinality(candidates) <= Window(e)
           THEN keep = candidates
           ELSE Cardinality(keep) = Window(e)
        /\ IF removed = candidates \ keep
           THEN missed' = [missed EXCEPT ![e] = 0]
           ELSE Miss(e)
        /\ disk' = [f \in Names |-> IF f \in removed THEN "absent" ELSE disk[f]]
  BY DEF Prune
<1>2. job' = [job EXCEPT ![j] = r] /\ crashes' = crashes
  BY DEF Prune
<1>3. r.pc = "report" /\ r.type = job[j].type /\ r.source = job[j].source /\ r.db = e
  BY <1>0 DEF Job
<1> HIDE DEF r
<1>4. Honest(j, r)
  BY <1>0, <1>3 DEF Honest
<1>5. HonestInv'
  BY <1>2, <1>4, HonestMove DEF BoundInv
<1>6. job'[j] = r /\ \A k \in Jobs \ {j} : job'[k] = job[k]
  BY <1>2 DEF TypeInv, TypeOK
<1>7. ASSUME NEW d \in Databases PROVE Settled(d)' \subseteq Settled(d)
  <2> SUFFICES ASSUME NEW g \in Settled(d)' PROVE g \in Settled(d)
    OBVIOUS
  <2>1. g \in Names /\ disk[g] # "absent" /\ g.parts = ScheduledName(d)
    BY <1>1 DEF Settled, Scheduled, OnDisk
  <2>2. \A k \in Jobs : Dumping(k) => job[k].name # g
    BY <1>0, <1>6 DEF Settled, Dumping
  <2> QED BY <2>1, <2>2 DEF Settled, Scheduled, OnDisk
<1>8. ASSUME NEW d \in Databases, d # e PROVE Bound(d)'
  <2>1. Pruning(d) \subseteq Pruning(d)'
    BY <1>6, <1>8 DEF Pruning
  <2>2. missed'[d] >= missed[d]
    BY <1>1, <1>8, MissCounts DEF TypeInv, TypeOK
  <2> QED BY <1>2, <1>5, <1>7, <2>1, <2>2, BoundKept DEF BoundInv
<1>9. CASE removed # candidates \ keep
  <2>1. missed'[e] = missed[e] + 1
    BY <1>1, <1>9, MissCounts
  <2>2. Pruning(e) \subseteq Pruning(e)' \cup {j}
    BY <1>6 DEF Pruning
  <2>3. Bound(e)'
    BY <1>2, <1>5, <1>7, <2>1, <2>2, BoundMissed DEF BoundInv
  <2> QED BY <1>5, <1>8, <2>3 DEF BoundInv
<1>10. CASE removed = candidates \ keep
  <2> DEFINE t == Settled(e)'
             q == Pruning(e)'
             m == crashes' * Cardinality(CronJobs)
  <2>1. t \subseteq keep
    <3> SUFFICES ASSUME NEW g \in t PROVE g \in keep
      OBVIOUS
    <3>1. /\ g \in Names /\ disk[g] # "absent" /\ g.parts = ScheduledName(e)
          /\ g \notin candidates \ keep
      BY <1>1, <1>10 DEF Settled, Scheduled, OnDisk
    <3>2. g \in candidates
      BY <1>0, <3>1, ScheduledNames DEF AutoBackups, OnDisk, Counted
    <3> QED BY <3>1, <3>2
  <2>2. candidates \in SUBSET Names
    BY DEF AutoBackups, OnDisk
  <2>3. Window(e) \in Nat /\ Window(e) <= MaxWindow
    BY <1>0, Bounds DEF Window, TypeInv, TypeOK, Schedules, Schedule
  <2>4. q \in SUBSET CronJobs
    BY <1>5 DEF Pruning, HonestInv, Honest
  <2> HIDE DEF t, q, candidates
  <2>5. IsFiniteSet(candidates)
    BY <2>2, FS_Subset DEF Counted
  <2>6. IsFiniteSet(keep)
    BY <2>5, FS_Subset
  <2>7. Cardinality(keep) <= Window(e)
    BY <1>1, <2>3
  <2>8. IsFiniteSet(t) /\ Cardinality(t) <= Cardinality(keep)
    BY <2>1, <2>6, FS_Subset
  <2>9. IsFiniteSet(q)
    BY <2>4, FS_Subset DEF Counted
  <2>10. /\ Cardinality(t) \in Nat /\ Cardinality(keep) \in Nat /\ Cardinality(q) \in Nat
         /\ Cardinality(CronJobs) \in Nat /\ crashes' \in Nat /\ MaxWindow \in Nat
    BY <2>6, <2>8, <2>9, FS_CardinalityType, Bounds DEF Counted, TypeInv, TypeOK
  <2>11. m \in Nat
    BY <2>10
  <2> HIDE DEF m
  <2>12. Cardinality(t) <= MaxWindow + Cardinality(q) + m + 0
    BY <2>3, <2>7, <2>8, <2>10, <2>11
  <2>13. missed'[e] = 0
    BY <1>1, <1>10 DEF TypeInv, TypeOK
  <2>14. Bound(e)'
    BY <2>12, <2>13 DEF Bound, t, q, m
  <2> QED BY <1>5, <1>8, <2>14 DEF BoundInv
<1> QED BY <1>9, <1>10

LEMMA JobStepBound ==
  ASSUME Counted, TypeInv, TypeInv', BoundInv, NEW j \in Jobs, JobStep(j)
  PROVE  BoundInv'
<1> DEFINE f == job[j].name
<1>0. job[j] \in Job /\ Honest(j, job[j])
  BY DEF TypeInv, TypeOK, BoundInv, HonestInv
<1>1. CASE DumpEnds(j)
  <2>1. \A g \in Names \ {f} : disk'[g] = disk[g]
    BY <1>1 DEF DumpEnds, TypeInv, TypeOK
  <2>2. Dumping(j) /\ AfterDump(j, TRUE) /\ UNCHANGED <<crashes, missed>>
    BY <1>1 DEF DumpEnds
  <2> QED BY <2>1, <2>2, DumpStops
<1>2. CASE DumpFails(j)
  <2>1. Dumping(j) /\ AfterDump(j, FALSE) /\ crashes' = crashes
    BY <1>2 DEF DumpFails, Dumping
  <2>2. f \in Names
    BY <2>1 DEF TypeInv, Named
  <2>3. /\ \A g \in Names \ {f} : disk'[g] = disk[g]
        /\ (missed' = missed /\ disk'[f] = "absent") \/ Miss(job[j].db)
    BY <1>2, <2>2 DEF DumpFails, TypeInv, TypeOK
  <2> QED BY <2>1, <2>3, DumpStops
<1>3. CASE FallBack(j)
  <2> DEFINE r == [job[j] EXCEPT !.pc = "docker", !.gone = FALSE]
  <2>1. job' = [job EXCEPT ![j] = r] /\ UNCHANGED <<crashes, missed>>
    BY <1>0, <1>3 DEF FallBack, TypeInv, TypeOK, Job
  <2>2. /\ r.pc = "docker" /\ r.type = job[j].type /\ r.source = job[j].source
        /\ r.db = job[j].db /\ r.name = f
    BY <1>0 DEF Job
  <2>3. job[j].pc = "native"
    BY <1>3 DEF FallBack
  <2> HIDE DEF r
  <2>4. Honest(j, r)
    BY <1>0, <2>2, <2>3 DEF Honest
  <2>5. HonestInv'
    BY <2>1, <2>4, HonestMove DEF BoundInv
  <2>6. job'[j] = r /\ \A k \in Jobs \ {j} : job'[k] = job[k]
    BY <2>1 DEF TypeInv, TypeOK
  <2>7. \A g \in Names \ {f} : disk'[g] = disk[g]
    BY <1>3 DEF FallBack, Opened, TypeInv, TypeOK
  <2>8. ASSUME NEW d \in Databases
        PROVE  Settled(d)' \subseteq Settled(d) /\ Pruning(d) \subseteq Pruning(d)'
    <3>1. ASSUME NEW g \in Settled(d)' PROVE g \in Settled(d)
      <4>1. g \in Names /\ g # f /\ disk'[g] # "absent" /\ g.parts = ScheduledName(d)
        BY <2>2, <2>6 DEF Settled, Scheduled, OnDisk, Dumping
      <4>2. \A k \in Jobs : Dumping(k) => job[k].name # g
        BY <2>6, <3>1, <4>1 DEF Settled, Dumping
      <4> QED BY <2>7, <4>1, <4>2 DEF Settled, Scheduled, OnDisk
    <3>2. Pruning(d) \subseteq Pruning(d)'
      BY <2>3, <2>6 DEF Pruning
    <3> QED BY <3>1, <3>2
  <2>9. \A d \in Databases : missed'[d] >= missed[d]
    BY <2>1 DEF TypeInv, TypeOK
  <2> QED BY <2>1, <2>5, <2>8, <2>9, BoundKept DEF BoundInv
<1>4. CASE Report(j) \/ RestoreRuns(j)
  <2>1. /\ job' = [job EXCEPT ![j] = Idle] /\ UNCHANGED <<crashes, missed, disk>>
        /\ job[j].pc \in {"report", "restore"}
    BY <1>4 DEF Report, RestoreRuns, Finish, files
  <2>2. HonestInv'
    BY <2>1, IdleHonest, HonestMove DEF BoundInv
  <2>3. job'[j].pc = "idle" /\ \A k \in Jobs \ {j} : job'[k] = job[k]
    BY <2>1, IdleType DEF TypeInv, TypeOK
  <2>4. ASSUME NEW d \in Databases
        PROVE  Settled(d)' \subseteq Settled(d) /\ Pruning(d) \subseteq Pruning(d)'
    <3>1. Scheduled(d)' = Scheduled(d)
      BY <2>1 DEF Scheduled, OnDisk
    <3>2. Settled(d)' \subseteq Settled(d)
      BY <2>1, <2>3, <3>1 DEF Settled, Dumping
    <3>3. Pruning(d) \subseteq Pruning(d)'
      BY <2>1, <2>3 DEF Pruning
    <3> QED BY <3>2, <3>3
  <2>5. \A d \in Databases : missed'[d] >= missed[d]
    BY <2>1 DEF TypeInv, TypeOK
  <2> QED BY <2>1, <2>2, <2>4, <2>5, BoundKept DEF BoundInv
<1> QED BY <1>1, <1>2, <1>3, <1>4, PruneBound DEF JobStep

\* Runs that write and runs about to prune are all runs of cron.
LEMMA RunsAdd ==
  ASSUME Counted, TypeInv, HonestInv, NEW d \in Databases, NEW R \in SUBSET CronJobs,
         Pruning(d) \subseteq R, Writing(d) \subseteq R
  PROVE  /\ IsFiniteSet(R)
         /\ Cardinality(Pruning(d)) + Cardinality(Writing(d)) <= Cardinality(R)
<1> DEFINE p == Pruning(d)
           w == Writing(d)
<1>0. IsFiniteSet(p) /\ IsFiniteSet(w) /\ p \cap w = {} /\ (p \cup w) \in SUBSET R
  BY CountedSets
<1>1. IsFiniteSet(R)
  BY FS_Subset DEF Counted
<1> HIDE DEF p, w
<1>2. Cardinality(p \cup w) = Cardinality(p) + Cardinality(w) - Cardinality(p \cap w)
  BY <1>0, FS_Union
<1>3. Cardinality(p \cap w) = 0
  BY <1>0, FS_EmptySet
<1>4. Cardinality(p \cup w) <= Cardinality(R)
  BY <1>0, <1>1, FS_Subset
<1>5. Cardinality(p) \in Nat /\ Cardinality(w) \in Nat
  BY <1>0, FS_CardinalityType
<1> QED BY <1>1, <1>2, <1>3, <1>4, <1>5 DEF p, w

LEMMA CrashBound ==
  ASSUME Counted, TypeInv, TypeInv', BoundInv, Crash
  PROVE  BoundInv'
<1>1. \A j \in Jobs : job'[j] = Idle
  BY DEF Crash
<1>2. HonestInv'
  BY <1>1, IdleHonest DEF HonestInv, Honest
<1>3. ASSUME NEW d \in Databases PROVE Bound(d)'
  <2> DEFINE a == Cardinality(Scheduled(d))
             s == Cardinality(Settled(d))
             p == Cardinality(Pruning(d))
             w == Cardinality(Writing(d))
             t == Settled(d)'
             q == Pruning(d)'
             C == Cardinality(CronJobs)
             m == crashes * C
             x == missed[d]
  <2>1. a <= s + w /\ s <= MaxWindow + p + m + x
    BY AllScheduled DEF BoundInv, Bound
  <2>2. p + w <= C
    BY CountedSets, RunsAdd DEF BoundInv
  <2>3. IsFiniteSet(Scheduled(d))
    BY CountedSets DEF BoundInv
  <2>4. t \in SUBSET Scheduled(d)
    BY DEF Crash, files, Settled, Scheduled, OnDisk
  <2>5. q = {}
    BY <1>1, IdleType DEF Pruning
  <2> HIDE DEF t, q
  <2>6. Cardinality(t) <= a /\ IsFiniteSet(t)
    BY <2>3, <2>4, FS_Subset
  <2>7. Cardinality(q) = 0
    BY <2>5, FS_EmptySet
  <2>8. /\ a \in Nat /\ s \in Nat /\ p \in Nat /\ w \in Nat /\ C \in Nat
        /\ Cardinality(t) \in Nat /\ x \in Nat /\ crashes \in Nat /\ MaxWindow \in Nat
    BY <2>3, <2>6, CountedSets, FS_CardinalityType, Bounds
       DEF Counted, TypeInv, TypeOK, BoundInv
  <2> HIDE DEF a, s, p, w, C
  <2>9. m \in Nat /\ (crashes + 1) * C = m + C
    BY <2>8
  <2>10. crashes' = crashes + 1 /\ missed'[d] = x
    BY DEF Crash, files
  <2> HIDE DEF m, x
  <2>11. Cardinality(t) <= MaxWindow + Cardinality(q) + (m + C) + x
    BY <2>1, <2>2, <2>6, <2>7, <2>8, <2>9
  <2>12. Cardinality(t) <= MaxWindow + Cardinality(q) + crashes' * C + missed'[d]
    BY <2>9, <2>10, <2>11
  <2> QED BY <2>12 DEF Bound, t, q, C
<1> QED BY <1>2, <1>3 DEF BoundInv

\* With names of one part, no matter how many runs overlap, fail or are cut off
\* by the end of the agent, and how often users delete files meanwhile: the
\* automatic backups of a database stay within its window but for the runs that
\* have yet to prune, those a crash cut off, and the removals that failed since
\* pruning last removed all it should.
THEOREM WindowCorrect == ASSUME Counted PROVE Spec => []WindowBoundsDisk
<1>1. Init => BoundInv
  <2> SUFFICES ASSUME Init PROVE BoundInv
    OBVIOUS
  <2>1. HonestInv
    BY IdleHonest DEF Init, HonestInv
  <2>2. ASSUME NEW d \in Databases PROVE Bound(d)
    <3>1. Settled(d) = {} /\ Pruning(d) = {} /\ crashes = 0 /\ missed[d] = 0
      BY IdleType DEF Init, Settled, Scheduled, OnDisk, Pruning
    <3>2. Cardinality(Settled(d)) = 0 /\ Cardinality(Pruning(d)) = 0
      BY <3>1, FS_EmptySet
    <3>3. Cardinality(CronJobs) \in Nat
      BY FS_CardinalityType DEF Counted
    <3> QED BY <3>1, <3>2, <3>3, Bounds DEF Bound
  <2> QED BY <2>1, <2>2 DEF BoundInv
<1>2. TypeInv /\ TypeInv' /\ BoundInv /\ [Next]_vars => BoundInv'
  <2> SUFFICES ASSUME TypeInv, TypeInv', BoundInv, [Next]_vars PROVE BoundInv'
    OBVIOUS
  <2>1. CASE Clock \/ UNCHANGED vars
    <3>1. job' = job /\ UNCHANGED <<disk, crashes, missed>>
      BY <2>1 DEF Clock, vars, files
    <3> QED BY <3>1, DumpsAlone
  <2> QED BY <2>1, RequestBound, JobStepBound, CrashBound DEF Next
<1>3. TypeInv /\ BoundInv => WindowBoundsDisk
  <2> SUFFICES ASSUME TypeInv, BoundInv, NEW d \in Databases
               PROVE  Cardinality(Scheduled(d))
                        <= MaxWindow + Cardinality(RunsOf(d))
                             + crashes * Cardinality(CronJobs) + missed[d]
    BY DEF WindowBoundsDisk
  <2> DEFINE a == Cardinality(Scheduled(d))
             s == Cardinality(Settled(d))
             p == Cardinality(Pruning(d))
             w == Cardinality(Writing(d))
             R == RunsOf(d)
             m == crashes * Cardinality(CronJobs)
             x == missed[d]
  <2>1. a <= s + w /\ s <= MaxWindow + p + m + x
    BY AllScheduled DEF BoundInv, Bound
  <2>2. R \in SUBSET CronJobs /\ Pruning(d) \subseteq R /\ Writing(d) \subseteq R
    BY DEF RunsOf, Running, Dumping, Pruning, Writing, BoundInv, HonestInv, Honest
  <2> HIDE DEF R
  <2>3. p + w <= Cardinality(R) /\ IsFiniteSet(R)
    BY <2>2, RunsAdd DEF BoundInv
  <2>4. /\ a \in Nat /\ s \in Nat /\ p \in Nat /\ w \in Nat /\ Cardinality(R) \in Nat
        /\ Cardinality(CronJobs) \in Nat /\ crashes \in Nat /\ MaxWindow \in Nat
    BY <2>3, CountedSets, FS_CardinalityType, Bounds
       DEF Counted, TypeInv, TypeOK, BoundInv
  <2>5. m \in Nat /\ x \in Nat
    BY <2>4 DEF TypeInv, TypeOK
  <2> HIDE DEF a, s, p, w, m, x
  <2>6. a <= MaxWindow + Cardinality(R) + m + x
    BY <2>1, <2>3, <2>4, <2>5
  <2> QED BY <2>6 DEF a, R, m, x
<1> QED BY <1>1, <1>2, <1>3, TypeInvariant, PTL DEF Spec

----------------------------------------------------------------------------
(* Pruning *)

\* Names of one part, no two dumps to one file, one run of cron at a time.
Single ==
  /\ Plain
  /\ \A j, k \in CronJobs : j = k

LEMMA SingleParts == ASSUME Single PROVE OnePart /\ Plain
BY DEF Single, Plain, OnePart

\* A backup is its name and its time.
LEMMA SameName ==
  ASSUME NEW f \in Names, NEW g \in Names, f.parts = g.parts
  PROVE  /\ TypeOf(f) = TypeOf(g)
         /\ f.at \in Nat /\ g.at \in Nat
         /\ f.at = g.at => f = g
<1>1. PICK l \in AllLabels, d \in Databases, ty \in Types, t \in 0..MaxTime :
        f = NameOf(l, d, ty, t)
  BY DEF Names, AllLabels
<1>2. PICK m \in AllLabels, e \in Databases, tz \in Types, u \in 0..MaxTime :
        g = NameOf(m, e, tz, u)
  BY DEF Names, AllLabels
<1>3. f.at = t /\ g.at = u /\ t \in Nat /\ u \in Nat
  BY <1>1, <1>2, Bounds DEF NameOf
<1>4. f = [parts |-> f.parts, at |-> f.at] /\ g = [parts |-> g.parts, at |-> g.at]
  BY <1>1, <1>2 DEF NameOf
<1> QED BY <1>3, <1>4 DEF TypeOf

\* A run's file is the newest of its database, unreported while it is written,
\* and good once it is written, unless a user has deleted it.
Fresh(j) ==
  /\ job[j].name \in Names
  /\ job[j].name.parts = ScheduledName(job[j].db)
  /\ job[j].name.at <= now
  /\ \A g \in OnDisk : g.parts = job[j].name.parts /\ g # job[j].name
                         => g.at < job[j].name.at
  /\ Dumping(j) =>
       /\ job[j].name \notin acked
       /\ job[j].gone \/ disk[job[j].name] = "partial"
  /\ job[j].pc = "prune" /\ ~job[j].gone =>
       job[j].name \in acked /\ disk[job[j].name] = "complete"

Pending(j) == job[j].type = "auto" /\ job[j].pc \in {"native", "docker", "prune"}

\* No automatic backup is from the future or of anything but a run of cron, and
\* those reported are there.
Orderly ==
  /\ \A g \in OnDisk : TypeOf(g) = "auto" =>
       g.at <= now /\ \E d \in Databases : g.parts = ScheduledName(d)
  /\ \A f \in acked : TypeOf(f) = "auto" => disk[f] # "absent"

PruneInv ==
  /\ Orderly
  /\ \A j \in Jobs : Pending(j) => Fresh(j)

BaseInv == TypeInv /\ ManualInv /\ HonestInv

\* What other jobs do leaves a run's file the newest.
LEMMA FreshKept ==
  ASSUME TypeInv, NEW j \in Jobs, Fresh(j), job'[j] = job[j], now' = now,
         disk'[job[j].name] = disk[job[j].name],
         job[j].name \in acked' <=> job[j].name \in acked,
         \A g \in Names : /\ disk'[g] # "absent"
                          /\ g.parts = job[j].name.parts
                          /\ g # job[j].name
                          => disk[g] # "absent"
  PROVE  Fresh(j)'
BY DEF Fresh, OnDisk, Dumping

\* Two runs of cron cannot be pending.
LEMMA OnePending ==
  ASSUME Single, HonestInv, NEW j \in Jobs, NEW k \in Jobs, Pending(j),
         job[k].type = "auto", Running(k)
  PROVE  j = k
<1>1. j \in CronJobs /\ k \in CronJobs
  BY DEF HonestInv, Honest, Pending, Running
<1> QED BY <1>1 DEF Single

LEMMA StartDumpPrune ==
  ASSUME Single, BaseInv, PruneInv, NEW j \in Jobs, NEW l \in AllLabels,
         NEW d \in Databases, NEW ty \in Types, NEW source, StartDump(j, l, d, ty, source),
         ty = "auto" => j \in CronJobs /\ source = NoName /\ l = AutoLabel,
         acked' = acked, now' = now
  PROVE  PruneInv'
<1> DEFINE f == NameOf(l, d, ty, now)
           r == [pc |-> "native", type |-> ty, db |-> d, name |-> f,
                 source |-> source, ok |-> FALSE, gone |-> FALSE]
<1>0. TypeInv /\ HonestInv
  BY DEF BaseInv
<1>1. f \in Names /\ TypeOf(f) = ty /\ f.at = now
  BY <1>0, NameOfBackup DEF TypeInv, TypeOK, NameOf
<1>2. ty = "auto" => f.parts = ScheduledName(d)
  BY DEF NameOf, ScheduledName
<1>3. disk[f] = "absent" /\ (\A k \in Jobs : job[k].name # f) /\ ~Running(j)
  BY DEF StartDump, Single, Plain
<1>4. job' = [job EXCEPT ![j] = r] /\ disk' = Opened(j, f)
  BY DEF StartDump
<1>5. disk' = [disk EXCEPT ![f] = "partial"]
  BY <1>3, <1>4 DEF Opened
<1>6. /\ r.pc = "native" /\ r.name = f /\ r.type = ty /\ r.db = d
  OBVIOUS
<1> HIDE DEF r, f
<1>7. /\ job'[j] = r
      /\ \A k \in Jobs \ {j} : job'[k] = job[k]
  BY <1>0, <1>4 DEF TypeInv, TypeOK
<1>8. /\ disk'[f] = "partial"
      /\ \A g \in Names \ {f} : disk'[g] = disk[g]
  BY <1>0, <1>1, <1>5 DEF TypeInv, TypeOK
<1>9. OnDisk' \subseteq OnDisk \cup {f}
  BY <1>8 DEF OnDisk
<1>10. now \in Nat
  BY <1>0, Bounds DEF TypeInv, TypeOK
<1>11. Orderly'
  <2>1. \A g \in OnDisk' : TypeOf(g) = "auto" => g.at <= now'
    BY <1>1, <1>9, <1>10 DEF PruneInv, Orderly
  <2>2. \A g \in OnDisk' : TypeOf(g) = "auto" => \E e \in Databases : g.parts = ScheduledName(e)
    BY <1>1, <1>2, <1>9 DEF PruneInv, Orderly
  <2>3. \A g \in acked' : TypeOf(g) = "auto" => disk'[g] # "absent"
    BY <1>0, <1>3, <1>8 DEF PruneInv, Orderly, TypeInv, TypeOK
  <2> QED BY <2>1, <2>2, <2>3 DEF Orderly
<1>12. ASSUME NEW k \in Jobs \ {j}, Pending(k)' PROVE Fresh(k)'
  <2>1. Pending(k) /\ Fresh(k) /\ job'[k] = job[k]
    BY <1>7, <1>12 DEF Pending, PruneInv
  <2>2. job[k].name \in Names \ {f}
    BY <1>3, <2>1 DEF Fresh
  <2>3. f.parts # job[k].name.parts
    <3> SUFFICES ASSUME f.parts = job[k].name.parts PROVE FALSE
      OBVIOUS
    <3>1. TypeOf(f) = TypeOf(job[k].name)
      BY <1>1, <2>2, SameName
    <3>2. TypeOf(job[k].name) = "auto"
      <4>1. job[k].db \in Databases
        BY <1>0 DEF TypeInv, TypeOK, Job
      <4> QED BY <2>1, <2>2, <4>1, ScheduledNames, SingleParts DEF Fresh
    <3>3. j \in CronJobs /\ k \in CronJobs
      BY <1>0, <1>1, <2>1, <3>1, <3>2 DEF HonestInv, Honest, Pending
    <3> QED BY <3>3 DEF Single
  <2>4. \A g \in Names : disk'[g] # "absent" /\ g.parts = job[k].name.parts => disk[g] # "absent"
    BY <1>8, <2>3
  <2> QED BY <1>0, <1>8, <2>1, <2>2, <2>4, FreshKept
<1>13. ASSUME Pending(j)' PROVE Fresh(j)'
  <2>1. ty = "auto"
    BY <1>6, <1>7, <1>13 DEF Pending
  <2>2. ASSUME NEW g \in OnDisk', g.parts = f.parts, g # f PROVE g.at < f.at
    <3>1. g \in OnDisk /\ g \in Names
      BY <1>9, <2>2 DEF OnDisk
    <3>2. g.at # f.at /\ g.at \in Nat /\ TypeOf(g) = TypeOf(f)
      BY <1>1, <2>2, <3>1, SameName
    <3>3. g.at <= now
      BY <1>1, <2>1, <3>1, <3>2 DEF PruneInv, Orderly
    <3> QED BY <1>1, <1>10, <3>2, <3>3
  <2>3. f \notin acked
    BY <1>1, <1>3, <2>1 DEF PruneInv, Orderly
  <2>4. now <= now
    BY <1>10
  <2> QED BY <1>1, <1>2, <1>6, <1>7, <1>8, <2>1, <2>2, <2>3, <2>4 DEF Fresh, Dumping
<1> QED BY <1>11, <1>12, <1>13 DEF PruneInv

LEMMA RequestPrune ==
  ASSUME Single, BaseInv, PruneInv,
         Request \/ (\E j \in CronJobs, d \in Databases : RunScheduledBackup(j, d))
  PROVE  PruneInv'
<1>0. /\ "manual" \in Types /\ "auto" \in Types /\ "manual" # "auto"
      /\ SafetyLabel \in AllLabels /\ AutoLabel \in AllLabels /\ Labels \subseteq AllLabels
      /\ UserJobs \subseteq Jobs /\ CronJobs \subseteq Jobs
  BY DEF Types, AllLabels, Jobs
<1>1. ASSUME NEW j \in UserJobs, NEW d \in Databases, NEW l \in Labels,
             CreateBackup(j, d, l)
      PROVE  PruneInv'
  <2>1. /\ StartDump(j, l, d, "manual", NoName)
        /\ l \in AllLabels /\ j \in Jobs /\ acked' = acked /\ now' = now
    BY <1>0, <1>1 DEF CreateBackup
  <2> QED BY <1>0, <2>1, StartDumpPrune
<1>2. ASSUME NEW j \in UserJobs, NEW d \in Databases, NEW f \in Names,
             RestoreBackup(j, d, f)
      PROVE  PruneInv'
  <2>1. /\ StartDump(j, SafetyLabel, d, "manual", f)
        /\ j \in Jobs /\ acked' = acked /\ now' = now
    BY <1>0, <1>2 DEF RestoreBackup
  <2> QED BY <1>0, <2>1, StartDumpPrune
<1>3. ASSUME NEW j \in CronJobs, NEW d \in Databases, RunScheduledBackup(j, d)
      PROVE  PruneInv'
  <2>1. /\ StartDump(j, AutoLabel, d, "auto", NoName)
        /\ j \in Jobs /\ acked' = acked /\ now' = now
    BY <1>0, <1>3 DEF RunScheduledBackup
  <2> QED BY <1>0, <2>1, StartDumpPrune
<1>4. ASSUME NEW f \in Names, DeleteBackup(f)
      PROVE  PruneInv'
  <2>1. \A k \in Jobs : /\ job'[k].pc = job[k].pc /\ job'[k].name = job[k].name
                        /\ job'[k].type = job[k].type /\ job'[k].db = job[k].db
                        /\ job'[k].gone = (job[k].gone \/ job[k].name = f)
    BY <1>4 DEF DeleteBackup, BaseInv, TypeInv, TypeOK, Job
  <2>2. disk'[f] = "absent" /\ \A g \in Names \ {f} : disk'[g] = disk[g]
    BY <1>4 DEF DeleteBackup, BaseInv, TypeInv, TypeOK
  <2>3. acked' = acked \ {f} /\ now' = now
    BY <1>4 DEF DeleteBackup
  <2>4. OnDisk' = OnDisk \ {f}
    BY <2>2 DEF OnDisk
  <2>5. Orderly'
    BY <2>2, <2>3, <2>4 DEF PruneInv, Orderly, BaseInv, TypeInv, TypeOK
  <2>6. ASSUME NEW k \in Jobs, Pending(k)' PROVE Fresh(k)'
    <3>1. Pending(k) /\ Fresh(k)
      BY <2>1, <2>6 DEF Pending, PruneInv
    <3>2. disk'[job[k].name] = disk[job[k].name] \/ job'[k].gone
      BY <2>1, <2>2, <3>1 DEF Fresh
    <3>3. job[k].name \in acked' <=> job[k].name \in acked /\ job[k].name # f
      BY <2>3
    <3>4. Dumping(k)' <=> Dumping(k)
      BY <2>1 DEF Dumping
    <3> QED BY <2>1, <2>2, <2>3, <2>4, <3>1, <3>2, <3>3, <3>4 DEF Fresh
  <2> QED BY <2>5, <2>6 DEF PruneInv
<1>5. ASSUME NEW d \in Databases, NEW on \in BOOLEAN, NEW w \in WindowInputs,
             SaveSchedule(d, on, w)
      PROVE  PruneInv'
  BY <1>5 DEF SaveSchedule, files, PruneInv, Orderly, Pending, Fresh, Dumping, OnDisk
<1> QED BY <1>1, <1>2, <1>3, <1>4, <1>5 DEF Request

\* A dump writes to another file than that of a run that is pending.
LEMMA OtherFile ==
  ASSUME Single, BaseInv, PruneInv, NEW j \in Jobs, NEW k \in Jobs, k # j,
         Pending(k), Dumping(j)
  PROVE  /\ Fresh(k)
         /\ job[k].name \in Names
         /\ job[j].name.parts # job[k].name.parts
         /\ job[j].name # job[k].name
<1>1. Fresh(k) /\ job[k].name \in Names /\ job[j].name \in Names
  BY DEF PruneInv, Fresh, BaseInv, TypeInv, Named
<1>2. TypeOf(job[k].name) = "auto"
  <2>1. job[k].db \in Databases
    BY DEF BaseInv, TypeInv, TypeOK, Job
  <2> QED BY <1>1, <2>1, ScheduledNames, SingleParts DEF Fresh
<1>3. job[j].type # "auto"
  BY OnePending DEF BaseInv, Running, Dumping
<1>4. TypeOf(job[j].name) = "manual"
  BY <1>3 DEF BaseInv, HonestInv, Honest, Dumping
<1> QED BY <1>1, <1>2, <1>4, SameName

\* A file that is written to was not reported.
LEMMA UnreportedFile ==
  ASSUME BaseInv, PruneInv, NEW j \in Jobs, Dumping(j)
  PROVE  /\ job[j].name \in Names
         /\ job[j].name \notin acked
         /\ job[j].gone \/ disk[job[j].name] = "partial"
         /\ job[j].type = "auto" => Fresh(j) /\ Pending(j)
         /\ job[j].type # "auto" => TypeOf(job[j].name) = "manual"
<1>1. CASE job[j].type = "auto"
  BY <1>1 DEF PruneInv, Pending, Fresh, Dumping, BaseInv, TypeInv, Named
<1>2. CASE job[j].type # "auto"
  <2>1. TypeOf(job[j].name) = "manual"
    BY <1>2 DEF BaseInv, HonestInv, Honest, Dumping
  <2> QED BY <1>2, <2>1 DEF BaseInv, ManualInv, Unreported, TypeInv, Named
<1> QED BY <1>1, <1>2

LEMMA JobStepPrune ==
  ASSUME Single, BaseInv, PruneInv, NEW j \in Jobs, JobStep(j)
  PROVE  PruneInv'
<1>0. TypeInv /\ HonestInv /\ job[j] \in Job
  BY DEF BaseInv, TypeInv, TypeOK
<1> PICK f : f = job[j].name
  OBVIOUS
<1>1. CASE DumpEnds(j)
  <2>1. /\ Dumping(j) /\ AfterDump(j, TRUE) /\ now' = now
        /\ acked' = IF job[j].gone THEN acked ELSE acked \cup {f}
    BY <1>1 DEF DumpEnds
  <2>2. /\ f \in Names /\ (job[j].gone \/ disk[f] = "partial")
        /\ job[j].type = "auto" => Fresh(j)
    BY <2>1, UnreportedFile
  <2>3. /\ disk'[f] = IF disk[f] = "partial" THEN "complete" ELSE disk[f]
        /\ \A g \in Names \ {f} : disk'[g] = disk[g]
    BY <1>0, <1>1, <2>2 DEF DumpEnds, TypeInv, TypeOK
  <2>4. PICK r \in Job : /\ job' = [job EXCEPT ![j] = r]
                         /\ r.pc \notin {"native", "docker"}
                         /\ r.pc = "prune" <=> job[j].type = "auto"
                         /\ \/ r.pc = "idle"
                            \/ /\ r.type = job[j].type /\ r.db = job[j].db
                               /\ r.name = job[j].name /\ r.gone = job[j].gone
    BY <1>0, <2>1, AfterDumpRecord
  <2>5. job'[j] = r /\ \A k \in Jobs \ {j} : job'[k] = job[k]
    BY <1>0, <2>4 DEF TypeInv, TypeOK
  <2>6. OnDisk' = OnDisk
    BY <2>2, <2>3 DEF OnDisk
  <2>7. Orderly'
    <3>1. \A g \in acked' : TypeOf(g) = "auto" => disk'[g] # "absent"
      BY <1>0, <2>1, <2>2, <2>3 DEF PruneInv, Orderly, TypeInv, TypeOK
    <3> QED BY <2>1, <2>6, <3>1 DEF PruneInv, Orderly
  <2>8. ASSUME NEW k \in Jobs \ {j}, Pending(k)' PROVE Fresh(k)'
    <3>1. Pending(k) /\ job'[k] = job[k]
      BY <2>5, <2>8 DEF Pending
    <3>2. Fresh(k) /\ job[k].name \in Names \ {f}
      BY <2>1, <3>1, OtherFile
    <3>3. job[k].name \in acked' <=> job[k].name \in acked
      BY <2>1, <3>2
    <3>4. \A g \in Names : disk'[g] # "absent" => disk[g] # "absent"
      BY <2>6 DEF OnDisk
    <3> QED BY <1>0, <2>1, <2>3, <3>1, <3>2, <3>3, <3>4, FreshKept
  <2>9. ASSUME Pending(j)' PROVE Fresh(j)'
    <3>1. r.pc = "prune" /\ job[j].type = "auto"
      BY <2>4, <2>5, <2>9 DEF Pending
    <3>2. /\ Fresh(j) /\ ~Dumping(j)'
          /\ job'[j].name = f /\ job'[j].db = job[j].db /\ job'[j].gone = job[j].gone
      BY <2>2, <2>4, <2>5, <3>1 DEF Dumping
    <3>3. ~job[j].gone => f \in acked' /\ disk'[f] = "complete"
      BY <2>1, <2>2, <2>3
    <3> QED BY <2>1, <2>6, <3>2, <3>3 DEF Fresh
  <2> QED BY <2>7, <2>8, <2>9 DEF PruneInv
<1>2. CASE DumpFails(j)
  <2>1. Dumping(j) /\ AfterDump(j, FALSE) /\ now' = now /\ acked' = acked
    BY <1>2 DEF DumpFails, Dumping
  <2>2. f \in Names /\ f \notin acked
    BY <2>1, UnreportedFile
  <2>3. /\ disk'[f] = "absent" \/ disk' = disk
        /\ \A g \in Names \ {f} : disk'[g] = disk[g]
    BY <1>0, <1>2, <2>2 DEF DumpFails, TypeInv, TypeOK
  <2>4. PICK r \in Job : /\ job' = [job EXCEPT ![j] = r]
                         /\ r.pc \notin {"native", "docker", "prune"}
    BY <1>0, <2>1, AfterDumpRecord
  <2>5. job'[j] = r /\ \A k \in Jobs \ {j} : job'[k] = job[k]
    BY <1>0, <2>4 DEF TypeInv, TypeOK
  <2>6. OnDisk' \subseteq OnDisk
    BY <2>3 DEF OnDisk
  <2>7. Orderly'
    <3>1. \A g \in acked' : g \in Names \ {f} /\ disk'[g] = disk[g]
      BY <1>0, <2>1, <2>2, <2>3 DEF TypeInv, TypeOK
    <3> QED BY <2>1, <2>6, <3>1 DEF PruneInv, Orderly
  <2>8. ASSUME NEW k \in Jobs, Pending(k)' PROVE Fresh(k)'
    <3>1. k # j /\ Pending(k) /\ job'[k] = job[k]
      BY <2>4, <2>5, <2>8 DEF Pending
    <3>2. Fresh(k) /\ job[k].name \in Names \ {f}
      BY <2>1, <3>1, OtherFile
    <3>3. \A g \in Names : disk'[g] # "absent" => disk[g] # "absent"
      BY <2>6 DEF OnDisk
    <3> QED BY <1>0, <2>1, <2>3, <3>1, <3>2, <3>3, FreshKept
  <2> QED BY <2>7, <2>8 DEF PruneInv
<1>3. CASE FallBack(j)
  <2>1. Dumping(j) /\ now' = now /\ acked' = acked
    BY <1>3 DEF FallBack, Dumping
  <2>2. /\ f \in Names /\ f \notin acked
        /\ job[j].type = "auto" => Fresh(j)
        /\ job[j].type # "auto" => TypeOf(f) = "manual"
    BY <2>1, UnreportedFile
  <2>3. \A k \in Jobs \ {j} : Dumping(k) => job[k].name # f
    BY <2>1 DEF BaseInv, ManualInv, Distinct
  <2>4. disk' = [disk EXCEPT ![f] = "partial"]
    BY <1>3, <2>3 DEF FallBack, Opened
  <2>5. disk'[f] = "partial" /\ \A g \in Names \ {f} : disk'[g] = disk[g]
    BY <1>0, <2>2, <2>4 DEF TypeInv, TypeOK
  <2>6. /\ job'[j].type = job[j].type /\ job'[j].db = job[j].db /\ job'[j].name = f
        /\ job'[j].pc = "docker"
        /\ \A k \in Jobs \ {j} : job'[k] = job[k]
    BY <1>0, <1>3 DEF FallBack, TypeInv, TypeOK, Job
  <2>7. OnDisk' \subseteq OnDisk \cup {f}
    BY <2>5 DEF OnDisk
  <2>8. TypeOf(f) = "auto" =>
          f.at <= now /\ \E d \in Databases : f.parts = ScheduledName(d)
    <3>1. job[j].db \in Databases /\ "manual" # "auto"
      BY <1>0 DEF Job
    <3> QED BY <2>2, <3>1 DEF Fresh
  <2>9. Orderly'
    <3>1. \A g \in acked' : g \in Names \ {f} /\ disk'[g] = disk[g]
      BY <1>0, <2>1, <2>2, <2>5 DEF TypeInv, TypeOK
    <3> QED BY <2>1, <2>7, <2>8, <3>1 DEF PruneInv, Orderly
  <2>10. ASSUME NEW k \in Jobs \ {j}, Pending(k)' PROVE Fresh(k)'
    <3>1. Pending(k) /\ job'[k] = job[k]
      BY <2>6, <2>10 DEF Pending
    <3>2. Fresh(k) /\ job[k].name \in Names \ {f} /\ f.parts # job[k].name.parts
      BY <2>1, <3>1, OtherFile
    <3>3. \A g \in Names : disk'[g] # "absent" /\ g.parts = job[k].name.parts
                             => disk[g] # "absent"
      BY <2>5, <3>2
    <3> QED BY <1>0, <2>1, <2>5, <3>1, <3>2, <3>3, FreshKept
  <2>11. ASSUME Pending(j)' PROVE Fresh(j)'
    <3>1. Fresh(j)
      BY <2>2, <2>6, <2>11 DEF Pending
    <3>2. \A g \in OnDisk' : g # f => g \in OnDisk
      BY <2>7
    <3> QED BY <2>1, <2>2, <2>5, <2>6, <3>1, <3>2 DEF Fresh, Dumping
  <2> QED BY <2>9, <2>10, <2>11 DEF PruneInv
<1>4. CASE Prune(j)
  <2>1. job' = [job EXCEPT ![j].pc = "report"] /\ now' = now
    BY <1>4 DEF Prune
  <2>2. job'[j].pc = "report" /\ \A k \in Jobs \ {j} : job'[k] = job[k]
    BY <1>0, <2>1 DEF TypeInv, TypeOK, Job
  <2>3. job[j].type = "auto" /\ Pending(j)
    BY <1>0, <1>4 DEF Prune, HonestInv, Honest, Pending
  <2>4. ASSUME NEW k \in Jobs PROVE ~Pending(k)'
    <3> SUFFICES ASSUME Pending(k)' PROVE FALSE
      OBVIOUS
    <3>1. k # j /\ job'[k] = job[k]
      BY <2>2 DEF Pending
    <3>2. job[k].type = "auto" /\ Running(k)
      BY <3>1 DEF Pending, Running
    <3> QED BY <1>0, <2>3, <3>1, <3>2, OnePending
  <2>5. PICK gone \in SUBSET Names :
          /\ disk' = [g \in Names |-> IF g \in gone THEN "absent" ELSE disk[g]]
          /\ acked' = {g \in acked : TypeOf(g) = "manual" \/ g \notin gone}
    BY <1>4 DEF Prune, AutoBackups, OnDisk
  <2>6. OnDisk' \subseteq OnDisk
    BY <2>5 DEF OnDisk
  <2>7. Orderly'
    <3>1. \A g \in acked' : TypeOf(g) = "auto" => g \in acked /\ disk'[g] = disk[g]
      BY <1>0, <2>5 DEF TypeInv, TypeOK
    <3> QED BY <2>1, <2>6, <3>1 DEF PruneInv, Orderly
  <2> QED BY <2>4, <2>7 DEF PruneInv
<1>5. CASE Report(j) \/ RestoreRuns(j)
  <2>1. /\ job' = [job EXCEPT ![j] = Idle]
        /\ disk' = disk /\ acked' = acked /\ now' = now
    BY <1>5 DEF Report, RestoreRuns, Finish, files
  <2>2. job'[j].pc = "idle" /\ \A k \in Jobs \ {j} : job'[k] = job[k]
    BY <1>0, <2>1, IdleType DEF TypeInv, TypeOK
  <2>3. Orderly'
    BY <2>1 DEF PruneInv, Orderly, OnDisk
  <2>4. ASSUME NEW k \in Jobs, Pending(k)' PROVE Fresh(k)'
    <3>1. Pending(k) /\ Fresh(k) /\ job'[k] = job[k]
      BY <2>2, <2>4 DEF Pending, PruneInv
    <3> QED BY <1>0, <2>1, <3>1, FreshKept
  <2> QED BY <2>3, <2>4 DEF PruneInv
<1> QED BY <1>1, <1>2, <1>3, <1>4, <1>5 DEF JobStep

\* The run that prunes keeps its own backup, which is newer than what it removes.
LEMMA PruneSpares ==
  ASSUME Single, BaseInv, PruneInv, NEW j \in Jobs, Prune(j), ~job[j].gone,
         NEW f \in acked, disk[f] = "complete", disk'[f] = "absent"
  PROVE  \E g \in acked : g.parts = f.parts /\ g.at > f.at /\ disk'[g] = "complete"
<1>0. /\ TypeInv /\ HonestInv /\ job[j] \in Job /\ job[j].db \in Databases
      /\ f \in Names
  BY DEF BaseInv, TypeInv, TypeOK, Job
<1> PICK d \in Databases : d = job[j].db
  BY <1>0
<1> PICK h : h = job[j].name
  OBVIOUS
<1>1. Fresh(j) /\ job[j].pc = "prune"
  BY <1>0 DEF Prune, HonestInv, Honest, PruneInv, Pending
<1>2. /\ h \in Names /\ h \in acked /\ disk[h] = "complete"
      /\ h.parts = ScheduledName(d)
      /\ \A g \in OnDisk : g.parts = h.parts /\ g # h => g.at < h.at
  BY <1>1 DEF Fresh
<1> DEFINE candidates == AutoBackups(d)
<1>3. PICK keep \in SUBSET candidates, removed \in SUBSET candidates :
        /\ removed \subseteq candidates \ keep
        /\ Newest(keep, candidates)
        /\ IF Cardinality(candidates) <= Window(d)
           THEN keep = candidates
           ELSE Cardinality(keep) = Window(d)
        /\ disk' = [g \in Names |-> IF g \in removed THEN "absent" ELSE disk[g]]
  BY DEF Prune
<1>4. f \in candidates \ keep
  BY <1>0, <1>3
<1>5. ASSUME NEW g \in candidates
      PROVE  /\ g \in OnDisk /\ g \in Names /\ g.parts = h.parts
             /\ ParsedTime(g) = g.at /\ g.at \in Nat
  <2>1. g \in OnDisk /\ g \in Names /\ ParsedDatabase(g) = d /\ ParsedType(g) = "auto"
    BY DEF AutoBackups, OnDisk
  <2>2. TypeOf(g) = "auto"
    BY <2>1, PlainType, SingleParts
  <2>3. PICK e \in Databases : g.parts = ScheduledName(e)
    BY <2>1, <2>2 DEF PruneInv, Orderly
  <2>4. ParsedDatabase(g) = e /\ ParsedTime(g) = g.at
    BY <2>1, <2>3, ScheduledNames, SingleParts
  <2>5. g.parts = h.parts
    BY <1>2, <2>1, <2>3, <2>4
  <2> QED BY <2>1, <2>4, <2>5, SameName
<1>6. h \in candidates
  <2>1. ParsedDatabase(h) = d /\ ParsedType(h) = "auto"
    BY <1>2, ScheduledNames, SingleParts
  <2> QED BY <1>2, <2>1 DEF AutoBackups, OnDisk
<1>7. \E k \in keep : TRUE
  <2>1. keep # candidates
    BY <1>4
  <2>2. Window(d) \in Nat \ {0}
    BY <1>0, Bounds DEF Window, TypeInv, TypeOK, Schedules, Schedule
  <2>3. Cardinality(keep) = Window(d)
    BY <1>3, <2>1
  <2>4. Cardinality(keep) # 0
    BY <2>2, <2>3
  <2> QED BY <2>4, FS_EmptySet
<1>8. h \in keep
  <2> SUFFICES ASSUME h \notin keep PROVE FALSE
    OBVIOUS
  <2>1. PICK k \in keep : ParsedTime(k) >= ParsedTime(h)
    BY <1>3, <1>6, <1>7 DEF Newest
  <2>2. k # h /\ k \in candidates
    OBVIOUS
  <2>3. k.at < h.at
    BY <1>2, <1>5, <2>2
  <2>4. ParsedTime(k) = k.at /\ ParsedTime(h) = h.at /\ k.at \in Nat /\ h.at \in Nat
    BY <1>5, <1>6, <2>2
  <2> QED BY <2>1, <2>3, <2>4
<1>9. f # h /\ f.parts = h.parts /\ f.at < h.at
  BY <1>2, <1>4, <1>5, <1>8
<1>10. disk'[h] = "complete"
  BY <1>2, <1>3, <1>8
<1>11. f.at \in Nat /\ h.at \in Nat
  BY <1>4, <1>5, <1>6
<1> QED BY <1>2, <1>9, <1>10, <1>11

\* With names of one part, no two dumps to one name and no two runs of cron at a
\* time, whatever users start, restore and delete meanwhile, whatever fails, the
\* removals included, and however often the agent ends: pruning leaves a newer good backup for each good
\* one it removes.
THEOREM PruneCorrect == ASSUME Single PROVE Spec => PruneLeavesNewer
<1>1. Init => HonestInv /\ PruneInv
  BY IdleHonest, IdleType
     DEF Init, HonestInv, PruneInv, Orderly, Pending, OnDisk
<1>2. /\ TypeInv /\ TypeInv' /\ ManualInv /\ HonestInv /\ PruneInv /\ [Next]_vars
      => HonestInv' /\ PruneInv'
  <2> SUFFICES ASSUME TypeInv, ManualInv, HonestInv, PruneInv, [Next]_vars
               PROVE  HonestInv' /\ PruneInv'
    OBVIOUS
  <2>0. BaseInv
    BY DEF BaseInv
  <2>1. CASE Clock
    <3>1. now \in Nat /\ now' = now + 1
      BY <2>1, Bounds DEF Clock, TypeInv, TypeOK
    <3>2. job' = job /\ disk' = disk /\ acked' = acked
      BY <2>1 DEF Clock, files
    <3>3. HonestInv'
      BY <3>2 DEF HonestInv, Honest
    <3>4. \A g \in Names : g.at <= now => g.at <= now'
      BY <3>1, SameName
    <3>5. Orderly'
      BY <3>2, <3>4 DEF PruneInv, Orderly, OnDisk
    <3>6. \A k \in Jobs : Pending(k)' => Fresh(k)'
      BY <3>2, <3>4 DEF PruneInv, Pending, Fresh, Dumping, OnDisk
    <3> QED BY <3>3, <3>5, <3>6 DEF PruneInv
  <2>2. CASE Crash
    <3>1. /\ \A k \in Jobs : job'[k] = Idle
          /\ disk' = disk /\ acked' = acked /\ now' = now
      BY <2>2 DEF Crash, files
    <3>2. HonestInv'
      BY <3>1, IdleHonest DEF HonestInv, Honest
    <3>3. PruneInv'
      BY <3>1, IdleType DEF PruneInv, Orderly, Pending, OnDisk
    <3> QED BY <3>2, <3>3
  <2>3. CASE UNCHANGED vars
    BY <2>3 DEF vars, HonestInv, Honest, PruneInv, Orderly, Pending, Fresh, Dumping, OnDisk
  <2>4. CASE Request \/ (\E j \in CronJobs, d \in Databases : RunScheduledBackup(j, d))
    BY <2>0, <2>4, RequestPrune, RequestHonest
  <2>5. ASSUME NEW j \in Jobs, JobStep(j) PROVE HonestInv' /\ PruneInv'
    BY <2>0, <2>5, JobStepPrune, JobStepHonest
  <2> QED BY <2>1, <2>2, <2>3, <2>4, <2>5 DEF Next
<1>3. TypeInv /\ ManualInv /\ HonestInv /\ PruneInv /\ [Next]_vars
      => [\A f \in acked, d \in Databases :
            /\ f.parts = ScheduledName(d)
            /\ disk[f] = "complete" /\ disk'[f] = "absent"
            /\ \E j \in Jobs : job[j].pc # job'[j].pc /\ ~job[j].gone
            => \E g \in acked : /\ g.parts = f.parts
                                /\ g.at > f.at
                                /\ disk'[g] = "complete"]_vars
  <2> SUFFICES ASSUME TypeInv, ManualInv, HonestInv, PruneInv, Next,
                      NEW f \in acked, NEW d \in Databases,
                      f.parts = ScheduledName(d),
                      disk[f] = "complete", disk'[f] = "absent",
                      NEW j \in Jobs, job[j].pc # job'[j].pc, ~job[j].gone
               PROVE  \E g \in acked : /\ g.parts = f.parts
                                       /\ g.at > f.at
                                       /\ disk'[g] = "complete"
    OBVIOUS
  <2>0. BaseInv /\ f \in Names
    BY DEF BaseInv, TypeInv, TypeOK
  <2>1. CASE Clock \/ Crash
    BY <2>1 DEF Clock, Crash, files
  <2>2. CASE Request
    <3>1. ASSUME NEW k \in Jobs, NEW l, NEW e, NEW ty, NEW source, StartDump(k, l, e, ty, source)
          PROVE  FALSE
      BY <2>0, <3>1 DEF StartDump, Opened, TypeInv, TypeOK
    <3>2. ASSUME NEW g \in Names, DeleteBackup(g) PROVE FALSE
      BY <3>2 DEF DeleteBackup, TypeInv, TypeOK, Job
    <3>3. ASSUME NEW e \in Databases, NEW on \in BOOLEAN, NEW w \in WindowInputs,
                 SaveSchedule(e, on, w)
          PROVE  FALSE
      BY <3>3 DEF SaveSchedule, files
    <3> QED BY <2>2, <3>1, <3>2, <3>3 DEF Request, CreateBackup, RestoreBackup, Jobs
  <2>3. CASE \E k \in CronJobs, e \in Databases : RunScheduledBackup(k, e)
    BY <2>0, <2>3 DEF RunScheduledBackup, StartDump, Opened, TypeInv, TypeOK
  <2>4. ASSUME NEW k \in Jobs, JobStep(k)
        PROVE  \E g \in acked : g.parts = f.parts /\ g.at > f.at /\ disk'[g] = "complete"
    <3>1. CASE DumpEnds(k)
      BY <2>0, <3>1 DEF DumpEnds, TypeInv, TypeOK
    <3>2. CASE FallBack(k)
      BY <2>0, <3>2 DEF FallBack, Opened, TypeInv, TypeOK
    <3>3. CASE DumpFails(k)
      <4>1. Dumping(k)
        BY <3>3 DEF DumpFails, Dumping
      <4>2. f # job[k].name
        BY <2>0, <4>1, UnreportedFile
      <4> QED BY <2>0, <3>3, <4>2 DEF DumpFails, TypeInv, TypeOK
    <3>4. CASE Prune(k)
      <4>1. k = j
        BY <3>4 DEF Prune, TypeInv, TypeOK
      <4> QED BY <2>0, <3>4, <4>1, PruneSpares
    <3>5. CASE Report(k) \/ RestoreRuns(k)
      BY <3>5 DEF Report, RestoreRuns, files
    <3> QED BY <2>4, <3>1, <3>2, <3>3, <3>4, <3>5 DEF JobStep
  <2> QED BY <2>1, <2>2, <2>3, <2>4 DEF Next
<1>4. Spec => []ManualInv
  BY ManualInvariant, SingleParts
<1> QED BY <1>1, <1>2, <1>3, <1>4, TypeInvariant, PTL DEF Spec, PruneLeavesNewer

----------------------------------------------------------------------------
(* Schedules *)

\* Unless its last write failed the file says what is in memory.
SavedInv == ~unsaved => Loaded = schedules

LEMMA NeverLost == \A s \in Schedules : s # Lost
BY BackupsAssumption

LEMMA SavedInvariant == Spec => []SavedInv
<1>1. Init => SavedInv
  BY DEF Init, SavedInv, Loaded
<1>2. TypeInv' /\ SavedInv /\ [Next]_vars => SavedInv'
  <2> SUFFICES ASSUME TypeInv', SavedInv, [Next]_vars PROVE SavedInv'
    OBVIOUS
  <2>0. schedules' # Lost
    BY NeverLost DEF TypeInv, TypeOK
  <2>1. ASSUME NEW d \in Databases, NEW on \in BOOLEAN, NEW w \in WindowInputs,
               SaveSchedule(d, on, w)
        PROVE  SavedInv'
    BY <2>0, <2>1 DEF SaveSchedule, Saved, SavedInv, Loaded
  <2>2. ASSUME NEW j \in Jobs, Report(j)
        PROVE  SavedInv'
    BY <2>0, <2>2 DEF Report, Saved, SavedInv, Loaded, table
  <2>3. CASE Crash
    BY <2>3 DEF Crash, Loaded, SavedInv
  <2>4. CASE UNCHANGED table
    BY <2>4 DEF SavedInv, Loaded, table
  <2>5. Request => \/ UNCHANGED table
                   \/ \E d \in Databases, on \in BOOLEAN, w \in WindowInputs :
                        SaveSchedule(d, on, w)
    BY DEF Request, CreateBackup, RestoreBackup, DeleteBackup, plan, table
  <2>6. ASSUME NEW j \in Jobs, JobStep(j)
        PROVE  Report(j) \/ UNCHANGED table
    BY <2>6 DEF JobStep, DumpEnds, FallBack, DumpFails, Prune, RestoreRuns, plan, table
  <2>7. (\E j \in CronJobs, d \in Databases : RunScheduledBackup(j, d)) \/ Clock
          => UNCHANGED table
    BY DEF RunScheduledBackup, Clock
  <2>8. UNCHANGED vars => UNCHANGED table
    BY DEF vars, table
  <2> QED BY <2>1, <2>2, <2>3, <2>4, <2>5, <2>6, <2>7, <2>8 DEF Next
<1> QED BY <1>1, <1>2, TypeInvariant, PTL DEF Spec

\* A restart brings back what was scheduled and how the last runs went, for any
\* number of databases, unless the last write of the schedules file failed: a write
\* that works makes up for all that failed before it.
THEOREM SchedulesCorrect == Spec => SchedulesSurvive
<1>1. TypeInv /\ SavedInv /\ [Next]_vars
        => [crashes' # crashes /\ ~unsaved => schedules' = schedules]_vars
  <2> SUFFICES ASSUME SavedInv, Next, crashes' # crashes, ~unsaved
               PROVE  schedules' = schedules
    OBVIOUS
  <2>1. ASSUME Request PROVE UNCHANGED crashes
    BY <2>1 DEF Request, CreateBackup, RestoreBackup, DeleteBackup, SaveSchedule
  <2>2. ASSUME NEW j \in Jobs, JobStep(j) PROVE UNCHANGED crashes
    BY <2>2 DEF JobStep, DumpEnds, FallBack, DumpFails, Prune, Report, RestoreRuns
  <2>3. (\E j \in CronJobs, d \in Databases : RunScheduledBackup(j, d)) \/ Clock
          => UNCHANGED crashes
    BY DEF RunScheduledBackup, Clock
  <2>4. Crash
    BY <2>1, <2>2, <2>3 DEF Next
  <2> QED BY <2>4 DEF Crash, SavedInv
<1> QED BY <1>1, TypeInvariant, SavedInvariant, PTL DEF Spec, SchedulesSurvive
=============================================================================
