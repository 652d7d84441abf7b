----------------------------- MODULE BackupsView -----------------------------
(***************************************************************************)
(* The backups tab of one database (components/db/DatabaseBackupsView.tsx) *)
(* and its client (lib/agent-client.ts): the list of snapshots, the        *)
(* schedule form, and the modals that create, restore and delete.  Reading *)
(* the tab is two requests awaited together.  The client turns a failed    *)
(* read into an invented list and the default schedule, and a failed       *)
(* deletion into a success.                                                *)
(*                                                                         *)
(* What the agent does with the files is the business of Backups.          *)
(***************************************************************************)
EXTENDS Naturals, FiniteSets

CONSTANTS
  Files,       \* the snapshots there may be
  Invented,    \* the snapshots the client shows when it cannot read them
  Crons,       \* the schedules a user may type
  Explained,   \* those cron-explainer.ts takes for valid
  Parsed,      \* those the parser of the agent takes
  Windows,     \* how many automatic snapshots to keep
  Default,     \* the schedule of a database that has none
  Start,       \* the schedule the agent has at the start
  MaxMoves,    \* bound: how many requests the user makes and fields he edits
  MaxOpen,     \* bound: the user waits while more requests than this are under way
  MaxFaults,   \* bound: how many requests or answers are lost
  None

Fields    == {"enabled", "cron", "window"}
Schedules == [enabled : BOOLEAN, cron : Crons, window : Windows]

BackupsViewConstants ==
  /\ Invented \subseteq Files /\ Explained \subseteq Crons /\ Parsed \subseteq Crons
  /\ Default \in Schedules /\ Start \in Schedules
  /\ MaxMoves \in Nat /\ MaxOpen \in Nat /\ MaxFaults \in Nat
  /\ None \notin Files /\ None \notin {"create", "restore", "delete"}

VARIABLES
  files,       \* agent: the snapshots
  sched,       \* agent: the schedule
  backups,     \* page: the snapshots it lists
  schedule,    \* page: the schedule in the form
  edited,      \* history: the fields changed in the form since it was last filled in
  loading,     \* page: the list is being read
  modal,       \* page: the modal that is open: create, restore, delete
  chosen,      \* page: the snapshot of the restore or delete modal
  typed,       \* page: the name of the database is typed in the restore modal
  busy,        \* page: the operations whose buttons wait
  calls,       \* requests under way
  moves,       \* how many requests the user made and fields he edited
  faults,      \* how many requests or answers were lost
  plain        \* history: nothing was lost and no save overlapped a read

vars == <<files, sched, backups, schedule, edited, loading, modal, chosen, typed,
          busy, calls, moves, faults, plain>>

Agent == <<files, sched>>
Form  == <<schedule, edited>>
Modal == <<modal, chosen, typed>>

Operations == {"create", "save", "restore", "delete"}
Parts      == {"list", "schedule"}

\* A request; a load is two of them, of which `ready` are answered.  `cause` is the
\* handler that awaits a load.
Call == [kind : Operations \union {"load"}, n : Nat, cause : Operations \union {"user"},
         file : Files \union {None}, sched : Schedules, edited : SUBSET Fields,
         state : {"sent", "done", "refused"}, ready : SUBSET Parts, list : SUBSET Files]

\* A number that no request under way of the same kind and cause has.
Fresh(cs, kind, cause) ==
  LET ns == {c.n : c \in {d \in cs : d.kind = kind /\ d.cause = cause}}
  IN  CHOOSE i \in 0..Cardinality(ns) : i \notin ns

NewCall(cs, kind, cause, file, s) ==
  [kind |-> kind, n |-> Fresh(cs, kind, cause), cause |-> cause, file |-> file, sched |-> s,
   edited |-> edited, state |-> "sent", ready |-> {}, list |-> {}]

Load(cs, cause) == cs \union {NewCall(cs, "load", cause, None, Default)}

\* A read of the schedule and a save of it are under way together.
Overlap(cs) == /\ \E c \in cs : c.kind = "load"
               /\ \E c \in cs : c.kind = "save"

Sends(cs) == calls' = cs /\ plain' = (plain /\ ~Overlap(cs))

----------------------------------------------------------------------------
(* The user.                                                               *)

Able == moves < MaxMoves /\ Cardinality(calls) <= MaxOpen

Ask(kind, file, s) ==
  /\ Able /\ moves' = moves + 1
  /\ kind \notin busy
  /\ busy' = busy \union {kind}
  /\ Sends(calls \union {NewCall(calls, kind, kind, file, s)})
  /\ UNCHANGED <<Agent, backups, Form, loading, Modal, faults>>

Refresh ==
  /\ modal = None /\ ~loading
  /\ Able /\ moves' = moves + 1
  /\ loading' = TRUE
  /\ Sends(Load(calls, "user"))
  /\ UNCHANGED <<Agent, backups, Form, Modal, busy, faults>>

EditSchedule(f, s) ==
  /\ modal = None
  /\ Able /\ moves' = moves + 1
  /\ s # schedule /\ s = [schedule EXCEPT ![f] = s[f]]
  /\ schedule' = s
  /\ edited' = edited \union {f}
  /\ UNCHANGED <<Agent, backups, loading, Modal, busy, calls, faults, plain>>

\* The button waits for a save, not for the form to be read.
SaveSchedule == /\ modal = None /\ schedule.cron \in Explained
                /\ Ask("save", None, schedule)

OpenModal(m, f) ==
  /\ modal = None /\ Able
  /\ IF m = "create" THEN f = None ELSE ~loading /\ f \in backups
  /\ modal' = m /\ chosen' = f /\ typed' = FALSE
  /\ UNCHANGED <<Agent, backups, Form, loading, busy, calls, moves, faults, plain>>

\* Mutant of Held: a restore can be left.
HeldByDelete == modal = "delete" /\ modal \in busy

Held == modal \in {"restore", "delete"} /\ modal \in busy

\* Cancel waits for a restore or a deletion, not for a snapshot being taken.
CloseModal ==
  /\ modal # None
  /\ ~Held
  /\ modal' = None /\ chosen' = None
  /\ UNCHANGED <<Agent, backups, Form, loading, typed, busy, calls, moves, faults, plain>>

TypeName == /\ modal = "restore" /\ ~typed
            /\ typed' = TRUE
            /\ UNCHANGED <<Agent, backups, Form, loading, modal, chosen, busy, calls, moves, faults, plain>>

CreateBackup   == modal = "create" /\ Ask("create", None, Default)
ConfirmRestore == modal = "restore" /\ typed /\ Ask("restore", chosen, Default)
ConfirmDelete  == modal = "delete" /\ Ask("delete", chosen, Default)

----------------------------------------------------------------------------
(* The agent and the network.                                              *)

Becomes(c, d) == calls' = (calls \ {c}) \union {d}

\* One of the two reads of a load.
ServeRead(c, part) ==
  /\ c.kind = "load" /\ part \notin c.ready
  /\ Becomes(c, IF part = "list" THEN [c EXCEPT !.ready = @ \union {part}, !.list = files]
                ELSE [c EXCEPT !.ready = @ \union {part}, !.sched = sched])
  /\ UNCHANGED <<Agent, backups, Form, loading, Modal, busy, moves, faults, plain>>

Refuses(c) == \/ c.kind \in {"restore", "delete"} /\ c.file \notin files
              \/ c.kind = "save" /\ c.sched.cron \notin Parsed
              \/ c.kind = "create" /\ files = Files

ServeWrite(c) ==
  /\ c.kind # "load" /\ c.state = "sent"
  /\ Becomes(c, [c EXCEPT !.state = IF Refuses(c) THEN "refused" ELSE "done"])
  /\ files' \in IF Refuses(c) THEN {files}
                ELSE IF c.kind = "delete" THEN {files \ {c.file}}
                ELSE IF c.kind = "create" THEN {files \union {f} : f \in Files \ files}
                ELSE {files}
  /\ sched' = IF c.kind = "save" /\ ~Refuses(c) THEN c.sched ELSE sched
  /\ UNCHANGED <<backups, Form, loading, Modal, busy, moves, faults, plain>>

\* The scheduler of the agent prunes a snapshot the page may be showing.
Prune(f) == /\ faults < MaxFaults /\ faults' = faults + 1
            /\ f \in files /\ files' = files \ {f}
            /\ UNCHANGED <<sched, backups, Form, loading, Modal, busy, calls, moves, plain>>

\* The client makes up the part of a load it did not get.
Lose(c) ==
  /\ faults < MaxFaults /\ faults' = faults + 1
  /\ \/ c.kind = "load" /\ "list" \notin c.ready
          /\ Becomes(c, [c EXCEPT !.ready = @ \union {"list"}, !.list = Invented])
     \/ c.kind = "load" /\ "schedule" \notin c.ready
          /\ Becomes(c, [c EXCEPT !.ready = @ \union {"schedule"}, !.sched = Default])
     \/ c.kind # "load" /\ c.state # "refused"
          /\ Becomes(c, [c EXCEPT !.state = "refused"])
  /\ plain' = FALSE
  /\ UNCHANGED <<Agent, backups, Form, loading, Modal, busy, moves>>

----------------------------------------------------------------------------
(* The handlers resume.                                                    *)

\* Mutant of Filled: a switch that was set stays.
FilledButSwitch(c) == [c.sched EXCEPT !.enabled = schedule.enabled]

Filled(c) == c.sched

\* Mutant of Freed: a button that failed stays.
FreedBySuccess(c) == IF c.state = "refused" THEN busy ELSE busy \ {c.kind}

Freed(c) == busy \ {c.kind}

\* loadData: both reads are in; edits of the form are overwritten.
GotLoad(c) ==
  /\ c.kind = "load" /\ c.ready = Parts
  /\ backups' = c.list
  /\ schedule' = Filled(c) /\ edited' = {}
  /\ loading' = FALSE
  /\ busy' = busy \ {c.cause}
  /\ Sends(calls \ {c})
  /\ UNCHANGED <<Agent, Modal, moves, faults>>

GotSave(c) ==
  /\ c.kind = "save" /\ c.state # "sent"
  /\ IF c.state = "done" THEN schedule' = c.sched /\ edited' = {} ELSE UNCHANGED Form
  /\ busy' = Freed(c)
  /\ Sends(calls \ {c})
  /\ UNCHANGED <<Agent, backups, loading, Modal, moves, faults>>

\* What the client reports: any answer to a deletion is a success.
Reported(c) == c.kind = "delete" \/ c.state = "done"

\* The operation of a modal: it closes and the tab is read again, or it stays open.
GotOperation(c) ==
  /\ c.kind \in {"create", "restore", "delete"} /\ c.state # "sent"
  /\ IF Reported(c)
     THEN /\ IF modal = c.kind THEN modal' = None /\ chosen' = None ELSE UNCHANGED <<modal, chosen>>
          /\ typed' = (typed /\ c.kind # "restore")
          /\ loading' = TRUE /\ busy' = busy
          /\ Sends(Load(calls \ {c}, c.kind))
     ELSE /\ UNCHANGED <<Modal, loading>>
          /\ busy' = Freed(c)
          /\ Sends(calls \ {c})
  /\ UNCHANGED <<Agent, backups, Form, moves, faults>>

User == \/ Refresh \/ SaveSchedule \/ CloseModal \/ TypeName
        \/ CreateBackup \/ ConfirmRestore \/ ConfirmDelete
        \/ \E f \in Fields, s \in Schedules : EditSchedule(f, s)
        \/ \E m \in {"create", "restore", "delete"}, f \in Files \union {None} : OpenModal(m, f)

Init ==
  /\ files = Files \ Invented /\ sched = Start
  /\ backups = {} /\ schedule = Default /\ edited = {} /\ loading = TRUE
  /\ modal = None /\ chosen = None /\ typed = FALSE /\ busy = {}
  /\ calls = Load({}, "user")
  /\ moves = 0 /\ faults = 0 /\ plain = TRUE

Next == \/ User
        \/ \E f \in Files : Prune(f)
        \/ \E c \in calls : \/ \E p \in Parts : ServeRead(c, p)
                            \/ ServeWrite(c) \/ Lose(c)
                            \/ GotLoad(c) \/ GotSave(c) \/ GotOperation(c)

Spec == Init /\ [][Next]_vars

----------------------------------------------------------------------------
(* Properties.                                                             *)

TypeOK ==
  /\ files \subseteq Files /\ sched \in Schedules
  /\ backups \subseteq Files /\ schedule \in Schedules /\ edited \subseteq Fields
  /\ loading \in BOOLEAN /\ typed \in BOOLEAN /\ plain \in BOOLEAN
  /\ modal \in {"create", "restore", "delete", None} /\ chosen \in Files \union {None}
  /\ busy \subseteq Operations
  /\ calls \subseteq Call
  /\ moves \in Nat /\ faults \in Nat

\* A button that waits is released by a request under way: the operation, or the
\* read its handler awaits after it.
TabReleased == /\ \A k \in busy : \E c \in calls : c.cause = k
               /\ loading => \E c \in calls : c.kind = "load"

\* At most one restore or deletion is under way, for the snapshot its modal shows:
\* the modal can be neither left nor pointed at another snapshot meanwhile.
OneDestructive ==
  \A c \in calls : c.kind \in {"restore", "delete"} =>
    /\ modal = c.kind /\ chosen = c.file
    /\ \A d \in calls : d.kind \in {"restore", "delete"} => d = c

\* As long as nothing was lost and no save overlapped a read of the form, saving the
\* schedule changes only what the user edited.
SavesWhatWasRead ==
  plain => \A c \in calls : (c.kind = "save" /\ c.state = "sent") =>
             \A f \in Fields \ c.edited : c.sched[f] = sched[f]
=============================================================================
