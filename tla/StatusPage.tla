------------------------------ MODULE StatusPage ------------------------------
(***************************************************************************)
(* The status page (src/web/app/status/page.tsx), its client of the        *)
(* sentinel (lib/sentinel-client.ts) and the watchdog proxy.  The page     *)
(* polls the monitors, and adds, edits, deletes and pauses them; it shows  *)
(* a change before it has read it back, and simulated monitors whenever a  *)
(* poll fails, or answers that there are none: the sentinel sends null for *)
(* an empty list, which the client takes for a failure.  The client never  *)
(* reports a failed write.                                                 *)
(*                                                                         *)
(* A monitor is its settings and whether it is active; the results of the  *)
(* checks are the business of SentinelScheduler.                           *)
(***************************************************************************)
EXTENDS Naturals, FiniteSets

CONSTANTS
  Ids,        \* the identifiers a monitor can have
  Settings,   \* the name, address, type and interval of a monitor
  Start,      \* the monitors the sentinel starts with
  Simulation, \* the monitors the page invents when it cannot read them
  MaxMoves,   \* bound: how many requests the user makes
  MaxOpen,    \* bound: the user waits while more requests than this are under way
  MaxFaults,  \* bound: how many requests or answers are lost
  Absent      \* in place of a monitor that is not there

Monitor  == [settings : Settings, active : BOOLEAN]
Monitors == [Ids -> Monitor \union {Absent}]

NoMonitors == [i \in Ids |-> Absent]

StatusConstants ==
  /\ Start \in Monitors /\ Simulation \in Monitors
  /\ MaxMoves \in Nat /\ MaxOpen \in Nat /\ MaxFaults \in Nat
  /\ Absent \notin Monitor /\ Absent \notin Ids

VARIABLES
  monitors,    \* sentinel: its monitors
  shown,       \* page: the monitors it shows
  simulated,   \* page: they are invented
  loading,     \* page: nothing was ever read
  form,        \* page: the monitor whose settings are being edited
  adding,      \* page: the form of a new monitor is open
  refreshing,  \* page: the refresh button spins
  updating,    \* page: a change of settings is being saved
  submitting,  \* page: a new monitor is being saved
  probing,     \* page: the inspector waits
  calls,       \* requests under way
  moves,       \* how many requests the user made
  faults,      \* how many requests or answers were lost
  plain        \* history: nothing was lost, no write overlapped another request

vars == <<monitors, shown, simulated, loading, form, adding, refreshing, updating,
          submitting, probing, calls, moves, faults, plain>>

Page == <<shown, simulated, loading>>
Busy == <<form, adding, refreshing, updating, submitting, probing>>

Writes == {"add", "update", "delete", "toggle"}
Kinds  == Writes \union {"status", "probe"}

\* Why the page reads the monitors: the timer, the button, or a handler that wrote.
Causes == {"poll", "refresh", "add", "update", "delete", "none"}

Call == [kind : Kinds, n : Nat, cause : Causes, id : Ids \union {Absent},
         set : Monitor \union {Absent}, state : {"sent", "served", "lost"}, got : Monitors]

\* A number that no request under way of the same kind and cause has.
Fresh(cs, kind, cause) ==
  LET ns == {c.n : c \in {d \in cs : d.kind = kind /\ d.cause = cause}}
  IN  CHOOSE i \in 0..Cardinality(ns) : i \notin ns

NewCall(cs, kind, cause, id, set) ==
  [kind |-> kind, n |-> Fresh(cs, kind, cause), cause |-> cause, id |-> id, set |-> set,
   state |-> "sent", got |-> Simulation]

Load(cs, cause) == cs \union {NewCall(cs, "status", cause, Absent, Absent)}

\* A write is under way together with another write or a read.
Overlap(cs) == \E c, d \in cs : c # d /\ c.kind \in Writes /\ d.kind # "probe"

Sends(cs) == calls' = cs /\ plain' = (plain /\ ~Overlap(cs))

----------------------------------------------------------------------------
(* The user and the timer.                                                 *)

Able == moves < MaxMoves /\ Cardinality(calls) <= MaxOpen

Move == Able /\ moves' = moves + 1

\* Until something was read there is only a spinner; then a modal may cover the page.
Free == ~loading /\ form = Absent /\ ~adding

Ask(kind, id, set) == /\ Move
                      /\ Sends(calls \union {NewCall(calls, kind, "none", id, set)})
                      /\ UNCHANGED <<monitors, Page, faults>>

\* Mutant of Due: the timer stops after the first answer.
DueOnce == loading /\ \A c \in calls : c.cause # "poll"

Due == \A c \in calls : c.cause # "poll"

\* Every 30 seconds; a read takes six at most, so the one before is over.
Poll == /\ Due
        /\ Sends(Load(calls, "poll"))
        /\ UNCHANGED <<monitors, Page, Busy, moves, faults>>

Refresh == /\ Free /\ ~refreshing
           /\ Move
           /\ refreshing' = TRUE
           /\ Sends(Load(calls, "refresh"))
           /\ UNCHANGED <<monitors, Page, form, adding, updating, submitting, probing, faults>>

\* From the inspector, whose button waits, or from a monitor, whose button does not.
ProbeSite == /\ Free
             /\ Ask("probe", Absent, Absent)
             /\ probing' = TRUE
             /\ UNCHANGED <<form, adding, refreshing, updating, submitting>>

OpenAdd == /\ Free /\ Able
           /\ adding' = TRUE
           /\ UNCHANGED <<monitors, Page, form, refreshing, updating, submitting, probing, calls, moves, faults, plain>>

OpenEdit(i) == /\ Free /\ Able /\ shown[i] # Absent
               /\ form' = i
               /\ UNCHANGED <<monitors, Page, adding, refreshing, updating, submitting, probing, calls, moves, faults, plain>>

\* Cancel stays enabled while the form is being saved.
Close == /\ adding \/ form # Absent
         /\ form' = Absent /\ adding' = FALSE
         /\ UNCHANGED <<monitors, Page, refreshing, updating, submitting, probing, calls, moves, faults, plain>>

AddMonitor(s) == /\ adding /\ ~submitting
                 /\ Ask("add", Absent, [settings |-> s, active |-> TRUE])
                 /\ submitting' = TRUE
                 /\ UNCHANGED <<form, adding, refreshing, updating, probing>>

UpdateMonitor(s) == /\ form # Absent /\ ~updating
                    /\ Ask("update", form, [settings |-> s, active |-> TRUE])
                    /\ updating' = TRUE
                    /\ UNCHANGED <<form, adding, refreshing, submitting, probing>>

DeleteMonitor(i) == /\ Free /\ shown[i] # Absent
                    /\ Ask("delete", i, Absent)
                    /\ UNCHANGED Busy

\* The request names the state to reach, the opposite of the one on the screen.
ToggleMonitor(i) == /\ Free /\ shown[i] # Absent
                    /\ Ask("toggle", i, [shown[i] EXCEPT !.active = ~@])
                    /\ UNCHANGED Busy

----------------------------------------------------------------------------
(* The sentinel and the network.                                           *)

\* The monitors ms after the write c; a write to a monitor that is gone does nothing.
After(ms, c) ==
  CASE c.kind = "update" /\ ms[c.id] # Absent -> {[ms EXCEPT ![c.id].settings = c.set.settings]}
    [] c.kind = "toggle" /\ ms[c.id] # Absent -> {[ms EXCEPT ![c.id].active = c.set.active]}
    [] c.kind = "delete" -> {[ms EXCEPT ![c.id] = Absent]}
    [] c.kind = "add" /\ \E i \in Ids : ms[i] = Absent ->
         {[ms EXCEPT ![i] = c.set] : i \in {j \in Ids : ms[j] = Absent}}
    [] OTHER -> {ms}

Serve(c) == /\ c.state = "sent"
            /\ monitors' \in After(monitors, c)
            /\ calls' = (calls \ {c}) \union {[c EXCEPT !.state = "served", 
                                                  !.got = IF c.kind = "status" THEN monitors ELSE @]}
            /\ UNCHANGED <<Page, Busy, moves, faults, plain>>

\* The proxy gives up after 12 seconds, a read of the page after six.
Lose(c) == /\ c.state # "lost" /\ faults < MaxFaults
           /\ calls' = (calls \ {c}) \union {[c EXCEPT !.state = "lost"]}
           /\ faults' = faults + 1
           /\ plain' = FALSE
           /\ UNCHANGED <<monitors, Page, Busy, moves>>

----------------------------------------------------------------------------
(* Answers, or what the client makes up in place of one.                   *)

Ready(c) == c.state # "sent"

\* Mutant of Waits: the button waits for a read that succeeds.
WaitsOn(flag, c, cause) == flag /\ (c.cause # cause \/ c.state = "lost")

Waits(flag, c, cause) == flag /\ c.cause # cause

\* "monitors": null is no list to the client.
Failed(c) == c.state = "lost" \/ c.got = NoMonitors

\* loadStatus returns to the timer or to the handler that awaits it.
GotStatus(c) ==
  /\ c.kind = "status" /\ Ready(c)
  /\ shown' = IF Failed(c) THEN Simulation ELSE c.got
  /\ simulated' = Failed(c)
  /\ loading' = FALSE
  /\ refreshing' = Waits(refreshing, c, "refresh")
  /\ updating' = Waits(updating, c, "update")
  /\ submitting' = Waits(submitting, c, "add")
  /\ Sends(calls \ {c})
  /\ UNCHANGED <<monitors, form, adding, probing, moves, faults>>

\* Mutant of Optimistic: the page waits for the next poll.
Pessimistic(c) == IF c.kind = "delete" THEN [shown EXCEPT ![c.id] = Absent] ELSE shown

\* The page as the handler of write c leaves it, whatever came back.
Optimistic(c) ==
  CASE c.kind = "update" /\ shown[c.id] # Absent -> [shown EXCEPT ![c.id].settings = c.set.settings]
    [] c.kind = "toggle" /\ shown[c.id] # Absent -> [shown EXCEPT ![c.id].active = c.set.active]
    [] c.kind = "delete" -> [shown EXCEPT ![c.id] = Absent]
    [] OTHER -> shown

\* The handler resumes; all but the toggle read the monitors again.
GotWrite(c) ==
  LET rest == calls \ {c}
  IN  /\ c.kind \in Writes /\ Ready(c)
      /\ shown' = Optimistic(c)
      /\ form' = IF c.kind = "update" THEN Absent ELSE form
      /\ adding' = (adding /\ c.kind # "add")
      /\ Sends(IF c.kind = "toggle" THEN rest ELSE Load(rest, c.kind))
      /\ UNCHANGED <<monitors, simulated, loading, refreshing, updating, submitting, probing, moves, faults>>

GotProbe(c) == /\ c.kind = "probe" /\ Ready(c)
               /\ probing' = FALSE
               /\ Sends(calls \ {c})
               /\ UNCHANGED <<monitors, Page, form, adding, refreshing, updating, submitting, moves, faults>>

Answer(c) == GotStatus(c) \/ GotWrite(c) \/ GotProbe(c)

User == \/ Refresh \/ ProbeSite \/ OpenAdd \/ Close
        \/ \E i \in Ids : OpenEdit(i) \/ DeleteMonitor(i) \/ ToggleMonitor(i)
        \/ \E s \in Settings : AddMonitor(s) \/ UpdateMonitor(s)

Init ==
  /\ monitors = Start /\ shown = NoMonitors /\ simulated = FALSE /\ loading = TRUE
  /\ form = Absent /\ adding = FALSE
  /\ refreshing = FALSE /\ updating = FALSE /\ submitting = FALSE /\ probing = FALSE
  /\ calls = Load({}, "poll")
  /\ moves = 0 /\ faults = 0 /\ plain = TRUE

Next == \/ User \/ Poll
        \/ \E c \in calls : Serve(c) \/ Lose(c) \/ Answer(c)

\* The timer fires, and a request is answered or given up: the client bounds it.
Fairness == /\ WF_vars(Poll)
            /\ WF_vars(\E c \in calls : Serve(c))
            /\ WF_vars(\E c \in calls : Answer(c))

Safety == Init /\ [][Next]_vars

Spec == Safety /\ Fairness

----------------------------------------------------------------------------
(* Properties.                                                             *)

TypeOK ==
  /\ monitors \in Monitors /\ shown \in Monitors
  /\ {simulated, loading, adding, refreshing, updating, submitting, probing, plain} \subseteq BOOLEAN
  /\ form \in Ids \union {Absent}
  /\ calls \subseteq Call
  /\ moves \in Nat /\ faults \in Nat

\* A button that waits has a request under way that releases it: the write, or the
\* read its handler awaits after it.
ButtonsReleased ==
  /\ loading    => \E c \in calls : c.cause = "poll"
  /\ refreshing => \E c \in calls : c.cause = "refresh"
  /\ updating   => \E c \in calls : c.kind = "update" \/ c.cause = "update"
  /\ submitting => \E c \in calls : c.kind = "add" \/ c.cause = "add"
  /\ probing    => \E c \in calls : c.kind = "probe"

\* The page shows ms for what the sentinel has: its monitors, or, when it has none, what
\* the client invented.
TrueTo(ms) == IF monitors = NoMonitors THEN simulated ELSE ms = monitors /\ ~simulated

\* As long as no request was lost and no write overlapped a read or a write, a page
\* at rest shows the sentinel's monitors -- after a toggle too, which reads nothing back --
\* and invented ones exactly when the sentinel has none.
SettledPage == (plain /\ calls = {}) => TrueTo(shown)

\* Whatever was lost or overlapped before: the page ends up showing the monitors of the
\* sentinel, and none it invented unless the sentinel has none.
Converges == <>[](TrueTo(shown) /\ (simulated => shown = Simulation))
=============================================================================
