------------------------------ MODULE Dashboard ------------------------------
(***************************************************************************)
(* The pages of the dashboard, each against the part of the agent or the   *)
(* sentinel it drives: a browser tab shows one page, and only its requests *)
(* are under way.  The databases page goes by its own names, the others by *)
(* instances.  The backups tab asks the explainer which schedules it may   *)
(* save; the agent decides for itself which ones it takes.                 *)
(***************************************************************************)
EXTENDS DatabasesPage, Integers

CONSTANTS
  \* TableStudio
  Tables, Keys, Columns, ColumnsOf, PkOf, DefaultPk, Kept, Value, PageSizes, DefaultSize,
  AgentLimit, AgentDefault, Undaunted, StartRows,
  \* StatusPage
  Ids, Settings, StartMonitors, Simulation,
  StatusMoves,      \* bound: how many requests the user makes on the status page
  \* BackupsView
  Files, InventedFiles, Windows, DefaultSchedule, StartSchedule,
  Crons,            \* the schedules a user may type there
  \* CronExplainer
  Expressions, Zones   \* the schedules that are explained, and the zones of the agent's host

VARIABLES
  page,
  \* TableStudio
  existing, stored, listed, query, view, schemaOf, grid, ticked, editing, inspecting,
  loadingRows, sqlRunning, studioCalls, studioMoves, studioTrouble,
  \* StatusPage
  monitors, shown, simulated, statusLoading, form, adding, refreshing, updating, submitting,
  probing, statusCalls, statusMoves, statusFaults, statusPlain,
  \* BackupsView
  files, sched, backups, schedule, edited, tabLoading, tabModal, chosen, typed,
  tabBusy, tabCalls, tabMoves, tabFaults, tabPlain,
  \* CronExplainer
  expression, explanation

Studio == INSTANCE TableStudio WITH
  calls <- studioCalls, moves <- studioMoves, trouble <- studioTrouble

Status == INSTANCE StatusPage WITH
  Start <- StartMonitors, Absent <- None, MaxMoves <- StatusMoves,
  loading <- statusLoading, calls <- statusCalls, moves <- statusMoves,
  faults <- statusFaults, plain <- statusPlain

Explainer == INSTANCE CronExplainer

Explained == {e \in Crons : Explainer!Explain(e).valid}
Parsed    == {e \in Crons : Explainer!Parses(e)}

Tab == INSTANCE BackupsView WITH
  Invented <- InventedFiles, Default <- DefaultSchedule, Start <- StartSchedule,
  loading <- tabLoading, modal <- tabModal, busy <- tabBusy, calls <- tabCalls,
  moves <- tabMoves, faults <- tabFaults, plain <- tabPlain

ASSUME DashboardAssumption ==
  /\ Studio!StudioConstants /\ Status!StatusConstants /\ Tab!BackupsViewConstants
  /\ Explainer!ExplainerConstants /\ DatabasesConstants

----------------------------------------------------------------------------
studioVars == <<existing, stored, listed, query, view, schemaOf, grid, ticked, editing, inspecting,
  loadingRows, sqlRunning, studioCalls, studioMoves, studioTrouble>>
statusVars == <<monitors, shown, simulated, statusLoading, form, adding, refreshing, updating,
  submitting, probing, statusCalls, statusMoves, statusFaults, statusPlain>>
tabVars == <<files, sched, backups, schedule, edited, tabLoading, tabModal, chosen, typed,
  tabBusy, tabCalls, tabMoves, tabFaults, tabPlain>>
cronVars == <<expression, explanation>>

webVars == <<page, studioVars, statusVars, tabVars, vars, cronVars>>

Pages == {"studio", "status", "backups", "databases", "cron"}

FirstTyped == CHOOSE e \in Expressions : TRUE

WebInit == /\ page \in Pages
           /\ Studio!Init /\ Status!Init /\ Tab!Init /\ Init
           /\ page # "studio" => existing # {}
           /\ expression = FirstTyped /\ explanation = Explainer!Explain(FirstTyped)

OnStudio    == /\ page = "studio" /\ Studio!Next
               /\ UNCHANGED <<page, statusVars, tabVars, vars, cronVars>>
OnStatus    == /\ page = "status" /\ Status!Next
               /\ UNCHANGED <<page, studioVars, tabVars, vars, cronVars>>
OnBackups   == /\ page = "backups" /\ Tab!Next
               /\ UNCHANGED <<page, studioVars, statusVars, vars, cronVars>>
OnDatabases == /\ page = "databases" /\ Next
               /\ UNCHANGED <<page, studioVars, statusVars, tabVars, cronVars>>
OnSchedule  == /\ page = "cron" /\ Explainer!Next
               /\ UNCHANGED <<page, studioVars, statusVars, tabVars, vars>>

WebNext == OnStudio \/ OnStatus \/ OnBackups \/ OnDatabases \/ OnSchedule

WebSafety == WebInit /\ [][WebNext]_webVars

\* The other pages have no timer, and nobody has to act on them.
WebSpec == WebSafety /\ (page = "status" => Status!Fairness)

----------------------------------------------------------------------------
(* The properties of the other pages; those of the databases page are its own. *)

\* TableStudio, StatusPage, BackupsView: a spinner or a button that waits has a request
\* under way that releases it.
WaitsEnd == /\ page = "studio" => Studio!NoStuckSpinner
            /\ page = "status" => Status!ButtonsReleased
            /\ page = "backups" => Tab!TabReleased

\* TableStudio: a write names rows the page showed of the table it goes to.
WritesHitWhatWasShown == page = "studio" => Studio!WritesHitWhatWasShown

\* TableStudio: a grid at rest shows an answer to its query.
SettledGrid == page = "studio" => Studio!SettledGrid

\* TableStudio: paging through a sorted table shows every row.
EveryRowReachable == page = "studio" => Studio!EveryRowReachable

\* TableStudio, violated: an inline edit reaches the agent.
EditsReachTheAgent == page = "studio" => Studio!EditsReachTheAgent

\* StatusPage: a page at rest shows the sentinel's monitors, if it has any.
SettledPage == page = "status" => Status!SettledPage

\* StatusPage: it ends up showing them, or invented ones if there are none.
Converges == page = "status" => Status!Converges

\* BackupsView: one restore or deletion, of the snapshot that is shown.
OneDestructive == page = "backups" => Tab!OneDestructive

\* BackupsView: a save changes what was edited.
SavesWhatWasRead == page = "backups" => Tab!SavesWhatWasRead

\* CronExplainer: the times a schedule is said to run at are those it runs at.
ExplanationIsHonest == page = "cron" => Explainer!ExplanationIsHonest

\* CronExplainer: what is explained is a schedule the agent takes.
ExplainedIsTaken == page = "cron" => Explainer!ExplainedIsTaken
=============================================================================
