-------------------------------- MODULE MCWeb --------------------------------
(***************************************************************************)
(* The dashboard on small data.                                            *)
(***************************************************************************)
EXTENDS Dashboard, TLC

CONSTANTS id, code, a, b, v, w, prod, test

\* Two tables; keys are numbers in both, and a column of one is missing in the other.
MCTables    == {1, 2}
MCSizes     == {1, 3}
MCColumns   == {id, code}
MCColumnsOf == (1 :> {id, code}) @@ (2 :> {code})
MCPkOf      == (1 :> id) @@ (2 :> code)
MCKept      == (id :> {1, 2}) @@ (code :> {1})
\* All rows have the same code in the first table; the others tell them apart.
MCValue     == [t \in MCTables |-> [c \in MCColumns |-> [k \in MCTables |-> IF t = 1 /\ c = code THEN 0 ELSE k]]]
MCRows      == (1 :> {1, 2}) @@ (2 :> {1})

\* One monitor, and a simulation that has two.
MCIds        == {a, b}
MCSettings   == {v, w}
MCMonitor    == [settings |-> v, active |-> TRUE]
MCMonitors   == [i \in MCIds |-> IF i = a THEN MCMonitor ELSE None]
MCSimulation == [i \in MCIds |-> MCMonitor]

\* Schedules: steps that divide the hour and one that does not, an hour past the day, Sunday
\* as 7, letters behind a step, a range with a step, a comma with nothing behind it.
MCExpressions ==
  LET star == Explainer!Star
      fields == [min  : {star, Explainer!Single(0), Explainer!Every(15), Explainer!Every(45),
                         Explainer!Sloppy(5)},
                 hour : {star, Explainer!Single(12), Explainer!Single(24), Explainer!Every(6),
                         Explainer!Spread(<<9, 17>>),
                         Explainer!Loose({<<1, 1>>, <<0, 0>>})},
                 dom  : {star, Explainer!Single(13)}, mon : {star, Explainer!Single(1)},
                 dow  : {star, Explainer!Single(0), Explainer!Single(7), Explainer!List({<<1, 5>>})}]
  IN  {e \in fields : e.mon = star \/ e.dow = star}

MCZones == {0, 2}

\* Noon, every day, and on Sundays: of the latter the agent takes no 7.
Noon    == [min |-> Explainer!Single(0), hour |-> Explainer!Single(12), dom |-> Explainer!Star,
            mon |-> Explainer!Star, dow |-> Explainer!Star]
Sundays == [Noon EXCEPT !.dow = Explainer!Single(7)]
MCCrons == {Noon, Sundays}

\* One snapshot and an invented one; a schedule that differs from the default.
MCFiles    == {1, 2}
MCInvented == {2}
MCWindows  == {5}
MCDefault  == [enabled |-> FALSE, cron |-> Noon, window |-> 5]
MCSchedule == [enabled |-> TRUE, cron |-> Noon, window |-> 5]

\* Two databases of one project.
MCDbs     == {prod, test}
MCRoles   == {"app", "app_prod", "app_test"}
MCRoleOf  == (prod :> "app") @@ (test :> "app")
MCCloneOf == (prod :> "app_prod") @@ (test :> "app_test")
MCFirst   == {prod}
MCMocks   == {test}
=============================================================================
