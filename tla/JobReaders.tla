----------------------------- MODULE JobReaders -----------------------------
(***************************************************************************)
(* The clients that read jobs, each on its own server: a script that pages *)
(* through the history of any store, or the web console.  The console asks *)
(* for single jobs and for one page without a bound, where the stores do   *)
(* not differ, and looks at no time: its server has the in-memory store    *)
(* and one retention, and its clock stands still.                          *)
(***************************************************************************)
EXTENDS HistoryPager, WebConsole

\* The servers that share a store are finitely many, so that one of their
\* retentions is the longest.
ASSUME ReadersAssumption == \E r \in Retentions : \A q \in Retentions : q <= r

VARIABLE reader

vars == <<historyVars, pager, consoleVars, reader>>

Init ==
    /\ reader \in {"script", "console"}
    /\ HistoryInit /\ (reader = "console" => backend = "memory")
    /\ pager = PagerStart
    /\ ConsoleInit

ScriptNext ==
    /\ reader = "script"
    /\ (HistoryStep /\ UNCHANGED pager) \/ PagerStep
    /\ UNCHANGED <<consoleVars, reader>>

Longest == CHOOSE r \in Retentions : \A q \in Retentions : q <= r

\* Other clients of the same caller submit jobs too.
ConsoleServes ==
    \/ \E j \in Jobs : (Draw(j, Longest) \/ Insert(j)) /\ UNCHANGED consoleVars
    \/ \E j \in Jobs : Settle(j) /\ UNCHANGED historyVars

ConsoleNext ==
    /\ reader = "console"
    /\ \/ ConsoleServes
       \/ \E j \in Jobs : Submit(j, Longest)
       \/ \E j \in Jobs : PageStep(j) /\ UNCHANGED historyVars
       \/ LoadStep /\ UNCHANGED historyVars
       \/ FetchFails /\ UNCHANGED historyVars
       \/ UserStep /\ UNCHANGED historyVars
    /\ UNCHANGED <<pager, reader>>

Next == ScriptNext \/ ConsoleNext

Spec == Init /\ [][Next]_vars

\* Timers fire, fetches are served and answered (or fail), and workers settle
\* the jobs; nobody has to click, and no fetch has to fail.
Fairness == \A j \in Jobs :
    /\ WF_vars(ConsoleNext /\ PageStep(j))
    /\ WF_vars(ConsoleNext /\ Settle(j))

FairSpec == Spec /\ Fairness

\* The types of what the server, the script and the console hold.
TypeOK ==
    /\ HistoryTypeOK
    /\ PagerTypeOK
    /\ ConsoleTypeOK
    /\ reader \in {"script", "console"}
=============================================================================
