-------------------------- MODULE JobReadersProofs --------------------------
(***************************************************************************)
(* What holds of the readers of jobs for every set of jobs, all            *)
(* retentions, units of time, page sizes and bounds: what the index of     *)
(* redis covers, that paging shows every job once, that the console        *)
(* watches what it shows and shows what its user chose.                    *)
(***************************************************************************)
EXTENDS JobReaders, JobHistoryProofs

-----------------------------------------------------------------------------
\* Bags as the console uses them.
LEMMA BagAdds ==
    ASSUME NEW B, IsABag(B), NEW x
    PROVE  IsABag(BagAdd(B, x)) /\ BagToSet(BagAdd(B, x)) = BagToSet(B) \cup {x}
  <1>1. CASE x \in DOMAIN B
    <2>1. BagAdd(B, x) = [e \in DOMAIN B |-> IF e = x THEN B[e] + 1 ELSE B[e]]
      BY <1>1 DEF BagAdd
    <2> QED BY <1>1, <2>1 DEF IsABag, BagToSet
  <1>2. CASE x \notin DOMAIN B
    <2>1. BagAdd(B, x) = [e \in DOMAIN B \union {x} |-> IF e = x THEN 1 ELSE B[e]]
      BY <1>2 DEF BagAdd
    <2> QED BY <1>2, <2>1 DEF IsABag, BagToSet
  <1> QED BY <1>1, <1>2

LEMMA BagRemoves ==
    ASSUME NEW B, IsABag(B), NEW x \in BagToSet(B)
    PROVE  /\ IsABag(BagRemove(B, x))
           /\ BagToSet(BagRemove(B, x)) \subseteq BagToSet(B)
           /\ BagToSet(B) \ {x} \subseteq BagToSet(BagRemove(B, x))
  <1>1. CASE B[x] = 1
    <2>1. BagRemove(B, x) = [e \in DOMAIN B \ {x} |-> B[e]]
      BY <1>1 DEF BagRemove, BagToSet
    <2> QED BY <1>1, <2>1 DEF IsABag, BagToSet
  <1>2. CASE B[x] # 1
    <2>1. BagRemove(B, x) = [e \in DOMAIN B |-> IF e = x THEN B[e] - 1 ELSE B[e]]
      BY <1>2 DEF BagRemove, BagToSet
    <2> QED BY <1>2, <2>1 DEF IsABag, BagToSet
  <1> QED BY <1>1, <1>2

-----------------------------------------------------------------------------
\* Every reader leaves the history to its steps.
LEMMA LongestRetention == Longest \in Retentions
  BY ReadersAssumption DEF Longest

LEMMA NextHistory == [Next]_vars => [HistoryStep]_historyVars
  <1> SUFFICES ASSUME [Next]_vars PROVE [HistoryStep]_historyVars
    OBVIOUS
  <1>1. CASE UNCHANGED vars
    BY <1>1 DEF vars
  <1>2. CASE ScriptNext
    BY <1>2 DEF ScriptNext, PagerStep, Begin, AskStore, AskRange, Fetch
  <1>3. CASE ConsoleNext
    <2>1. CASE ConsoleServes
      BY <2>1, LongestRetention DEF ConsoleServes, HistoryStep
    <2>2. CASE \E j \in Jobs : Submit(j, Longest)
      BY <2>2, LongestRetention DEF Submit, HistoryStep
    <2> QED BY <1>3, <2>1, <2>2 DEF ConsoleNext
  <1> QED BY <1>1, <1>2, <1>3 DEF Next

\* The history of every reader keeps its invariants.
THEOREM History == Spec => [](HistoryInv /\ IndexInv /\ IndexCoversLive)
  <1>1. Init => HistoryInv /\ IndexInv /\ IndexCoversLive
    <2>1. HistoryInit => IndexCoversLive
      BY DEF HistoryInit, IndexCoversLive, Stored
    <2> QED BY <2>1, HistoryInvInit DEF Init
  <1>2. (HistoryInv /\ IndexInv /\ IndexCoversLive) /\ [Next]_vars
           => (HistoryInv /\ IndexInv /\ IndexCoversLive)'
    BY NextHistory, HistoryInvNext, IndexInvNext, IndexCoversNext
  <1> QED BY <1>1, <1>2, PTL DEF Spec

\* A job stays in the index of redis while its record lives, but for its last
\* unit of time, and unless a job stored later had a shorter retention or has
\* ended already (Create's trimming, and the TTL in whole seconds that it gives
\* the index).
THEOREM IndexCovers == Spec => []IndexCoversLive
  BY History, PTL

-----------------------------------------------------------------------------
Statuses3 == {"absent", "open", "settled"}

\* Half of the console's types: the form, the history pane and its loads ...
FormTypes ==
    /\ settled \subseteq Jobs
    /\ IsABag(loads) /\ BagToSet(loads) \subseteq
          [by : {"form", "page"}, served : BOOLEAN, page : [Jobs -> Statuses3]]
    /\ listed \in [Jobs -> Statuses3]
    /\ form \in Jobs \cup {"ready", "loading"}
    /\ choices \in 0..MaxChoices

\* ... and the other half: the job that is shown, its timers and its polls.
PageTypes ==
    /\ shown \in Jobs \cup {NoJob} /\ display \in {"idle", "open", "settled"}
    /\ timers \subseteq Jobs
    /\ IsABag(polls) /\ BagToSet(polls) \subseteq
          [job : Jobs, answer : {"none"} \cup Statuses3]
    /\ choice \in Jobs \cup {NoJob} /\ rivals \subseteq Jobs
    /\ unwatched \in BOOLEAN

\* Whatever the page shows, polls or will poll is what the user chose last, or
\* was being polled at that moment; and an unfinished job is watched.
PageInv ==
    /\ PageTypes
    /\ shown \in {choice} \cup rivals
    /\ timers \subseteq {choice} \cup rivals
    /\ \A p \in BagToSet(polls) : p.job \in {choice} \cup rivals
    /\ PendingJobWatched

ConsoleInv == FormTypes /\ PageInv

LEMMA ConsoleTypes == FormTypes /\ PageTypes <=> ConsoleTypeOK
  <1>1. {"none"} \cup Statuses3 = {"none", "absent", "open", "settled"}
    BY DEF Statuses3
  <1>2. Statuses3 = {"absent", "open", "settled"}
    BY DEF Statuses3
  <1> QED BY <1>1, <1>2 DEF FormTypes, PageTypes, ConsoleTypeOK

LEMMA ConsoleInvInit == ConsoleInit => ConsoleInv
  <1> SUFFICES ASSUME ConsoleInit PROVE ConsoleInv
    OBVIOUS
  <1>1. NoJobs \in [Jobs -> Statuses3]
    BY DEF NoJobs, Statuses3
  <1>2. PICK load : load = [by |-> "page", served |-> FALSE, page |-> NoJobs]
    OBVIOUS
  <1>3. IsABag(loads) /\ BagToSet(loads) = {load}
    BY <1>2 DEF ConsoleInit, SetToBag, IsABag, BagToSet
  <1>4. load \in [by : {"form", "page"}, served : BOOLEAN, page : [Jobs -> Statuses3]]
    BY <1>1, <1>2
  <1>5. FormTypes
    <2>1. BagToSet(loads) \subseteq
             [by : {"form", "page"}, served : BOOLEAN, page : [Jobs -> Statuses3]]
      BY <1>3, <1>4
    <2>2. settled \subseteq Jobs /\ listed \in [Jobs -> Statuses3]
      BY <1>1 DEF ConsoleInit
    <2>3. form \in Jobs \cup {"ready", "loading"}
      BY DEF ConsoleInit
    <2>4. choices \in 0..MaxChoices
      BY ConsoleAssumption DEF ConsoleInit
    <2> QED BY <1>3, <2>1, <2>2, <2>3, <2>4 DEF FormTypes
  <1>6. IsABag(polls) /\ BagToSet(polls) = {}
    BY DEF ConsoleInit, EmptyBag, SetToBag, IsABag, BagToSet
  <1>7. PageInv
    BY <1>6, ConsoleAssumption DEF ConsoleInit, PageInv, PageTypes, PendingJobWatched
  <1> QED BY <1>5, <1>7 DEF ConsoleInv

\* The status a fetch is told.
LEMMA StatusTypes == \A j : StatusOf(j) \in Statuses3
  BY DEF StatusOf, Statuses3

\* A load that begins, is served, or ends keeps the types of all loads.
LEMMA LoadBegins ==
    ASSUME FormTypes, NEW by \in {"form", "page"}, Load(by)
    PROVE  /\ IsABag(loads)'
           /\ BagToSet(loads)' \subseteq
                 [by : {"form", "page"}, served : BOOLEAN, page : [Jobs -> Statuses3]]
  <1>1. PICK load : load = [by |-> by, served |-> FALSE, page |-> NoJobs]
    OBVIOUS
  <1>2. NoJobs \in [Jobs -> Statuses3]
    BY DEF NoJobs, Statuses3
  <1>3. load \in [by : {"form", "page"}, served : BOOLEAN, page : [Jobs -> Statuses3]]
    BY <1>1, <1>2
  <1>4. loads' = BagAdd(loads, load)
    BY <1>1 DEF Load
  <1> QED BY <1>3, <1>4, BagAdds DEF FormTypes

LEMMA LoadSteps ==
    ASSUME FormTypes, NEW l \in BagToSet(loads),
           ServeLoad(l) \/ LoadAnswered(l) \/ LoadFails(l)
    PROVE  FormTypes'
  <1> DEFINE L == [by : {"form", "page"}, served : BOOLEAN, page : [Jobs -> Statuses3]]
  <1>1. PICK left : left = BagRemove(loads, l)
    OBVIOUS
  <1>2. IsABag(left) /\ BagToSet(left) \subseteq L /\ l \in L
    BY <1>1, BagRemoves DEF FormTypes
  <1>3. CASE ServeLoad(l)
    <2>1. PICK page : loads' = BagAdd(left, [l EXCEPT !.served = TRUE, !.page = page])
                      /\ page \in [Jobs -> Statuses3]
      <3>1. PICK p : loads' = BagAdd(left,
               [l EXCEPT !.served = TRUE,
                         !.page = [j \in Jobs |-> IF j \in ToSet(p) THEN StatusOf(j) ELSE "absent"]])
        BY <1>1, <1>3 DEF ServeLoad
      <3>2. [j \in Jobs |-> IF j \in ToSet(p) THEN StatusOf(j) ELSE "absent"] \in [Jobs -> Statuses3]
        <4>1. "absent" \in Statuses3
          BY DEF Statuses3
        <4> QED BY <4>1, StatusTypes
      <3> QED BY <3>1, <3>2
    <2>2. PICK served : served = [l EXCEPT !.served = TRUE, !.page = page]
      OBVIOUS
    <2>3. served \in L
      BY <1>2, <2>1, <2>2
    <2>4. IsABag(loads') /\ BagToSet(loads') \subseteq L
      <3>1. loads' = BagAdd(left, served)
        BY <2>1, <2>2
      <3>2. /\ IsABag(BagAdd(left, served))
            /\ BagToSet(BagAdd(left, served)) = BagToSet(left) \cup {served}
        BY <1>2, BagAdds
      <3> QED BY <1>2, <2>3, <3>1, <3>2
    <2> QED BY <1>3, <2>4 DEF ServeLoad, FormTypes, userVars
  <1>4. CASE LoadAnswered(l) \/ LoadFails(l)
    <2>1. l.page \in [Jobs -> Statuses3] /\ NoJobs \in [Jobs -> Statuses3]
      BY <1>2 DEF NoJobs, Statuses3
    <2>2. loads' = left /\ listed' \in {l.page, NoJobs} /\ form' \in {"ready", form}
          /\ UNCHANGED <<settled, choices>>
      BY <1>1, <1>4 DEF LoadAnswered, LoadFails, Ready, userVars
    <2> QED BY <1>2, <2>1, <2>2 DEF FormTypes
  <1> QED BY <1>3, <1>4

\* Every step of the console keeps the form's types.
LEMMA FormTypesNext ==
    ASSUME FormTypes, [Next]_vars
    PROVE  FormTypes'
  <1>1. ASSUME UNCHANGED <<loads, listed, form, choices>>, settled' \subseteq Jobs
        PROVE  FormTypes'
    BY <1>1 DEF FormTypes
  <1>2. CASE ScriptNext \/ UNCHANGED vars
    BY <1>2 DEF ScriptNext, vars, consoleVars, userVars, FormTypes
  <1>3. CASE ConsoleServes
    <2>1. ASSUME UNCHANGED consoleVars PROVE FormTypes'
      BY <1>1, <2>1 DEF consoleVars, userVars, FormTypes
    <2>2. ASSUME NEW j \in Jobs, Settle(j) PROVE FormTypes'
      BY <1>1, <2>2 DEF Settle, userVars, FormTypes
    <2> QED BY <1>3, <2>1, <2>2 DEF ConsoleServes
  <1>4. ASSUME UserActs PROVE choices' \in 0..MaxChoices
    BY <1>4, ConsoleAssumption DEF UserActs, FormTypes
  <1>5. ASSUME NEW j \in Jobs, Submit(j, Longest) PROVE FormTypes'
    BY <1>4, <1>5 DEF Submit, FormTypes
  <1>6. ASSUME NEW j \in Jobs, Fire(j) PROVE FormTypes'
    BY <1>1, <1>6 DEF Fire, userVars, FormTypes
  <1>7. ASSUME NEW p \in BagToSet(polls), ServePoll(p) \/ PollFails(p) PROVE FormTypes'
    BY <1>1, <1>7 DEF ServePoll, PollFails, userVars, FormTypes
  <1>8. ASSUME NEW p \in BagToSet(polls), PollAnswered(p) PROVE FormTypes'
    <2>1. UNCHANGED <<settled, listed, form, choices>> /\ (Load("page") \/ UNCHANGED loads)
      BY <1>8 DEF PollAnswered, userVars
    <2> QED BY <1>1, <2>1, LoadBegins DEF FormTypes
  <1>9. ASSUME NEW j \in Jobs, SubmitAnswered(j) PROVE FormTypes'
    <2>1. UNCHANGED <<settled, listed, choices>> /\ form' = "loading" /\ Load("form")
      BY <1>9 DEF SubmitAnswered
    <2> QED BY <2>1, LoadBegins DEF FormTypes
  <1>10. ASSUME NEW j \in Jobs, SubmitFails(j) PROVE FormTypes'
    BY <1>10 DEF SubmitFails, userVars, FormTypes
  <1>11. CASE Refresh
    <2>1. UNCHANGED <<settled, listed, form>> /\ Load("page") /\ UserActs
      BY <1>11 DEF Refresh
    <2> QED BY <1>4, <2>1, LoadBegins DEF FormTypes
  <1>12. ASSUME NEW j \in Jobs, Open(j) PROVE FormTypes'
    BY <1>4, <1>12 DEF Open, FormTypes
  <1>13. ASSUME NEW l \in BagToSet(loads), ServeLoad(l) \/ LoadAnswered(l) \/ LoadFails(l)
         PROVE  FormTypes'
    BY <1>13, LoadSteps
  <1> QED
    BY <1>2, <1>3, <1>5, <1>6, <1>7, <1>8, <1>9, <1>10, <1>11, <1>12, <1>13
    DEF Next, ConsoleNext, PageStep, PollStep, LoadStep, FetchFails, UserStep

\* A poll that is served or ends: only that of its own job changes.
LEMMA PollSteps ==
    ASSUME PageInv, NEW p \in BagToSet(polls)
    PROVE  /\ p.job \in Jobs /\ p.job \in {choice} \cup rivals
           /\ IsABag(BagRemove(polls, p))
           /\ BagToSet(BagRemove(polls, p)) \subseteq BagToSet(polls)
           /\ \A q \in BagToSet(polls) : q.job # p.job => q \in BagToSet(BagRemove(polls, p))
  <1>1. IsABag(polls) /\ p \in [job : Jobs, answer : {"none"} \cup Statuses3]
    BY DEF PageInv, PageTypes
  <1>2. p.job \in {choice} \cup rivals
    BY DEF PageInv
  <1> QED BY <1>1, <1>2, BagRemoves

\* Every step of the console keeps the job that is shown among those the user
\* chose, and an unfinished one watched.
LEMMA PageInvNext ==
    ASSUME ConsoleInv, [Next]_vars
    PROVE  PageInv'
  <1> DEFINE P == [job : Jobs, answer : {"none"} \cup Statuses3]
  <1>1. /\ FormTypes /\ PageInv /\ PageTypes
        /\ IsABag(polls) /\ BagToSet(polls) \subseteq P
        /\ timers \subseteq Jobs /\ rivals \subseteq Jobs /\ listed \in [Jobs -> Statuses3]
    BY DEF ConsoleInv, PageInv, PageTypes, FormTypes
  <1>2. ASSUME UNCHANGED <<shown, display, timers, polls, choice, rivals, unwatched>>
        PROVE  PageInv'
    BY <1>1, <1>2 DEF PageInv, PageTypes, PendingJobWatched, InFlight
  <1>3. CASE ScriptNext \/ UNCHANGED vars \/ ConsoleServes
    BY <1>2, <1>3 DEF ScriptNext, vars, ConsoleServes, Settle, consoleVars, userVars
  <1>4. CASE \E j \in Jobs : Submit(j, Longest) \/ SubmitFails(j)
    BY <1>2, <1>4 DEF Submit, SubmitFails, userVars
  <1>5. CASE \E l \in BagToSet(loads) : ServeLoad(l) \/ LoadAnswered(l) \/ LoadFails(l)
    BY <1>2, <1>5 DEF ServeLoad, LoadAnswered, LoadFails, userVars
  <1>6. CASE Refresh
    BY <1>2, <1>6 DEF Refresh
  <1>7. ASSUME NEW j \in Jobs, Fire(j) PROVE PageInv'
    <2>1. PICK p : p = [job |-> j, answer |-> "none"]
      OBVIOUS
    <2>2. p \in P /\ p.job = j
      BY <2>1
    <2>3. /\ j \in timers /\ timers' = timers \ {j} /\ polls' = BagAdd(polls, p)
          /\ UNCHANGED <<shown, display, choice, rivals, unwatched>>
      BY <1>7, <2>1 DEF Fire, userVars
    <2>4. IsABag(polls') /\ BagToSet(polls') = BagToSet(polls) \cup {p}
      BY <1>1, <2>3, BagAdds
    <2>5. PendingJobWatched'
      <3>1. display = "open" => shown \in timers \/ InFlight(shown) \/ unwatched
        BY <1>1 DEF PageInv, PendingJobWatched
      <3>2. InFlight(shown) => InFlight(shown)'
        BY <2>3, <2>4 DEF InFlight
      <3>3. shown \in timers => shown \in timers' \/ InFlight(shown)'
        BY <2>2, <2>3, <2>4 DEF InFlight
      <3> QED BY <2>3, <3>1, <3>2, <3>3 DEF PendingJobWatched
    <2> QED BY <1>1, <2>2, <2>3, <2>4, <2>5 DEF PageInv, PageTypes
  <1>8. ASSUME NEW p \in BagToSet(polls), ServePoll(p) PROVE PageInv'
    <2>1. PICK q : q = [p EXCEPT !.answer = StatusOf(p.job)]
      OBVIOUS
    <2>2. q \in P /\ q.job = p.job
      BY <1>1, <2>1, StatusTypes
    <2>3. polls' = BagAdd(BagRemove(polls, p), q)
          /\ UNCHANGED <<shown, display, timers, choice, rivals, unwatched>>
      BY <1>8, <2>1 DEF ServePoll, userVars
    <2>4. IsABag(polls') /\ BagToSet(polls') = BagToSet(BagRemove(polls, p)) \cup {q}
      BY <1>1, <2>3, PollSteps, BagAdds
    <2>5. /\ BagToSet(polls') \subseteq P
          /\ \A r \in BagToSet(polls') : r.job \in {choice} \cup rivals
      BY <1>1, <2>2, <2>4, PollSteps DEF PageInv
    <2>6. PendingJobWatched'
      <3>1. InFlight(shown) => InFlight(shown)'
        BY <1>1, <2>2, <2>3, <2>4, PollSteps DEF InFlight
      <3> QED BY <1>1, <2>3, <3>1 DEF PageInv, PendingJobWatched
    <2> QED BY <1>1, <2>3, <2>4, <2>5, <2>6 DEF PageInv, PageTypes
  <1>9. ASSUME NEW p \in BagToSet(polls), PollAnswered(p) PROVE PageInv'
    <2>1. /\ p.answer \in {"open", "settled"} /\ polls' = BagRemove(polls, p)
          /\ shown' = p.job /\ display' = p.answer /\ unwatched' = FALSE
          /\ timers' \in {timers, {p.job}} /\ (p.answer = "open" => timers' = {p.job})
          /\ UNCHANGED <<choice, rivals>>
      BY <1>9 DEF PollAnswered, Render, Watch, SchedulePoll, userVars
    <2>2. PendingJobWatched'
      BY <2>1 DEF PendingJobWatched
    <2>3. PageTypes'
      BY <1>1, <2>1, PollSteps DEF PageTypes
    <2> QED BY <1>1, <2>1, <2>2, <2>3, PollSteps DEF PageInv
  <1>10. ASSUME NEW p \in BagToSet(polls), PollFails(p) PROVE PageInv'
    <2>1. /\ polls' = BagRemove(polls, p) /\ unwatched' = (unwatched \/ p.job = shown)
          /\ UNCHANGED <<shown, display, timers, choice, rivals>>
      BY <1>10 DEF PollFails, userVars
    <2>2. PendingJobWatched'
      <3>1. InFlight(shown) => InFlight(shown)' \/ p.job = shown
        BY <1>1, <2>1, PollSteps DEF InFlight
      <3> QED BY <1>1, <2>1, <3>1 DEF PageInv, PendingJobWatched
    <2>3. PageTypes'
      BY <1>1, <2>1, PollSteps DEF PageTypes
    <2> QED BY <1>1, <2>1, <2>2, <2>3, PollSteps DEF PageInv
  <1>11. ASSUME NEW j \in Jobs, Opened(j), shown' = j, timers' \in {{}, {j}}, UNCHANGED polls,
                display' \in {"open", "settled"}, display' = "open" => timers' = {j},
                unwatched' = FALSE
         PROVE  PageInv'
    <2>1. choice' = j /\ rivals' = {k \in Jobs : InFlight(k)}
      BY <1>11 DEF Opened
    <2>2. \A p \in BagToSet(polls) : p.job \in rivals'
      BY <1>1, <2>1 DEF InFlight
    <2>3. PendingJobWatched'
      BY <1>11 DEF PendingJobWatched
    <2> QED BY <1>1, <1>11, <2>1, <2>2, <2>3 DEF PageInv, PageTypes
  <1>12. ASSUME NEW j \in Jobs, Open(j) PROVE PageInv'
    <2>1. listed[j] \in {"open", "settled"}
      BY <1>1, <1>12 DEF Open, Statuses3
    <2>2. /\ Opened(j) /\ shown' = j /\ display' = listed[j] /\ unwatched' = FALSE
          /\ timers' \in {{}, {j}} /\ (listed[j] = "open" => timers' = {j}) /\ UNCHANGED polls
      BY <1>12 DEF Open, Render, Watch, SchedulePoll, StopPolling
    <2> QED BY <1>11, <2>1, <2>2
  <1>13. ASSUME NEW j \in Jobs, SubmitAnswered(j) PROVE PageInv'
    BY <1>11, <1>13 DEF SubmitAnswered, Render, SchedulePoll
  <1> QED
    BY <1>3, <1>4, <1>5, <1>6, <1>7, <1>8, <1>9, <1>10, <1>12, <1>13
    DEF Next, ConsoleNext, PageStep, PollStep, LoadStep, FetchFails, UserStep

\* The console's invariant holds in every behaviour.
THEOREM Console == Spec => []ConsoleInv
  <1>1. Init => ConsoleInv
    BY ConsoleInvInit DEF Init
  <1>2. ConsoleInv /\ [Next]_vars => ConsoleInv'
    BY FormTypesNext, PageInvNext DEF ConsoleInv
  <1> QED BY <1>1, <1>2, PTL DEF Spec

\* A page that shows an unfinished job has its poll due or in flight, unless a
\* poll of it failed (schedulePoll and stopPolling of app.js).
THEOREM Watched == Spec => []PendingJobWatched
  <1>1. ConsoleInv => PendingJobWatched
    BY DEF ConsoleInv, PageInv
  <1> QED BY <1>1, Console, PTL

\* The page shows what the user opened last, or a job whose poll was in flight
\* at that moment (the answers of polls are rendered unconditionally).
THEOREM Chosen == Spec => []ChoiceHolds
  <1>1. ConsoleInv => ChoiceHolds
    BY DEF ConsoleInv, PageInv, ChoiceHolds
  <1> QED BY <1>1, Console, PTL

-----------------------------------------------------------------------------
\* The script keeps what it read, and its console neighbour leaves it alone.
THEOREM Paging == Spec => [](HistoryInv /\ PagerInv)
  <1>1. Init => HistoryInv /\ PagerInv
    BY HistoryInvInit, PagerInvInit DEF Init
  <1>2. HistoryInv /\ PagerInv /\ [Next]_vars => (HistoryInv /\ PagerInv)'
    <2> SUFFICES ASSUME HistoryInv, PagerInv, [Next]_vars
                 PROVE  HistoryInv' /\ PagerInv'
      OBVIOUS
    <2>1. [HistoryStep]_historyVars
      BY NextHistory
    <2>2. UNCHANGED pager \/ PagerStep
      BY DEF Next, ScriptNext, ConsoleNext, vars
    <2> QED BY <2>1, <2>2, HistoryInvNext, PagerInvNext
  <1> QED BY <1>1, <1>2, PTL DEF Spec

\* Page by page a client sees no job twice, and in the end every job that was
\* stored all the while but for those at the end of a page, those that left the
\* index of redis or lie behind an empty page of it, and bounds beyond int64
\* (list of handler.go and the List of every store).
THEOREM Paged == Spec => []PagedOnce
  <1>1. PagerInv => PagedOnce
    BY PagerReads
  <1> QED BY <1>1, Paging, PTL

\* The types of what the server, the script and the console hold.
THEOREM TypeCorrect == Spec => []TypeOK
  <1> DEFINE ReaderOK == reader \in {"script", "console"}
  <1>1. Spec => []ReaderOK
    <2>1. Init => ReaderOK
      BY DEF Init
    <2>2. ReaderOK /\ [Next]_vars => ReaderOK'
      BY DEF Next, ScriptNext, ConsoleNext, vars
    <2> QED BY <2>1, <2>2, PTL DEF Spec
  <1>2. HistoryInv /\ PagerInv /\ ConsoleInv /\ ReaderOK => TypeOK
    BY PagerReads, ConsoleTypes DEF HistoryInv, ConsoleInv, PageInv, TypeOK
  <1> QED BY <1>1, <1>2, Paging, Console, PTL
=============================================================================
