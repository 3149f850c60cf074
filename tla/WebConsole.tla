----------------------------- MODULE WebConsole -----------------------------
(***************************************************************************)
(* The web console, lib/restapi/webui/app.js: one page that submits jobs,  *)
(* lists the newest ones and shows one of them, which it polls while the   *)
(* job is unfinished.  The page is single threaded; what interleaves are   *)
(* the answers of its fetches with the user's clicks and its one timer.    *)
(* A fetch is served at one moment and its answer arrives at a later one.  *)
(* Statuses are "open" (queued, running) and "settled" (succeeded, failed) *)
(***************************************************************************)
EXTENDS JobHistory, BagsExt

CONSTANTS
    NoJob,          \* nothing shown yet
    MaxChoices      \* bound on clicks and submissions together

ASSUME ConsoleAssumption == NoJob \notin Jobs /\ MaxChoices \in Nat

VARIABLES
    settled,        \* the server: the jobs whose outcome is stored
    shown,          \* state.activeJobID
    display,        \* the status the page shows for it: "idle" at first
    timers,         \* the jobs of pending poll timers
    polls,          \* bag of [job, answer]: GET /v1/jobs/{id} in flight
    loads,          \* bag of [by, served, page]: GET /v1/jobs in flight
    listed,         \* job ID -> its status in the history pane, or "absent"
    form,           \* "ready", the ID its POST draws, or "loading" the history
    choices,        \* clicks and submissions so far
    choice,         \* the job the user opened last; for the properties only
    rivals,         \* jobs with a poll in flight at that time; likewise
    unwatched       \* a poll of the shown job failed since it was rendered

consoleVars == <<settled, shown, display, timers, polls, loads, listed, form,
                 choices, choice, rivals, unwatched>>

userVars == <<choices, choice, rivals>>

StatusOf(j) == IF ~Stored(j) THEN "absent" ELSE IF j \in settled THEN "settled" ELSE "open"

InFlight(j) == \E p \in BagToSet(polls) : p.job = j

-----------------------------------------------------------------------------
Render(j, status) ==
    /\ shown' = j
    /\ display' = status
    /\ unwatched' = FALSE

StopPolling == timers' = {}

\* Mutant of SchedulePoll: the timer that was pending goes on.
SchedulePollAdds(j) == timers' = timers \cup {j}

\* stopPolling, then a new timer.
SchedulePoll(j) == timers' = {j}

\* What follows a render: only an unfinished job is polled.
Watch(j, status, otherwise) == IF status = "open" THEN SchedulePoll(j) ELSE otherwise

\* The user opened j: from then on only fetches in flight may get in between.
Opened(j) ==
    /\ choice' = j
    /\ rivals' = {k \in Jobs : InFlight(k)}

NoJobs == [j \in Jobs |-> "absent"]

\* loadHistory begins, for the submit handler ("form") or for nobody ("page").
Load(by) == loads' = BagAdd(loads, [by |-> by, served |-> FALSE, page |-> NoJobs])

-----------------------------------------------------------------------------
\* The server settles a job; no store forgets an outcome.
Settle(j) ==
    /\ Stored(j) /\ j \notin settled
    /\ settled' = settled \cup {j}
    /\ UNCHANGED <<shown, display, timers, polls, loads, listed, form, userVars, unwatched>>

\* A poll timer fires: the fetch begins.  stopPolling cannot recall it.
Fire(j) ==
    /\ j \in timers
    /\ timers' = timers \ {j}
    /\ polls' = BagAdd(polls, [job |-> j, answer |-> "none"])
    /\ UNCHANGED <<settled, shown, display, loads, listed, form, userVars, unwatched>>

ServePoll(p) ==
    /\ p.answer = "none"
    /\ polls' = BagAdd(BagRemove(polls, p), [p EXCEPT !.answer = StatusOf(p.job)])
    /\ UNCHANGED <<settled, shown, display, timers, loads, listed, form, userVars, unwatched>>

\* Mutant of PollAnswered: a finished poll is not followed by another.
PollAnsweredOnce(p) ==
    /\ p.answer \in {"open", "settled"}
    /\ polls' = BagRemove(polls, p)
    /\ Render(p.job, p.answer)
    /\ IF p.answer = "settled" THEN Load("page") ELSE UNCHANGED loads
    /\ UNCHANGED <<settled, timers, listed, form, userVars>>

\* The answer is rendered, whichever job is shown by now.
PollAnswered(p) ==
    /\ p.answer \in {"open", "settled"}
    /\ polls' = BagRemove(polls, p)
    /\ Render(p.job, p.answer)
    /\ Watch(p.job, p.answer, UNCHANGED timers)
    /\ IF p.answer = "settled" THEN Load("page") ELSE UNCHANGED loads
    /\ UNCHANGED <<settled, listed, form, userVars>>

\* No answer, or not a job: a banner, and nothing polls on.
PollFails(p) ==
    /\ polls' = BagRemove(polls, p)
    /\ unwatched' = (unwatched \/ p.job = shown)
    /\ UNCHANGED <<settled, shown, display, timers, loads, listed, form, userVars>>

\* GET /v1/jobs?limit=20: the page holds every job there is.
ServeLoad(l) ==
    /\ ~l.served
    /\ \E page \in Pages(NoBound, Cardinality(Jobs)) :
          loads' = BagAdd(BagRemove(loads, l),
                          [l EXCEPT !.served = TRUE,
                                    !.page = [j \in Jobs |-> IF j \in ToSet(page) THEN StatusOf(j) ELSE "absent"]])
    /\ UNCHANGED <<settled, shown, display, timers, polls, listed, form, userVars, unwatched>>

\* The submit handler waits for its own load before it enables the button.
Ready(by) == form' = IF by = "form" THEN "ready" ELSE form

LoadAnswered(l) ==
    /\ l.served
    /\ loads' = BagRemove(loads, l)
    /\ listed' = l.page
    /\ Ready(l.by)
    /\ UNCHANGED <<settled, shown, display, timers, polls, userVars, unwatched>>

LoadFails(l) ==
    /\ loads' = BagRemove(loads, l)
    /\ listed' = NoJobs
    /\ Ready(l.by)
    /\ UNCHANGED <<settled, shown, display, timers, polls, userVars, unwatched>>

-----------------------------------------------------------------------------
UserActs == choices < MaxChoices /\ choices' = choices + 1

\* A click in the history renders the snapshot the list was made from.
Open(j) ==
    /\ listed[j] # "absent"
    /\ UserActs /\ Opened(j)
    /\ Render(j, listed[j])
    /\ Watch(j, listed[j], StopPolling)
    /\ UNCHANGED <<settled, polls, loads, listed, form>>

Refresh ==
    /\ UserActs
    /\ Load("page")
    /\ UNCHANGED <<settled, shown, display, timers, polls, listed, form, choice, rivals, unwatched>>

\* The button is enabled: POST /v1/jobs draws a job, and the form is disabled.
Submit(j, retention) ==
    /\ form = "ready"
    /\ UserActs
    /\ Draw(j, retention)
    /\ form' = j
    /\ UNCHANGED <<settled, shown, display, timers, polls, loads, listed, choice, rivals, unwatched>>

\* 202: the job is shown and polled, and the history is loaded anew.
SubmitAnswered(j) ==
    /\ form = j /\ Stored(j)
    /\ form' = "loading"
    /\ Opened(j)
    /\ Render(j, "open")
    /\ SchedulePoll(j)
    /\ Load("form")
    /\ UNCHANGED <<settled, polls, listed, choices>>

\* The POST fails, stored job or not: a banner, and the form is enabled again.
SubmitFails(j) ==
    /\ form = j
    /\ form' = "ready"
    /\ UNCHANGED <<settled, shown, display, timers, polls, loads, listed, userVars, unwatched>>

-----------------------------------------------------------------------------
PollStep(j) ==
    \E p \in BagToSet(polls) : p.job = j /\ (ServePoll(p) \/ PollAnswered(p))

LoadStep == \E l \in BagToSet(loads) : ServeLoad(l) \/ LoadAnswered(l)

FetchFails ==
    \/ \E p \in BagToSet(polls) : PollFails(p)
    \/ \E l \in BagToSet(loads) : LoadFails(l)
    \/ \E j \in Jobs : SubmitFails(j)

PageStep(j) == Fire(j) \/ PollStep(j) \/ SubmitAnswered(j)

UserStep == Refresh \/ \E j \in Jobs : Open(j)

ConsoleTypeOK ==
    /\ settled \subseteq Jobs
    /\ shown \in Jobs \cup {NoJob} /\ display \in {"idle", "open", "settled"}
    /\ timers \subseteq Jobs
    /\ IsABag(polls) /\ BagToSet(polls) \subseteq
          [job : Jobs, answer : {"none", "absent", "open", "settled"}]
    /\ IsABag(loads) /\ BagToSet(loads) \subseteq
          [by : {"form", "page"}, served : BOOLEAN, page : [Jobs -> {"absent", "open", "settled"}]]
    /\ listed \in [Jobs -> {"absent", "open", "settled"}]
    /\ form \in Jobs \cup {"ready", "loading"}
    /\ choices \in 0..MaxChoices
    /\ choice \in Jobs \cup {NoJob} /\ rivals \subseteq Jobs
    /\ unwatched \in BOOLEAN

\* boot loads the history once.
ConsoleInit ==
    /\ settled = {}
    /\ shown = NoJob /\ display = "idle"
    /\ timers = {} /\ polls = EmptyBag
    /\ loads = SetToBag({[by |-> "page", served |-> FALSE, page |-> NoJobs]})
    /\ listed = NoJobs
    /\ form = "ready"
    /\ choices = 0 /\ choice = NoJob /\ rivals = {}
    /\ unwatched = FALSE

-----------------------------------------------------------------------------
\* A page that shows an unfinished job will learn of its end: its poll is due
\* or in flight, unless a poll of that job failed, after which schedulePoll
\* does not try again.
PendingJobWatched ==
    display = "open" => shown \in timers \/ InFlight(shown) \/ unwatched

\* The page shows the job the user opened or submitted last, or one whose poll
\* was in flight at that moment: stopPolling takes back timers, not fetches,
\* and such an answer renders the other job and polls it on.
ChoiceHolds == shown = choice \/ shown \in rivals

\* Once the user leaves it alone the page comes to rest on a settled job, or
\* on nothing, or on a job whose poll failed.
ShownSettles == <>[](display # "open" \/ unwatched)
=============================================================================
