------------------------------- MODULE Dashboard -------------------------------
(***************************************************************************)
(* The dashboard (static/dashboard.js): the project shown, the fetches in  *)
(* flight, the architect conversation with its poll timer and its two      *)
(* buttons.  Callbacks run one at a time; a fetch is posted by one callback *)
(* and taken in by another, later one, in any order.  A fetch is a record  *)
(* of what was posted, and calls counts the equal ones in flight.  The     *)
(* server is as much of router.py and architect/router.py as the answers   *)
(* need: tasks of a project that run and end.                              *)
(***************************************************************************)
EXTENDS Naturals, FiniteSetsExt

CONSTANTS
  Projects, NoProject,
  Tasks, NoTask,        \* the architect tasks the server may create, a bound
  Tables,               \* which of endpointState, ruleStateData, logStateData
  MaxCalls              \* how many fetches may be in flight, a bound

ASSUME DashboardAssumption ==
  /\ NoProject \notin Projects
  /\ NoTask \notin Tasks
  /\ Tables \subseteq {"endpoints", "rules", "logs"}
  /\ MaxCalls \in Nat

VARIABLES
  project,          \* currentProjectId
  signedIn,         \* authToken # ""
  shown,            \* the project whose rows each table holds
  active,           \* activeArchitectTaskId
  timer,            \* the task architectPollTimer will poll, or NoTask
  generateDisabled, \* architectGenerateButton.disabled
  commitDisabled,   \* architectCommitButton.disabled
  calls,            \* fetches in flight
  tasks,            \* server: project and status of each task
  overtaken         \* history: what a change of the project broke into

page == <<project, signedIn, shown, active, timer, generateDisabled, commitDisabled>>
vars == <<page, calls, tasks, overtaken>>

Call ==
  [kind : {"login", "generate"}, project : Projects]
    \cup [kind : {"poll"}, task : Tasks, token : BOOLEAN]
    \cup [kind : {"commit"}, task : Tasks, project : Projects]
    \cup [kind : {"load"}, table : Tables, project : Projects]
    \cup [kind : {"refresh"}]   \* commitArchitecture awaiting refreshDashboard

Login(p)     == [kind |-> "login", project |-> p]
Generate(p)  == [kind |-> "generate", project |-> p]
Poll(t, s)   == [kind |-> "poll", task |-> t, token |-> s]
Commit(t, p) == [kind |-> "commit", task |-> t, project |-> p]
Load(t, p)   == [kind |-> "load", table |-> t, project |-> p]
Refresh      == [kind |-> "refresh"]

ChainCalls == {c \in Call : c.kind \in {"generate", "poll"}}
LoadCalls  == {c \in Call : c.kind = "load"}
Loads(p)   == {Load(table, p) : table \in Tables}
InFlight(c) == calls[c] > 0

\* The fetches of gone are taken in and those of posted are posted.
Exchange(gone, posted) ==
  calls' = [c \in Call |->
              (IF c \in gone THEN calls[c] - 1 ELSE calls[c]) + (IF c \in posted THEN 1 ELSE 0)]
Room(gone, posted) ==
  MapThenSumSet(LAMBDA c : calls[c], Call) + Cardinality(posted) <= MaxCalls + Cardinality(gone)

\* What a change of the project to p breaks into: answers on their way to the
\* tables and to the architect conversation.
Overtakes(p) ==
  IF p = project THEN {}
  ELSE (IF \E c \in LoadCalls : InFlight(c) THEN {"tables"} ELSE {})
         \cup (IF \E c \in ChainCalls : InFlight(c) THEN {"architect"} ELSE {})

\* A change of the project by the login screen, which keeps the plan.
KeepsPlan(p) ==
  IF p # project /\ (active # NoTask \/ timer # NoTask) THEN {"architect"} ELSE {}

----------------------------------------------------------------------------
(* The session and the tables.                                             *)

SubmitLogin ==
  /\ ~ signedIn
  /\ Room({}, {Login(project)})
  /\ Exchange({}, {Login(project)})
  /\ UNCHANGED <<page, tasks, overtaken>>

\* applySession, then refreshDashboard; the architect state is left alone.
LoginAnswered(p) ==
  /\ InFlight(Login(p))
  /\ Room({Login(p)}, Loads(p))
  /\ signedIn' = TRUE
  /\ project' = p
  /\ Exchange({Login(p)}, Loads(p))
  /\ overtaken' = overtaken \cup Overtakes(p) \cup KeepsPlan(p)
  /\ UNCHANGED <<shown, active, timer, generateDisabled, commitDisabled, tasks>>

LoginFails(p) ==
  /\ InFlight(Login(p))
  /\ Exchange({Login(p)}, {})
  /\ UNCHANGED <<page, tasks, overtaken>>

\* The project select of the login form.
LoginProjectSelect(p) ==
  /\ ~ signedIn
  /\ project' = p
  /\ overtaken' = overtaken \cup Overtakes(p) \cup KeepsPlan(p)
  /\ UNCHANGED <<signedIn, shown, active, timer, generateDisabled, commitDisabled, calls, tasks>>

Logout ==
  /\ signedIn
  /\ signedIn' = FALSE
  /\ UNCHANGED <<project, shown, active, timer, generateDisabled, commitDisabled, calls, tasks,
                 overtaken>>

\* Mutant: enables the generate button, too, which a poll in flight still owns.
ClearAndEnable ==
  /\ timer' = NoTask
  /\ active' = NoTask
  /\ commitDisabled' = TRUE
  /\ generateDisabled' = FALSE

\* Mutant: only stops the poll; the plan stays active, its button enabled.
ClearPollOnly == timer' = NoTask /\ UNCHANGED <<active, commitDisabled, generateDisabled>>

\* Mutant: leaves the cleared timer undefined, which is not null.
ClearToUndefined ==
  /\ timer' = NoProject
  /\ active' = NoTask
  /\ commitDisabled' = TRUE
  /\ UNCHANGED generateDisabled

ClearArchitectState ==
  /\ timer' = NoTask
  /\ active' = NoTask
  /\ commitDisabled' = TRUE
  /\ UNCHANGED generateDisabled

\* Mutant: switches without a refresh.
SwitchOnly(p) ==
  /\ signedIn
  /\ p # project
  /\ project' = p
  /\ ClearArchitectState
  /\ overtaken' = overtaken \cup Overtakes(p) \cup (IF timer # NoTask THEN {"poll"} ELSE {})
  /\ UNCHANGED <<signedIn, shown, calls, tasks>>

SelectProject(p) ==
  /\ signedIn
  /\ p # project
  /\ Room({}, Loads(p))
  /\ project' = p
  /\ ClearArchitectState
  /\ Exchange({}, Loads(p))
  /\ overtaken' = overtaken \cup Overtakes(p) \cup (IF timer # NoTask THEN {"poll"} ELSE {})
  /\ UNCHANGED <<signedIn, shown, tasks>>

\* A refresh button, a view that opens, the end of a creation, the log interval,
\* which neither ends with the session.
LoadTable(table) ==
  /\ Room({}, {Load(table, project)})
  /\ Exchange({}, {Load(table, project)})
  /\ UNCHANGED <<page, tasks, overtaken>>

LoadAnswered(table, p) ==
  /\ InFlight(Load(table, p))
  /\ shown' = [shown EXCEPT ![table] = p]
  /\ Exchange({Load(table, p)}, {})
  /\ UNCHANGED <<project, signedIn, active, timer, generateDisabled, commitDisabled, tasks,
                 overtaken>>

\* An error answer leaves the rows; an unreachable server empties only the log.
LoadFails(table, p) ==
  /\ InFlight(Load(table, p))
  /\ \/ UNCHANGED shown
     \/ table = "logs" /\ shown' = [shown EXCEPT ![table] = NoProject]
  /\ Exchange({Load(table, p)}, {})
  /\ overtaken' = overtaken \cup {"tables"}
  /\ UNCHANGED <<project, signedIn, active, timer, generateDisabled, commitDisabled, tasks>>

----------------------------------------------------------------------------
(* The architect conversation.                                             *)

GenerateArchitecture ==
  /\ signedIn
  /\ ~ generateDisabled
  /\ Room({}, {Generate(project)})
  /\ timer' = NoTask
  /\ commitDisabled' = TRUE
  /\ generateDisabled' = TRUE
  /\ Exchange({}, {Generate(project)})
  /\ UNCHANGED <<project, signedIn, shown, active, tasks, overtaken>>

\* The server creates and queues a task of the project that was posted.
CreateTask(t, p) ==
  /\ tasks[t].status = "none"
  /\ tasks' = [tasks EXCEPT ![t] = [project |-> p, status |-> "running"]]

\* The answer makes the task the active one and polls it at once.
GenerateAnswered(t, p) ==
  /\ InFlight(Generate(p))
  /\ CreateTask(t, p)
  /\ active' = t
  /\ timer' = NoTask
  /\ Exchange({Generate(p)}, {Poll(t, signedIn)})
  /\ UNCHANGED <<project, signedIn, shown, generateDisabled, commitDisabled, overtaken>>

\* An error answer, or none, whether or not the server created a task.
GenerateFails(p) ==
  /\ InFlight(Generate(p))
  /\ UNCHANGED tasks \/ \E t \in Tasks : CreateTask(t, p)
  /\ generateDisabled' = FALSE
  /\ Exchange({Generate(p)}, {})
  /\ UNCHANGED <<project, signedIn, shown, active, timer, commitDisabled, overtaken>>

\* queued and running are alike to the dashboard, and so are the failed ends.
Finish(t) ==
  /\ tasks[t].status = "running"
  /\ \E status \in {"succeeded", "failed"} : tasks' = [tasks EXCEPT ![t].status = status]
  /\ UNCHANGED <<page, calls, overtaken>>

PollFires ==
  /\ timer # NoTask
  /\ timer' = NoTask
  /\ Exchange({}, {Poll(timer, signedIn)})
  /\ UNCHANGED <<project, signedIn, shown, active, generateDisabled, commitDisabled, tasks,
                 overtaken>>

\* Mutant: without the finally.
PollAnsweredOnly(t) ==
  /\ InFlight(Poll(t, TRUE))
  /\ active' = t
  /\ commitDisabled' = (tasks[t].status # "succeeded")
  /\ timer' = IF tasks[t].status = "running" THEN t ELSE timer
  /\ Exchange({Poll(t, TRUE)}, {})
  /\ UNCHANGED <<project, signedIn, shown, generateDisabled, tasks, overtaken>>

\* renderArchitectTask, the next timer, and the finally of pollArchitectTask.
PollAnswered(t) ==
  /\ InFlight(Poll(t, TRUE))
  /\ active' = t
  /\ commitDisabled' = (tasks[t].status # "succeeded")
  /\ timer' = IF tasks[t].status = "running" THEN t ELSE timer
  /\ generateDisabled' = (timer' # NoTask)
  /\ Exchange({Poll(t, TRUE)}, {})
  /\ UNCHANGED <<project, signedIn, shown, tasks, overtaken>>

\* No or an error answer; a poll after the logout carries no token and is refused.
PollFails(t, token) ==
  /\ InFlight(Poll(t, token))
  /\ generateDisabled' = (timer # NoTask)
  /\ Exchange({Poll(t, token)}, {})
  /\ UNCHANGED <<project, signedIn, shown, active, timer, commitDisabled, tasks, overtaken>>

CommitArchitecture ==
  /\ signedIn
  /\ ~ commitDisabled
  /\ active # NoTask
  /\ Room({}, {Commit(active, project)})
  /\ commitDisabled' = TRUE
  /\ Exchange({}, {Commit(active, project)})
  /\ UNCHANGED <<project, signedIn, shown, active, timer, generateDisabled, tasks, overtaken>>

\* The server commits a task that succeeded to the project of the request.
CommitAnswered(t, p) ==
  /\ InFlight(Commit(t, p))
  /\ tasks[t].status = "succeeded"
  /\ Room({Commit(t, p)}, Loads(project) \cup {Refresh})
  /\ Exchange({Commit(t, p)}, Loads(project) \cup {Refresh})
  /\ UNCHANGED <<page, tasks, overtaken>>

\* The commit is refused, or its answer is lost; finally enables the button.
CommitFails(t, p) ==
  /\ InFlight(Commit(t, p))
  /\ commitDisabled' = FALSE
  /\ Exchange({Commit(t, p)}, {})
  /\ UNCHANGED <<project, signedIn, shown, active, timer, generateDisabled, tasks, overtaken>>

\* The loads that a commit awaits are over, taken to happen at any later time.
CommitRefreshed ==
  /\ InFlight(Refresh)
  /\ commitDisabled' = FALSE
  /\ Exchange({Refresh}, {})
  /\ UNCHANGED <<project, signedIn, shown, active, timer, generateDisabled, tasks, overtaken>>

----------------------------------------------------------------------------
\* initialize: the first project or that of a saved session, which is refreshed.
Init ==
  /\ project \in Projects
  /\ signedIn \in BOOLEAN
  /\ shown = [table \in Tables |-> NoProject]
  /\ active = NoTask
  /\ timer = NoTask
  /\ generateDisabled = FALSE
  /\ commitDisabled = TRUE
  /\ calls = [c \in Call |-> IF signedIn /\ c \in Loads(project) THEN 1 ELSE 0]
  /\ tasks = [t \in Tasks |-> [project |-> NoProject, status |-> "none"]]
  /\ overtaken = {}

Session ==
  \/ SubmitLogin \/ Logout
  \/ \E p \in Projects :
       LoginAnswered(p) \/ LoginFails(p) \/ LoginProjectSelect(p) \/ SelectProject(p)

LoadStep ==
  \E table \in Tables :
    LoadTable(table) \/ \E p \in Projects : LoadAnswered(table, p) \/ LoadFails(table, p)

\* The answers to a generate and to the polls of its task.
ChainAnswered ==
  \/ \E p \in Projects : GenerateFails(p) \/ \E t \in Tasks : GenerateAnswered(t, p)
  \/ \E t \in Tasks : PollAnswered(t) \/ \E token \in BOOLEAN : PollFails(t, token)

CommitStep ==
  \/ CommitArchitecture \/ CommitRefreshed
  \/ \E t \in Tasks, p \in Projects : CommitAnswered(t, p) \/ CommitFails(t, p)

Next ==
  \/ Session \/ LoadStep \/ CommitStep
  \/ GenerateArchitecture \/ PollFires \/ ChainAnswered
  \/ \E t \in Tasks : Finish(t)

\* The browser settles every fetch and fires every timer, and a workflow ends
\* (ArchitectWorkflow!ImplementsLifecycle); no user is obliged to click.
Fairness ==
  /\ WF_vars(ChainAnswered)
  /\ WF_vars(PollFires)
  /\ \A t \in Tasks : WF_vars(Finish(t))

Spec == Init /\ [][Next]_vars /\ Fairness

----------------------------------------------------------------------------
TaskType == [project : Projects \cup {NoProject},
             status : {"none", "running", "succeeded", "failed"}]

\* What is shown, polled, active and committed are projects and tasks, and no
\* fetch is taken in more often than it was posted.
TypeOK ==
  /\ project \in Projects
  /\ signedIn \in BOOLEAN
  /\ shown \in [Tables -> Projects \cup {NoProject}]
  /\ active \in Tasks \cup {NoTask}
  /\ timer \in Tasks \cup {NoTask}
  /\ generateDisabled \in BOOLEAN
  /\ commitDisabled \in BOOLEAN
  /\ calls \in [Call -> Nat]
  /\ tasks \in [Tasks -> TaskType]
  /\ overtaken \subseteq {"tables", "architect", "poll"}

\* There is one conversation with the architect at a time: one generate or poll
\* in flight or one timer pending, whatever is switched, signed in and committed
\* meanwhile.  While it lasts no other can be started, and the generate button
\* is disabled without one only after a switch that dropped the timer
\* (generateArchitecture, pollArchitectTask, clearArchitectState).
OneChain ==
  /\ \A c, d \in ChainCalls : InFlight(c) /\ InFlight(d) => c = d /\ calls[c] = 1
  /\ (\E c \in ChainCalls : InFlight(c)) => generateDisabled /\ timer = NoTask
  /\ timer # NoTask => generateDisabled
  /\ generateDisabled =>
       \/ timer # NoTask
       \/ \E c \in ChainCalls : InFlight(c)
       \/ "poll" \in overtaken

\* A commit posts a plan to the project it was generated for, and the server
\* does not check it, unless the project was changed under an answer in flight,
\* or on the login screen, which keeps the plan (commitArchitecture posts
\* currentProjectId, clearArchitectState).
CommitsWhereGenerated ==
  "architect" \notin overtaken =>
    \A t \in Tasks, p \in Projects : InFlight(Commit(t, p)) => tasks[t].project = p

\* When nothing is on its way, the tables hold rows of the project that is
\* selected, unless a fetch failed or was overtaken by a change of the project
\* (selectProject, login, refreshDashboard).
TablesFollowProject ==
  signedIn /\ "tables" \notin overtaken /\ ~ (\E c \in LoadCalls : InFlight(c)) =>
    \A table \in Tables : shown[table] = project

\* The generate button comes back after every generate, whatever fails, unless a
\* switch of the project dropped the timer of its poll (the finally of
\* pollArchitectTask, the branches of generateArchitecture).
GenerateReturns == generateDisabled ~> (~ generateDisabled \/ "poll" \in overtaken)

================================================================================
