---------------------------- MODULE DashboardProofs ----------------------------
(***************************************************************************)
(* Proofs about Dashboard, for any set of projects, tasks and tables and   *)
(* any number of fetches in flight.                                        *)
(***************************************************************************)
EXTENDS Dashboard, TLAPS

----------------------------------------------------------------------------
(* Fetches and the bag they are in.                                        *)

\* The fetches of one kind are apart from those of another, and the fields of a
\* fetch tell it from the others of its kind.
LEMMA Kinds ==
  /\ \A p \in Projects : Generate(p) \in ChainCalls /\ Login(p) \in Call \ ChainCalls
  /\ \A t \in Tasks, s \in BOOLEAN : Poll(t, s) \in ChainCalls
  /\ \A t \in Tasks, p \in Projects : Commit(t, p) \in Call \ ChainCalls
  /\ \A t \in Tables, p \in Projects : Load(t, p) \in Call \ ChainCalls
  /\ Refresh \in Call \ ChainCalls
  /\ ChainCalls \subseteq Call
  BY DEF Generate, Login, Poll, Commit, Load, Refresh, ChainCalls, Call

LEMMA CommitsApart ==
  ASSUME NEW t \in Tasks, NEW p \in Projects
  PROVE  /\ \A q \in Projects : Commit(t, p) # Login(q) /\ Commit(t, p) # Generate(q)
         /\ \A u \in Tasks, s \in BOOLEAN : Commit(t, p) # Poll(u, s)
         /\ \A u \in Tasks, q \in Projects : Commit(t, p) = Commit(u, q) => t = u /\ p = q
         /\ \A table \in Tables, q \in Projects : Commit(t, p) # Load(table, q)
         /\ Commit(t, p) # Refresh
  BY DEF Generate, Login, Poll, Commit, Load, Refresh

LEMMA ChainApart ==
  ASSUME NEW t \in Tasks, NEW s \in BOOLEAN, NEW p \in Projects
  PROVE  /\ Generate(p) # Poll(t, s)
         /\ \A q \in Projects : Generate(p) = Generate(q) => p = q
         /\ \A u \in Tasks, r \in BOOLEAN : Poll(t, s) = Poll(u, r) => t = u /\ s = r
  BY DEF Generate, Poll

\* What an exchange does to one fetch, as long as only fetches in flight are
\* taken in.
LEMMA Exchanged ==
  ASSUME calls \in [Call -> Nat], NEW gone, NEW posted,
         \A c \in gone : c \in Call /\ InFlight(c),
         Exchange(gone, posted)
  PROVE  /\ calls' \in [Call -> Nat]
         /\ \A c \in Call : c \notin gone /\ c \notin posted => calls'[c] = calls[c]
         /\ \A c \in Call : c \in gone /\ c \notin posted => calls'[c] = calls[c] - 1
         /\ \A c \in Call : c \notin gone /\ c \in posted => calls'[c] = calls[c] + 1
  BY DEF Exchange, InFlight

\* An exchange of other fetches leaves the conversation alone.
LEMMA ExchangedOthers ==
  ASSUME calls \in [Call -> Nat], NEW gone, NEW posted,
         \A c \in gone : c \in Call /\ InFlight(c),
         gone \cap ChainCalls = {}, posted \cap ChainCalls = {},
         Exchange(gone, posted)
  PROVE  calls' \in [Call -> Nat] /\ \A c \in ChainCalls : calls'[c] = calls[c]
  BY Exchanged, Kinds

----------------------------------------------------------------------------
(* Types.                                                                  *)

LEMMA TypeStep == TypeOK /\ [Next]_vars => TypeOK'
  <1> SUFFICES ASSUME TypeOK, [Next]_vars PROVE TypeOK'
    OBVIOUS
  <1> USE DEF TypeOK
  <1>1. CASE SubmitLogin
    BY <1>1, Exchanged, Kinds DEF SubmitLogin, page
  <1>2. CASE Logout
    BY <1>2 DEF Logout
  <1>3. ASSUME NEW p \in Projects, LoginAnswered(p) PROVE TypeOK'
    <2>1. calls' \in [Call -> Nat]
      BY <1>3, Exchanged, Kinds DEF LoginAnswered
    <2>2. overtaken' \subseteq {"tables", "architect", "poll"}
      BY <1>3 DEF LoginAnswered, Overtakes, KeepsPlan
    <2> QED BY <1>3, <2>1, <2>2 DEF LoginAnswered
  <1>4. ASSUME NEW p \in Projects, LoginFails(p) PROVE TypeOK'
    BY <1>4, Exchanged, Kinds DEF LoginFails, page
  <1>5. ASSUME NEW p \in Projects, LoginProjectSelect(p) PROVE TypeOK'
    BY <1>5 DEF LoginProjectSelect, Overtakes, KeepsPlan
  <1>6. ASSUME NEW p \in Projects, SelectProject(p) PROVE TypeOK'
    <2>1. calls' \in [Call -> Nat]
      BY <1>6, Exchanged DEF SelectProject
    <2>2. overtaken' \subseteq {"tables", "architect", "poll"}
      BY <1>6 DEF SelectProject, Overtakes
    <2> QED BY <1>6, <2>1, <2>2 DEF SelectProject, ClearArchitectState
  <1>7. ASSUME NEW table \in Tables, LoadTable(table) PROVE TypeOK'
    BY <1>7, Exchanged DEF LoadTable, page
  <1>8. ASSUME NEW table \in Tables, NEW p \in Projects, LoadAnswered(table, p) PROVE TypeOK'
    BY <1>8, Exchanged, Kinds DEF LoadAnswered
  <1>9. ASSUME NEW table \in Tables, NEW p \in Projects, LoadFails(table, p) PROVE TypeOK'
    BY <1>9, Exchanged, Kinds DEF LoadFails
  <1>10. CASE GenerateArchitecture
    BY <1>10, Exchanged DEF GenerateArchitecture
  <1>11. ASSUME NEW t \in Tasks, NEW p \in Projects, GenerateAnswered(t, p) PROVE TypeOK'
    <2>1. calls' \in [Call -> Nat]
      BY <1>11, Exchanged, Kinds DEF GenerateAnswered
    <2>2. tasks' \in [Tasks -> TaskType]
      BY <1>11 DEF GenerateAnswered, CreateTask, TaskType
    <2> QED BY <1>11, <2>1, <2>2 DEF GenerateAnswered
  <1>12. ASSUME NEW p \in Projects, GenerateFails(p) PROVE TypeOK'
    <2>1. calls' \in [Call -> Nat]
      BY <1>12, Exchanged, Kinds DEF GenerateFails
    <2>2. tasks' \in [Tasks -> TaskType]
      BY <1>12 DEF GenerateFails, CreateTask, TaskType
    <2> QED BY <1>12, <2>1, <2>2 DEF GenerateFails
  <1>13. ASSUME NEW t \in Tasks, Finish(t) PROVE TypeOK'
    BY <1>13 DEF Finish, TaskType, page
  <1>14. CASE PollFires
    BY <1>14, Exchanged DEF PollFires
  <1>15. ASSUME NEW t \in Tasks, PollAnswered(t) PROVE TypeOK'
    BY <1>15, Exchanged, Kinds DEF PollAnswered
  <1>16. ASSUME NEW t \in Tasks, NEW token \in BOOLEAN, PollFails(t, token) PROVE TypeOK'
    BY <1>16, Exchanged, Kinds DEF PollFails
  <1>17. CASE CommitArchitecture
    BY <1>17, Exchanged DEF CommitArchitecture
  <1>18. ASSUME NEW t \in Tasks, NEW p \in Projects, CommitAnswered(t, p) PROVE TypeOK'
    BY <1>18, Exchanged, Kinds DEF CommitAnswered, page
  <1>19. ASSUME NEW t \in Tasks, NEW p \in Projects, CommitFails(t, p) PROVE TypeOK'
    BY <1>19, Exchanged, Kinds DEF CommitFails
  <1>20. CASE CommitRefreshed
    BY <1>20, Exchanged, Kinds DEF CommitRefreshed
  <1>21. CASE UNCHANGED vars
    BY <1>21 DEF vars, page
  <1> QED
    BY <1>1, <1>2, <1>3, <1>4, <1>5, <1>6, <1>7, <1>8, <1>9, <1>10, <1>11, <1>12, <1>13, <1>14,
       <1>15, <1>16, <1>17, <1>18, <1>19, <1>20, <1>21
    DEF Next, Session, LoadStep, ChainAnswered, CommitStep

\* The page, the fetches in flight and the tasks keep their types, for any
\* projects, tasks and tables.
THEOREM DashboardTypeOKHolds == Spec => []TypeOK
  <1>1. Init => TypeOK
    <2> SUFFICES ASSUME Init PROVE TypeOK
      OBVIOUS
    <2>1. calls \in [Call -> Nat]
      BY DEF Init
    <2>2. tasks \in [Tasks -> TaskType]
      BY DEF Init, TaskType
    <2> QED BY <2>1, <2>2 DEF Init, TypeOK
  <1> QED BY <1>1, TypeStep, PTL DEF Spec

----------------------------------------------------------------------------
(* One conversation with the architect.                                    *)

\* The conversation is idle when none of its fetches is in flight, and is with
\* one fetch when that one is in flight, once, and no other is.
Idle    == \A c \in ChainCalls : ~ InFlight(c)
With(c) == calls[c] = 1 /\ \A d \in ChainCalls \ {c} : ~ InFlight(d)

LEMMA InFlightAlone ==
  ASSUME OneChain, NEW c \in ChainCalls, InFlight(c)
  PROVE  With(c) /\ generateDisabled /\ timer = NoTask
  BY DEF OneChain, With

LEMMA WithIsOneChain ==
  ASSUME TypeOK', NEW c \in ChainCalls, With(c)', generateDisabled', timer' = NoTask
  PROVE  OneChain'
  BY Kinds DEF OneChain, With, InFlight, TypeOK

\* Posting the first fetch of a conversation, passing from one to the next, and
\* taking in the last.
LEMMA ChainOpens ==
  ASSUME TypeOK, Idle, NEW c \in ChainCalls, Exchange({}, {c})
  PROVE  With(c)'
  BY Exchanged, Kinds DEF Idle, With, InFlight, TypeOK

LEMMA ChainPasses ==
  ASSUME TypeOK, NEW c \in ChainCalls, With(c), NEW d \in ChainCalls \ {c}, Exchange({c}, {d})
  PROVE  With(d)'
  BY Exchanged, Kinds DEF With, InFlight, TypeOK

LEMMA ChainCloses ==
  ASSUME TypeOK, NEW c \in ChainCalls, With(c), Exchange({c}, {})
  PROVE  Idle'
  BY Exchanged, Kinds DEF Idle, With, InFlight, TypeOK

LEMMA OneChainKept ==
  ASSUME OneChain, \A c \in ChainCalls : calls'[c] = calls[c],
         UNCHANGED <<timer, generateDisabled>>, overtaken \subseteq overtaken'
  PROVE  OneChain'
  BY DEF OneChain, InFlight

LEMMA OneChainStep == TypeOK /\ TypeOK' /\ OneChain /\ [Next]_vars => OneChain'
  <1> SUFFICES ASSUME TypeOK, TypeOK', OneChain, [Next]_vars PROVE OneChain'
    OBVIOUS
  <1>t. calls \in [Call -> Nat] /\ project \in Projects /\ signedIn \in BOOLEAN /\ timer \in Tasks \cup {NoTask}
    BY DEF TypeOK
  <1>1. CASE SubmitLogin
    BY <1>1, <1>t, ExchangedOthers, OneChainKept, Kinds DEF SubmitLogin, page
  <1>2. CASE Logout
    BY <1>2, OneChainKept DEF Logout
  <1>l. \A p \in Projects : Loads(p) \cap ChainCalls = {}
    BY Kinds DEF Loads
  <1>3. ASSUME NEW p \in Projects, LoginAnswered(p) PROVE OneChain'
    BY <1>3, <1>t, <1>l, ExchangedOthers, OneChainKept, Kinds DEF LoginAnswered
  <1>4. ASSUME NEW p \in Projects, LoginFails(p) PROVE OneChain'
    BY <1>4, <1>t, ExchangedOthers, OneChainKept, Kinds DEF LoginFails, page
  <1>5. ASSUME NEW p \in Projects, LoginProjectSelect(p) PROVE OneChain'
    BY <1>5, OneChainKept DEF LoginProjectSelect
  <1>6. ASSUME NEW p \in Projects, SelectProject(p) PROVE OneChain'
    <2>1. \A c \in ChainCalls : calls'[c] = calls[c]
      BY <1>6, <1>t, <1>l, ExchangedOthers DEF SelectProject
    <2>2. /\ timer' = NoTask
          /\ generateDisabled' = generateDisabled
          /\ overtaken \subseteq overtaken'
          /\ timer # NoTask => "poll" \in overtaken'
      BY <1>6 DEF SelectProject, ClearArchitectState
    <2> QED BY <2>1, <2>2 DEF OneChain, InFlight
  <1>7. ASSUME NEW table \in Tables, LoadTable(table) PROVE OneChain'
    BY <1>7, <1>t, ExchangedOthers, OneChainKept, Kinds DEF LoadTable, page
  <1>8. ASSUME NEW table \in Tables, NEW p \in Projects, LoadAnswered(table, p) PROVE OneChain'
    BY <1>8, <1>t, ExchangedOthers, OneChainKept, Kinds DEF LoadAnswered
  <1>9. ASSUME NEW table \in Tables, NEW p \in Projects, LoadFails(table, p) PROVE OneChain'
    BY <1>9, <1>t, ExchangedOthers, OneChainKept, Kinds DEF LoadFails
  <1>10. CASE GenerateArchitecture
    <2>1. Idle
      BY <1>10 DEF GenerateArchitecture, OneChain, Idle
    <2>2. With(Generate(project))'
      <3>1. PICK p \in Projects : p = project
        BY <1>t
      <3>2. With(Generate(p))'
        BY <1>10, <2>1, <3>1, ChainOpens, Kinds DEF GenerateArchitecture
      <3> QED BY <3>1, <3>2, <1>10 DEF GenerateArchitecture
    <2> QED BY <2>2, <1>10, <1>t, WithIsOneChain, Kinds DEF GenerateArchitecture
  <1>11. ASSUME NEW t \in Tasks, NEW p \in Projects, GenerateAnswered(t, p) PROVE OneChain'
    <2>1. With(Generate(p)) /\ generateDisabled
      BY <1>11, InFlightAlone, Kinds DEF GenerateAnswered
    <2>2. PICK s \in BOOLEAN : s = signedIn
      BY <1>t
    <2>3. With(Poll(t, s))'
      BY <2>1, <2>2, <1>11, ChainPasses, ChainApart, Kinds DEF GenerateAnswered
    <2> QED BY <2>1, <2>3, <1>11, WithIsOneChain, Kinds DEF GenerateAnswered
  <1>12. ASSUME NEW p \in Projects, GenerateFails(p) PROVE OneChain'
    <2>1. With(Generate(p)) /\ timer = NoTask
      BY <1>12, InFlightAlone, Kinds DEF GenerateFails
    <2>2. Idle'
      BY <2>1, <1>12, ChainCloses, Kinds DEF GenerateFails
    <2> QED BY <2>1, <2>2, <1>12 DEF GenerateFails, OneChain, Idle
  <1>13. ASSUME NEW t \in Tasks, Finish(t) PROVE OneChain'
    BY <1>13, OneChainKept DEF Finish, page
  <1>14. CASE PollFires
    <2>1. Idle /\ generateDisabled
      BY <1>14 DEF PollFires, OneChain, Idle
    <2>2. PICK t \in Tasks, s \in BOOLEAN : t = timer /\ s = signedIn
      BY <1>14, <1>t DEF PollFires
    <2>3. With(Poll(t, s))'
      BY <2>1, <2>2, <1>14, ChainOpens, Kinds DEF PollFires
    <2> QED BY <2>1, <2>3, <1>14, WithIsOneChain, Kinds DEF PollFires
  <1>15. ASSUME NEW t \in Tasks, PollAnswered(t) PROVE OneChain'
    <2>1. With(Poll(t, TRUE)) /\ timer = NoTask
      BY <1>15, InFlightAlone, Kinds DEF PollAnswered
    <2>2. Idle'
      BY <2>1, <1>15, ChainCloses, Kinds DEF PollAnswered
    <2> QED BY <2>1, <2>2, <1>15 DEF PollAnswered, OneChain, Idle
  <1>16. ASSUME NEW t \in Tasks, NEW token \in BOOLEAN, PollFails(t, token) PROVE OneChain'
    <2>1. With(Poll(t, token)) /\ timer = NoTask
      BY <1>16, InFlightAlone, Kinds DEF PollFails
    <2>2. Idle'
      BY <2>1, <1>16, ChainCloses, Kinds DEF PollFails
    <2> QED BY <2>1, <2>2, <1>16 DEF PollFails, OneChain, Idle
  <1>17. CASE CommitArchitecture
    <2>1. active \in Tasks
      BY <1>17 DEF CommitArchitecture, TypeOK
    <2> QED
      BY <2>1, <1>17, <1>t, ExchangedOthers, OneChainKept, Kinds DEF CommitArchitecture
  <1>18. ASSUME NEW t \in Tasks, NEW p \in Projects, CommitAnswered(t, p) PROVE OneChain'
    BY <1>18, <1>t, <1>l, ExchangedOthers, OneChainKept, Kinds DEF CommitAnswered, page
  <1>19. ASSUME NEW t \in Tasks, NEW p \in Projects, CommitFails(t, p) PROVE OneChain'
    BY <1>19, <1>t, ExchangedOthers, OneChainKept, Kinds DEF CommitFails
  <1>20. CASE CommitRefreshed
    BY <1>20, <1>t, ExchangedOthers, OneChainKept, Kinds DEF CommitRefreshed
  <1>21. CASE UNCHANGED vars
    BY <1>21, OneChainKept DEF vars, page
  <1> QED
    BY <1>1, <1>2, <1>3, <1>4, <1>5, <1>6, <1>7, <1>8, <1>9, <1>10, <1>11, <1>12, <1>13, <1>14,
       <1>15, <1>16, <1>17, <1>18, <1>19, <1>20, <1>21
    DEF Next, Session, LoadStep, ChainAnswered, CommitStep

\* One conversation with the architect at a time, and the generate button
\* disabled for as long as it lasts, for any projects, tasks and tables.
THEOREM OneChainHolds == Spec => []OneChain
  <1>1. Init => OneChain
    <2> SUFFICES ASSUME Init PROVE OneChain
      OBVIOUS
    <2>1. \A p \in Projects : Loads(p) \cap ChainCalls = {}
      BY Kinds DEF Loads
    <2> QED BY <2>1, Kinds DEF Init, OneChain, InFlight
  <1> QED BY <1>1, DashboardTypeOKHolds, OneChainStep, PTL DEF Spec

----------------------------------------------------------------------------
(* Commits and the project their plan was generated for.                   *)

\* The tasks the page names exist, and as long as no change of the project
\* overtook the conversation it is about the project that is selected.
Created ==
  /\ active # NoTask => tasks[active].status # "none"
  /\ timer # NoTask => tasks[timer].status # "none"
  /\ \A t \in Tasks, s \in BOOLEAN : InFlight(Poll(t, s)) => tasks[t].status # "none"
  /\ \A t \in Tasks, p \in Projects : InFlight(Commit(t, p)) => tasks[t].status # "none"

AtHome ==
  /\ active # NoTask => tasks[active].project = project
  /\ timer # NoTask => tasks[timer].project = project
  /\ \A p \in Projects : InFlight(Generate(p)) => p = project
  /\ \A t \in Tasks, s \in BOOLEAN : InFlight(Poll(t, s)) => tasks[t].project = project

PlanInv ==
  /\ Created
  /\ "architect" \notin overtaken => AtHome
  /\ CommitsWhereGenerated

\* Which fetches an exchange may have put in flight: those posted, and those
\* that were in flight before.
LEMMA StillInFlight ==
  ASSUME calls \in [Call -> Nat], NEW gone, NEW posted,
         \A c \in gone : c \in Call /\ InFlight(c), Exchange(gone, posted)
  PROVE  \A c \in Call : InFlight(c)' => c \in posted \/ InFlight(c)
  BY Exchanged DEF InFlight

\* A step that posts nothing about a plan and keeps what the page says of one.
LEMMA PlanKept ==
  ASSUME PlanInv,
         \A c \in ChainCalls : InFlight(c)' => InFlight(c),
         \A t \in Tasks, p \in Projects : InFlight(Commit(t, p))' => InFlight(Commit(t, p)),
         active' \in {active, NoTask}, timer' \in {timer, NoTask},
         UNCHANGED tasks,
         overtaken \subseteq overtaken',
         project' = project \/ "architect" \in overtaken'
           \/ ((\A c \in ChainCalls : ~ InFlight(c)) /\ active' = NoTask /\ timer' = NoTask)
  PROVE  PlanInv'
  <1>1. Created'
    BY Kinds DEF PlanInv, Created
  <1>2. "architect" \notin overtaken' => AtHome'
    BY Kinds DEF PlanInv, AtHome
  <1>3. CommitsWhereGenerated'
    BY DEF PlanInv, CommitsWhereGenerated
  <1> QED BY <1>1, <1>2, <1>3 DEF PlanInv

LEMMA PlanStep == TypeOK /\ TypeOK' /\ PlanInv /\ [Next]_vars => PlanInv'
  <1> SUFFICES ASSUME TypeOK, TypeOK', PlanInv, [Next]_vars PROVE PlanInv'
    OBVIOUS
  <1>t. /\ calls \in [Call -> Nat] /\ project \in Projects /\ signedIn \in BOOLEAN
        /\ timer \in Tasks \cup {NoTask} /\ active \in Tasks \cup {NoTask}
        /\ tasks \in [Tasks -> TaskType]
    BY DEF TypeOK
  <1>l. \A p \in Projects : \A c \in Loads(p) :
          c \in Call \ ChainCalls /\ \A t \in Tasks, q \in Projects : c # Commit(t, q)
    BY Kinds, CommitsApart DEF Loads
  <1>c. \A t \in Tasks, p \in Projects : Commit(t, p) \in Call
    BY Kinds
  <1>1. CASE SubmitLogin
    BY <1>1, <1>t, <1>c, StillInFlight, PlanKept, Kinds, CommitsApart DEF SubmitLogin, page
  <1>2. CASE Logout
    BY <1>2, PlanKept DEF Logout, InFlight
  <1>3. ASSUME NEW p \in Projects, LoginAnswered(p) PROVE PlanInv'
    <2>1. \A c \in Call : InFlight(c)' => c \in Loads(p) \/ InFlight(c)
      BY <1>3, <1>t, StillInFlight, Kinds DEF LoginAnswered
    <2>2. /\ project' = project \/ "architect" \in overtaken'
               \/ ((\A c \in ChainCalls : ~ InFlight(c)) /\ active' = NoTask /\ timer' = NoTask)
          /\ UNCHANGED <<active, timer, tasks>> /\ overtaken \subseteq overtaken'
      BY <1>3 DEF LoginAnswered, Overtakes, KeepsPlan
    <2> QED BY <2>1, <2>2, <1>l, <1>c, PlanKept, Kinds
  <1>4. ASSUME NEW p \in Projects, LoginFails(p) PROVE PlanInv'
    BY <1>4, <1>t, <1>c, StillInFlight, PlanKept, Kinds DEF LoginFails, page
  <1>5. ASSUME NEW p \in Projects, LoginProjectSelect(p) PROVE PlanInv'
    <2>2. /\ project' = project \/ "architect" \in overtaken'
               \/ ((\A c \in ChainCalls : ~ InFlight(c)) /\ active' = NoTask /\ timer' = NoTask)
          /\ UNCHANGED <<active, timer, tasks, calls>> /\ overtaken \subseteq overtaken'
      BY <1>5 DEF LoginProjectSelect, Overtakes, KeepsPlan
    <2> QED BY <2>2, PlanKept DEF InFlight
  <1>6. ASSUME NEW p \in Projects, SelectProject(p) PROVE PlanInv'
    <2>1. \A c \in Call : InFlight(c)' => c \in Loads(p) \/ InFlight(c)
      BY <1>6, <1>t, StillInFlight DEF SelectProject
    <2>2. /\ "architect" \in overtaken' \/ \A c \in ChainCalls : ~ InFlight(c)
          /\ active' = NoTask /\ timer' = NoTask
          /\ UNCHANGED tasks /\ overtaken \subseteq overtaken'
      BY <1>6 DEF SelectProject, Overtakes, ClearArchitectState
    <2> QED BY <2>1, <2>2, <1>l, <1>c, PlanKept, Kinds
  <1>7. ASSUME NEW table \in Tables, LoadTable(table) PROVE PlanInv'
    BY <1>7, <1>t, <1>c, StillInFlight, PlanKept, Kinds, CommitsApart DEF LoadTable, page
  <1>8. ASSUME NEW table \in Tables, NEW p \in Projects, LoadAnswered(table, p) PROVE PlanInv'
    BY <1>8, <1>t, <1>c, StillInFlight, PlanKept, Kinds DEF LoadAnswered
  <1>9. ASSUME NEW table \in Tables, NEW p \in Projects, LoadFails(table, p) PROVE PlanInv'
    BY <1>9, <1>t, <1>c, StillInFlight, PlanKept, Kinds DEF LoadFails
  <1>10. CASE GenerateArchitecture
    <2>1. \A c \in Call : InFlight(c)' => c = Generate(project) \/ InFlight(c)
      BY <1>10, <1>t, StillInFlight DEF GenerateArchitecture
    <2>2. /\ timer' = NoTask /\ UNCHANGED <<active, project, tasks, overtaken>>
      BY <1>10 DEF GenerateArchitecture
    <2>3. Created'
      BY <2>1, <2>2, <1>t, Kinds, CommitsApart, ChainApart DEF PlanInv, Created
    <2>4. "architect" \notin overtaken' => AtHome'
      <3> SUFFICES ASSUME AtHome PROVE AtHome'
        BY <2>2 DEF PlanInv
      <3>1. \A p \in Projects : InFlight(Generate(p))' => p = project
        BY <2>1, <1>t, Kinds, ChainApart DEF AtHome, Generate
      <3>2. \A t \in Tasks, s \in BOOLEAN : InFlight(Poll(t, s))' => InFlight(Poll(t, s))
        BY <2>1, <1>t, Kinds, ChainApart
      <3> QED BY <3>1, <3>2, <2>2 DEF AtHome
    <2>5. CommitsWhereGenerated'
      BY <2>1, <2>2, <1>t, Kinds, CommitsApart DEF PlanInv, CommitsWhereGenerated
    <2> QED BY <2>3, <2>4, <2>5 DEF PlanInv
  <1>11. ASSUME NEW t \in Tasks, NEW p \in Projects, GenerateAnswered(t, p) PROVE PlanInv'
    <2>1. \A c \in Call : InFlight(c)' => c = Poll(t, signedIn) \/ InFlight(c)
      BY <1>11, <1>t, StillInFlight, Kinds DEF GenerateAnswered
    <2>2. /\ timer' = NoTask /\ active' = t /\ UNCHANGED <<project, overtaken>>
          /\ tasks[t].status = "none" /\ tasks'[t].status = "running" /\ tasks'[t].project = p
          /\ \A u \in Tasks \ {t} : tasks'[u] = tasks[u]
          /\ InFlight(Generate(p))
      BY <1>11, <1>t DEF GenerateAnswered, CreateTask
    <2>3. Created'
      <3>1. \A u \in Tasks, s \in BOOLEAN : InFlight(Poll(u, s))' => tasks'[u].status # "none"
        BY <2>1, <2>2, <1>t, Kinds, ChainApart DEF PlanInv, Created
      <3>2. \A u \in Tasks, q \in Projects : InFlight(Commit(u, q))' => tasks'[u].status # "none"
        BY <2>1, <2>2, <1>t, Kinds, CommitsApart DEF PlanInv, Created
      <3> QED BY <3>1, <3>2, <2>2 DEF Created
    <2>4. "architect" \notin overtaken' => AtHome'
      <3> SUFFICES ASSUME "architect" \notin overtaken PROVE AtHome'
        BY <2>2
      <3>0. p = project /\ AtHome
        BY <2>2 DEF PlanInv, AtHome
      <3>1. \A u \in Tasks, s \in BOOLEAN : InFlight(Poll(u, s))' => tasks'[u].project = project
        BY <2>1, <2>2, <3>0, <1>t, Kinds, ChainApart DEF AtHome
      <3>2. \A q \in Projects : InFlight(Generate(q))' => q = project
        BY <2>1, <2>2, <3>0, <1>t, Kinds, ChainApart DEF AtHome
      <3> QED BY <3>0, <3>1, <3>2, <2>2 DEF AtHome
    <2>5. CommitsWhereGenerated'
      <3>1. \A u \in Tasks, q \in Projects : InFlight(Commit(u, q))' => InFlight(Commit(u, q)) /\ u # t
        BY <2>1, <2>2, <1>t, Kinds, CommitsApart DEF PlanInv, Created
      <3> QED BY <3>1, <2>2 DEF PlanInv, CommitsWhereGenerated
    <2> QED BY <2>3, <2>4, <2>5 DEF PlanInv
  <1>12. ASSUME NEW p \in Projects, GenerateFails(p) PROVE PlanInv'
    <2>1. \A c \in Call : InFlight(c)' => InFlight(c)
      BY <1>12, <1>t, StillInFlight, Kinds DEF GenerateFails
    <2>2. UNCHANGED <<active, timer, project, overtaken>>
      BY <1>12 DEF GenerateFails
    <2>3. CASE UNCHANGED tasks
      BY <2>1, <2>2, <2>3, <1>c, PlanKept, Kinds
    <2>4. ASSUME NEW t \in Tasks, CreateTask(t, p) PROVE PlanInv'
      <3>1. /\ tasks[t].status = "none" /\ tasks'[t].status = "running"
            /\ \A u \in Tasks \ {t} : tasks'[u] = tasks[u]
        BY <2>4, <1>t DEF CreateTask
      <3>2. Created'
        BY <2>1, <2>2, <3>1, <1>t, Kinds DEF PlanInv, Created
      <3>3. "architect" \notin overtaken' => AtHome'
        BY <2>1, <2>2, <3>1, <1>t, Kinds DEF PlanInv, AtHome, Created
      <3>4. CommitsWhereGenerated'
        BY <2>1, <2>2, <3>1, <1>t, Kinds DEF PlanInv, CommitsWhereGenerated, Created
      <3> QED BY <3>2, <3>3, <3>4 DEF PlanInv
    <2> QED BY <2>3, <2>4, <1>12 DEF GenerateFails
  <1>13. ASSUME NEW u \in Tasks, Finish(u) PROVE PlanInv'
    <2>1. /\ UNCHANGED <<active, timer, project, calls, overtaken>>
          /\ tasks[u].status # "none" /\ tasks'[u].status # "none"
          /\ \A t \in Tasks \ {u} : tasks'[t] = tasks[t]
          /\ tasks'[u].project = tasks[u].project
      BY <1>13, <1>t DEF Finish, page, TaskType
    <2>2. Created'
      BY <2>1, <1>t DEF PlanInv, Created, InFlight
    <2>3. "architect" \notin overtaken' => AtHome'
      BY <2>1, <1>t DEF PlanInv, AtHome, InFlight
    <2>4. CommitsWhereGenerated'
      BY <2>1, <1>t DEF PlanInv, CommitsWhereGenerated, InFlight
    <2> QED BY <2>2, <2>3, <2>4 DEF PlanInv
  <1>14. CASE PollFires
    <2>1. \A c \in Call : InFlight(c)' => c = Poll(timer, signedIn) \/ InFlight(c)
      BY <1>14, <1>t, StillInFlight DEF PollFires
    <2>2. /\ timer \in Tasks /\ timer # NoTask /\ timer' = NoTask
          /\ UNCHANGED <<active, project, tasks, overtaken>>
      BY <1>14, <1>t DEF PollFires
    <2>3. Created'
      BY <2>1, <2>2, <1>t, Kinds, CommitsApart, ChainApart DEF PlanInv, Created
    <2>4. "architect" \notin overtaken' => AtHome'
      BY <2>1, <2>2, <1>t, Kinds, ChainApart DEF PlanInv, AtHome
    <2>5. CommitsWhereGenerated'
      BY <2>1, <2>2, <1>t, Kinds, CommitsApart DEF PlanInv, CommitsWhereGenerated
    <2> QED BY <2>3, <2>4, <2>5 DEF PlanInv
  <1>15. ASSUME NEW t \in Tasks, PollAnswered(t) PROVE PlanInv'
    <2>1. \A c \in Call : InFlight(c)' => InFlight(c)
      <3>1. PICK token \in BOOLEAN : token = TRUE
        OBVIOUS
      <3>2. InFlight(Poll(t, token)) /\ Exchange({Poll(t, token)}, {})
        BY <1>15, <3>1 DEF PollAnswered
      <3> QED BY <3>2, <1>t, StillInFlight, Kinds
    <2>2. /\ active' = t /\ timer' \in {timer, t} /\ InFlight(Poll(t, TRUE))
          /\ UNCHANGED <<project, tasks, overtaken>>
      BY <1>15 DEF PollAnswered
    <2>3. Created'
      BY <2>1, <2>2, <1>t, Kinds DEF PlanInv, Created
    <2>4. "architect" \notin overtaken' => AtHome'
      BY <2>1, <2>2, <1>t, Kinds DEF PlanInv, AtHome
    <2>5. CommitsWhereGenerated'
      BY <2>1, <2>2, <1>t, Kinds DEF PlanInv, CommitsWhereGenerated
    <2> QED BY <2>3, <2>4, <2>5 DEF PlanInv
  <1>16. ASSUME NEW t \in Tasks, NEW token \in BOOLEAN, PollFails(t, token) PROVE PlanInv'
    BY <1>16, <1>t, <1>c, StillInFlight, PlanKept, Kinds DEF PollFails
  <1>17. CASE CommitArchitecture
    <2>1. \A c \in Call : InFlight(c)' => c = Commit(active, project) \/ InFlight(c)
      BY <1>17, <1>t, StillInFlight DEF CommitArchitecture
    <2>2. /\ active \in Tasks /\ active # NoTask
          /\ UNCHANGED <<active, timer, project, tasks, overtaken>>
      BY <1>17, <1>t DEF CommitArchitecture
    <2>3. Created'
      BY <2>1, <2>2, <1>t, Kinds, CommitsApart DEF PlanInv, Created
    <2>4. "architect" \notin overtaken' => AtHome'
      BY <2>1, <2>2, <1>t, Kinds, CommitsApart DEF PlanInv, AtHome
    <2>5. CommitsWhereGenerated'
      BY <2>1, <2>2, <1>t, Kinds, CommitsApart DEF PlanInv, CommitsWhereGenerated, AtHome
    <2> QED BY <2>3, <2>4, <2>5 DEF PlanInv
  <1>18. ASSUME NEW t \in Tasks, NEW p \in Projects, CommitAnswered(t, p) PROVE PlanInv'
    <2>1. \A c \in Call : InFlight(c)' => c \in Loads(project) \cup {Refresh} \/ InFlight(c)
      BY <1>18, <1>t, StillInFlight, Kinds DEF CommitAnswered
    <2> QED BY <2>1, <1>18, <1>t, <1>l, <1>c, PlanKept, Kinds, CommitsApart DEF CommitAnswered, page
  <1>19. ASSUME NEW t \in Tasks, NEW p \in Projects, CommitFails(t, p) PROVE PlanInv'
    BY <1>19, <1>t, <1>c, StillInFlight, PlanKept, Kinds DEF CommitFails
  <1>20. CASE CommitRefreshed
    BY <1>20, <1>t, <1>c, StillInFlight, PlanKept, Kinds DEF CommitRefreshed
  <1>21. CASE UNCHANGED vars
    BY <1>21, PlanKept DEF vars, page, InFlight
  <1> QED
    BY <1>1, <1>2, <1>3, <1>4, <1>5, <1>6, <1>7, <1>8, <1>9, <1>10, <1>11, <1>12, <1>13, <1>14,
       <1>15, <1>16, <1>17, <1>18, <1>19, <1>20, <1>21
    DEF Next, Session, LoadStep, ChainAnswered, CommitStep

\* A commit names the project its plan was generated for, unless a change of
\* the project overtook the conversation or a login kept the plan, for any
\* projects, tasks and tables.
THEOREM CommitsWhereGeneratedHolds == Spec => []CommitsWhereGenerated
  <1>1. Init => PlanInv
    <2> SUFFICES ASSUME Init PROVE PlanInv
      OBVIOUS
    <2>1. \A p \in Projects : \A c \in Loads(p) :
            c \in Call \ ChainCalls /\ \A t \in Tasks, q \in Projects : c # Commit(t, q)
      BY Kinds, CommitsApart DEF Loads
    <2>2. /\ \A c \in ChainCalls : ~ InFlight(c)
          /\ \A t \in Tasks, p \in Projects : ~ InFlight(Commit(t, p))
      BY <2>1, Kinds DEF Init, InFlight
    <2> QED BY <2>2, Kinds DEF Init, PlanInv, Created, AtHome, CommitsWhereGenerated
  <1>2. PlanInv => CommitsWhereGenerated
    BY DEF PlanInv
  <1> QED BY <1>1, <1>2, DashboardTypeOKHolds, PlanStep, PTL DEF Spec

----------------------------------------------------------------------------
(* The tables and the project that is selected.                            *)

\* As long as no answer to a load failed or was overtaken: every load that is in
\* flight is for the project that is selected and, in a session, a table that
\* does not show that project has one.
TablesInv ==
  "tables" \notin overtaken =>
    /\ \A table \in Tables, p \in Projects : InFlight(Load(table, p)) => p = project
    /\ signedIn =>
         \A table \in Tables : shown[table] = project \/ InFlight(Load(table, project))

LEMMA LoadsApart ==
  /\ \A table \in Tables, p \in Projects : Load(table, p) \in LoadCalls
  /\ LoadCalls \subseteq Call
  /\ \A table, other \in Tables, p, q \in Projects :
       Load(table, p) = Load(other, q) => table = other /\ p = q
  /\ \A p \in Projects : Login(p) \notin LoadCalls /\ Generate(p) \notin LoadCalls
  /\ \A t \in Tasks, s \in BOOLEAN : Poll(t, s) \notin LoadCalls
  /\ \A t \in Tasks, p \in Projects : Commit(t, p) \notin LoadCalls
  /\ Refresh \notin LoadCalls
  BY DEF Load, Login, Generate, Poll, Commit, Refresh, LoadCalls, Call

\* An exchange takes no load off that is not in gone and adds none that is not in
\* posted.
LEMMA LoadsExchanged ==
  ASSUME calls \in [Call -> Nat], NEW gone, NEW posted,
         \A c \in gone : c \in Call /\ InFlight(c), Exchange(gone, posted)
  PROVE  /\ \A c \in LoadCalls : InFlight(c) /\ c \notin gone => InFlight(c)'
         /\ \A c \in LoadCalls : c \in posted /\ c \notin gone => InFlight(c)'
         /\ \A c \in LoadCalls : InFlight(c)' => c \in posted \/ InFlight(c)
  BY Exchanged, LoadsApart DEF InFlight

\* Every step that selects no project and takes in no load.
LEMMA TablesKept ==
  ASSUME TablesInv, project \in Projects, UNCHANGED <<project, shown>>,
         overtaken \subseteq overtaken', signedIn' => signedIn,
         \A c \in LoadCalls : InFlight(c) => InFlight(c)',
         \A table \in Tables, p \in Projects :
           InFlight(Load(table, p))' => InFlight(Load(table, p)) \/ p = project
  PROVE  TablesInv'
  BY LoadsApart DEF TablesInv

\* A change of the project to p: the tables of p are all fetched, or the session
\* is over.
LEMMA TablesFetched ==
  ASSUME TablesInv, NEW p \in Projects, project' = p, UNCHANGED shown,
         overtaken \cup Overtakes(p) \subseteq overtaken',
         \A table \in Tables, q \in Projects :
           InFlight(Load(table, q))' => InFlight(Load(table, q)) \/ q = p,
         signedIn' => \A table \in Tables : InFlight(Load(table, p))'
  PROVE  TablesInv'
  <1>1. CASE "tables" \in overtaken'
    BY <1>1 DEF TablesInv
  <1>2. CASE "tables" \notin overtaken'
    <2>1. p = project \/ \A c \in LoadCalls : ~ InFlight(c)
      BY <1>2 DEF Overtakes
    <2>2. \A table \in Tables, q \in Projects : InFlight(Load(table, q))' => q = p
      BY <1>2, <2>1, LoadsApart DEF TablesInv
    <2> QED BY <2>2 DEF TablesInv
  <1> QED BY <1>1, <1>2

LEMMA TablesStep == TypeOK /\ TypeOK' /\ TablesInv /\ [Next]_vars => TablesInv'
  <1> SUFFICES ASSUME TypeOK, TypeOK', TablesInv, [Next]_vars PROVE TablesInv'
    OBVIOUS
  <1>t. /\ calls \in [Call -> Nat] /\ project \in Projects /\ signedIn \in BOOLEAN
        /\ timer \in Tasks \cup {NoTask} /\ active \in Tasks \cup {NoTask}
        /\ shown \in [Tables -> Projects \cup {NoProject}]
    BY DEF TypeOK
  <1>a. \A p \in Projects : \A c \in Loads(p) :
          /\ c \in LoadCalls
          /\ \A table \in Tables, q \in Projects : c = Load(table, q) => q = p
    BY LoadsApart DEF Loads
  <1>b. \A p \in Projects, table \in Tables : Load(table, p) \in Loads(p)
    BY DEF Loads
  <1> USE <1>t, Kinds, LoadsApart
  <1>1. CASE SubmitLogin
    BY <1>1, LoadsExchanged, TablesKept DEF SubmitLogin, page
  <1>2. CASE Logout
    BY <1>2, TablesKept DEF Logout, InFlight
  <1>3. ASSUME NEW p \in Projects, LoginAnswered(p) PROVE TablesInv'
    <2>1. /\ \A c \in LoadCalls : c \in Loads(p) => InFlight(c)'
          /\ \A c \in LoadCalls : InFlight(c)' => c \in Loads(p) \/ InFlight(c)
      BY <1>3, LoadsExchanged DEF LoginAnswered
    <2>2. /\ project' = p /\ UNCHANGED shown
          /\ overtaken \cup Overtakes(p) \subseteq overtaken'
      BY <1>3 DEF LoginAnswered
    <2> QED BY <2>1, <2>2, <1>a, <1>b, TablesFetched
  <1>4. ASSUME NEW p \in Projects, LoginFails(p) PROVE TablesInv'
    BY <1>4, LoadsExchanged, TablesKept DEF LoginFails, page
  <1>5. ASSUME NEW p \in Projects, LoginProjectSelect(p) PROVE TablesInv'
    BY <1>5, TablesFetched DEF LoginProjectSelect, InFlight
  <1>6. ASSUME NEW p \in Projects, SelectProject(p) PROVE TablesInv'
    <2>1. /\ \A c \in LoadCalls : c \in Loads(p) => InFlight(c)'
          /\ \A c \in LoadCalls : InFlight(c)' => c \in Loads(p) \/ InFlight(c)
      BY <1>6, LoadsExchanged DEF SelectProject
    <2>2. /\ project' = p /\ UNCHANGED shown
          /\ overtaken \cup Overtakes(p) \subseteq overtaken'
      BY <1>6 DEF SelectProject
    <2> QED BY <2>1, <2>2, <1>a, <1>b, TablesFetched
  <1>7. ASSUME NEW table \in Tables, LoadTable(table) PROVE TablesInv'
    BY <1>7, LoadsExchanged, TablesKept DEF LoadTable, page
  <1>8. ASSUME NEW table \in Tables, NEW p \in Projects, LoadAnswered(table, p) PROVE TablesInv'
    <2>1. /\ \A c \in LoadCalls : InFlight(c) /\ c # Load(table, p) => InFlight(c)'
          /\ \A c \in LoadCalls : InFlight(c)' => InFlight(c)
      BY <1>8, LoadsExchanged DEF LoadAnswered
    <2>2. /\ InFlight(Load(table, p)) /\ shown' = [shown EXCEPT ![table] = p]
          /\ UNCHANGED <<project, signedIn, overtaken>>
      BY <1>8 DEF LoadAnswered
    <2>3. "tables" \notin overtaken' => p = project
      BY <2>2 DEF TablesInv
    <2>4. \A other \in Tables \ {table} : shown'[other] = shown[other]
      BY <2>2
    <2>5. shown'[table] = p
      BY <2>2
    <2> QED BY <2>1, <2>2, <2>3, <2>4, <2>5 DEF TablesInv
  <1>9. ASSUME NEW table \in Tables, NEW p \in Projects, LoadFails(table, p) PROVE TablesInv'
    BY <1>9 DEF LoadFails, TablesInv
  <1>10. CASE GenerateArchitecture
    BY <1>10, LoadsExchanged, TablesKept DEF GenerateArchitecture
  <1>11. ASSUME NEW t \in Tasks, NEW p \in Projects, GenerateAnswered(t, p) PROVE TablesInv'
    BY <1>11, LoadsExchanged, TablesKept DEF GenerateAnswered
  <1>12. ASSUME NEW p \in Projects, GenerateFails(p) PROVE TablesInv'
    BY <1>12, LoadsExchanged, TablesKept DEF GenerateFails
  <1>13. ASSUME NEW t \in Tasks, Finish(t) PROVE TablesInv'
    BY <1>13, TablesKept DEF Finish, page, InFlight
  <1>14. CASE PollFires
    BY <1>14, LoadsExchanged, TablesKept DEF PollFires
  <1>15. ASSUME NEW t \in Tasks, PollAnswered(t) PROVE TablesInv'
    <2>1. PICK token \in BOOLEAN : token = TRUE
      OBVIOUS
    <2>2. InFlight(Poll(t, token)) /\ Exchange({Poll(t, token)}, {})
      BY <1>15, <2>1 DEF PollAnswered
    <2>3. UNCHANGED <<project, signedIn, shown, overtaken>>
      BY <1>15 DEF PollAnswered
    <2> QED BY <2>2, <2>3, LoadsExchanged, TablesKept
  <1>16. ASSUME NEW t \in Tasks, NEW token \in BOOLEAN, PollFails(t, token) PROVE TablesInv'
    BY <1>16, LoadsExchanged, TablesKept DEF PollFails
  <1>17. CASE CommitArchitecture
    BY <1>17, LoadsExchanged, TablesKept DEF CommitArchitecture
  <1>18. ASSUME NEW t \in Tasks, NEW p \in Projects, CommitAnswered(t, p) PROVE TablesInv'
    <2>1. /\ \A c \in LoadCalls : InFlight(c) => InFlight(c)'
          /\ \A c \in LoadCalls : InFlight(c)' => c \in Loads(project) \/ InFlight(c)
      BY <1>18, LoadsExchanged DEF CommitAnswered
    <2>2. UNCHANGED <<project, signedIn, shown, overtaken>>
      BY <1>18 DEF CommitAnswered, page
    <2> QED BY <2>1, <2>2, <1>a, TablesKept
  <1>19. ASSUME NEW t \in Tasks, NEW p \in Projects, CommitFails(t, p) PROVE TablesInv'
    BY <1>19, LoadsExchanged, TablesKept DEF CommitFails
  <1>20. CASE CommitRefreshed
    BY <1>20, LoadsExchanged, TablesKept DEF CommitRefreshed
  <1>21. CASE UNCHANGED vars
    BY <1>21, TablesKept DEF vars, page, InFlight
  <1> QED
    BY <1>1, <1>2, <1>3, <1>4, <1>5, <1>6, <1>7, <1>8, <1>9, <1>10, <1>11, <1>12, <1>13, <1>14,
       <1>15, <1>16, <1>17, <1>18, <1>19, <1>20, <1>21
    DEF Next, Session, LoadStep, ChainAnswered, CommitStep

\* The tables of a session show the project that is selected once nothing is on
\* its way, unless a load failed or was overtaken by a change of the project,
\* for any projects, tasks and tables and however many loads are in flight.
THEOREM TablesFollowProjectHolds == Spec => []TablesFollowProject
  <1>1. Init => TablesInv
    <2> SUFFICES ASSUME Init PROVE TablesInv
      OBVIOUS
    <2>1. \A table \in Tables, p \in Projects : InFlight(Load(table, p)) => p = project
      BY Kinds, LoadsApart DEF Init, InFlight, Loads
    <2>2. signedIn => \A table \in Tables : InFlight(Load(table, project))
      BY Kinds DEF Init, InFlight, Loads
    <2> QED BY <2>1, <2>2 DEF TablesInv
  <1>2. TypeOK /\ TablesInv => TablesFollowProject
    BY LoadsApart DEF TypeOK, TablesInv, TablesFollowProject
  <1> QED BY <1>1, <1>2, DashboardTypeOKHolds, TablesStep, PTL DEF Spec
================================================================================
