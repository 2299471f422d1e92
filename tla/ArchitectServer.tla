----------------------------- MODULE ArchitectServer -----------------------------
(***************************************************************************)
(* The whole process: the DEO runtime of MockServer and, on the same event *)
(* loop and the same repository, the architect routes of                   *)
(* architect/router.py.  Of a task only the configuration is kept that it  *)
(* has succeeded with, for commit refuses a task that is queued, runs or   *)
(* is dead-lettered.  ArchitectWorkflow shows that a task succeeds at most *)
(* once (TaskLifecycle) and with a configuration that has passed critic    *)
(* and sandbox (SucceededVerified).                                        *)
(*                                                                         *)
(* commit awaits only the repository, whose methods never suspend, so it   *)
(* holds the event loop from its first line to its return.  It is cut here *)
(* into one step per round of its two loops, between which nothing but     *)
(* the death of the process can happen.                                    *)
(***************************************************************************)
EXTENDS MockServer, GeneratedConfig

CONSTANTS
  Tasks,      \* the architect tasks that may be submitted
  Results     \* the configurations a task may succeed with

ASSUME ResultAssumption ==
  \A config \in Results :
    /\ config.endpoints \in Seq(GeneratedEndpointConfig)
    /\ config.rules \in Seq(GeneratedRuleConfig)
    /\ config # EmptyConfig
    /\ ~ HasIssues(config)
    /\ \A project \in Projects : SandboxResult(project, config) = "passed"

VARIABLES
  result,    \* per task the configuration it succeeded with, or NoResult
  commit     \* the call of commit that holds the event loop, or NoCommit

architect_vars == <<result, commit>>
process_vars == <<repo, request_logs, fresh, call, clock, restarts, seen, result, commit>>

NoResult == EmptyConfig

\* endpoint and rule count the rounds of the two loops, sizes is history: the
\* lengths of the lists when commit was called.
CommitCall(config, project, ids, endpoint, rule, sizes) ==
  [open |-> TRUE, config |-> config, project_id |-> project, ids |-> ids,
   endpoint |-> endpoint, rule |-> rule, sizes |-> sizes]

NoCommit == [open |-> FALSE]

ProcessInit ==
  /\ Init
  /\ result = [t \in Tasks |-> NoResult]
  /\ commit = NoCommit

--------------------------------------------------------------------------------
\* Tasks.

\* The workflow of a task ends with a result that succeeded.
Succeed(t, config) ==
  /\ result[t] = NoResult
  /\ result' = [result EXCEPT ![t] = config]
  /\ UNCHANGED <<vars, commit>>

--------------------------------------------------------------------------------
\* commit.

\* The endpoints of a configuration whose signature the project does not have.
Missing(config, project) ==
  {i \in DOMAIN config.endpoints :
     LET e == config.endpoints[i].endpoint
     IN  ~ EndpointSignatureExists(repo, project, e.method, e.path)}

\* A client commits a task to any project it has a role in, as often as it likes;
\* commit refuses (400) unless the task succeeded.  MaxEndpoints bounds what it
\* may add.
StartCommit(t, project) ==
  /\ result[t] # NoResult
  /\ Len(repo.endpoints) + Cardinality(Missing(result[t], project)) <= MaxEndpoints
  /\ commit' = CommitCall(result[t], project, << >>, 1, 1, SizesOf(repo))
  /\ UNCHANGED <<vars, result>>

EndpointsDone == commit.endpoint > Len(commit.config.endpoints)
RulesDone     == commit.rule > Len(commit.config.rules)

\* What a round of either loop leaves behind is a build.
Builds(b, endpoint, rule) ==
  /\ repo' = b.repo
  /\ fresh' = b.fresh
  /\ commit' = CommitCall(commit.config, commit.project_id, b.ids, endpoint, rule,
                          commit.sizes)
  /\ UNCHANGED <<request_logs, call, clock, restarts, seen, result>>

CommitNextEndpoint ==
  /\ commit.open /\ ~ EndpointsDone
  /\ Builds(CommitEndpoint(Build(repo, fresh, commit.ids), commit.project_id,
                           commit.config.endpoints[commit.endpoint]),
            commit.endpoint + 1, commit.rule)

CommitNextRule ==
  /\ commit.open /\ EndpointsDone /\ ~ RulesDone
  /\ Builds(CommitRule(Build(repo, fresh, commit.ids), commit.config.rules[commit.rule]),
            commit.endpoint, commit.rule + 1)

ReturnCommit ==
  /\ commit.open /\ EndpointsDone /\ RulesDone
  /\ commit' = NoCommit
  /\ UNCHANGED <<vars, result>>

--------------------------------------------------------------------------------
\* The process dies and starts again: tasks are in memory as well.
RestartProcess ==
  /\ Restart
  /\ result' = [t \in Tasks |-> NoResult]
  /\ commit' = NoCommit

\* What the event loop may run while no commit holds it.
FreeStep ==
  /\ ~ commit.open
  /\ \/ Step /\ UNCHANGED architect_vars
     \/ \E t \in Tasks :
          \/ \E config \in Results : Succeed(t, config)
          \/ \E project \in Projects : StartCommit(t, project)

ProcessNext ==
  FreeStep \/ CommitNextEndpoint \/ CommitNextRule \/ ReturnCommit \/ RestartProcess

ProcessSpec == ProcessInit /\ [][ProcessNext]_process_vars

--------------------------------------------------------------------------------
(***************************************************************************)
(* Properties, besides those of MockServer, which hold of the process.     *)
(***************************************************************************)

\* The records of a list beyond its first n.
Since(list, n) == {list[i] : i \in n + 1 .. Len(list)}

NewEndpoints == Since(repo.endpoints, commit.sizes.endpoints)
NewRules     == Since(repo.rules, commit.sizes.rules)

\* A commit touches nothing that was there: the endpoints it creates belong to the
\* project it was asked for, and its rules go to endpoints it has created itself,
\* never to one it found under the same signature.
CommitTouchesOwn ==
  commit.open =>
    /\ \A e \in NewEndpoints : e.project_id = commit.project_id
    /\ \A r \in NewRules : \E e \in NewEndpoints : e.id = r.endpoint_id

\* When commit returns, the project has an endpoint of every signature of the
\* configuration, found or created, and every rule whose endpoint was created.
CommitComplete ==
  commit.open /\ EndpointsDone /\ RulesDone =>
    /\ \A i \in DOMAIN commit.config.endpoints :
         LET e == commit.config.endpoints[i].endpoint
         IN  \E j \in DOMAIN repo.endpoints :
               SameSignature(repo.endpoints[j], commit.project_id, e.method, e.path)
    /\ \A i \in DOMAIN commit.config.rules :
         LET r == commit.config.rules[i]
         IN  r.endpoint_key \in DOMAIN commit.ids =>
               \E new \in NewRules :
                 /\ new.endpoint_id = commit.ids[r.endpoint_key]
                 /\ new.operator = r.rule.operator /\ new.value = r.rule.value
================================================================================
