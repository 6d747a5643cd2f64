------------------------------ MODULE Pipeline ------------------------------
(***************************************************************************)
(* The conductor: a task is decomposed into a graph of sub-tasks, matched  *)
(* to agents, checked against the budget and executed wave by wave.  It    *)
(* models src/src/conductor: conductor-mode.ts, decomposition-validator.ts,*)
(* team-formation.ts, budget-controller.ts and pipeline-orchestrator.ts.   *)
(*                                                                         *)
(* A sub-task is matched twice: capability-matcher.ts finds the match that *)
(* is estimated, compared with the budget and booked, team-formation.ts a  *)
(* member of the team, and the member is the one that is called.           *)
(*                                                                         *)
(* The sub-tasks of a wave run together: those that go to one HTTP gateway *)
(* as a batch, the others one by one, each with its first alternative when *)
(* the agent fails.                                                        *)
(***************************************************************************)
EXTENDS Integers, FiniteSetsExt

CONSTANTS
    Task,        \* sub-tasks
    Unknown,     \* an id that no sub-task has
    Templates,   \* the rule engine's graphs
    Offer,       \* who may be found for a sub-task:
                 \*   cost  the price in the match, of its selected agent
                 \*   alt   the price of its first alternative, 0 for none
                 \*   ask   the price of the agent that is called: the team's
                 \*         member, or the selected agent if it has none
                 \*   site  of the agent that is called: "shared" gateway, an
                 \*         "own" one, or "gone"
    Fee,         \* ORCHESTRATION_FEE
    MaxBudget,   \* maxBudget
    Available    \* BudgetManager.availableCredits of the conductor

ASSUME PipelineAssumption ==
    /\ IsFiniteSet(Task)
    /\ {Fee, MaxBudget, Available} \subseteq Nat
    /\ Unknown \notin Task
    /\ Offer \subseteq [cost : Nat, alt : Nat, ask : Nat, site : {"shared", "own", "gone"}]

VARIABLES
    raw,      \* depends_on of the sub-tasks an external decomposer returned
    deps,     \* depends_on of the sub-tasks that are executed
    offer,    \* the match and the team's member of every sub-task
    stage,    \* where the run is
    placed,   \* sub-tasks of the waves so far
    status,   \* what became of a sub-task
    batched,  \* sub-tasks of the wave that went out as one batch request
    retried,  \* sub-tasks that were answered by the alternative
    total,    \* totalCredits
    errors    \* an error was recorded

pipelineVars ==
    <<raw, deps, offer, stage, placed, status, batched, retried, total,
      errors>>

Graph == [Task -> SUBSET (Task \cup {Unknown})]
Running == {"batch", "primary", "alternative"}
Ended == {"ok", "failed", "skipped"}

PipelineTypeOK ==
    /\ raw \in Graph /\ deps \in [Task -> SUBSET Task]
    /\ offer \in [Task -> Offer]
    /\ stage \in {"decompose", "budget", "ready", "wave", "done", "refused", "thrown"}
    /\ placed \subseteq Task
    /\ status \in [Task -> {"waiting"} \cup Running \cup Ended]
    /\ batched \subseteq Task /\ retried \subseteq Task
    /\ total \in Nat
    /\ errors \in BOOLEAN

PipelineInit ==
    /\ raw \in Graph
    /\ deps = [t \in Task |-> {}]
    /\ offer \in [Task -> Offer]
    /\ stage = "decompose"
    /\ placed = {}
    /\ status = [t \in Task |-> "waiting"]
    /\ batched = {} /\ retried = {}
    /\ total = 0
    /\ errors = FALSE

\* The sum of the numbers f[i], i \in S.
SumOver(f, S) == MapThenSumSet(LAMBDA i : f[i], S)

-----------------------------------------------------------------------------
(* Decomposition                                                           *)

\* One round of Kahn's algorithm: take a task without open dependencies and
\* lower the degree of its neighbours.
\* Seeded fault: a neighbour is taken as soon as one dependency is done.
RoundEager(g, k) ==
    IF k.queue = {} THEN k
    ELSE LET current == CHOOSE t \in k.queue : TRUE
             neighbours == {t \in Task : current \in g[t]}
         IN [queue |-> (k.queue \ {current}) \cup (neighbours \ k.seen),
             degree |-> k.degree, seen |-> k.seen \cup neighbours,
             processed |-> k.processed + 1]
Round(g, k) ==
    IF k.queue = {} THEN k
    ELSE LET current == CHOOSE t \in k.queue : TRUE
             neighbours == {t \in Task : current \in g[t]}
             degree == [t \in Task |->
                          IF t \in neighbours THEN k.degree[t] - 1 ELSE k.degree[t]]
             free == {t \in neighbours : degree[t] = 0}
         IN [queue |-> (k.queue \ {current}) \cup free, degree |-> degree,
             seen |-> k.seen \cup free, processed |-> k.processed + 1]

\* The degrees are counted and the tasks without dependencies queued.
Begin(g) ==
    LET roots == {t \in Task : g[t] \cap Task = {}}
    IN [queue |-> roots, degree |-> [t \in Task |-> Cardinality(g[t] \cap Task)],
        seen |-> roots, processed |-> 0]

\* The algorithm after n rounds.
Kahn(g) ==
    LET k[n \in Nat] == IF n = 0 THEN Begin(g) ELSE Round(g, k[n - 1])
    IN k

\* How many tasks the algorithm gets to process.
Processed(g) == Kahn(g)[Cardinality(Task)].processed

\* validateAndNormalizeSubtasks: every reference known, no cycle.
Acceptable(g) ==
    /\ \A t \in Task : Unknown \notin g[t]
    /\ Processed(g) = Cardinality(Task)

\* The templates of the rule engine can be executed, in chains or with steps in
\* parallel.
ASSUME TemplatesAssumption ==
    \A g \in Templates : g \in [Task -> SUBSET Task] /\ Acceptable(g)

\* The depth limit, an unknown skill, an injected key, no template.
Refuse ==
    /\ stage = "decompose"
    /\ stage' = "refused"
    /\ UNCHANGED <<raw, deps, offer, placed, status, batched, retried, total, errors>>

\* The external decomposer's answer if it is valid, or the rule engine.
Decompose ==
    /\ stage = "decompose"
    /\ deps' \in Templates \/ (Acceptable(raw) /\ deps' = raw)
    /\ raw' = deps'
    /\ stage' = "budget"
    /\ UNCHANGED <<offer, placed, status, batched, retried, total, errors>>

-----------------------------------------------------------------------------
(* The budget                                                              *)

\* calculateBudget knows the matches only, whatever the team asks.
Estimated == SumOver([t \in Task |-> offer[t].cost], Task) + Fee
\* Seeded fault: the fee is left out of the estimate.
CanExecuteFeeless ==
    Estimated - Fee <= MaxBudget /\ (Estimated <= 0 \/ Estimated - Fee <= Available)
CanExecute == Estimated <= MaxBudget /\ (Estimated <= 0 \/ Estimated <= Available)

\* canExecute; the skill `plan` stops here whatever the answer.
CheckBudget ==
    /\ stage = "budget"
    /\ stage' \in {"refused", IF CanExecute THEN "ready" ELSE "refused"}
    /\ UNCHANGED <<raw, deps, offer, placed, status, batched, retried, total, errors>>

-----------------------------------------------------------------------------
(* Waves                                                                   *)

\* Seeded fault: one finished dependency is enough.
WaveSome == {t \in Task \ placed : deps[t] = {} \/ deps[t] \cap placed # {}}
Wave == {t \in Task \ placed : deps[t] \subseteq placed}

Affordable(t) == total + offer[t].cost <= MaxBudget

\* Deadline, budget, then the tasks of the wave: those whose match would exceed
\* the budget are skipped, the others go to the team's member or the selected
\* agent; one of these without a peer throws everything away.
StartWave ==
    /\ stage = "ready" /\ Wave # {}
    /\ total < MaxBudget
    /\ LET runs == {t \in Wave : Affordable(t)}
           shared == {t \in runs : offer[t].site = "shared"}
           batch == IF Cardinality(shared) > 1 THEN shared ELSE {}
       IN IF \E t \in runs : offer[t].site = "gone"
          THEN /\ stage' = "thrown"
               /\ UNCHANGED <<placed, status, batched, errors>>
          ELSE /\ stage' = "wave"
               /\ placed' = placed \cup Wave
               /\ status' = [t \in Task |->
                               IF t \in batch THEN "batch"
                               ELSE IF t \in runs THEN "primary"
                               ELSE IF t \in Wave THEN "skipped" ELSE status[t]]
               /\ batched' = batch
               /\ errors' = (errors \/ runs # Wave)
    /\ UNCHANGED <<raw, deps, offer, retried, total>>

\* No wave is left: also when the rest of the graph is a cycle.
Finish ==
    /\ stage = "ready" /\ Wave = {}
    /\ stage' = "done"
    /\ UNCHANGED <<raw, deps, offer, placed, status, batched, retried, total, errors>>

\* The budget or the deadline, which passes unseen, ends the run between two
\* waves.
Abort ==
    /\ stage = "ready" /\ Wave # {}
    /\ stage' = "done"
    /\ errors' = TRUE
    /\ UNCHANGED <<raw, deps, offer, placed, status, batched, retried, total>>

-----------------------------------------------------------------------------
(* The tasks of a wave                                                     *)

Book(t, price) == total' = total + price

Succeeds(t, price) ==
    /\ status' = [status EXCEPT ![t] = "ok"]
    /\ Book(t, price)

\* Whoever of the team answered, the price of the match is booked.  The batch
\* answers item by item: an item that failed is not tried again.
BatchItem(t) ==
    /\ status[t] = "batch" /\ t \in batched
    /\ \/ Succeeds(t, offer[t].cost) /\ UNCHANGED errors
       \/ /\ status' = [status EXCEPT ![t] = "failed"]
          /\ errors' = TRUE
          /\ UNCHANGED total
    /\ UNCHANGED <<raw, deps, offer, stage, placed, batched, retried>>

\* The batch request fails as a whole, although its items may have been
\* executed, and every item is sent again by itself.
BatchFails ==
    /\ batched # {} /\ \A t \in batched : status[t] = "batch"
    /\ batched' = {}
    /\ status' = [t \in Task |-> IF t \in batched THEN "primary" ELSE status[t]]
    /\ UNCHANGED <<raw, deps, offer, stage, placed, retried, total, errors>>

PrimaryOk(t) ==
    /\ status[t] = "primary"
    /\ Succeeds(t, offer[t].cost)
    /\ UNCHANGED <<raw, deps, offer, stage, placed, batched, retried, errors>>

PrimaryFails(t) ==
    /\ status[t] = "primary"
    /\ IF offer[t].alt > 0
       THEN status' = [status EXCEPT ![t] = "alternative"] /\ UNCHANGED errors
       ELSE status' = [status EXCEPT ![t] = "failed"] /\ errors' = TRUE
    /\ UNCHANGED <<raw, deps, offer, stage, placed, batched, retried, total>>

AlternativeOk(t) ==
    /\ status[t] = "alternative"
    /\ Succeeds(t, offer[t].alt)
    /\ retried' = retried \cup {t}
    /\ UNCHANGED <<raw, deps, offer, stage, placed, batched, errors>>

AlternativeFails(t) ==
    /\ status[t] = "alternative"
    /\ status' = [status EXCEPT ![t] = "failed"]
    /\ errors' = TRUE
    /\ UNCHANGED <<raw, deps, offer, stage, placed, batched, retried, total>>

\* Promise.all of the wave.
EndWave ==
    /\ stage = "wave" /\ \A t \in placed : status[t] \in Ended
    /\ stage' = "ready" /\ batched' = {}
    /\ UNCHANGED <<raw, deps, offer, placed, status, retried, total, errors>>

-----------------------------------------------------------------------------

TaskStep(t) ==
    BatchItem(t) \/ PrimaryOk(t) \/ PrimaryFails(t) \/ AlternativeOk(t) \/ AlternativeFails(t)

RunStep == Refuse \/ Decompose \/ CheckBudget \/ StartWave \/ Finish \/ Abort \/ EndWave

PipelineNext == RunStep \/ BatchFails \/ \E t \in Task : TaskStep(t)

\* Every request has a time limit of its own.
PipelineFairness ==
    WF_pipelineVars(RunStep) /\ \A t \in Task : WF_pipelineVars(TaskStep(t))

PipelineSpec == PipelineInit /\ [][PipelineNext]_pipelineVars /\ PipelineFairness

-----------------------------------------------------------------------------
(* Properties                                                              *)

\* What the validator lets pass is exactly the graphs that can be executed:
\* every reference known and no set of sub-tasks waiting for one another
\* (decomposition-validator.ts:128-178).
ValidatorIsExact ==
    stage = "decompose" =>
       (Acceptable(raw) <=>
          /\ raw \in [Task -> SUBSET Task]
          /\ \A S \in (SUBSET Task) \ {{}} : \E t \in S : raw[t] \cap S = {})

\* No sub-task is sent while one it depends on has not ended
\* (pipeline-orchestrator.ts:55-77, :224).
DependenciesFirst ==
    \A t \in Task : status[t] \in Running \cup {"ok"} =>
       \A d \in deps[t] : status[d] \in Ended

\* A run that reports success has a result for every sub-task: no wave, no
\* batch and no fallback loses one without an error
\* (pipeline-orchestrator.ts:383-405).
SuccessIsComplete ==
    stage = "done" /\ ~errors => \A t \in Task : status[t] = "ok"

Answered == {t \in Task : status[t] = "ok"}
\* What is booked for a sub-task, and what the agent that answered it asks.
Booked == [t \in Task |-> IF t \in retried THEN offer[t].alt ELSE offer[t].cost]
Asked == [t \in Task |-> IF t \in retried THEN offer[t].alt ELSE offer[t].ask]

\* total_credits adds up, for each sub-task that was answered and once whatever
\* path its answer took, the price in its match, or of its alternative if that
\* was the one to answer (pipeline-orchestrator.ts:130, :332, :388).
TotalOfMatches == total = SumOver(Booked, Answered)

\* What a run keeps to through waves, batches and alternatives: the order of
\* the graph, no result lost, every answer booked once
\* (pipeline-orchestrator.ts:224, :383-405).
PipelineInv ==
    PipelineTypeOK /\ DependenciesFirst /\ SuccessIsComplete /\ TotalOfMatches

\* How much the agents that answered are dearer, at these prices, than the
\* selected agents of their matches.
Dearer(price) ==
    SumOver([t \in Task |-> IF price[t] > offer[t].cost THEN price[t] - offer[t].cost ELSE 0],
            Answered)

\* The total leaves the approved estimate only through alternatives that are
\* dearer than the agent they replace; what the agents that answered ask leaves
\* it through these and through members of the team that are dearer than the
\* match, which no comparison with the budget sees (budget-controller.ts:86,
\* pipeline-orchestrator.ts:233, :263).
OverrunByDearerAgents ==
    stage \in {"wave", "ready", "done"} =>
       /\ Estimated <= MaxBudget
       /\ total + Fee <= MaxBudget + Dearer(Booked)
       /\ SumOver(Asked, Answered) + Fee <= MaxBudget + Dearer(Asked)

\* What a sub-task and the run have before them.
TaskSteps == [waiting |-> 4, batch |-> 3, primary |-> 2, alternative |-> 1,
              ok |-> 0, failed |-> 0, skipped |-> 0]
StageSteps == [decompose |-> 4, budget |-> 3, wave |-> 2, ready |-> 1,
               done |-> 0, refused |-> 0, thrown |-> 0]
Ahead == [t \in Task |-> TaskSteps[status[t]]]
Left == 2 * SumOver(Ahead, Task) + StageSteps[stage]

\* No run goes on for ever, whatever fails in it: each step, the fallback of a
\* batch to its items and of an item to its alternative included, leaves less
\* to do (pipeline-orchestrator.ts:224-402).
EveryStepCounts == [][Left' < Left]_pipelineVars

=============================================================================
