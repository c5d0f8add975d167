---------------------------- MODULE MCWorkflowRun ----------------------------
(* Workflows on which WorkflowRun is model-checked. *)
EXTENDS WorkflowRun

\* One step of every kind that is not a group.
StepsKind == <<"init", "plain", "input", "cond", "retry", "done">>
StepsSubs == [i \in 1..6 |-> <<>>]

\* Two groups in a row.
GroupsKind == <<"init", "group", "group", "done">>
GroupsSubs ==
  <<<<>>, <<"enter", "input", "plain", "exit">>,
          <<"enter", "plain", "exit">>, <<>>>>

Composition == INSTANCE StepComposition

Injection == INSTANCE StateInjection

Sessions == INSTANCE Transactions

Json == INSTANCE StateJson

Inputs == INSTANCE StoredInput

Broadcasts == INSTANCE Broadcasting

Keeping == INSTANCE HouseKeeping

\* However a workflow of wrapped steps and groups is interrupted by failing and suspended
\* steps, logging, recovering and resuming it (_db_log_step, _recoverwf, runwf) ends in the
\* state that the steps mean when nothing interrupts them; what a step returns is what the
\* next one is called with (inject_args); what its transaction writes is stored as a whole
\* (transactional); the stored state reads back as what was written (json_loads); the
\* answers of users reach the steps they were given for (retrieve_input_state); what was
\* committed last reaches the clients (ProcessDataBroadcastThread); and the house-keeping tasks
\* whose steps start validations (start_subscription_validations) or delete tasks
\* (remove_tasks) do so completely and once; each under the conditions that the claims name.
CompositionIsExact ==
  Init => /\ Composition!CompositionExact(Composition!Workflows)
          /\ Injection!InjectionExact
          /\ Sessions!TransactionsExact(Sessions!Scripts)
          /\ Json!JsonExact(Json!Stored)
          /\ Inputs!AnswersExact(Inputs!Workflows)
          /\ Inputs!KeptExact(Inputs!Computing)
          /\ Broadcasts!FreshExact(Broadcasts!Writers)
          /\ Broadcasts!ClosedExact(Broadcasts!Clients)
          /\ Broadcasts!LostExact(Broadcasts!Clients)
          /\ Broadcasts!CloseExact(Broadcasts!Lists)
          /\ Keeping!ValidationExact(Keeping!SmallTasks)
          /\ Keeping!CleanUpExact(Keeping!CleanUpHazards)
=============================================================================
