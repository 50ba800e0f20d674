----------------------------- MODULE PlanService -----------------------------
(***************************************************************************)
(* The request handlers of the SupplyIQ API around the table of solved     *)
(* plans: POST /<domain>/solve, GET /<domain>/plans/{id} and POST          *)
(* /copilot/ask.  A handler is a plain "def", so FastAPI runs it in a      *)
(* thread of a pool: Workers are those threads, in the processes Replicas, *)
(* all over one SQLite file.  The copilot handler calls the LLM up to      *)
(* MaxRetries times and, for a what-if, reads the plan again, modifies its *)
(* request, solves and saves like a fresh /solve call.                     *)
(*                                                                         *)
(* The solvers and the modification applier appear by what they return:    *)
(* a request stands for the result the solver computes from it, Applied is *)
(* apply_modifications, and NonFinite are the requests with an infinite    *)
(* number in a field that must hold one: pydantic accepts it and writes it *)
(* to JSON as null.  (An optional field reads that null as "no bound", so a*)
(* request that is infinite only there comes back, and is not meant.)  An  *)
(* LLM reply appears by what _parse_response makes of it.                  *)
(***************************************************************************)
EXTENDS Naturals, FiniteSets

CONSTANTS
  Workers, Replicas,
  ReplicaOf,    \* the process a worker thread belongs to
  Requests,     \* validated solver requests, of the three domains together
  ClientRequests, \* those that clients send: all, unless an instance says less
  NoRequest,
  DomainOf,     \* the domain of a request
  NonFinite,    \* requests that do not survive the round trip through JSON
  Mods,         \* non-empty lists of modifications the LLM may propose
  NoMods,       \* the empty list
  Applied,      \* apply_modifications: Applied[r][m], or NoRequest if it raises
  MaxRetries,   \* COPILOT_MAX_RETRIES
  MaxCalls,     \* bound of the model: solve and ask calls accepted
  MaxFaults     \* bound of the model: crashes and lost responses

Domains == {"replenishment", "routing", "network"}
Intents == {"explain", "what_if", "unknown"}

ASSUME ReplicasAssumption == ReplicaOf \in [Workers -> Replicas]
ASSUME RequestsAssumption ==
  /\ NoRequest \notin Requests
  /\ DomainOf \in [Requests -> Domains]
  /\ NonFinite \subseteq Requests
  /\ ClientRequests \subseteq Requests
ASSUME ModsAssumption ==
  /\ NoMods \notin Mods
  /\ Applied \in [Requests -> [Mods -> Requests \cup {NoRequest}]]
ASSUME TypePreservedAssumption ==
  \A r \in Requests, m \in Mods :
    Applied[r][m] # NoRequest => DomainOf[Applied[r][m]] = DomainOf[r]
ASSUME BoundsAssumption ==
  /\ MaxRetries \in Nat \ {0}
  /\ MaxCalls \in Nat
  /\ MaxFaults \in Nat

VARIABLES
  plans,      \* committed rows: plan id -> [domain, request, result]
  writers,    \* workers whose open transaction holds the SQLite write lock
  pc,         \* where each worker is in its handler
  task,       \* the local variables of each worker's handler
  drawn,      \* number of plan ids drawn: uuid4 never repeats
  answers,    \* the HTTP responses that clients received
  submitted,  \* the requests clients sent to a /solve route
  calls,      \* calls accepted so far
  faults      \* crashes and lost responses so far

vars == <<plans, writers, pc, task, drawn, answers, submitted, calls, faults>>

-----------------------------------------------------------------------------
NoPlan == 0   \* no plan id; a client that asks about it names no plan
PlanIds == Nat \ {NoPlan}

Places == {"idle", "solving", "saving", "committing", "responding",
           "loading", "prompting", "rereading"}

\* The exceptions the except clauses of the routes tell apart; "none" is success.
CopilotErrors == {"LLMUnavailableError", "IntentClassificationError",
                  "InvalidModificationError", "PlanNotFoundError"}
SolverErrors == {"ReplenishmentError", "RoutingError", "InfeasibleProblemError",
                 "Exception"}
Errors == {"none", "StorageError", "sqlite3.Error", "ValidationError",
           "HTTPStatusError", "TypeError", "ValueError", "OverflowError"}
            \cup CopilotErrors \cup SolverErrors

Tasks == [kind : {"none", "solve", "ask", "get"},
          domain : Domains,
          about : Nat,                           \* CopilotQuery.plan_id
          seen : Requests \cup {NoRequest},      \* plan_data["request"]
          request : Requests \cup {NoRequest},   \* what is given to the solver
          result : Requests \cup {NoRequest},    \* what the solver made of it
          intent : Intents,
          mods : Mods \cup {NoMods},
          attempt : 0..MaxRetries,
          plan : Nat]                            \* result.plan_id

\* A fresh handler's locals.
NewTask(kind, d, about, r) ==
  [kind |-> kind, domain |-> d, about |-> about, seen |-> NoRequest,
   request |-> r, result |-> NoRequest, intent |-> "unknown", mods |-> NoMods,
   attempt |-> 0, plan |-> NoPlan]
NoTask == NewTask("none", "network", NoPlan, NoRequest)

\* A response, with the locals of the handler it answers for (a client sees
\* kind, domain, about, request, status and, of a success, intent, mods, plan).
Reply(t, status, error) ==
  [kind |-> t.kind, domain |-> t.domain, about |-> t.about,
   request |-> IF t.kind = "solve" THEN t.request ELSE NoRequest,
   intent |-> t.intent, mods |-> t.mods, plan |-> t.plan,
   status |-> status, error |-> error]

Succeeded(a) == a.status \in {200, 201}

\* The plan ids clients were told.
Disclosed == {a.plan : a \in {b \in answers : Succeeded(b)}} \ {NoPlan}

\* What the except clauses of the routes, and FastAPI for the rest, make of e.
StatusOf(kind, d, e) ==
  CASE e = "PlanNotFoundError" -> 404
    [] kind = "ask" /\ e \in CopilotErrors -> 422
    [] kind = "solve" /\ d = "network" /\ e = "InfeasibleProblemError" -> 409
    [] kind = "solve" /\ d = "replenishment" /\ e = "ReplenishmentError" -> 422
    [] kind = "solve" /\ d = "routing" /\ e = "RoutingError" -> 422
    [] OTHER -> 500

\* What a domain's solver may raise.  ReplenishmentSolver wraps everything;
\* the network solver falls back to the heuristic on anything but infeasibility;
\* the routing solver does so on a RoutingError that is not its own.
SolveErrors(d) ==
  CASE d = "replenishment" -> {"ReplenishmentError"}
    [] d = "routing" -> {"RoutingError", "Exception"}
    [] d = "network" -> {"InfeasibleProblemError"}

\* get_*_plan: whether WHERE plan_id = ? AND domain = ? finds a row.
Found(id, d) == id \in DOMAIN plans /\ plans[id].domain = d

\* What get_*_plan may raise: the database, or model_validate on a null.
ReadErrors(id, d) ==
  {"sqlite3.Error"} \cup
    (IF Found(id, d) /\ plans[id].request \in NonFinite
     THEN {"ValidationError"} ELSE {})
Readable(id, d) == Found(id, d) /\ plans[id].request \notin NonFinite

-----------------------------------------------------------------------------
Init ==
  /\ plans = [id \in {} |-> NoRequest]
  /\ writers = {}
  /\ pc = [w \in Workers |-> "idle"]
  /\ task = [w \in Workers |-> NoTask]
  /\ drawn = 0
  /\ answers = {}
  /\ submitted = {}
  /\ calls = 0
  /\ faults = 0

Goto(w, place) == pc' = [pc EXCEPT ![w] = place]
Assign(w, t) == task' = [task EXCEPT ![w] = t]

\* The handler returns or raises, and the response reaches the client.
End(w, answer) ==
  /\ answers' = answers \cup {answer}
  /\ Goto(w, "idle")
  /\ Assign(w, NoTask)
Raise(w, e) ==
  End(w, Reply(task[w], StatusOf(task[w].kind, task[w].domain, e), e))

Receive(w, t, place) ==
  /\ pc[w] = "idle"
  /\ calls < MaxCalls
  /\ calls' = calls + 1
  /\ Goto(w, place)
  /\ Assign(w, t)

\* POST /<domain>/solve with a body that the request model accepts.
ReceiveSolve(w, r) ==
  /\ Receive(w, NewTask("solve", DomainOf[r], NoPlan, r), "solving")
  /\ submitted' = submitted \cup {r}
  /\ UNCHANGED <<plans, writers, drawn, answers, faults>>

\* GET /<domain>/plans/{id}: a client asks for a plan it was told of, under a
\* domain it may have wrong, or for one that never was.
GetPlan(d, id) ==
  /\ calls < MaxCalls
  /\ calls' = calls + 1
  /\ LET t == NewTask("get", d, id, NoRequest)
     IN  \/ /\ Readable(id, d)
            /\ answers' = answers \cup {Reply([t EXCEPT !.plan = id], 200, "none")}
         \/ /\ ~Found(id, d)
            /\ answers' = answers \cup {Reply(t, 404, "PlanNotFoundError")}
         \/ \E e \in ReadErrors(id, d) :
              answers' = answers \cup {Reply(t, 500, e)}
  /\ UNCHANGED <<plans, writers, pc, task, drawn, submitted, faults>>

\* POST /copilot/ask.
ReceiveAsk(w, d, id) ==
  /\ Receive(w, NewTask("ask", d, id, NoRequest), "loading")
  /\ UNCHANGED <<plans, writers, drawn, answers, submitted, faults>>

-----------------------------------------------------------------------------
\* CopilotService.ask up to its loop: _load_plan_data.
LoadPlan(w) ==
  LET t == task[w]
  IN  /\ pc[w] = "loading"
      /\ \/ /\ Readable(t.about, t.domain)
            /\ Assign(w, [t EXCEPT !.seen = plans[t.about].request, !.attempt = 1])
            /\ Goto(w, "prompting")
            /\ UNCHANGED answers
         \/ ~Found(t.about, t.domain) /\ Raise(w, "PlanNotFoundError")
         \/ \E e \in ReadErrors(t.about, t.domain) : Raise(w, e)
      /\ UNCHANGED <<plans, writers, drawn, submitted, calls, faults>>

\* A reply that _parse_response accepts: handle_query returns it as it is, or
\* goes on to _resolve_with_modifications.
LLMAnswers(w, intent, mods) ==
  /\ pc[w] = "prompting"
  /\ LET t == [task[w] EXCEPT !.intent = intent, !.mods = mods]
     IN  IF intent # "what_if" \/ mods = NoMods
         THEN End(w, Reply(t, 200, "none"))
         ELSE /\ Assign(w, t)
              /\ Goto(w, "rereading")
              /\ UNCHANGED answers
  /\ UNCHANGED <<plans, writers, drawn, submitted, calls, faults>>

Retried(t) == [t EXCEPT !.attempt = @ + 1]

\* Seeded fault: the retry starts the whole call over.
LLMReplyInvalidStartsOver(w) ==
  /\ pc[w] = "prompting"
  /\ Goto(w, "loading")
  /\ UNCHANGED <<plans, writers, drawn, submitted, task, answers, calls, faults>>

\* A reply that is not JSON, lacks a field or has an unknown intent: ask again.
LLMReplyInvalid(w) ==
  /\ pc[w] = "prompting"
  /\ IF task[w].attempt < MaxRetries
     THEN /\ Assign(w, Retried(task[w]))
          /\ UNCHANGED <<pc, answers>>
     ELSE Raise(w, "IntentClassificationError")
  /\ UNCHANGED <<plans, writers, drawn, submitted, calls, faults>>

\* No answer from Ollama (httpx.RequestError, timeouts included); or an error
\* status, or JSON whose values are not of the types _parse_response walks
\* over, neither of which ask catches.
LLMFails(w, e) ==
  /\ pc[w] = "prompting"
  /\ e \in {"LLMUnavailableError", "HTTPStatusError", "TypeError"}
  /\ Raise(w, e)
  /\ UNCHANGED <<plans, writers, drawn, submitted, calls, faults>>

\* Seeded fault: modifications that do not apply are a silent no-op.
ModifiedOrSame(t) ==
  LET r == plans[t.about].request
  IN  IF Applied[r][t.mods] = NoRequest THEN r ELSE Applied[r][t.mods]

Modified(t) == Applied[plans[t.about].request][t.mods]

\* _resolve_with_modifications up to the solver: the plan is read again and
\* apply_modifications changes a copy of its request, or raises (also what nothing
\* catches: the OverflowError of int(float("inf")), which stands here for the
\* ValueError of an index such as a superscript digit too; both are a 500).
Reread(w) ==
  LET t == task[w]
  IN  /\ pc[w] = "rereading"
      /\ \/ /\ Readable(t.about, t.domain)
            /\ IF Modified(t) = NoRequest
               THEN \E e \in {"InvalidModificationError", "OverflowError"} : Raise(w, e)
               ELSE /\ Assign(w, [t EXCEPT !.request = Modified(t)])
                    /\ Goto(w, "solving")
                    /\ UNCHANGED answers
         \/ ~Found(t.about, t.domain) /\ Raise(w, "PlanNotFoundError")
         \/ \E e \in ReadErrors(t.about, t.domain) : Raise(w, e)
      /\ UNCHANGED <<plans, writers, drawn, submitted, calls, faults>>

-----------------------------------------------------------------------------
\* Seeded fault: a what-if re-solves in place, under the id of its plan.
NewPlanIdInPlace(w) == IF task[w].kind = "ask" THEN task[w].about ELSE drawn + 1

\* The default factory of plan_id.
NewPlanId(w) == drawn + 1

Solve(w) ==
  /\ pc[w] = "solving"
  /\ drawn' = drawn + 1
  /\ Assign(w, [task[w] EXCEPT !.result = task[w].request, !.plan = NewPlanId(w)])
  /\ Goto(w, "saving")
  /\ UNCHANGED <<plans, writers, answers, submitted, calls, faults>>

SolveFails(w) ==
  /\ pc[w] = "solving"
  /\ \E e \in SolveErrors(task[w].domain) : Raise(w, e)
  /\ UNCHANGED <<plans, writers, drawn, submitted, calls, faults>>

\* _save_plan: the INSERT takes the write lock of the file.
BeginSave(w) ==
  /\ pc[w] = "saving"
  /\ writers = {}
  /\ writers' = {w}
  /\ Goto(w, "committing")
  /\ UNCHANGED <<plans, task, drawn, answers, submitted, calls, faults>>

\* sqlite3.Error: the busy timeout ran out, or the write failed.
BeginSaveFails(w) ==
  /\ pc[w] = "saving"
  /\ Raise(w, "StorageError")
  /\ UNCHANGED <<plans, writers, drawn, submitted, calls, faults>>

\* Seeded fault: a what-if's result is saved with the request that was shown.
UpsertOriginal(t) ==
  [id \in DOMAIN plans \cup {t.plan} |->
     IF id # t.plan THEN plans[id]
     ELSE [domain  |-> t.domain,
           request |-> IF t.kind = "ask" THEN t.seen ELSE t.request,
           result  |-> t.result]]

\* Seeded fault: a what-if's plan takes the place of the plan it was made from.
UpsertReplacing(t) ==
  [id \in (DOMAIN plans \ {t.about}) \cup {t.plan} |->
     IF id # t.plan THEN plans[id]
     ELSE [domain |-> t.domain, request |-> t.request, result |-> t.result]]

\* INSERT ... ON CONFLICT(plan_id) DO UPDATE: the domain of an old row stays.
Upsert(t) ==
  [id \in DOMAIN plans \cup {t.plan} |->
     IF id # t.plan THEN plans[id]
     ELSE [domain  |-> IF id \in DOMAIN plans THEN plans[id].domain ELSE t.domain,
           request |-> t.request,
           result  |-> t.result]]

Commit(w) ==
  /\ pc[w] = "committing"
  /\ plans' = Upsert(task[w])
  /\ writers' = writers \ {w}
  /\ Goto(w, "responding")
  /\ UNCHANGED <<task, drawn, answers, submitted, calls, faults>>

\* Seeded faults: a failed commit is reported as a success, or as a failure although
\* it took place.
CommitFailsSilently(w) ==
  /\ pc[w] = "committing"
  /\ writers' = writers \ {w}
  /\ Goto(w, "responding")
  /\ UNCHANGED <<plans, task, drawn, answers, submitted, calls, faults>>
CommitFailsLate(w) ==
  /\ pc[w] = "committing"
  /\ plans' = Upsert(task[w])
  /\ writers' = writers \ {w}
  /\ Raise(w, "StorageError")
  /\ UNCHANGED <<drawn, submitted, calls, faults>>
CommitFails(w) ==
  /\ pc[w] = "committing"
  /\ writers' = writers \ {w}
  /\ Raise(w, "StorageError")
  /\ UNCHANGED <<plans, drawn, submitted, calls, faults>>

\* Seeded fault: new_plan_id is not attached to the response.
ResponseWithoutPlan(t) ==
  Reply([t EXCEPT !.plan = NoPlan], IF t.kind = "solve" THEN 201 ELSE 200, "none")

Response(t) == Reply(t, IF t.kind = "solve" THEN 201 ELSE 200, "none")

\* The response with the new plan: the result, or the new_plan_id.  A result
\* with an infinite number cannot be rendered as JSON, after it was stored.
Respond(w) ==
  /\ pc[w] = "responding"
  /\ \/ End(w, Response(task[w]))
     \/ /\ task[w].kind = "solve"
        /\ task[w].request \in NonFinite
        /\ Raise(w, "ValueError")
  /\ UNCHANGED <<plans, writers, drawn, submitted, calls, faults>>

\* The client gave up (the UI after 60 s): the handler goes on to its end,
\* and only then is the response lost.
ResponseLost(w) ==
  /\ pc[w] = "responding"
  /\ faults < MaxFaults
  /\ faults' = faults + 1
  /\ Goto(w, "idle")
  /\ Assign(w, NoTask)
  /\ UNCHANGED <<plans, writers, drawn, answers, submitted, calls>>

\* A process dies; SQLite rolls its open transaction back.
Crash(p) ==
  /\ faults < MaxFaults
  /\ faults' = faults + 1
  /\ \E w \in Workers : ReplicaOf[w] = p /\ pc[w] # "idle"
  /\ pc' = [w \in Workers |-> IF ReplicaOf[w] = p THEN "idle" ELSE pc[w]]
  /\ task' = [w \in Workers |-> IF ReplicaOf[w] = p THEN NoTask ELSE task[w]]
  /\ writers' = {w \in writers : ReplicaOf[w] # p}
  /\ UNCHANGED <<plans, drawn, answers, submitted, calls>>

\* The bound of the model: no client calls any more.
Rest ==
  /\ calls = MaxCalls
  /\ \A w \in Workers : pc[w] = "idle"
  /\ UNCHANGED vars

-----------------------------------------------------------------------------
\* What a handler does by itself, once it has the call.
Step(w) ==
  \/ LoadPlan(w)
  \/ \E intent \in Intents, mods \in Mods \cup {NoMods} : LLMAnswers(w, intent, mods)
  \/ LLMReplyInvalid(w)
  \/ \E e \in Errors : LLMFails(w, e)
  \/ Reread(w)
  \/ Solve(w)
  \/ SolveFails(w)
  \/ BeginSave(w)
  \/ BeginSaveFails(w)
  \/ Commit(w)
  \/ CommitFails(w)
  \/ Respond(w)

Next ==
  \/ \E w \in Workers, r \in ClientRequests : ReceiveSolve(w, r)
  \/ \E w \in Workers, d \in Domains, id \in Disclosed \cup {NoPlan} : ReceiveAsk(w, d, id)
  \/ \E d \in Domains, id \in Disclosed \cup {NoPlan} : GetPlan(d, id)
  \/ \E w \in Workers : Step(w)
  \/ \E w \in Workers : ResponseLost(w)
  \/ \E p \in Replicas : Crash(p)
  \/ Rest

\* A thread that has a call keeps running: the LLM client and the database time
\* out, and the solvers have time limits.  Clients and faults promise nothing.
Fairness == \A w \in Workers : WF_vars(Step(w))

Spec == Init /\ [][Next]_vars
FairSpec == Spec /\ Fairness

-----------------------------------------------------------------------------
Answers == [kind : {"solve", "ask", "get"}, domain : Domains, about : Nat,
            request : Requests \cup {NoRequest}, intent : Intents,
            mods : Mods \cup {NoMods}, plan : Nat,
            status : {200, 201, 404, 409, 422, 500}, error : Errors]
Rows == [domain : Domains, request : Requests, result : Requests]

\* The types of the variables.
TypeOK ==
  /\ DOMAIN plans \subseteq PlanIds
  /\ \A id \in DOMAIN plans : plans[id] \in Rows
  /\ plans = [id \in DOMAIN plans |-> plans[id]]
  /\ writers \subseteq Workers
  /\ pc \in [Workers -> Places]
  /\ task \in [Workers -> Tasks]
  /\ drawn \in Nat
  /\ answers \subseteq Answers
  /\ submitted \subseteq Requests
  /\ calls \in 0..MaxCalls
  /\ faults \in 0..MaxFaults

\* The plan a successful answer of a route is about lives in the domain that the
\* call named, and stays there: the id of a 201, of a what-if's new_plan_id and
\* of a 200 on GET can be used with that domain from then on.
DisclosedPlansStored ==
  \A a \in answers :
    Succeeded(a) /\ a.plan # NoPlan => Found(a.plan, a.domain)

\* A plan is the answer to the question: a /solve's plan was solved from the
\* request sent, a what-if's from the modified request of the plan asked about
\* (ADR-004), only a what-if with modifications makes one, and the row holds
\* the request that its result was solved from.
AnswersMatchPlans ==
  \A a \in answers :
    Succeeded(a) /\ a.plan # NoPlan /\ a.kind # "get" =>
      /\ a.plan \in DOMAIN plans
      /\ plans[a.plan].result = plans[a.plan].request
      /\ a.kind = "solve" => plans[a.plan].request = a.request
      /\ a.kind = "ask" =>
           /\ a.intent = "what_if" /\ a.mods # NoMods
           /\ a.about \in DOMAIN plans
           /\ plans[a.plan].request = Applied[plans[a.about].request][a.mods]

\* The plan that the LLM was shown is still the plan that the orchestrator
\* modifies: the copilot reads it twice, with up to three LLM calls between.
RereadAgrees ==
  \A w \in Workers :
    task[w].seen # NoRequest =>
      /\ Found(task[w].about, task[w].domain)
      /\ plans[task[w].about].request = task[w].seen

\* A call answered with an error left no plan behind, unless the plan was stored
\* and only then could not be rendered: save comes after every check.
FailedCallsStoreNothing ==
  \A a \in answers :
    ~Succeeded(a) /\ a.error # "ValueError" => a.plan \notin DOMAIN plans

\* A plan that nobody was told about is the work of a crash, a lost response or
\* a result that does not render: a handler that stored one answers with it.
OrphansHaveACause ==
  faults = 0 =>
    \A id \in DOMAIN plans :
      \/ id \in Disclosed
      \/ \E w \in Workers : pc[w] = "responding" /\ task[w].plan = id
      \/ \E a \in answers : a.error = "ValueError" /\ a.plan = id

\* The write lock of the file is held by exactly the transactions that are open:
\* a failed commit or a dead process never leaves the database locked.
LockIsOfAnOpenTransaction ==
  /\ writers = {w \in Workers : pc[w] = "committing"}
  /\ \A v, w \in writers : v = w

\* A row holds a request of the domain in its column, which get_*_plan relies on
\* when it parses the row with that domain's models.
RowsFitTheirDomain ==
  \A id \in DOMAIN plans : DomainOf[plans[id].request] = plans[id].domain

\* 404 says the truth: the id was never told, or names a plan of another domain.
NotFoundIsTrue ==
  \A a \in answers :
    a.status = 404 =>
      \/ a.about = NoPlan
      \/ a.about \in DOMAIN plans /\ plans[a.about].domain # a.domain

\* A stored plan never changes and never disappears, although saving is an
\* upsert: every plan is saved under an id of its own.
PlansAppendOnly ==
  [][\A id \in DOMAIN plans : id \in DOMAIN plans' /\ plans'[id] = plans[id]]_plans

\* Every call ends: the retries are bounded, and waiting for the write lock too.
EveryCallEnds == \A w \in Workers : pc[w] # "idle" ~> pc[w] = "idle"

\* The service implements the registry of plans.
Registered ==
  [id \in DOMAIN plans |->
     [request |-> plans[id].request, result |-> plans[id].result]]
Registry == INSTANCE PlanRegistry WITH store <- Registered, published <- Disclosed

\* Whatever the handlers, the LLM and the faults do, a client of the service
\* sees a registry of immutable plans with a lineage.
RefinesRegistry == Registry!Spec

-----------------------------------------------------------------------------
\* The inductive invariant: what the locals of a handler say about the table.

Storing == {"saving", "committing", "responding"}

\* Plan ids are drawn before they are used, and a handler's new plan is its own
\* until it responds.
PlanIdsAreOwned ==
  /\ \A id \in DOMAIN plans : id <= drawn
  /\ \A a \in answers : a.plan <= drawn
  /\ \A w \in Workers : task[w].plan <= drawn
  /\ \A v, w \in Workers :
       task[v].plan # NoPlan /\ task[v].plan = task[w].plan => v = w
  /\ \A w \in Workers, a \in answers :
       task[w].plan # NoPlan => a.plan # task[w].plan

\* Where the request in hand came from.
RequestInHand(w) ==
  LET t == task[w]
  IN  /\ t.kind \in {"solve", "ask"}
      /\ t.request \in Requests
      /\ DomainOf[t.request] = t.domain
      /\ t.kind = "solve" => t.request \in submitted
      /\ t.kind = "ask" =>
           /\ t.intent = "what_if" /\ t.mods \in Mods
           /\ t.about \in DOMAIN plans
           /\ t.request = Modified(t)

HandlerConsistent(w) ==
  LET t == task[w]
  IN  /\ t.about \in DOMAIN plans \cup {NoPlan}
      /\ pc[w] = "idle" => t = NoTask
      /\ pc[w] \in {"loading", "prompting", "rereading"} => t.kind = "ask"
      /\ pc[w] = "rereading" => t.intent = "what_if" /\ t.mods \in Mods
      /\ pc[w] \in {"solving"} \cup Storing => RequestInHand(w)
      /\ pc[w] \notin Storing => t.plan = NoPlan
      /\ pc[w] \in Storing => t.plan \in PlanIds /\ t.result = t.request
      /\ pc[w] \in {"saving", "committing"} => t.plan \notin DOMAIN plans
      /\ pc[w] = "responding" =>
           /\ t.plan \in DOMAIN plans
           /\ plans[t.plan] = [domain |-> t.domain, request |-> t.request,
                               result |-> t.result]

HandlersConsistent == \A w \in Workers : HandlerConsistent(w)

IInv ==
  /\ TypeOK
  /\ PlanIdsAreOwned
  /\ HandlersConsistent
  /\ RowsFitTheirDomain
  /\ DisclosedPlansStored
  /\ AnswersMatchPlans
  /\ RereadAgrees
  /\ FailedCallsStoreNothing
  /\ OrphansHaveACause
  /\ LockIsOfAnOpenTransaction
  /\ NotFoundIsTrue

-----------------------------------------------------------------------------
\* What the documents and docstrings say, and the code does not do.

\* orchestrator.py: the new plan_id is there so that the caller can fetch the
\* plan: reading a stored plan under its domain finds it fit to be read.
DisclosedPlansCanBeFetched ==
  \A a \in answers : a.error # "ValidationError"
=============================================================================
