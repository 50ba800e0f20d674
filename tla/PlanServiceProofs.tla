-------------------------- MODULE PlanServiceProofs --------------------------
(***************************************************************************)
(* Proofs about PlanService, for any number of threads, processes,         *)
(* requests and calls: IInv is inductive, the properties it is made of     *)
(* hold, stored plans are immutable and PlanService implements             *)
(* PlanRegistry.                                                           *)
(***************************************************************************)
EXTENDS PlanService, TLAPS

-----------------------------------------------------------------------------
\* A new handler's locals are well typed, whatever it is about.
LEMMA NewTaskType ==
  ASSUME NEW kind \in {"none", "solve", "ask", "get"}, NEW d \in Domains,
         NEW about \in Nat, NEW r \in Requests \cup {NoRequest}
  PROVE  /\ NewTask(kind, d, about, r) \in Tasks
         /\ NewTask(kind, d, about, r).kind = kind
         /\ NewTask(kind, d, about, r).domain = d
         /\ NewTask(kind, d, about, r).about = about
         /\ NewTask(kind, d, about, r).request = r
         /\ NewTask(kind, d, about, r).plan = NoPlan
         /\ NewTask(kind, d, about, r).seen = NoRequest
BY BoundsAssumption DEF NewTask, Tasks, Intents, NoPlan

LEMMA NoTaskType ==
  /\ NoTask \in Tasks
  /\ NoTask.plan = NoPlan
  /\ NoTask.about = NoPlan
  /\ NoTask.seen = NoRequest
BY NewTaskType DEF NoTask, Domains, NoPlan

\* A response is well typed and carries over the locals it is about.
LEMMA ReplyType ==
  ASSUME NEW t \in Tasks, t.kind # "none",
         NEW status \in {200, 201, 404, 409, 422, 500}, NEW e \in Errors
  PROVE  /\ Reply(t, status, e) \in Answers
         /\ Reply(t, status, e).kind = t.kind
         /\ Reply(t, status, e).domain = t.domain
         /\ Reply(t, status, e).about = t.about
         /\ Reply(t, status, e).intent = t.intent
         /\ Reply(t, status, e).mods = t.mods
         /\ Reply(t, status, e).plan = t.plan
         /\ Reply(t, status, e).status = status
         /\ Reply(t, status, e).error = e
         /\ t.kind = "solve" => Reply(t, status, e).request = t.request
BY DEF Reply, Answers, Tasks

LEMMA StatusOfType ==
  ASSUME NEW kind, NEW d, NEW e
  PROVE  /\ StatusOf(kind, d, e) \in {404, 409, 422, 500}
         /\ StatusOf(kind, d, e) = 404 => e = "PlanNotFoundError"
BY DEF StatusOf

-----------------------------------------------------------------------------
\* What IInv says of one answer.
AnswerFits(a) ==
  /\ a \in Answers
  /\ a.plan <= drawn
  /\ Succeeded(a) /\ a.plan # NoPlan => Found(a.plan, a.domain)
  /\ Succeeded(a) /\ a.plan # NoPlan /\ a.kind # "get" =>
       /\ plans[a.plan].result = plans[a.plan].request
       /\ a.kind = "solve" => plans[a.plan].request = a.request
       /\ a.kind = "ask" =>
            /\ a.intent = "what_if" /\ a.mods # NoMods
            /\ a.about \in DOMAIN plans
            /\ plans[a.plan].request = Applied[plans[a.about].request][a.mods]
  /\ ~Succeeded(a) /\ a.error # "ValueError" => a.plan \notin DOMAIN plans
  /\ a.status = 404 =>
       \/ a.about = NoPlan
       \/ a.about \in DOMAIN plans /\ plans[a.about].domain # a.domain

\* The part of IInv that is about answers, when one more is given and the table
\* stays as it is.
LEMMA AnswerStep ==
  ASSUME IInv, NEW answer, AnswerFits(answer),
         answers' = answers \cup {answer}, UNCHANGED <<plans, drawn>>
  PROVE  /\ (answers \subseteq Answers)'
         /\ (\A a \in answers : a.plan <= drawn)'
         /\ DisclosedPlansStored'
         /\ AnswersMatchPlans'
         /\ FailedCallsStoreNothing'
         /\ NotFoundIsTrue'
<1>1. (answers \subseteq Answers)' /\ (\A a \in answers : a.plan <= drawn)'
  BY DEF AnswerFits, IInv, TypeOK, PlanIdsAreOwned
<1>2. DisclosedPlansStored'
  BY DEF AnswerFits, IInv, DisclosedPlansStored, Succeeded, Found
<1>3. AnswersMatchPlans'
  BY DEF AnswerFits, IInv, AnswersMatchPlans, Succeeded, Found
<1>4. FailedCallsStoreNothing'
  BY DEF AnswerFits, IInv, FailedCallsStoreNothing, Succeeded
<1>5. NotFoundIsTrue'
  BY DEF AnswerFits, IInv, NotFoundIsTrue
<1> QED BY <1>1, <1>2, <1>3, <1>4, <1>5

\* A handler that returns or raises keeps IInv, if its answer fits.
LEMMA EndStep ==
  ASSUME IInv, NEW w \in Workers, pc[w] # "idle",
         NEW answer, AnswerFits(answer), End(w, answer),
         writers' = writers \ {w},
         UNCHANGED <<plans, drawn, submitted, calls, faults>>,
         \A v \in Workers \ {w} :
           task[v].plan # NoPlan => answer.plan # task[v].plan,
         pc[w] = "responding" =>
           /\ answer.plan = task[w].plan
           /\ Succeeded(answer) \/ answer.error = "ValueError"
  PROVE  IInv'
<1>1. /\ pc' = [pc EXCEPT ![w] = "idle"]
      /\ task' = [task EXCEPT ![w] = NoTask]
      /\ answers' = answers \cup {answer}
  BY DEF End, Goto, Assign
<1>2. /\ TypeOK
      /\ pc \in [Workers -> Places] /\ task \in [Workers -> Tasks]
  BY DEF IInv, TypeOK
<1>3. /\ (answers \subseteq Answers)'
      /\ (\A a \in answers : a.plan <= drawn)'
      /\ DisclosedPlansStored' /\ AnswersMatchPlans'
      /\ FailedCallsStoreNothing' /\ NotFoundIsTrue'
  BY <1>1, AnswerStep
<1>4. TypeOK'
  BY <1>1, <1>2, <1>3, NoTaskType DEF TypeOK, Places, Rows
<1>5. PlanIdsAreOwned'
  <2>1. \A v \in Workers : task'[v] = IF v = w THEN NoTask ELSE task[v]
    BY <1>1, <1>2
  <2>2. drawn \in Nat
    BY <1>2 DEF TypeOK
  <2> QED BY <2>1, <2>2, <1>1, <1>3, NoTaskType DEF IInv, PlanIdsAreOwned, NoPlan
<1>6. HandlersConsistent'
  <2>1. \A v \in Workers :
          /\ task'[v] = IF v = w THEN NoTask ELSE task[v]
          /\ pc'[v] = IF v = w THEN "idle" ELSE pc[v]
    BY <1>1, <1>2
  <2> QED BY <2>1, NoTaskType DEF IInv, HandlersConsistent, HandlerConsistent, RequestInHand, Modified, Storing
<1>7. RowsFitTheirDomain'
  BY DEF IInv, RowsFitTheirDomain
<1>8. RereadAgrees'
  BY <1>1, <1>2, NoTaskType DEF IInv, RereadAgrees, Found
<1>9. OrphansHaveACause'
  <2>1. SUFFICES ASSUME faults = 0, NEW id \in DOMAIN plans
        PROVE  \/ id \in Disclosed'
               \/ \E v \in Workers : pc'[v] = "responding" /\ task'[v].plan = id
               \/ \E a \in answers' : a.error = "ValueError" /\ a.plan = id
    BY DEF OrphansHaveACause
  <2>2. DOMAIN plans \subseteq PlanIds
    BY <1>2 DEF TypeOK
  <2>3. CASE id \in Disclosed
    BY <2>3, <1>1 DEF Disclosed
  <2>4. CASE \E a \in answers : a.error = "ValueError" /\ a.plan = id
    BY <2>4, <1>1
  <2>5. ASSUME NEW v \in Workers, pc[v] = "responding", task[v].plan = id
        PROVE  \/ id \in Disclosed'
               \/ \E u \in Workers : pc'[u] = "responding" /\ task'[u].plan = id
               \/ \E a \in answers' : a.error = "ValueError" /\ a.plan = id
    <3>1. CASE v # w
      BY <3>1, <2>5, <1>1, <1>2
    <3>2. CASE v = w
      BY <3>2, <2>2, <2>5, <1>1 DEF Disclosed, PlanIds
    <3> QED BY <3>1, <3>2
  <2> QED BY <2>1, <2>3, <2>4, <2>5 DEF IInv, OrphansHaveACause
<1>10. LockIsOfAnOpenTransaction'
  BY <1>1, <1>2 DEF IInv, LockIsOfAnOpenTransaction
<1> QED BY <1>3, <1>4, <1>5, <1>6, <1>7, <1>8, <1>9, <1>10 DEF IInv

\* A handler that goes on without drawing a plan id or answering keeps IInv, if
\* its locals fit the place it goes to.
LEMMA MoveStep ==
  ASSUME IInv, NEW w \in Workers, NEW t \in Tasks, NEW place \in Places,
         Assign(w, t), Goto(w, place),
         UNCHANGED <<plans, writers, drawn, answers, faults>>,
         submitted \subseteq submitted', submitted' \subseteq Requests,
         calls' \in 0..MaxCalls,
         pc[w] \notin Storing, place \notin Storing,
         HandlerConsistent(w)',
         t.seen # NoRequest =>
           Found(t.about, t.domain) /\ plans[t.about].request = t.seen
  PROVE  IInv'
<1>1. /\ TypeOK
      /\ pc \in [Workers -> Places] /\ task \in [Workers -> Tasks] /\ drawn \in Nat
  BY DEF IInv, TypeOK
<1>2. \A v \in Workers :
        /\ task'[v] = IF v = w THEN t ELSE task[v]
        /\ pc'[v] = IF v = w THEN place ELSE pc[v]
  BY <1>1 DEF Assign, Goto
<1>3. t.plan = NoPlan /\ task[w].plan = NoPlan
  BY <1>2 DEF IInv, HandlersConsistent, HandlerConsistent
<1>4. TypeOK'
  BY <1>1 DEF TypeOK, Rows, Assign, Goto
<1>5. PlanIdsAreOwned'
  BY <1>1, <1>2, <1>3 DEF IInv, PlanIdsAreOwned, NoPlan
<1>6. HandlersConsistent'
  <2>1. SUFFICES ASSUME NEW v \in Workers, v # w PROVE HandlerConsistent(v)'
    BY DEF HandlersConsistent
  <2>2. HandlerConsistent(v)
    BY DEF IInv, HandlersConsistent
  <2> QED BY <1>2, <2>1, <2>2 DEF HandlerConsistent, RequestInHand, Modified
<1>7. RowsFitTheirDomain' /\ DisclosedPlansStored' /\ AnswersMatchPlans'
      /\ FailedCallsStoreNothing' /\ NotFoundIsTrue'
  BY DEF IInv, RowsFitTheirDomain, DisclosedPlansStored, AnswersMatchPlans,
         FailedCallsStoreNothing, NotFoundIsTrue, Found
<1>8. RereadAgrees'
  BY <1>2 DEF IInv, RereadAgrees, Found
<1>9. OrphansHaveACause'
  <2>1. \A v \in Workers : pc[v] = "responding" => pc'[v] = "responding" /\ task'[v] = task[v]
    BY <1>2 DEF Storing
  <2>2. Disclosed' = Disclosed
    BY DEF Disclosed, Succeeded
  <2> QED BY <2>1, <2>2 DEF IInv, OrphansHaveACause
<1>10. LockIsOfAnOpenTransaction'
  BY <1>2 DEF IInv, LockIsOfAnOpenTransaction, Storing
<1> QED BY <1>4, <1>5, <1>6, <1>7, <1>8, <1>9, <1>10 DEF IInv

-----------------------------------------------------------------------------
LEMMA InitIInv == Init => IInv
<1> SUFFICES ASSUME Init PROVE IInv
  OBVIOUS
<1>1. TypeOK
  BY NoTaskType, BoundsAssumption DEF Init, TypeOK, Places, NoPlan
<1>2. PlanIdsAreOwned
  BY NoTaskType DEF Init, PlanIdsAreOwned, NoPlan
<1>3. HandlersConsistent
  BY NoTaskType DEF Init, HandlersConsistent, HandlerConsistent, Storing
<1>4. RereadAgrees
  BY NoTaskType DEF Init, RereadAgrees
<1> QED
  BY <1>1, <1>2, <1>3, <1>4
  DEF Init, IInv, RowsFitTheirDomain, DisclosedPlansStored, AnswersMatchPlans,
      FailedCallsStoreNothing, NotFoundIsTrue, OrphansHaveACause,
      LockIsOfAnOpenTransaction

LEMMA ReceiveSolveStep ==
  ASSUME IInv, NEW w \in Workers, NEW r \in Requests, ReceiveSolve(w, r)
  PROVE  IInv'
<1> DEFINE t == NewTask("solve", DomainOf[r], NoPlan, r)
<1>1. DomainOf[r] \in Domains
  BY RequestsAssumption
<1>2. /\ t \in Tasks /\ t.kind = "solve" /\ t.domain = DomainOf[r] /\ t.about = NoPlan
      /\ t.request = r /\ t.plan = NoPlan /\ t.seen = NoRequest
  BY <1>1, NewTaskType DEF NoPlan
<1>3. task'[w] = t /\ pc'[w] = "solving" /\ pc[w] = "idle" /\ r \in submitted'
  BY DEF ReceiveSolve, Receive, Goto, Assign, IInv, TypeOK
<1>4. HandlerConsistent(w)'
  BY <1>2, <1>3 DEF HandlerConsistent, RequestInHand, Storing
<1>5. calls' \in 0..MaxCalls /\ submitted' \subseteq Requests
  BY BoundsAssumption DEF ReceiveSolve, Receive, IInv, TypeOK
<1> QED
  BY <1>2, <1>3, <1>4, <1>5, MoveStep DEF ReceiveSolve, Receive, Places, Storing

\* What a client was told of is stored.
LEMMA DisclosedInDomain ==
  ASSUME IInv
  PROVE  Disclosed \subseteq DOMAIN plans /\ DOMAIN plans \subseteq PlanIds
BY DEF IInv, TypeOK, DisclosedPlansStored, Disclosed, Found

LEMMA ReceiveAskStep ==
  ASSUME IInv, NEW w \in Workers, NEW d \in Domains,
         NEW id \in Disclosed \cup {NoPlan}, ReceiveAsk(w, d, id)
  PROVE  IInv'
<1> DEFINE t == NewTask("ask", d, id, NoRequest)
<1>1. id \in Nat /\ id \in DOMAIN plans \cup {NoPlan}
  BY DisclosedInDomain DEF PlanIds, NoPlan
<1>2. /\ t \in Tasks /\ t.kind = "ask" /\ t.domain = d /\ t.about = id
      /\ t.plan = NoPlan /\ t.seen = NoRequest
  BY <1>1, NewTaskType
<1>3. task'[w] = t /\ pc'[w] = "loading" /\ pc[w] = "idle"
  BY DEF ReceiveAsk, Receive, Goto, Assign, IInv, TypeOK
<1>4. HandlerConsistent(w)'
  BY <1>1, <1>2, <1>3 DEF HandlerConsistent, Storing, ReceiveAsk
<1>5. calls' \in 0..MaxCalls /\ submitted' \subseteq Requests
  BY BoundsAssumption DEF ReceiveAsk, Receive, IInv, TypeOK
<1> QED
  BY <1>2, <1>3, <1>4, <1>5, MoveStep DEF ReceiveAsk, Receive, Places, Storing

\* A handler that raises before it stored anything keeps IInv.
LEMMA RaiseStep ==
  ASSUME IInv, NEW w \in Workers, pc[w] \notin {"idle", "responding"},
         NEW e \in Errors, Raise(w, e), writers' = writers \ {w},
         UNCHANGED <<plans, drawn, submitted, calls, faults>>,
         e = "PlanNotFoundError" => ~Found(task[w].about, task[w].domain)
  PROVE  IInv'
<1> DEFINE t == task[w]
           status == StatusOf(t.kind, t.domain, e)
           answer == Reply(t, status, e)
<1>1. /\ task \in [Workers -> Tasks] /\ pc \in [Workers -> Places]
      /\ DOMAIN plans \subseteq PlanIds /\ drawn \in Nat
  BY DEF IInv, TypeOK
<1>2. HandlerConsistent(w)
  BY DEF IInv, HandlersConsistent
<1>3. t \in Tasks /\ t.kind # "none"
  BY <1>1, <1>2 DEF HandlerConsistent, RequestInHand, Places, Storing
<1>4. /\ status \in {404, 409, 422, 500}
      /\ status = 404 => e = "PlanNotFoundError"
  BY StatusOfType
<1>5. /\ answer \in Answers /\ answer.plan = t.plan /\ answer.about = t.about
      /\ answer.domain = t.domain /\ answer.status = status /\ answer.error = e
  BY <1>3, <1>4, ReplyType
<1>6. t.plan \notin DOMAIN plans /\ t.plan <= drawn
  BY <1>1, <1>2 DEF HandlerConsistent, Places, Storing, PlanIds, IInv, PlanIdsAreOwned
<1>7. ~Succeeded(answer)
  BY <1>4, <1>5 DEF Succeeded
<1>8. answer.status = 404 =>
        answer.about = NoPlan \/
        (answer.about \in DOMAIN plans /\ plans[answer.about].domain # answer.domain)
  BY <1>2, <1>4, <1>5 DEF HandlerConsistent, Found
<1>9. AnswerFits(answer)
  BY <1>5, <1>6, <1>7, <1>8 DEF AnswerFits
<1>10. \A v \in Workers \ {w} : task[v].plan # NoPlan => answer.plan # task[v].plan
  BY <1>5 DEF IInv, PlanIdsAreOwned
<1>11. End(w, answer)
  BY DEF Raise
<1> HIDE DEF answer
<1> QED BY <1>9, <1>10, <1>11, EndStep

\* Only an open transaction holds the write lock.
LEMMA NoLockToRelease ==
  ASSUME IInv, NEW w \in Workers, pc[w] # "committing"
  PROVE  writers = writers \ {w}
BY DEF IInv, LockIsOfAnOpenTransaction

LEMMA GetPlanStep ==
  ASSUME IInv, NEW d \in Domains, NEW id \in Disclosed \cup {NoPlan}, GetPlan(d, id)
  PROVE  IInv'
<1> DEFINE t == NewTask("get", d, id, NoRequest)
<1>1. id \in Nat /\ id \in DOMAIN plans \cup {NoPlan} /\ DOMAIN plans \subseteq PlanIds
  BY DisclosedInDomain DEF PlanIds, NoPlan
<1>2. /\ t \in Tasks /\ t.kind = "get" /\ t.domain = d /\ t.about = id /\ t.plan = NoPlan
  BY <1>1, NewTaskType
<1>3. drawn \in Nat
  BY DEF IInv, TypeOK
<1>4. PICK answer :
        /\ AnswerFits(answer) /\ answers' = answers \cup {answer}
        /\ answer.plan # NoPlan => answer.plan \in Disclosed
  <2>1. CASE Readable(id, d) /\ answers' = answers \cup {Reply([t EXCEPT !.plan = id], 200, "none")}
    <3> DEFINE u == [t EXCEPT !.plan = id]
               a == Reply(u, 200, "none")
    <3>1. u \in Tasks /\ u.kind = "get" /\ u.domain = d /\ u.plan = id
      BY <1>1, <1>2 DEF Tasks
    <3> HIDE DEF u
    <3>0. "none" \in Errors
      BY DEF Errors
    <3>2. /\ a \in Answers /\ a.kind = "get" /\ a.domain = d /\ a.plan = id
          /\ a.status = 200 /\ a.error = "none"
      BY <3>0, <3>1, ReplyType
    <3>3. Found(id, d)
      BY <2>1 DEF Readable
    <3>4. id \in Disclosed /\ id <= drawn
      BY <3>3, <1>1 DEF Found, PlanIds, IInv, PlanIdsAreOwned
    <3>5. AnswerFits(a)
      BY <3>2, <3>3, <3>4 DEF AnswerFits, Succeeded
    <3> QED BY <2>1, <3>2, <3>4, <3>5 DEF u
  <2>2. CASE ~Found(id, d) /\ answers' = answers \cup {Reply(t, 404, "PlanNotFoundError")}
    <3> DEFINE a == Reply(t, 404, "PlanNotFoundError")
    <3>1. /\ a \in Answers /\ a.domain = d /\ a.plan = NoPlan /\ a.about = id
          /\ a.status = 404 /\ a.error = "PlanNotFoundError"
      BY <1>2, ReplyType DEF Errors, CopilotErrors
    <3>2. AnswerFits(a)
      BY <2>2, <3>1, <1>1, <1>3 DEF AnswerFits, Succeeded, Found, PlanIds, NoPlan
    <3> QED BY <2>2, <3>1, <3>2
  <2>3. ASSUME NEW e \in ReadErrors(id, d), answers' = answers \cup {Reply(t, 500, e)}
        PROVE  \E answer :
                 /\ AnswerFits(answer) /\ answers' = answers \cup {answer}
                 /\ answer.plan # NoPlan => answer.plan \in Disclosed
    <3> DEFINE a == Reply(t, 500, e)
    <3>1. e \in Errors
      BY DEF ReadErrors, Errors
    <3>2. a \in Answers /\ a.plan = NoPlan /\ a.status = 500
      BY <3>1, <1>2, ReplyType
    <3>3. AnswerFits(a)
      BY <3>2, <1>1, <1>3 DEF AnswerFits, Succeeded, PlanIds, NoPlan
    <3> QED BY <2>3, <3>2, <3>3
  <2> QED BY <2>1, <2>2, <2>3 DEF GetPlan
<1>5. /\ UNCHANGED <<plans, writers, pc, task, drawn, submitted, faults>>
      /\ calls' \in 0..MaxCalls
  BY BoundsAssumption DEF GetPlan, IInv, TypeOK
<1>6. /\ (answers \subseteq Answers)' /\ (\A a \in answers : a.plan <= drawn)'
      /\ DisclosedPlansStored' /\ AnswersMatchPlans'
      /\ FailedCallsStoreNothing' /\ NotFoundIsTrue'
  BY <1>4, <1>5, AnswerStep
<1>7. TypeOK'
  BY <1>5, <1>6 DEF IInv, TypeOK
<1>8. PlanIdsAreOwned'
  <2>1. \A b \in answers' : b.plan # NoPlan => \E a \in answers : a.plan = b.plan
    BY <1>4 DEF Disclosed
  <2> QED BY <2>1, <1>5, <1>6 DEF IInv, PlanIdsAreOwned
<1>9. HandlersConsistent'
  BY <1>5 DEF IInv, HandlersConsistent, HandlerConsistent, RequestInHand, Modified
<1>10. OrphansHaveACause'
  BY <1>4, <1>5 DEF IInv, OrphansHaveACause, Disclosed
<1>11. RowsFitTheirDomain' /\ RereadAgrees' /\ LockIsOfAnOpenTransaction'
  BY <1>5 DEF IInv, RowsFitTheirDomain, RereadAgrees, LockIsOfAnOpenTransaction, Found
<1> QED BY <1>6, <1>7, <1>8, <1>9, <1>10, <1>11 DEF IInv

-----------------------------------------------------------------------------
\* What a read may find.
LEMMA ReadErrorsType ==
  ASSUME NEW id, NEW d, NEW e \in ReadErrors(id, d)
  PROVE  e \in Errors /\ e # "PlanNotFoundError"
BY DEF ReadErrors, Errors

LEMMA LoadPlanStep ==
  ASSUME IInv, NEW w \in Workers, LoadPlan(w)
  PROVE  IInv'
<1> DEFINE t == task[w]
<1>1. /\ task \in [Workers -> Tasks] /\ pc \in [Workers -> Places] /\ t \in Tasks
      /\ pc[w] = "loading" /\ HandlerConsistent(w)
      /\ \A id \in DOMAIN plans : plans[id].request \in Requests
  BY DEF LoadPlan, IInv, TypeOK, HandlersConsistent, Rows
<1>2. /\ UNCHANGED <<plans, writers, drawn, submitted, calls, faults>>
      /\ writers' = writers \ {w}
  BY <1>1, NoLockToRelease DEF LoadPlan
<1>3. CASE Readable(t.about, t.domain)
           /\ Assign(w, [t EXCEPT !.seen = plans[t.about].request, !.attempt = 1])
           /\ Goto(w, "prompting") /\ UNCHANGED answers
  <2> DEFINE u == [t EXCEPT !.seen = plans[t.about].request, !.attempt = 1]
  <2>1. Found(t.about, t.domain) /\ t.about \in DOMAIN plans
    BY <1>3 DEF Readable, Found
  <2>2. /\ u \in Tasks /\ u.kind = t.kind /\ u.plan = t.plan /\ u.about = t.about
        /\ u.domain = t.domain /\ u.seen = plans[t.about].request
    <3>1. plans[t.about].request \in Requests /\ t \in Tasks
      BY <1>1, <2>1
    <3>2. 1 \in 0..MaxRetries
      BY BoundsAssumption
    <3> HIDE DEF t
    <3> QED BY <3>1, <3>2 DEF Tasks
  <2> HIDE DEF u
  <2>3. task'[w] = u /\ pc'[w] = "prompting"
    BY <1>1, <1>3 DEF Assign, Goto, u
  <2>4. HandlerConsistent(w)'
    BY <1>1, <1>2, <2>2, <2>3 DEF HandlerConsistent, Storing
  <2>5. calls' \in 0..MaxCalls /\ submitted' \subseteq Requests /\ Assign(w, u)
    BY <1>2, <1>3 DEF IInv, TypeOK, u
  <2> QED BY <1>1, <1>2, <1>3, <2>1, <2>2, <2>4, <2>5, MoveStep DEF Places, Storing
<1>4. CASE ~Found(t.about, t.domain) /\ Raise(w, "PlanNotFoundError")
  <2>1. "PlanNotFoundError" \in Errors
    BY DEF Errors, CopilotErrors
  <2> QED BY <1>1, <1>2, <1>4, <2>1, RaiseStep
<1>5. CASE \E e \in ReadErrors(t.about, t.domain) : Raise(w, e)
  BY <1>1, <1>2, <1>5, ReadErrorsType, RaiseStep
<1> QED BY <1>3, <1>4, <1>5 DEF LoadPlan

LEMMA LLMAnswersStep ==
  ASSUME IInv, NEW w \in Workers, NEW intent \in Intents,
         NEW mods \in Mods \cup {NoMods}, LLMAnswers(w, intent, mods)
  PROVE  IInv'
<1> DEFINE t == [task[w] EXCEPT !.intent = intent, !.mods = mods]
<1>1. /\ task \in [Workers -> Tasks] /\ pc \in [Workers -> Places] /\ task[w] \in Tasks
      /\ pc[w] = "prompting" /\ HandlerConsistent(w)
      /\ DOMAIN plans \subseteq PlanIds /\ drawn \in Nat
  BY DEF LLMAnswers, IInv, TypeOK, HandlersConsistent
<1>2. /\ UNCHANGED <<plans, writers, drawn, submitted, calls, faults>>
      /\ writers' = writers \ {w}
  BY <1>1, NoLockToRelease DEF LLMAnswers
<1>3. /\ t \in Tasks /\ t.kind = task[w].kind /\ t.about = task[w].about
      /\ t.domain = task[w].domain /\ t.seen = task[w].seen /\ t.plan = task[w].plan
      /\ t.intent = intent /\ t.mods = mods
  BY <1>1 DEF Tasks
<1>4. task[w].kind = "ask" /\ task[w].plan = NoPlan
  BY <1>1 DEF HandlerConsistent, Storing
<1> HIDE DEF t
<1>5. CASE intent # "what_if" \/ mods = NoMods
  <2> DEFINE answer == Reply(t, 200, "none")
  <2>1. "none" \in Errors
    BY DEF Errors
  <2>2. answer \in Answers /\ answer.plan = NoPlan /\ answer.status = 200
    BY <1>3, <1>4, <2>1, ReplyType
  <2> HIDE DEF answer
  <2>3. AnswerFits(answer)
    BY <1>1, <2>2 DEF AnswerFits, Succeeded, NoPlan
  <2>4. End(w, answer)
    BY <1>5 DEF LLMAnswers, t, answer
  <2> QED BY <1>1, <1>2, <2>2, <2>3, <2>4, EndStep
<1>6. CASE intent = "what_if" /\ mods # NoMods
  <2>1. Assign(w, t) /\ Goto(w, "rereading") /\ UNCHANGED answers
    BY <1>6 DEF LLMAnswers, t
  <2>2. task'[w] = t /\ pc'[w] = "rereading"
    BY <1>1, <2>1 DEF Assign, Goto
  <2>3. HandlerConsistent(w)'
    BY <1>1, <1>2, <1>3, <1>4, <1>6, <2>2 DEF HandlerConsistent, Storing
  <2>4. calls' \in 0..MaxCalls /\ submitted' \subseteq Requests
    BY <1>2 DEF IInv, TypeOK
  <2>5. t.seen # NoRequest =>
          Found(t.about, t.domain) /\ plans[t.about].request = t.seen
    BY <1>3 DEF IInv, RereadAgrees
  <2> QED BY <1>1, <1>2, <1>3, <2>1, <2>3, <2>4, <2>5, MoveStep DEF Places, Storing
<1> QED BY <1>5, <1>6

LEMMA LLMReplyInvalidStep ==
  ASSUME IInv, NEW w \in Workers, LLMReplyInvalid(w)
  PROVE  IInv'
<1> DEFINE t == Retried(task[w])
<1>1. /\ task \in [Workers -> Tasks] /\ pc \in [Workers -> Places] /\ task[w] \in Tasks
      /\ pc[w] = "prompting" /\ HandlerConsistent(w)
  BY DEF LLMReplyInvalid, IInv, TypeOK, HandlersConsistent
<1>2. /\ UNCHANGED <<plans, writers, drawn, submitted, calls, faults>>
      /\ writers' = writers \ {w}
  BY <1>1, NoLockToRelease DEF LLMReplyInvalid
<1>3. CASE task[w].attempt < MaxRetries
  <2>1. /\ t \in Tasks /\ t.kind = task[w].kind /\ t.about = task[w].about
        /\ t.domain = task[w].domain /\ t.seen = task[w].seen /\ t.plan = task[w].plan
    BY <1>1, <1>3, BoundsAssumption DEF Tasks, Retried
  <2> HIDE DEF t
  <2>2. Assign(w, t) /\ Goto(w, "prompting") /\ UNCHANGED answers
    BY <1>1, <1>3 DEF LLMReplyInvalid, Goto, t
  <2>3. task'[w] = t /\ pc'[w] = "prompting"
    BY <1>1, <2>2 DEF Assign, Goto
  <2>4. HandlerConsistent(w)'
    BY <1>1, <1>2, <2>1, <2>3 DEF HandlerConsistent, Storing
  <2>5. calls' \in 0..MaxCalls /\ submitted' \subseteq Requests
    BY <1>2 DEF IInv, TypeOK
  <2>6. t.seen # NoRequest =>
          Found(t.about, t.domain) /\ plans[t.about].request = t.seen
    BY <2>1 DEF IInv, RereadAgrees
  <2> QED BY <1>1, <1>2, <2>1, <2>2, <2>4, <2>5, <2>6, MoveStep DEF Places, Storing
<1>4. CASE ~(task[w].attempt < MaxRetries)
  <2>1. "IntentClassificationError" \in Errors
    BY DEF Errors, CopilotErrors
  <2>2. Raise(w, "IntentClassificationError")
    BY <1>4 DEF LLMReplyInvalid
  <2> QED BY <1>1, <1>2, <2>1, <2>2, RaiseStep
<1> QED BY <1>3, <1>4

LEMMA LLMFailsStep ==
  ASSUME IInv, NEW w \in Workers, NEW e \in Errors, LLMFails(w, e)
  PROVE  IInv'
<1>1. pc[w] = "prompting" /\ e # "PlanNotFoundError" /\ writers' = writers \ {w}
  BY NoLockToRelease DEF LLMFails
<1> QED BY <1>1, RaiseStep DEF LLMFails

LEMMA RereadStep ==
  ASSUME IInv, NEW w \in Workers, Reread(w)
  PROVE  IInv'
<1> DEFINE t == task[w]
<1>1. /\ task \in [Workers -> Tasks] /\ pc \in [Workers -> Places] /\ t \in Tasks
      /\ pc[w] = "rereading" /\ HandlerConsistent(w) /\ DOMAIN plans \subseteq PlanIds
      /\ \A id \in DOMAIN plans : plans[id].request \in Requests
  BY DEF Reread, IInv, TypeOK, HandlersConsistent, Rows
<1>2. /\ UNCHANGED <<plans, writers, drawn, submitted, calls, faults>>
      /\ writers' = writers \ {w}
  BY <1>1, NoLockToRelease DEF Reread
<1>3. /\ t.kind = "ask" /\ t.intent = "what_if" /\ t.mods \in Mods /\ t.plan = NoPlan
  BY <1>1 DEF HandlerConsistent, Storing
<1>4. ASSUME Readable(t.about, t.domain)
      PROVE  /\ Found(t.about, t.domain) /\ t.about \in DOMAIN plans
             /\ Modified(t) \in Requests \cup {NoRequest}
             /\ Modified(t) # NoRequest => DomainOf[Modified(t)] = t.domain
  <2>1. Found(t.about, t.domain) /\ t.about \in DOMAIN plans
    BY <1>4 DEF Readable, Found
  <2>2. plans[t.about].request \in Requests
        /\ DomainOf[plans[t.about].request] = t.domain
    BY <1>1, <2>1 DEF Found, IInv, RowsFitTheirDomain
  <2> HIDE DEF t
  <2> QED BY <1>3, <2>1, <2>2, ModsAssumption, TypePreservedAssumption DEF Modified
<1>5. CASE Readable(t.about, t.domain) /\ Modified(t) = NoRequest
           /\ \E e \in {"InvalidModificationError", "OverflowError"} : Raise(w, e)
  <2>1. {"InvalidModificationError", "OverflowError"} \subseteq Errors
    BY DEF Errors, CopilotErrors
  <2> QED BY <1>1, <1>2, <1>5, <2>1, RaiseStep
<1>6. CASE Readable(t.about, t.domain) /\ Modified(t) # NoRequest
           /\ Assign(w, [t EXCEPT !.request = Modified(t)])
           /\ Goto(w, "solving") /\ UNCHANGED answers
  <2> DEFINE u == [t EXCEPT !.request = Modified(t)]
  <2>1. /\ u \in Tasks /\ u.kind = t.kind /\ u.plan = t.plan /\ u.about = t.about
        /\ u.domain = t.domain /\ u.seen = t.seen /\ u.request = Modified(t)
        /\ u.mods = t.mods /\ u.intent = t.intent
    <3>1. Modified(t) \in Requests \cup {NoRequest} /\ t \in Tasks
      BY <1>1, <1>4, <1>6
    <3> HIDE DEF t
    <3> QED BY <3>1 DEF Tasks
  <2> HIDE DEF u
  <2>2. task'[w] = u /\ pc'[w] = "solving"
    BY <1>1, <1>6 DEF Assign, Goto, u
  <2>3. RequestInHand(w)'
    <3>1. /\ Modified(t) \in Requests /\ DomainOf[Modified(t)] = t.domain
          /\ t.about \in DOMAIN plans
      BY <1>4, <1>6
    <3>2. /\ task'[w].kind = "ask" /\ task'[w].request = Modified(t)
          /\ task'[w].about = t.about /\ task'[w].mods = t.mods
          /\ task'[w].domain = t.domain /\ task'[w].intent = "what_if"
      BY <1>3, <2>1, <2>2
    <3> QED BY <1>2, <1>3, <3>1, <3>2 DEF RequestInHand, Modified
  <2>4. HandlerConsistent(w)'
    BY <1>1, <1>2, <1>3, <2>1, <2>2, <2>3 DEF HandlerConsistent, Storing
  <2>5. calls' \in 0..MaxCalls /\ submitted' \subseteq Requests /\ Assign(w, u)
    BY <1>2, <1>6 DEF IInv, TypeOK, u
  <2>6. u.seen # NoRequest =>
          Found(u.about, u.domain) /\ plans[u.about].request = u.seen
    BY <2>1 DEF IInv, RereadAgrees
  <2> QED BY <1>1, <1>2, <1>6, <2>1, <2>4, <2>5, <2>6, MoveStep DEF Places, Storing
<1>7. CASE ~Found(t.about, t.domain) /\ Raise(w, "PlanNotFoundError")
  <2>1. "PlanNotFoundError" \in Errors
    BY DEF Errors, CopilotErrors
  <2> QED BY <1>1, <1>2, <1>7, <2>1, RaiseStep
<1>8. CASE \E e \in ReadErrors(t.about, t.domain) : Raise(w, e)
  BY <1>1, <1>2, <1>8, ReadErrorsType, RaiseStep
<1> QED BY <1>5, <1>6, <1>7, <1>8 DEF Reread

-----------------------------------------------------------------------------
LEMMA SolveFailsStep ==
  ASSUME IInv, NEW w \in Workers, SolveFails(w)
  PROVE  IInv'
<1>1. pc[w] = "solving" /\ writers' = writers \ {w}
  BY NoLockToRelease DEF SolveFails
<1>2. ASSUME NEW e \in SolveErrors(task[w].domain)
      PROVE  e \in Errors /\ e # "PlanNotFoundError"
  <2>1. task[w].domain \in Domains
    BY DEF IInv, TypeOK, Tasks
  <2>2. e \in SolverErrors
    BY <2>1 DEF SolveErrors, SolverErrors, Domains
  <2> QED BY <2>2 DEF Errors, SolverErrors
<1> QED BY <1>1, <1>2, RaiseStep DEF SolveFails

LEMMA BeginSaveFailsStep ==
  ASSUME IInv, NEW w \in Workers, BeginSaveFails(w)
  PROVE  IInv'
<1>1. pc[w] = "saving" /\ writers' = writers \ {w} /\ "StorageError" \in Errors
  BY NoLockToRelease DEF BeginSaveFails, Errors
<1> QED BY <1>1, RaiseStep DEF BeginSaveFails

LEMMA CommitFailsStep ==
  ASSUME IInv, NEW w \in Workers, CommitFails(w)
  PROVE  IInv'
<1>1. pc[w] = "committing" /\ "StorageError" \in Errors
  BY DEF CommitFails, Errors
<1> QED BY <1>1, RaiseStep DEF CommitFails

LEMMA RespondStep ==
  ASSUME IInv, NEW w \in Workers, Respond(w)
  PROVE  IInv'
<1> DEFINE t == task[w]
<1>1. /\ t \in Tasks /\ pc[w] = "responding" /\ HandlerConsistent(w)
      /\ DOMAIN plans \subseteq PlanIds /\ drawn \in Nat
  BY DEF Respond, IInv, TypeOK, HandlersConsistent
<1>2. /\ UNCHANGED <<plans, writers, drawn, submitted, calls, faults>>
      /\ writers' = writers \ {w}
  BY <1>1, NoLockToRelease DEF Respond
<1>3. /\ t.kind \in {"solve", "ask"} /\ RequestInHand(w) /\ t.result = t.request
      /\ t.plan \in DOMAIN plans /\ t.plan <= drawn
      /\ plans[t.plan] = [domain |-> t.domain, request |-> t.request,
                          result |-> t.result]
  BY <1>1 DEF HandlerConsistent, RequestInHand, Storing, IInv, PlanIdsAreOwned
<1>4. \A v \in Workers \ {w} : task[v].plan # NoPlan => t.plan # task[v].plan
  BY DEF IInv, PlanIdsAreOwned
<1>5. CASE End(w, Response(t))
  <2> DEFINE status == IF t.kind = "solve" THEN 201 ELSE 200
             answer == Reply(t, status, "none")
  <2>1. status \in {200, 201, 404, 409, 422, 500} /\ "none" \in Errors
    BY DEF Errors
  <2>2. /\ answer \in Answers /\ answer.kind = t.kind /\ answer.domain = t.domain
        /\ answer.about = t.about /\ answer.intent = t.intent /\ answer.mods = t.mods
        /\ answer.plan = t.plan /\ answer.status = status
        /\ t.kind = "solve" => answer.request = t.request
    BY <1>1, <1>3, <2>1, ReplyType
  <2>3. status \in {200, 201}
    OBVIOUS
  <2>4. answer = Response(t)
    BY DEF Response
  <2> HIDE DEF answer, status
  <2>5. AnswerFits(answer)
    BY <1>1, <1>3, <2>2, <2>3, ModsAssumption
    DEF AnswerFits, Succeeded, Found, RequestInHand, Modified
  <2> QED BY <1>1, <1>2, <1>4, <1>5, <2>2, <2>3, <2>4, <2>5, EndStep DEF Succeeded
<1>6. CASE Raise(w, "ValueError")
  <2> DEFINE status == StatusOf(t.kind, t.domain, "ValueError")
             answer == Reply(t, status, "ValueError")
  <2>1. status \in {404, 409, 422, 500} /\ status # 404 /\ "ValueError" \in Errors
    BY StatusOfType DEF Errors
  <2>2. /\ answer \in Answers /\ answer.plan = t.plan /\ answer.status = status
        /\ answer.error = "ValueError"
    BY <1>1, <1>3, <2>1, ReplyType
  <2>3. End(w, answer)
    BY <1>6 DEF Raise
  <2> HIDE DEF answer, status
  <2>4. AnswerFits(answer)
    BY <1>3, <2>1, <2>2 DEF AnswerFits, Succeeded
  <2> QED BY <1>1, <1>2, <1>4, <2>2, <2>3, <2>4, EndStep
<1> QED BY <1>5, <1>6 DEF Respond

LEMMA SolveStep ==
  ASSUME IInv, NEW w \in Workers, Solve(w)
  PROVE  IInv'
<1> DEFINE t == [task[w] EXCEPT !.result = task[w].request, !.plan = drawn + 1]
<1>1. /\ task \in [Workers -> Tasks] /\ pc \in [Workers -> Places] /\ task[w] \in Tasks
      /\ pc[w] = "solving" /\ HandlerConsistent(w)
      /\ DOMAIN plans \subseteq Nat /\ drawn \in Nat /\ drawn' = drawn + 1
      /\ UNCHANGED <<plans, writers, answers, submitted, calls, faults>>
      /\ \A v \in Workers : task[v].plan \in Nat
  BY DEF Solve, IInv, TypeOK, HandlersConsistent, PlanIds, Tasks
<1>2. /\ t \in Tasks /\ t.kind = task[w].kind /\ t.about = task[w].about
      /\ t.domain = task[w].domain /\ t.seen = task[w].seen /\ t.plan = drawn + 1
      /\ t.intent = task[w].intent /\ t.mods = task[w].mods
      /\ t.request = task[w].request /\ t.result = task[w].request
  <2>1. task[w] \in Tasks /\ drawn + 1 \in Nat
    BY <1>1
  <2>2. task[w].request \in Requests \cup {NoRequest}
    BY <2>1 DEF Tasks
  <2> QED BY <2>1, <2>2 DEF Tasks
<1>3. Assign(w, t) /\ Goto(w, "saving")
  BY DEF Solve, NewPlanId
<1> HIDE DEF t
<1>4. \A v \in Workers :
        /\ task'[v] = IF v = w THEN t ELSE task[v]
        /\ pc'[v] = IF v = w THEN "saving" ELSE pc[v]
  BY <1>1, <1>3 DEF Assign, Goto
<1>5. TypeOK'
  <2>1. task' \in [Workers -> Tasks] /\ pc' \in [Workers -> Places] /\ drawn' \in Nat
    BY <1>1, <1>2, <1>3 DEF Assign, Goto, Places
  <2> QED BY <1>1, <2>1 DEF IInv, TypeOK, Rows
<1>6. /\ \A id \in DOMAIN plans : id <= drawn
      /\ \A a \in answers : a.plan <= drawn /\ a.plan \in Nat
      /\ \A v \in Workers : task[v].plan <= drawn
  BY DEF IInv, PlanIdsAreOwned, TypeOK, Answers
<1>7. PlanIdsAreOwned'
  <2>1. /\ (\A id \in DOMAIN plans : id <= drawn)' /\ (\A a \in answers : a.plan <= drawn)'
        /\ (\A v \in Workers : task[v].plan <= drawn)'
    BY <1>1, <1>2, <1>4, <1>6
  <2>2. ASSUME NEW u \in Workers, NEW v \in Workers,
               task'[u].plan # NoPlan, task'[u].plan = task'[v].plan
        PROVE  u = v
    BY <1>1, <1>2, <1>4, <1>6, <2>2 DEF IInv, PlanIdsAreOwned
  <2>3. ASSUME NEW v \in Workers, NEW a \in answers, task'[v].plan # NoPlan
        PROVE  a.plan # task'[v].plan
    BY <1>1, <1>2, <1>4, <1>6, <2>3 DEF IInv, PlanIdsAreOwned
  <2> QED BY <1>1, <2>1, <2>2, <2>3 DEF PlanIdsAreOwned
<1>8. HandlersConsistent'
  <2>1. ASSUME NEW v \in Workers, v # w PROVE HandlerConsistent(v)'
    <3>1. HandlerConsistent(v)
      BY DEF IInv, HandlersConsistent
    <3> QED BY <1>1, <1>4, <2>1, <3>1 DEF HandlerConsistent, RequestInHand, Modified
  <2>2. RequestInHand(w)'
    BY <1>1, <1>2, <1>4 DEF HandlerConsistent, RequestInHand, Modified
  <2>3. t.plan \in PlanIds /\ t.plan \notin DOMAIN plans
    BY <1>1, <1>2, <1>6 DEF PlanIds, NoPlan
  <2>4. HandlerConsistent(w)'
    BY <1>1, <1>2, <1>4, <2>2, <2>3 DEF HandlerConsistent, Storing
  <2> QED BY <2>1, <2>4 DEF HandlersConsistent
<1>9. RowsFitTheirDomain' /\ DisclosedPlansStored' /\ AnswersMatchPlans'
      /\ FailedCallsStoreNothing' /\ NotFoundIsTrue'
  BY <1>1 DEF IInv, RowsFitTheirDomain, DisclosedPlansStored, AnswersMatchPlans,
              FailedCallsStoreNothing, NotFoundIsTrue, Found
<1>10. RereadAgrees'
  BY <1>1, <1>2, <1>4 DEF IInv, RereadAgrees, Found
<1>11. OrphansHaveACause'
  <2>1. \A v \in Workers : pc[v] = "responding" => pc'[v] = "responding" /\ task'[v] = task[v]
    BY <1>1, <1>4
  <2>2. Disclosed' = Disclosed
    BY <1>1 DEF Disclosed, Succeeded
  <2> QED BY <1>1, <2>1, <2>2 DEF IInv, OrphansHaveACause
<1>12. LockIsOfAnOpenTransaction'
  BY <1>1, <1>4 DEF IInv, LockIsOfAnOpenTransaction
<1> QED BY <1>5, <1>7, <1>8, <1>9, <1>10, <1>11, <1>12 DEF IInv

LEMMA BeginSaveStep ==
  ASSUME IInv, NEW w \in Workers, BeginSave(w)
  PROVE  IInv'
<1>1. /\ pc \in [Workers -> Places] /\ pc[w] = "saving" /\ writers = {} /\ writers' = {w}
      /\ pc' = [pc EXCEPT ![w] = "committing"]
      /\ UNCHANGED <<plans, task, drawn, answers, submitted, calls, faults>>
  BY DEF BeginSave, Goto, IInv, TypeOK
<1>2. TypeOK'
  BY <1>1 DEF IInv, TypeOK, Places, Rows
<1>3. HandlersConsistent'
  <2>1. SUFFICES ASSUME NEW v \in Workers PROVE HandlerConsistent(v)'
    BY DEF HandlersConsistent
  <2>2. HandlerConsistent(v)
    BY DEF IInv, HandlersConsistent
  <2> QED BY <1>1, <2>1, <2>2 DEF HandlerConsistent, RequestInHand, Modified, Storing
<1>4. OrphansHaveACause'
  BY <1>1 DEF IInv, OrphansHaveACause, Disclosed, Succeeded
<1>5. LockIsOfAnOpenTransaction'
  BY <1>1 DEF IInv, LockIsOfAnOpenTransaction
<1> QED
  BY <1>1, <1>2, <1>3, <1>4, <1>5
  DEF IInv, PlanIdsAreOwned, RowsFitTheirDomain, DisclosedPlansStored,
      AnswersMatchPlans, RereadAgrees, FailedCallsStoreNothing, NotFoundIsTrue, Found

\* What a commit does to the table: one row more, under an id that was free.
LEMMA CommitAdds ==
  ASSUME IInv, NEW w \in Workers, Commit(w)
  PROVE  /\ task[w].plan \in PlanIds /\ task[w].plan \notin DOMAIN plans
         /\ DOMAIN plans' = DOMAIN plans \cup {task[w].plan}
         /\ \A id \in DOMAIN plans : plans'[id] = plans[id]
         /\ plans'[task[w].plan] =
              [domain |-> task[w].domain, request |-> task[w].request,
               result |-> task[w].result]
         /\ plans' = [id \in DOMAIN plans' |-> plans'[id]]
<1>1. pc[w] = "committing" /\ plans' = Upsert(task[w]) /\ HandlerConsistent(w)
  BY DEF Commit, IInv, HandlersConsistent
<1>2. task[w].plan \in PlanIds /\ task[w].plan \notin DOMAIN plans
  BY <1>1 DEF HandlerConsistent, Storing
<1> QED BY <1>1, <1>2 DEF Upsert

LEMMA CommitStep ==
  ASSUME IInv, NEW w \in Workers, Commit(w)
  PROVE  IInv'
<1> DEFINE t == task[w]
<1>1. /\ t.plan \in PlanIds /\ t.plan \notin DOMAIN plans
      /\ DOMAIN plans' = DOMAIN plans \cup {t.plan}
      /\ \A id \in DOMAIN plans : plans'[id] = plans[id]
      /\ plans'[t.plan] =
           [domain |-> t.domain, request |-> t.request, result |-> t.result]
      /\ plans' = [id \in DOMAIN plans' |-> plans'[id]]
  BY CommitAdds
<1>2. /\ pc \in [Workers -> Places] /\ task \in [Workers -> Tasks] /\ t \in Tasks
      /\ drawn \in Nat /\ DOMAIN plans \subseteq PlanIds
      /\ pc[w] = "committing" /\ HandlerConsistent(w)
      /\ pc' = [pc EXCEPT ![w] = "responding"] /\ writers' = writers \ {w}
      /\ UNCHANGED <<task, drawn, answers, submitted, calls, faults>>
  BY DEF Commit, Goto, IInv, TypeOK, HandlersConsistent
<1>3. t.request \in Requests /\ DomainOf[t.request] = t.domain /\ t.result = t.request
      /\ t.plan <= drawn /\ RequestInHand(w)
  BY <1>2 DEF HandlerConsistent, RequestInHand, Storing, IInv, PlanIdsAreOwned
<1>4. \A v \in Workers : pc'[v] = IF v = w THEN "responding" ELSE pc[v]
  BY <1>2
<1>5. TypeOK'
  <2>1. plans'[t.plan] \in Rows
    BY <1>1, <1>2, <1>3 DEF Rows, Tasks
  <2>2. \A id \in DOMAIN plans' : plans'[id] \in Rows
    BY <1>1, <2>1 DEF IInv, TypeOK
  <2>3. pc' \in [Workers -> Places]
    BY <1>2 DEF Places
  <2> HIDE DEF t
  <2> QED BY <1>1, <1>2, <2>2, <2>3 DEF IInv, TypeOK
<1>6. PlanIdsAreOwned'
  BY <1>1, <1>2, <1>3 DEF IInv, PlanIdsAreOwned
<1>7. HandlersConsistent'
  <2>1. SUFFICES ASSUME NEW v \in Workers PROVE HandlerConsistent(v)'
    BY DEF HandlersConsistent
  <2>2. HandlerConsistent(v) /\ task'[v] = task[v] /\ submitted' = submitted
    BY <1>2 DEF IInv, HandlersConsistent
  <2>3. RequestInHand(v) => RequestInHand(v)'
    BY <1>1, <2>2 DEF RequestInHand, Modified
  <2>4. v # w /\ task[v].plan # NoPlan => task[v].plan # t.plan
    BY DEF IInv, PlanIdsAreOwned
  <2>5. CASE v = w
    BY <1>1, <1>2, <1>3, <1>4, <2>2, <2>3, <2>5 DEF HandlerConsistent, Storing
  <2>6. CASE v # w
    BY <1>1, <1>4, <2>2, <2>3, <2>4, <2>6 DEF HandlerConsistent, Storing, PlanIds
  <2> QED BY <2>5, <2>6
<1>8. RowsFitTheirDomain'
  BY <1>1, <1>3 DEF IInv, RowsFitTheirDomain
<1>9. DisclosedPlansStored' /\ RereadAgrees' /\ NotFoundIsTrue'
  BY <1>1, <1>2 DEF IInv, DisclosedPlansStored, RereadAgrees, NotFoundIsTrue, Found, Succeeded
<1>10. AnswersMatchPlans'
  BY <1>1, <1>2 DEF IInv, AnswersMatchPlans, Succeeded
<1>11. FailedCallsStoreNothing'
  BY <1>1, <1>2 DEF IInv, FailedCallsStoreNothing, Succeeded, PlanIdsAreOwned, PlanIds
<1>12. OrphansHaveACause'
  <2>1. Disclosed' = Disclosed
    BY <1>2 DEF Disclosed, Succeeded
  <2> QED BY <1>1, <1>2, <1>4, <2>1 DEF IInv, OrphansHaveACause
<1>13. LockIsOfAnOpenTransaction'
  BY <1>2, <1>4 DEF IInv, LockIsOfAnOpenTransaction
<1> QED
  BY <1>5, <1>6, <1>7, <1>8, <1>9, <1>10, <1>11, <1>12, <1>13 DEF IInv

\* Handlers that vanish, one or a whole process, keep IInv.
LEMMA ResetStep ==
  ASSUME IInv, NEW S \in SUBSET Workers,
         pc' = [v \in Workers |-> IF v \in S THEN "idle" ELSE pc[v]],
         task' = [v \in Workers |-> IF v \in S THEN NoTask ELSE task[v]],
         writers' = writers \ S, faults < MaxFaults, faults' = faults + 1,
         UNCHANGED <<plans, drawn, answers, submitted, calls>>
  PROVE  IInv'
<1>1. /\ faults \in Nat /\ drawn \in Nat /\ writers \subseteq Workers
      /\ pc \in [Workers -> Places] /\ task \in [Workers -> Tasks]
      /\ faults' \in 0..MaxFaults /\ faults' # 0
  BY BoundsAssumption DEF IInv, TypeOK
<1>2. TypeOK'
  BY <1>1, NoTaskType DEF IInv, TypeOK, Places, Rows
<1>3. PlanIdsAreOwned'
  BY <1>1, NoTaskType DEF IInv, PlanIdsAreOwned, NoPlan
<1>4. HandlersConsistent'
  <2>1. SUFFICES ASSUME NEW v \in Workers PROVE HandlerConsistent(v)'
    BY DEF HandlersConsistent
  <2>2. HandlerConsistent(v)
    BY DEF IInv, HandlersConsistent
  <2> QED BY <2>1, <2>2, NoTaskType DEF HandlerConsistent, RequestInHand, Modified, Storing
<1>5. RereadAgrees'
  BY NoTaskType DEF IInv, RereadAgrees, Found
<1>6. LockIsOfAnOpenTransaction'
  BY <1>1 DEF IInv, LockIsOfAnOpenTransaction
<1>7. OrphansHaveACause'
  BY <1>1 DEF OrphansHaveACause
<1> QED
  BY <1>2, <1>3, <1>4, <1>5, <1>6, <1>7
  DEF IInv, RowsFitTheirDomain, DisclosedPlansStored, AnswersMatchPlans,
      FailedCallsStoreNothing, NotFoundIsTrue, Found, Succeeded

LEMMA ResponseLostStep ==
  ASSUME IInv, NEW w \in Workers, ResponseLost(w)
  PROVE  IInv'
<1>1. /\ pc' = [v \in Workers |-> IF v \in {w} THEN "idle" ELSE pc[v]]
      /\ task' = [v \in Workers |-> IF v \in {w} THEN NoTask ELSE task[v]]
  BY DEF ResponseLost, Goto, Assign, IInv, TypeOK
<1>2. writers' = writers \ {w}
  BY NoLockToRelease DEF ResponseLost
<1> QED BY <1>1, <1>2, ResetStep DEF ResponseLost

LEMMA CrashStep ==
  ASSUME IInv, NEW p \in Replicas, Crash(p)
  PROVE  IInv'
<1> DEFINE S == {w \in Workers : ReplicaOf[w] = p}
<1>1. /\ pc' = [v \in Workers |-> IF v \in S THEN "idle" ELSE pc[v]]
      /\ task' = [v \in Workers |-> IF v \in S THEN NoTask ELSE task[v]]
  BY DEF Crash
<1>2. writers' = writers \ S
  BY DEF Crash, IInv, TypeOK
<1> QED BY <1>1, <1>2, ResetStep DEF Crash

LEMMA StutterStep ==
  ASSUME IInv, UNCHANGED vars
  PROVE  IInv'
<1> USE DEF vars
<1>1. HandlersConsistent'
  BY DEF IInv, HandlersConsistent, HandlerConsistent, RequestInHand, Modified
<1>2. TypeOK' /\ PlanIdsAreOwned'
  BY DEF IInv, TypeOK, PlanIdsAreOwned
<1>3. OrphansHaveACause'
  BY DEF IInv, OrphansHaveACause, Disclosed
<1> QED
  BY <1>1, <1>2, <1>3
  DEF IInv, RowsFitTheirDomain, DisclosedPlansStored, AnswersMatchPlans, RereadAgrees,
      FailedCallsStoreNothing, LockIsOfAnOpenTransaction, NotFoundIsTrue, Found

LEMMA NextIInv ==
  ASSUME IInv, [Next]_vars
  PROVE  IInv'
<1>1. ASSUME NEW w \in Workers, Step(w) PROVE IInv'
  BY <1>1, LoadPlanStep, LLMAnswersStep, LLMReplyInvalidStep, LLMFailsStep, RereadStep,
     SolveStep, SolveFailsStep, BeginSaveStep, BeginSaveFailsStep, CommitStep,
     CommitFailsStep, RespondStep
  DEF Step
<1>2. ASSUME NEW w \in Workers, NEW r \in ClientRequests, ReceiveSolve(w, r) PROVE IInv'
  BY <1>2, ReceiveSolveStep, RequestsAssumption
<1>3. ASSUME NEW w \in Workers, NEW d \in Domains, NEW id \in Disclosed \cup {NoPlan},
             ReceiveAsk(w, d, id)
      PROVE IInv'
  BY <1>3, ReceiveAskStep
<1>4. ASSUME NEW d \in Domains, NEW id \in Disclosed \cup {NoPlan}, GetPlan(d, id)
      PROVE IInv'
  BY <1>4, GetPlanStep
<1>5. ASSUME NEW w \in Workers, ResponseLost(w) PROVE IInv'
  BY <1>5, ResponseLostStep
<1>6. ASSUME NEW p \in Replicas, Crash(p) PROVE IInv'
  BY <1>6, CrashStep
<1>7. CASE Rest \/ UNCHANGED vars
  BY <1>7, StutterStep DEF Rest
<1> QED BY <1>1, <1>2, <1>3, <1>4, <1>5, <1>6, <1>7 DEF Next

-----------------------------------------------------------------------------
\* Whatever the handlers, the LLM and the faults do, IInv holds.
THEOREM Invariance == Spec => []IInv
BY InitIInv, NextIInv, PTL DEF Spec

\* The variables have their types in every reachable state.
THEOREM TypeCorrect == Spec => []TypeOK
BY Invariance, PTL DEF IInv

\* A plan id that a client was told names a stored plan of its domain.
THEOREM DisclosedStored == Spec => []DisclosedPlansStored
BY Invariance, PTL DEF IInv

\* The plan of an answer was solved from what the question asked for.
THEOREM AnswersMatch == Spec => []AnswersMatchPlans
BY Invariance, PTL DEF IInv

\* What the LLM was shown is what the orchestrator modifies.
THEOREM RereadStable == Spec => []RereadAgrees
BY Invariance, PTL DEF IInv

\* A call answered with an error left no plan, except an unrenderable one.
THEOREM FailuresLeaveNothing == Spec => []FailedCallsStoreNothing
BY Invariance, PTL DEF IInv

\* Without faults a stored plan is announced, or about to be.
THEOREM OrphansExplained == Spec => []OrphansHaveACause
BY Invariance, PTL DEF IInv

\* The write lock never outlives its transaction.
THEOREM LockReleased == Spec => []LockIsOfAnOpenTransaction
BY Invariance, PTL DEF IInv

\* A 404 is about an id that was never told or has another domain.
THEOREM NotFoundTrue == Spec => []NotFoundIsTrue
BY Invariance, PTL DEF IInv

-----------------------------------------------------------------------------
\* A step answers one call, accepts one request, commits one plan, or is
\* invisible from outside.
LEMMA StepKinds ==
  ASSUME [Next]_vars
  PROVE  \/ UNCHANGED <<plans, submitted, answers>>
         \/ \E r \in Requests :
              submitted' = submitted \cup {r} /\ UNCHANGED <<plans, answers>>
         \/ \E a : answers' = answers \cup {a} /\ UNCHANGED <<plans, submitted>>
         \/ \E w \in Workers : Commit(w)
<1> DEFINE Quiet == UNCHANGED <<plans, submitted, answers>>
           Answering == \E a : answers' = answers \cup {a} /\ UNCHANGED <<plans, submitted>>
<1>1. ASSUME NEW w \in Workers, NEW e, Raise(w, e), UNCHANGED <<plans, submitted>>
      PROVE Answering
  BY <1>1 DEF Raise, End
<1>2. ASSUME NEW w \in Workers, Step(w) PROVE Quiet \/ Answering \/ Commit(w)
  <2>1. LoadPlan(w) => Quiet \/ Answering
    <3> HIDE DEF Answering
    <3> QED BY <1>1 DEF LoadPlan
  <2>2. ASSUME NEW intent, NEW mods, LLMAnswers(w, intent, mods) PROVE Quiet \/ Answering
    BY <2>2 DEF LLMAnswers, End
  <2>3. LLMReplyInvalid(w) => Quiet \/ Answering
    <3> HIDE DEF Answering
    <3> QED BY <1>1 DEF LLMReplyInvalid
  <2>4. ASSUME NEW e, LLMFails(w, e) PROVE Answering
    BY <1>1, <2>4 DEF LLMFails
  <2>5. Reread(w) => Quiet \/ Answering
    <3> HIDE DEF Answering
    <3> QED BY <1>1 DEF Reread
  <2>6. Solve(w) \/ BeginSave(w) => Quiet
    BY DEF Solve, BeginSave
  <2>7. SolveFails(w) \/ BeginSaveFails(w) \/ CommitFails(w) => Answering
    <3> HIDE DEF Answering
    <3> QED BY <1>1 DEF SolveFails, BeginSaveFails, CommitFails
  <2>8. Respond(w) => Answering
    BY <1>1 DEF Respond, End
  <2> HIDE DEF Quiet, Answering
  <2> QED BY <1>2, <2>1, <2>2, <2>3, <2>4, <2>5, <2>6, <2>7, <2>8 DEF Step
<1>3. ASSUME NEW w, NEW r, ReceiveSolve(w, r)
      PROVE submitted' = submitted \cup {r} /\ UNCHANGED <<plans, answers>>
  BY <1>3 DEF ReceiveSolve
<1>4. ASSUME NEW w, NEW d, NEW id, ReceiveAsk(w, d, id) PROVE Quiet
  BY <1>4 DEF ReceiveAsk
<1>5. ASSUME NEW d, NEW id, GetPlan(d, id) PROVE Answering
  BY <1>5 DEF GetPlan
<1>6. ASSUME NEW w, ResponseLost(w) PROVE Quiet
  BY <1>6 DEF ResponseLost
<1>7. ASSUME NEW p, Crash(p) PROVE Quiet
  BY <1>7 DEF Crash
<1>8. Rest \/ UNCHANGED vars => Quiet
  BY DEF Rest, vars
<1> HIDE DEF Quiet
<1> QED BY <1>2, <1>3, <1>4, <1>5, <1>6, <1>7, <1>8, RequestsAssumption DEF Next, Quiet

\* A stored plan stays as it is, for ever: no step changes or removes a row.
THEOREM AppendOnly == Spec => PlansAppendOnly
<1>1. ASSUME IInv, [Next]_vars
      PROVE  [\A id \in DOMAIN plans : id \in DOMAIN plans' /\ plans'[id] = plans[id]]_plans
  BY <1>1, StepKinds, CommitAdds
<1> QED BY <1>1, Invariance, PTL DEF Spec, PlansAppendOnly

-----------------------------------------------------------------------------
LEMMA RefinesInit == Init => Registry!Init
BY DEF Init, Registry!Init, Disclosed, Registered

LEMMA RefinesNext ==
  ASSUME IInv, IInv', [Next]_vars
  PROVE  [Registry!Next]_(Registry!vars)
<1>0. /\ DOMAIN Registered = DOMAIN plans /\ DOMAIN Registered' = DOMAIN plans'
      /\ \A id \in DOMAIN plans : Registered[id].request = plans[id].request
      /\ plans' = plans => Registered' = Registered
  BY DEF Registered
<1>1. CASE UNCHANGED <<plans, submitted, answers>>
  BY <1>0, <1>1 DEF Registry!vars, Disclosed, Succeeded
<1>2. ASSUME NEW r \in Requests, submitted' = submitted \cup {r}, UNCHANGED <<plans, answers>>
      PROVE  Registry!Next
  <2>1. Disclosed' = Disclosed
    BY <1>2 DEF Disclosed, Succeeded
  <2> QED BY <1>0, <1>2, <2>1 DEF Registry!Next, Registry!Submit
<1>3. ASSUME NEW a, answers' = answers \cup {a}, UNCHANGED <<plans, submitted>>
      PROVE  [Registry!Next]_(Registry!vars)
  <2>1. CASE Disclosed' = Disclosed
    BY <1>0, <1>3, <2>1 DEF Registry!vars
  <2>2. CASE Disclosed' # Disclosed
    <3>1. Disclosed' = Disclosed \cup {a.plan} /\ a.plan \in Disclosed'
      BY <1>3, <2>2 DEF Disclosed, Succeeded
    <3>2. Disclosed' \subseteq DOMAIN plans
      BY <1>3 DEF IInv, DisclosedPlansStored, Disclosed, Succeeded, Found
    <3>3. Registry!Publish(a.plan)
      BY <1>0, <1>3, <3>1, <3>2 DEF Registry!Publish
    <3> QED BY <1>0, <3>1, <3>2, <3>3 DEF Registry!Next
  <2> QED BY <2>1, <2>2
<1>4. ASSUME NEW w \in Workers, Commit(w)
      PROVE  Registry!Next
  <2> DEFINE t == task[w]
  <2>1. /\ t.plan \notin DOMAIN plans
        /\ DOMAIN plans' = DOMAIN plans \cup {t.plan}
        /\ \A id \in DOMAIN plans : plans'[id] = plans[id]
        /\ plans'[t.plan] =
             [domain |-> t.domain, request |-> t.request, result |-> t.result]
    BY <1>4, CommitAdds
  <2>2. UNCHANGED <<submitted, answers>> /\ RequestInHand(w) /\ t.result = t.request
    BY <1>4 DEF Commit, IInv, HandlersConsistent, HandlerConsistent, Storing
  <2>3. Disclosed' = Disclosed
    BY <2>2 DEF Disclosed, Succeeded
  <2>4. Registry!Insert(t.plan, t.request)
    <3>1. Registered' = [i \in DOMAIN Registered \cup {t.plan} |->
                           IF i = t.plan THEN [request |-> t.request, result |-> t.request]
                           ELSE Registered[i]]
      BY <2>1, <2>2 DEF Registered
    <3> QED BY <1>0, <2>1, <2>2, <2>3, <3>1 DEF Registry!Insert
  <2>5. CASE t.kind = "solve"
    <3>1. t.request \in Requests /\ t.request \in submitted
      BY <2>2, <2>5 DEF RequestInHand
    <3>2. Registry!Store(t.plan, t.request)
      BY <2>4, <3>1 DEF Registry!Store
    <3> QED BY <1>0, <2>1, <3>1, <3>2 DEF Registry!Next
  <2>6. CASE t.kind = "ask"
    <3>1. /\ t.about \in DOMAIN plans /\ t.mods \in Mods /\ t.request # NoRequest
          /\ t.request = Applied[plans[t.about].request][t.mods]
      BY <2>2, <2>6, RequestsAssumption DEF RequestInHand, Modified
    <3>2. Registry!Derive(t.plan, t.about, t.mods)
      BY <1>0, <2>4, <3>1 DEF Registry!Derive
    <3> QED BY <1>0, <2>1, <3>1, <3>2 DEF Registry!Next
  <2> QED BY <2>2, <2>5, <2>6 DEF RequestInHand
<1> QED BY <1>1, <1>2, <1>3, <1>4, StepKinds

\* The service, with its threads, retries and faults, implements the registry.
THEOREM Refinement == Spec => RefinesRegistry
BY RefinesInit, RefinesNext, Invariance, PTL DEF Spec, RefinesRegistry, Registry!Spec
=============================================================================
