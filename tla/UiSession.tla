------------------------------ MODULE UiSession ------------------------------
(***************************************************************************)
(* One browser session of the Gradio UI and the API's token check behind   *)
(* it.  A plan id that a solve puts into its tab reaches the copilot tab   *)
(* by two rounds of change events: the tab's change listener stores plan   *)
(* and domain in the session, and each of the two session values has a     *)
(* listener that copies it into the copilot tab.                           *)
(*                                                                         *)
(* Gradio is external: a listener handles one event at a time; an event    *)
(* that comes meanwhile waits, a newer one in its place; a button does     *)
(* nothing while its click is handled; an input box is read when the event *)
(* is sent, a session value when it is handled.                            *)
(***************************************************************************)
EXTENDS Integers, Sequences

CONSTANTS
  Tabs,          \* the domains, each with its tab
  FirstTab,      \* the domain that the copilot tab starts with
  Environment,   \* settings.environment of the API
  ApiAuthToken,  \* settings.api_auth_token
  NoToken,       \* no such setting, no Authorization header
  Idle,          \* nothing waits, nothing runs
  MaxClicks      \* bound of the model: what the user does

ASSUME TabsAssumption == FirstTab \in Tabs
ASSUME EnvironmentAssumption == Environment \in {"development", "staging", "production"}
ASSUME ClicksAssumption == MaxClicks \in Nat
ASSUME IdleAssumption == Idle \notin Nat \cup Tabs

VARIABLES
  box,       \* the plan id in each tab; 0 is the empty box
  solving,   \* tabs whose Solve click is being handled
  waiting,   \* the change event of each tab that waits, the box's value with it
  running,   \* the one that is being handled
  session,   \* plan_id_state and domain_state
  changed,   \* which of them has a change event waiting
  read,      \* the value that its listener has read and not yet delivered
  copilot,   \* copilot_plan_id and copilot_domain
  edited,    \* the user has typed into one of the two
  asked,     \* the question that is being answered
  shown,     \* what kind of text copilot_output holds
  owner,     \* the domain of each plan id, in the order they were drawn
  clicks

vars == <<box, solving, waiting, running, session, changed, read, copilot, edited,
          asked, shown, owner, clicks>>

Fields == {"plan", "domain"}

-----------------------------------------------------------------------------
\* The API as the UI meets it.

\* lifespan runs validate_production_secrets before anything is served.
Starts == ~(Environment = "production" /\ ApiAuthToken = NoToken)

\* require_api_token
TokenAccepted(authorization) ==
  \/ Environment = "development"
  \/ ApiAuthToken # NoToken /\ authorization = ApiAuthToken

\* _post sends no Authorization header.
Served == Starts /\ TokenAccepted(NoToken)

\* What befalls a call beside a normal answer: the API is not there, refuses the
\* token, rejects the input or fails.
Failures == IF Starts /\ ~TokenAccepted(NoToken) THEN {"401"} ELSE {"failed"}

-----------------------------------------------------------------------------
Init ==
  /\ box = [t \in Tabs |-> 0]
  /\ solving = {}
  /\ waiting = [t \in Tabs |-> Idle]
  /\ running = [t \in Tabs |-> Idle]
  /\ session = [plan |-> 0, domain |-> FirstTab]
  /\ changed = {}
  /\ read = [plan |-> Idle, domain |-> Idle]
  /\ copilot = [plan |-> 0, domain |-> FirstTab]
  /\ edited = FALSE
  /\ asked = Idle
  /\ shown = "nothing"
  /\ owner = <<>>
  /\ clicks = 0

Click == clicks < MaxClicks /\ clicks' = clicks + 1

ClickSolve(t) ==
  /\ Click
  /\ t \notin solving
  /\ solving' = solving \cup {t}
  /\ UNCHANGED <<box, waiting, running, session, changed, read, copilot, edited, asked, shown, owner>>

\* The outputs of solve_<t>: a box that keeps its value has no change event.
Fill(t, id) ==
  /\ t \in solving
  /\ solving' = solving \ {t}
  /\ box' = [box EXCEPT ![t] = id]
  /\ waiting' = IF id = box[t] THEN waiting ELSE [waiting EXCEPT ![t] = id]
  /\ UNCHANGED <<running, session, changed, read, copilot, edited, asked, shown, clicks>>

Solved(t) ==
  /\ Served
  /\ owner' = Append(owner, t)
  /\ Fill(t, Len(owner) + 1)

\* Invalid JSON, an API error or no answer: the plan id is "".
NotSolved(t) == Fill(t, 0) /\ UNCHANGED owner

\* <t>_plan_id.change: the event is sent with the value it was fired for.
RunChange(t) ==
  /\ waiting[t] # Idle /\ running[t] = Idle
  /\ running' = [running EXCEPT ![t] = waiting[t]]
  /\ waiting' = [waiting EXCEPT ![t] = Idle]
  /\ UNCHANGED <<box, solving, session, changed, read, copilot, edited, asked, shown, owner, clicks>>

\* Seeded fault: the lambda leaves the domain alone.
StorePlanOnly(t) ==
  /\ running[t] # Idle
  /\ session' = [session EXCEPT !.plan = running[t]]
  /\ changed' = changed \cup {f \in Fields : session'[f] # session[f]}
  /\ running' = [running EXCEPT ![t] = Idle]
  /\ UNCHANGED <<box, solving, waiting, read, copilot, edited, asked, shown, owner, clicks>>

\* lambda pid: (pid, t), into plan_id_state and domain_state.
StoreChange(t) ==
  /\ running[t] # Idle
  /\ session' = [plan |-> running[t], domain |-> t]
  /\ changed' = changed \cup {f \in Fields : session'[f] # session[f]}
  /\ running' = [running EXCEPT ![t] = Idle]
  /\ UNCHANGED <<box, solving, waiting, read, copilot, edited, asked, shown, owner, clicks>>

\* Seeded fault: what the listener writes fires it again.
ReadSessionAgain(f) ==
  /\ f \in changed /\ read[f] = Idle
  /\ read' = [read EXCEPT ![f] = session[f]]
  /\ UNCHANGED <<box, solving, waiting, running, session, changed, copilot, edited, asked, shown, owner, clicks>>

\* plan_id_state.change and domain_state.change
ReadSession(f) ==
  /\ f \in changed /\ read[f] = Idle
  /\ read' = [read EXCEPT ![f] = session[f]]
  /\ changed' = changed \ {f}
  /\ UNCHANGED <<box, solving, waiting, running, session, copilot, edited, asked, shown, owner, clicks>>

Deliver(f) ==
  /\ read[f] # Idle
  /\ copilot' = [copilot EXCEPT ![f] = read[f]]
  /\ read' = [read EXCEPT ![f] = Idle]
  /\ UNCHANGED <<box, solving, waiting, running, session, changed, edited, asked, shown, owner, clicks>>

\* Neither copilot_plan_id nor copilot_domain has a listener.  One id stands for
\* those of no plan of this session.
Edit(f) ==
  /\ Click
  /\ edited' = TRUE
  /\ \E value \in IF f = "plan" THEN 0..Len(owner) + 1 ELSE Tabs : copilot' = [copilot EXCEPT ![f] = value]
  /\ UNCHANGED <<box, solving, waiting, running, session, changed, read, asked, shown, owner>>

ClickAsk ==
  /\ Click
  /\ asked = Idle
  /\ asked' = copilot
  /\ UNCHANGED <<box, solving, waiting, running, session, changed, read, copilot, edited, shown, owner>>

\* Without a plan, or without a question (which is the user's business), nothing is
\* sent.  The copilot finds a plan by its id in the domain it is asked about.
Answers(q) ==
  IF q.plan = 0 THEN {"solve a plan first"}
  ELSE {"enter a question"} \cup Failures \cup
    (IF ~Served THEN {}
     ELSE IF q.plan \in DOMAIN owner /\ owner[q.plan] = q.domain THEN {"answer"}
     ELSE {"404"})

Answer ==
  /\ asked # Idle
  /\ shown' \in Answers(asked)
  /\ asked' = Idle
  /\ UNCHANGED <<box, solving, waiting, running, session, changed, read, copilot, edited, owner, clicks>>

UserNext ==
  \/ \E t \in Tabs : ClickSolve(t)
  \/ \E f \in Fields : Edit(f)
  \/ ClickAsk

SystemNext ==
  \/ \E t \in Tabs : Solved(t) \/ NotSolved(t) \/ RunChange(t) \/ StoreChange(t)
  \/ \E f \in Fields : ReadSession(f) \/ Deliver(f)
  \/ Answer

Next == UserNext \/ SystemNext

Spec == Init /\ [][Next]_vars

\* Calls end (httpx gives up after 60 s without an answer) and the queue of each
\* listener is worked off; nobody has to click.
FairSpec == Spec /\ WF_vars(SystemNext)

-----------------------------------------------------------------------------
\* The types of the variables.
TypeOK ==
  /\ box \in [Tabs -> Nat]
  /\ solving \subseteq Tabs
  /\ waiting \in [Tabs -> Nat \cup {Idle}] /\ running \in [Tabs -> Nat \cup {Idle}]
  /\ session \in [plan : Nat, domain : Tabs] /\ copilot \in [plan : Nat, domain : Tabs]
  /\ changed \subseteq Fields
  /\ read \in [plan : Nat \cup {Idle}, domain : Tabs \cup {Idle}]
  /\ edited \in BOOLEAN
  /\ asked \in {Idle} \cup [plan : Nat, domain : Tabs]
  /\ shown \in {"nothing", "solve a plan first", "enter a question", "answer", "failed",
                "401", "404"}
  /\ owner \in Seq(Tabs)
  /\ clicks \in 0..MaxClicks

\* No event waits and none is handled: the page stands still.
Quiet ==
  /\ \A t \in Tabs : waiting[t] = Idle /\ running[t] = Idle
  /\ changed = {}
  /\ \A f \in Fields : read[f] = Idle

\* When the page stands still and nobody has typed into the copilot tab, its plan
\* and its domain belong together: the plan is the one that the tab of that domain
\* shows, and was solved there.  Whatever solves ended in between, in whatever
\* order, no pair of plan and domain is left mixed by the two listeners.
SettledTabIsConsistent ==
  (Quiet /\ ~edited) =>
    /\ copilot.plan = box[copilot.domain]
    /\ copilot.plan # 0 => owner[copilot.plan] = copilot.domain

\* The page comes to rest: the chain of listeners ends, and each click is answered.
Settles == []<>(Quiet /\ solving = {} /\ asked = Idle)

\* "full local stack: API, UI, Ollama": the API does not refuse what the UI sends.
UiIsAuthorized == shown # "401"

-----------------------------------------------------------------------------
\* The inductive invariant.

\* A value that has no event waiting has been read, or delivered, as it is.
Mirrored ==
  \A f \in Fields : f \notin changed =>
    /\ read[f] # Idle => read[f] = session[f]
    /\ (read[f] = Idle /\ ~edited) => copilot[f] = session[f]

\* The newest of what waits, what runs and what is stored is what the box shows.
NewestIsShown ==
  \A t \in Tabs :
    /\ waiting[t] # Idle => waiting[t] = box[t]
    /\ (waiting[t] = Idle /\ running[t] # Idle) => running[t] = box[t]
    /\ (waiting[t] = Idle /\ running[t] = Idle /\ session.domain = t) => session.plan = box[t]

BoxesAreOwned ==
  \A t \in Tabs : box[t] # 0 => box[t] \in DOMAIN owner /\ owner[box[t]] = t

IInv == TypeOK /\ Mirrored /\ NewestIsShown /\ BoxesAreOwned

=============================================================================
