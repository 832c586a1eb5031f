---------------------------- MODULE ClientState ----------------------------
(***************************************************************************)
(* The state all pages of the client share (client/src/state.ts), once a   *)
(* connector and an identity are known: how the repository keeps the       *)
(* period and the petitions shown up to date (web3repository.ts, nav.ts,   *)
(* layoutWidgets.ts) while the voter browses, signs and creates petitions. *)
(* Connection models how the client gets there.                            *)
(*                                                                         *)
(* JavaScript runs to the next call that leaves the page; what is called   *)
(* by setState runs with it.  Calls to the blockchain are executed by the  *)
(* node in any order, and so arrive their replies.  Any call may fail, and *)
(* so may a transaction.                                                   *)
(*                                                                         *)
(* The mode is the naive one, in which sign() shows no overlay, and the    *)
(* voter is entitled in every period.                                      *)
(***************************************************************************)
EXTENDS Naturals, Sequences, SequencesExt

CONSTANTS
  MaxPeriod,      \* bound of the clock
  MaxPetitions,   \* bound on the petitions created
  MaxRuns,        \* bound on refreshing, signing and creating at a time
  MaxTicks,       \* bound on calls sent by timers that are not answered
  MaxFailures     \* bound on the calls that fail

ASSUME ClientStateAssumption ==
  /\ {MaxPeriod, MaxRuns} \subseteq Nat \ {0}
  /\ {MaxPetitions, MaxTicks, MaxFailures} \subseteq Nat

VARIABLES
  now,         \* the period at the blockchain
  onChain,     \* the periods of the petitions at the blockchain
  signed,      \* the petitions the voter has signed
  app,         \* the shared state
  page,        \* what the period widget and the list of petitions show
  repository,  \* the Web3Repository
  runs,        \* what the voter started and what has not ended yet
  calls,       \* calls to the node: [run, pre, reply], run = 0 for a timer's
  fetches,     \* the dates of periods that are being asked for: <<who, period>>
  failures,    \* the number of calls that failed
  past         \* what the program does not keep, of replies: the petitions a list
               \* told to be signed, and the periods missed

clientVars ==
  <<now, onChain, signed, app, page, repository, runs, calls, fetches, failures, past>>

Periods == 1 .. MaxPeriod

Runs == 1 .. MaxRuns

\* No period, no petition, no dates.
Unknown == 0

IdleRun == [pc |-> "idle", petition |-> Unknown, listed |-> 0]

\* The overlay covers the page as long as there is a text to show.
AppInit == [period |-> Unknown, customPeriod |-> FALSE, locked |-> TRUE]

\* signable: the flag of each petition that was listed; cached: the periods
\* whose dates are known.
RepositoryInit ==
  [period |-> Unknown, signable |-> << >>, cached |-> {}, timers |-> FALSE]

Call(run) == [run |-> run, pre |-> repository.period, reply |-> << >>]

\* The first call, setPeriod's of the first init(), is on its way.
ClientStateInit ==
  /\ now = 1
  /\ onChain = << >>
  /\ signed = {}
  /\ app = AppInit
  /\ page = [list |-> << >>, dates |-> Unknown]
  /\ repository = RepositoryInit
  /\ runs = [r \in Runs |-> IF r = 1 THEN [IdleRun EXCEPT !.pc = "period"] ELSE IdleRun]
  /\ calls = << [run |-> 1, pre |-> Unknown, reply |-> << >>] >>
  /\ fetches = {}
  /\ failures = 0
  /\ past = [told |-> {}, missed |-> {}]

-----------------------------------------------------------------------------
(* The shared state *)

\* Faulty variant: the widget shows the dates it asked for, of whichever
\* period it shows by then.
DatesAskedFor(p, cached) == p

\* The dates the widget shows when it gets those of p: it looks up those of
\* the period it shows now, which fails if they are not there yet.
DatesShown(p, cached) == IF app.period \in cached THEN app.period ELSE page.dates

\* Every object is told the new state: the list of petitions is taken from
\* the repository, and the widget asks for the dates of the period if they are
\* not among the ones that are known.
Told(state, cached, asked) ==
  LET known == state.period \in cached \cup {Unknown} IN
    /\ app' = state
    /\ page' = [list |-> repository.signable,
                dates |-> IF known THEN state.period ELSE page.dates]
    /\ fetches' = IF known THEN asked ELSE asked \cup {<<"widget", state.period>>}

SetState(state) == Told(state, repository.cached, fetches)

Covered == [app EXCEPT !.locked = TRUE]

\* A run that has not been used, or is over.
Free(r) == runs[r].pc = "idle" /\ \A q \in 1 .. r - 1 : runs[q].pc # "idle"

\* init() of the repository begins, with setPeriod.
BeginInit(r) ==
  /\ SetState(Covered)
  /\ runs' = [runs EXCEPT ![r] = [IdleRun EXCEPT !.pc = "period"]]
  /\ calls' = Append(calls, Call(r))

\* Dates arrive, for the widget or for the repository alone.
DatesArrive(who, p) ==
  LET cached == repository.cached \cup {p} IN
    /\ <<who, p>> \in fetches
    /\ fetches' = fetches \ {<<who, p>>}
    /\ repository' = [repository EXCEPT !.cached = cached]
    /\ page' = IF who = "widget"
                  THEN [page EXCEPT !.dates = DatesShown(p, cached)] ELSE page
    /\ UNCHANGED <<now, onChain, signed, app, runs, calls, failures, past>>

-----------------------------------------------------------------------------
(* The repository *)

\* Faulty variant: only the first period is shown.
NotifiedOnce(pre, period) ==
  IF app.period = Unknown THEN [app EXCEPT !.period = period] ELSE app

\* What setPeriod shows when the reply arrives, given the period remembered
\* when the call was sent.
Notified(pre, period) ==
  IF pre # period /\ ~ app.customPeriod THEN [app EXCEPT !.period = period] ELSE app

\* The reply agrees with what was remembered when the call was sent, but not
\* with what an older reply left in the meantime.
Missed(pre, period) ==
  past' = [past EXCEPT !.missed = @ \cup
    {p \in {period} : pre = p /\ repository.period # p /\ ~ app.customPeriod}]

\* The rest of setPeriod when the reply arrives.  It asks for the dates of the
\* period and does not wait for them; if the period is new to the widget too
\* the two ask for the same dates in the same breath, which counts as once.
SetPeriod(pre, period) ==
  LET state == Notified(pre, period)
      asked == {<<"repository", period>> : p \in {period} \ repository.cached} IN
    /\ repository' = [repository EXCEPT !.period = period]
    /\ Missed(pre, period)
    /\ IF state # app THEN SetState(state)
                      ELSE UNCHANGED <<app, page>> /\ fetches' = fetches \cup asked

\* A timer calls setPeriod.
Tick ==
  /\ repository.timers
  /\ Len(SelectSeq(calls, LAMBDA call : call.run = 0)) < MaxTicks
  /\ calls' = Append(calls, Call(0))
  /\ UNCHANGED <<now, onChain, signed, app, page, repository, runs, fetches, failures, past>>

\* The node executes a call, in whatever order they were sent.
Execute ==
  \E k \in DOMAIN calls :
    /\ calls[k].reply = << >>
    /\ calls' = [calls EXCEPT ![k].reply =
         << [period |-> now, count |-> Len(onChain), signed |-> signed] >>]
    /\ UNCHANGED <<now, onChain, signed, app, page, repository, runs, fetches, failures, past>>

\* Replies overtake each other.
Arrives(k) == calls[k].reply # << >>

Answer(k) == Head(calls[k].reply)

TickAnswered(k) ==
  /\ Arrives(k) /\ calls[k].run = 0
  /\ SetPeriod(calls[k].pre, Answer(k).period)
  /\ calls' = RemoveAt(calls, k)
  /\ UNCHANGED <<now, onChain, signed, runs, failures>>

\* Faulty variant: the overlay stays.
LockLeft(state) == state

LockReleased(state) == [state EXCEPT !.locked = FALSE]

\* The run r whose call is answered waits for the reply at pc.
WaitsFor(r, k, pc) == Arrives(k) /\ calls[k].run = r /\ r # 0 /\ runs[r].pc = pc

\* setPeriod of init() ends; refresh() asks for the petitions.
PeriodAnswered(r, k) ==
  /\ WaitsFor(r, k, "period")
  /\ SetPeriod(calls[k].pre, Answer(k).period)
  /\ runs' = [runs EXCEPT ![r].pc = "list"]
  /\ calls' = Append(RemoveAt(calls, k), Call(r))
  /\ UNCHANGED <<now, onChain, signed, failures>>

\* The petitions of the registry are read; the provider is asked for each.
PetitionsAnswered(r, k) ==
  /\ WaitsFor(r, k, "list")
  /\ runs' = [runs EXCEPT ![r].pc = "flags", ![r].listed = Answer(k).count]
  /\ calls' = Append(RemoveAt(calls, k), Call(r))
  /\ UNCHANGED <<now, onChain, signed, app, page, repository, fetches, failures, past>>

\* signable() of the provider: the naive one asks the petition.
ProviderSignable(i, k) == i \notin Answer(k).signed

\* The list replaces the last one, whichever refresh() began first, and the
\* dates of the petitions' periods are known; the timers are started, with
\* setPeriod.
SignableAnswered(r, k) ==
  LET listed == 1 .. runs[r].listed IN
    /\ WaitsFor(r, k, "flags")
    /\ repository' = [repository EXCEPT !.signable = [i \in listed |-> ProviderSignable(i, k)],
                                        !.cached = @ \cup {onChain[i] : i \in listed}]
    /\ runs' = [runs EXCEPT ![r].pc = "timers"]
    /\ past' = [past EXCEPT !.told = @ \cup {i \in listed : ~ ProviderSignable(i, k)}]
    /\ calls' = Append(RemoveAt(calls, k), Call(r))
    /\ UNCHANGED <<now, onChain, signed, app, page, fetches, failures>>

\* The end of startPeriodRefreshInterval, which waits for the dates of the
\* period, and of init.
TimersAnswered(r, k) ==
  LET period == Answer(k).period
      cached == repository.cached \cup {period} IN
    /\ WaitsFor(r, k, "timers")
    /\ repository' = [repository EXCEPT !.period = period, !.cached = cached, !.timers = TRUE]
    /\ Missed(calls[k].pre, period)
    /\ Told(LockReleased(Notified(calls[k].pre, period)), cached, fetches)
    /\ runs' = [runs EXCEPT ![r] = IdleRun]
    /\ calls' = RemoveAt(calls, k)
    /\ UNCHANGED <<now, onChain, signed, failures>>

RunAnswered(r, k) ==
  \/ PeriodAnswered(r, k)
  \/ PetitionsAnswered(r, k)
  \/ SignableAnswered(r, k)
  \/ TimersAnswered(r, k)

\* A call fails.  Nothing catches it: init() does not go on, and the overlay
\* is not taken away; a timer's call leaves no trace.
CallFails(k) ==
  /\ Arrives(k) /\ failures < MaxFailures
  /\ failures' = failures + 1
  /\ calls' = RemoveAt(calls, k)
  /\ runs' = [r \in Runs |-> IF r = calls[k].run THEN [IdleRun EXCEPT !.pc = "failed"] ELSE runs[r]]
  /\ UNCHANGED <<now, onChain, signed, app, page, repository, fetches, past>>

\* The dates of a period are not obtained.
FetchFails(f) ==
  /\ failures < MaxFailures
  /\ failures' = failures + 1
  /\ fetches' = fetches \ {f}
  /\ UNCHANGED <<now, onChain, signed, app, page, repository, runs, calls, past>>

-----------------------------------------------------------------------------
(* The voter on the main page *)

\* The page can be clicked on.
Clickable == ~ app.locked

RefreshClick(r) ==
  /\ Clickable /\ Free(r)
  /\ BeginInit(r)
  /\ UNCHANGED <<now, onChain, signed, repository, failures, past>>

\* The arrows and the clock of the period widget.
ChoosePeriod ==
  /\ Clickable
  /\ \/ \E p \in {app.period - 1, app.period + 1} \cap Periods :
          SetState([app EXCEPT !.period = p, !.customPeriod = TRUE])
     \/ SetState([app EXCEPT !.period = repository.period, !.customPeriod = FALSE])
  /\ UNCHANGED <<now, onChain, signed, repository, runs, calls, failures, past>>

\* The clock of the page says that the petition's period is running.
isNow(i) == onChain[i] = now

\* The petition is shown, not known to be signed, and time-signable.
Signable(i) ==
  /\ i \in DOMAIN page.list
  /\ onChain[i] = app.period /\ page.list[i] /\ isNow(i)

SignClick(r, i) ==
  /\ Clickable /\ Free(r)
  /\ Signable(i)
  /\ runs' = [runs EXCEPT ![r] = [IdleRun EXCEPT !.pc = "sign", !.petition = i]]
  /\ UNCHANGED <<now, onChain, signed, app, page, repository, calls, fetches, failures, past>>

\* Faulty variant: the list is not refreshed after a signature.
NotRefreshed(r) ==
  /\ runs' = [runs EXCEPT ![r] = IdleRun]
  /\ UNCHANGED <<app, page, calls, fetches>>

AfterSign(r) == BeginInit(r)

\* The transaction is mined, or it fails or is refused by the voter; either
\* way init() follows.
SignEnds(r) ==
  /\ runs[r].pc = "sign"
  /\ \/ /\ onChain[runs[r].petition] = now
        /\ signed' = signed \cup {runs[r].petition}
     \/ UNCHANGED signed
  /\ AfterSign(r)
  /\ UNCHANGED <<now, onChain, repository, failures, past>>

\* The new petition is to belong to the period that is shown.
CreateClick(r) ==
  /\ Clickable /\ Free(r)
  /\ SetState(Covered)
  /\ runs' = [runs EXCEPT ![r] = [IdleRun EXCEPT !.pc = "create", !.petition = app.period]]
  /\ UNCHANGED <<now, onChain, signed, repository, calls, failures, past>>

\* The overlay is taken away and, in the same breath, put up by init().
CreateEnds(r) ==
  /\ runs[r].pc = "create"
  /\ \/ /\ runs[r].petition >= now /\ Len(onChain) < MaxPetitions
        /\ onChain' = Append(onChain, runs[r].petition)
     \/ UNCHANGED onChain
  /\ BeginInit(r)
  /\ UNCHANGED <<now, signed, repository, failures, past>>

-----------------------------------------------------------------------------

PeriodEnds ==
  /\ now < MaxPeriod
  /\ now' = now + 1
  /\ UNCHANGED <<onChain, signed, app, page, repository, runs, calls, fetches, failures, past>>

Answered ==
  \E k \in DOMAIN calls : TickAnswered(k) \/ \E r \in Runs : RunAnswered(r, k)

Fetched == \E f \in fetches : DatesArrive(f[1], f[2])

Fails ==
  \/ \E k \in DOMAIN calls : CallFails(k)
  \/ \E f \in fetches : FetchFails(f)

Clicks ==
  \/ \E r \in Runs :
       \/ RefreshClick(r)
       \/ \E i \in DOMAIN onChain : SignClick(r, i)
       \/ CreateClick(r)
  \/ ChoosePeriod

ClientStateNext ==
  \/ Tick
  \/ Execute
  \/ Answered
  \/ Fetched
  \/ Fails
  \/ Clicks
  \/ \E r \in Runs : SignEnds(r) \/ CreateEnds(r)
  \/ PeriodEnds

ClientStateSpec == ClientStateInit /\ [][ClientStateNext]_clientVars

\* Timers fire, calls are executed and answered, and transactions end.
ClientStateFairSpec ==
  /\ ClientStateSpec
  /\ WF_clientVars(Tick)
  /\ WF_clientVars(Execute)
  /\ WF_clientVars(Answered)
  /\ \A r \in Runs : WF_clientVars(SignEnds(r) \/ CreateEnds(r))

-----------------------------------------------------------------------------
(* Properties *)

\* The types of the variables.
ClientStateTypeOK ==
  /\ now \in Periods /\ onChain \in Seq(Periods) /\ signed \subseteq DOMAIN onChain
  /\ app \in [period : Periods \cup {Unknown}, customPeriod : BOOLEAN, locked : BOOLEAN]
  /\ page.list \in Seq(BOOLEAN) /\ page.dates \in Periods \cup {Unknown}
  /\ repository.period \in Periods \cup {Unknown} /\ repository.cached \subseteq Periods
  /\ repository.signable \in Seq(BOOLEAN)
  /\ fetches \subseteq {"widget", "repository"} \X Periods
  /\ failures \in 0 .. MaxFailures
  /\ \A r \in Runs :
       /\ runs[r].pc \in {"idle", "sign", "create", "period", "list", "flags", "timers", "failed"}
       /\ runs[r].pc \in {"period", "list", "flags", "timers"}
            <=> \E k \in DOMAIN calls : calls[k].run = r

\* The overlay is never left behind without a failure: as long as it covers
\* the page something is under way that will take it away, or an init() ended
\* at a call that failed, though several refreshes and transactions each put
\* it up and take it away, and calls of timers fail (init, verifyClick,
\* signPetition).
OverlayHasReason ==
  app.locked => \E r \in Runs : runs[r].pc \notin {"idle", "sign"}

\* When nothing is under way and no refresh has failed, the page shows the list
\* obtained last, and a petition that the voter has signed is on offer there only
\* if an earlier list told that it is signed and an older answer replaced that
\* list: whatever refreshes and replies overlap with a signature, the refresh
\* after it is never left out, nor what it found (signPetition, refresh).
SignedNotOffered ==
  (\A r \in Runs : runs[r].pc = "idle") =>
    /\ page.list = repository.signable
    /\ \A i \in signed \cap DOMAIN page.list : page.list[i] => i \in past.told

\* The dates shown are those of the period shown when no dates are awaited and
\* none failed to arrive, in whatever order those of several periods arrived
\* (PeriodWidget.stateChanged).
DatesFitPeriod ==
  (failures = 0 /\ \A f \in fetches : f[1] # "widget") => page.dates = app.period

\* When periods stop changing, the period shown is finally the running one,
\* unless the voter chose another, and whatever replies overtake each other and
\* calls fail.  The one exception is a reply with this period that was missed:
\* it was the period remembered when the call was sent, and then the reply to an
\* older call replaced what is remembered and shown (setPeriod, with the timers
\* of startPeriodRefreshInterval).
PeriodCatchesUp ==
  \A p \in Periods :
    (<>[](now = p /\ repository.timers /\ p \notin past.missed)) =>
      []<>(app.customPeriod \/ app.period = p)

=============================================================================
