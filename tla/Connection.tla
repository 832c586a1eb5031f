----------------------------- MODULE Connection -----------------------------
(***************************************************************************)
(* How the client gets from the choice of a registry to the main page:     *)
(* attempts to connect through the wallet (client/src/web3.ts, setup.ts),  *)
(* the shared state each connector puts itself into, with a repository and *)
(* an identity provider of its own, the identity that is entered before or *)
(* after the provider's URL is known (client/src/idp.ts), and the provider *)
(* and key manager that are made when all is there (layoutWidgets.ts).     *)
(*                                                                         *)
(* An attempt that is refused or fails is not forgotten: its object is     *)
(* told of every change of the accounts for as long as the page lives.     *)
(* Whether the wallet counts as connected before it gave access to an      *)
(* account is up to the wallet.                                            *)
(*                                                                         *)
(* JavaScript runs to the next call that leaves the page.  A repository    *)
(* and an IDPManager are made together and have a number in common.        *)
(***************************************************************************)
EXTENDS Naturals, Sequences

CONSTANTS
  MaxClicks,    \* bound on attempts to connect
  Names,        \* what is entered as an identity
  Nil,
  MaxManagers,  \* bound on the managers made
  MaxChanges,   \* bound on changes of the wallet's access
  MaxFailures   \* bound on calls to the node that fail

ASSUME ConnectionAssumption ==
  MaxClicks \in Nat /\ Nil \notin Names /\ Nil \notin Nat

VARIABLES
  attempts,  \* the WalletConnectors
  access,    \* whether the wallet gives access to an account
  toTell,    \* the WalletConnectors that remain to be told of it
  managers,  \* the IDPManagers, and the repositories made with them
  page,      \* the shared state
  changes,   \* changes of the access so far
  failures   \* failed calls so far

connectionVars == <<attempts, access, toTell, managers, page, changes, failures>>

Clicks == 1 .. MaxClicks

ConnectionInit ==
  /\ attempts = [w \in Clicks |-> [pc |-> "none", popup |-> FALSE, accounts |-> FALSE,
                                   connected |-> FALSE]]
  /\ access = FALSE
  /\ toTell = << >>
  /\ managers = << >>
  /\ page = [connector |-> Nil, identity |-> Nil, idp |-> Nil, repository |-> Nil,
             keymanager |-> Nil, opened |-> Nil, ready |-> FALSE]
  /\ changes = 0
  /\ failures = 0

CallFails == failures < MaxFailures /\ failures' = failures + 1

-----------------------------------------------------------------------------
(* What setState sets off *)

\* The identity is known to the provider's manager, and to nobody else.
IdentityKnown(p, ms) ==
  p.identity # Nil /\ p.idp # Nil /\ ms[p.idp].pc = "known"

NeedsProvider(p) == p.keymanager = Nil

\* PetitionApp makes provider and key manager, and opens the repository.
AppChanged(p, ms, as) ==
  IF /\ p.connector # Nil /\ as[p.connector].connected
     /\ IdentityKnown(p, ms) /\ NeedsProvider(p)
  THEN [p EXCEPT !.keymanager = p.idp, !.opened = p.repository]
  ELSE p

\* Each IDPManager that does not have the identity takes it, and computes an
\* id from it.
ManagersChanged(p, ms) ==
  [m \in DOMAIN ms |->
     IF /\ p.identity # Nil /\ ms[m].pc \notin {"url", "lost"}
        /\ ms[m].identity # p.identity
     THEN [ms[m] EXCEPT !.identity = p.identity, !.pc = "digest"]
     ELSE ms[m]]

\* Faulty variant: only the app learns of it.
OnlyAppTold(p, ms, as) ==
  /\ page' = AppChanged(p, ms, as)
  /\ managers' = ms
  /\ attempts' = as

SetState(p, ms, as) ==
  /\ page' = AppChanged(p, ms, as)
  /\ managers' = ManagersChanged(p, ms)
  /\ attempts' = as

-----------------------------------------------------------------------------
(* WalletConnector *)

NewConnection(w, as) == as[w].connected /\ page.connector # w

\* The provider's URL is asked for; whether there is an identity is looked up
\* before.
UpdateState(w, as) ==
  IF NewConnection(w, as)
  THEN /\ Len(managers) < MaxManagers
       /\ SetState([page EXCEPT !.connector = w],
                   Append(managers, [owner |-> w, pc |-> "url", wanted |-> page.identity,
                                     identity |-> Nil]),
                   as)
  ELSE /\ attempts' = as
       /\ UNCHANGED <<page, managers>>

HasConnector(w) == attempts[w].pc = "ready"

\* Faulty variant: whoever has accounts is connected.
ConnectedByAccounts(w) == access /\ attempts[w].pc # "none"

Connected(w) == access /\ HasConnector(w)

\* onAccountsChange, of one attempt after the other.
Tell ==
  /\ toTell # << >>
  /\ LET w == Head(toTell) IN
       UpdateState(w, [attempts EXCEPT ![w].accounts = access, ![w].connected = Connected(w)])
  /\ toTell' = Tail(toTell)
  /\ UNCHANGED <<access, changes, failures>>

\* The attempts so far, numbered in the order in which they were made.
Attempts == [w \in {v \in Clicks : attempts[v].pc # "none"} |-> w]

\* A connection is chosen as long as none is there, also while another attempt
\* is under way.  From the second attempt on, a wallet that counts as connected
\* is not waited for.
ConnectClick ==
  /\ page.connector = Nil
  /\ Len(Attempts) < MaxClicks
  /\ LET w == Len(Attempts) + 1 IN
       \E pc \in IF w = 1 THEN {"popup"} ELSE {"popup", "setup"} :
         attempts' = [attempts EXCEPT ![w].pc = pc, ![w].popup = TRUE]
  /\ UNCHANGED <<access, toTell, managers, page, changes, failures>>

Approve(w) ==
  /\ attempts[w].popup
  /\ access' = TRUE
  /\ attempts' = [attempts EXCEPT ![w].popup = FALSE,
                                  ![w].pc = IF @ = "popup" THEN "setup" ELSE @]
  /\ toTell' = Attempts
  /\ UNCHANGED <<managers, page, changes, failures>>

\* The promise is rejected, unless it was resolved before.
Refuse(w) ==
  /\ attempts[w].popup
  /\ attempts' = [attempts EXCEPT ![w].popup = FALSE,
                                  ![w].pc = IF @ = "popup" THEN "failed" ELSE @]
  /\ UNCHANGED <<access, toTell, managers, page, changes, failures>>

\* getWeb3Connector and init() of the connector.
SetUp(w) ==
  /\ attempts[w].pc = "setup"
  /\ \/ /\ UpdateState(w, [attempts EXCEPT ![w].pc = "ready", ![w].connected = TRUE])
        /\ UNCHANGED failures
     \/ /\ CallFails
        /\ attempts' = [attempts EXCEPT ![w].pc = "failed"]
        /\ UNCHANGED <<managers, page>>
  /\ UNCHANGED <<access, toTell, changes>>

\* The voter gives or withdraws access in the wallet; each attempt has added
\* a listener that tells them all.
AccessChanges ==
  /\ changes < MaxChanges
  /\ Attempts # << >>
  /\ access' = ~ access
  /\ changes' = changes + 1
  /\ toTell' = [k \in 1 .. Len(Attempts) * Len(Attempts) |->
                  Attempts[1 + ((k - 1) % Len(Attempts))]]
  /\ UNCHANGED <<attempts, managers, page, failures>>

-----------------------------------------------------------------------------
(* IDPManager *)

Install(p, m) == [p EXCEPT !.repository = m, !.idp = m]

\* The manager is made; an identity that was there before is set before the
\* manager is put into the state.
UrlArrives(m) ==
  /\ managers[m].pc = "url"
  /\ \/ /\ IF managers[m].wanted = Nil
           THEN SetState(Install(page, m), [managers EXCEPT ![m].pc = "anonymous"], attempts)
           ELSE /\ managers' = [managers EXCEPT ![m].identity = managers[m].wanted,
                                                ![m].pc = "digest"]
                /\ UNCHANGED <<page, attempts>>
        /\ UNCHANGED failures
     \/ /\ CallFails
        /\ managers' = [managers EXCEPT ![m].pc = "lost"]
        /\ UNCHANGED <<page, attempts>>
  /\ UNCHANGED <<access, toTell, changes>>

\* set_identity ends: the id is known, under which credentials are stored.
DigestEnds(m) ==
  /\ managers[m].pc = "digest"
  /\ LET p == IF managers[m].wanted # Nil THEN Install(page, m) ELSE page IN
       SetState(p, [managers EXCEPT ![m].pc = "known", ![m].wanted = Nil], attempts)
  /\ UNCHANGED <<access, toTell, changes, failures>>

-----------------------------------------------------------------------------
(* The voter, and the repository *)

\* The page that asks for it is shown until the main page is; nobody is fast
\* enough to click twice within a digest.
EnterIdentity ==
  /\ page.connector # Nil /\ page.keymanager = Nil
  /\ \A m \in DOMAIN managers : managers[m].pc # "digest"
  /\ \E name \in Names : SetState([page EXCEPT !.identity = name], managers, attempts)
  /\ UNCHANGED <<access, toTell, changes, failures>>

\* init() of the repository that was opened ends.
RepositoryReady ==
  /\ page.opened # Nil /\ ~ page.ready
  /\ page' = [page EXCEPT !.ready = TRUE]
  /\ UNCHANGED <<attempts, access, toTell, managers, changes, failures>>

-----------------------------------------------------------------------------

\* Those who listen are told before anything else happens.
Quiet == toTell = << >>

ConnectionNext ==
  \/ Tell
  \/ Quiet /\ ConnectClick
  \/ Quiet /\ \E w \in Clicks : Approve(w) \/ Refuse(w) \/ SetUp(w)
  \/ Quiet /\ AccessChanges
  \/ Quiet /\ \E m \in DOMAIN managers : UrlArrives(m) \/ DigestEnds(m)
  \/ Quiet /\ EnterIdentity
  \/ Quiet /\ RepositoryReady

ConnectionSpec == ConnectionInit /\ [][ConnectionNext]_connectionVars

\* Calls are answered, and a voter who sees the page for it keeps entering an
\* identity.
ConnectionFairSpec ==
  /\ ConnectionSpec
  /\ WF_connectionVars(Tell)
  /\ \A w \in Clicks : WF_connectionVars(Quiet /\ SetUp(w))
  /\ WF_connectionVars(Quiet /\ \E m \in DOMAIN managers : UrlArrives(m) \/ DigestEnds(m))
  /\ WF_connectionVars(Quiet /\ EnterIdentity)
  /\ WF_connectionVars(Quiet /\ RepositoryReady)

-----------------------------------------------------------------------------
(* Properties *)

\* The types of the variables.
ConnectionTypeOK ==
  /\ \A w \in Clicks : attempts[w].pc \in {"none", "popup", "setup", "ready", "failed"}
  /\ access \in BOOLEAN
  /\ \A k \in DOMAIN toTell : toTell[k] \in Clicks
  /\ \A m \in DOMAIN managers :
       /\ managers[m].owner \in Clicks
       /\ managers[m].pc \in {"url", "lost", "anonymous", "digest", "known"}
       /\ {managers[m].identity, managers[m].wanted} \subseteq Names \cup {Nil}
  /\ page.connector \in Clicks \cup {Nil}
  /\ {page.idp, page.repository, page.keymanager, page.opened}
       \subseteq DOMAIN managers \cup {Nil}

\* What the main page puts together belongs together, whatever was refused,
\* failed, retried or withdrawn before: credentials are those of the provider
\* whose repository was opened and of the identity that was entered, and the
\* repository shown is that of the identity provider shown.  These are those of
\* the connector that signs too, unless two attempts that overlapped were both
\* set up: the later one replaces all but the key manager, and the connector
\* before the rest (updateState, onAccountsChange, set_identity,
\* PetitionApp.stateChanged).
ConnectionFits ==
  page.keymanager # Nil =>
    /\ page.opened = page.keymanager /\ page.repository = page.idp
    /\ managers[page.keymanager].identity = page.identity
    /\ HasConnector(page.connector)
    /\ (\A w \in Clicks \ {page.connector} : ~ HasConnector(w)) =>
         /\ page.keymanager = page.idp
         /\ managers[page.idp].owner = page.connector

\* A voter who enters an identity gets to the main page, be it before or after
\* the URL is known, and though access may be withdrawn and given again, if the
\* connector finally stays connected and the call for the URL did not fail.
AppGetsReady ==
  /\ <>[](page.connector # Nil /\ attempts[page.connector].connected)
  /\ [](\A m \in DOMAIN managers : managers[m].pc # "lost")
  => <>(page.ready)

=============================================================================
