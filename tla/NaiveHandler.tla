---------------------------- MODULE NaiveHandler ----------------------------
(***************************************************************************)
(* The identity provider's server in the naive mode: class                 *)
(* NaiveProofHandler (idp/src/proof.ts) with its interval task, the        *)
(* submission of a voting right (shared/web3.ts, submitHash), the database *)
(* and the contracts of NaiveVoting, with the accounts that create and     *)
(* sign petitions.  A failing submission is caught and the next account    *)
(* tried; the account is selected again by the next run.                   *)
(*                                                                         *)
(* The server uses one account, Server, which the contract is deployed     *)
(* with as its operator and which may lose this role.                      *)
(***************************************************************************)
EXTENDS RowRegistration, NaiveVoting

CONSTANTS
  Keys,        \* accounts as clients write them: hex digits of either case
  Address,     \* the account that web3 reads, or None: a checksum is wrong
  Server,      \* the account of the server
  MaxCrashes   \* bound on kills of the process

ASSUME ServerAssumption == Server \in Accounts

ASSUME AddressAssumption == Address \in [Keys -> Accounts \cup {None}] /\ None \notin Accounts

VARIABLES
  task,       \* the run of interval_task
  inflight,   \* transaction sent and not mined: the account has one nonce
  crashes

naiveServerVars == <<rowVars, naiveVars, task, inflight, crashes>>

IdleTask == [pc |-> "idle", period |-> 0, todo |-> {}, pubkey |-> None]

\* The lock is taken when a run starts and released by its finally clause.
interval_lock == task.pc # "idle"

NaiveServerInit ==
  /\ RowsInit
  /\ NaiveInit /\ operator = Server
  /\ task = IdleTask
  /\ inflight = None
  /\ crashes = 0

-----------------------------------------------------------------------------
(* POST /register *)

\* Any hex digits of an account's length are accepted, and stored as they are.
NaiveArrive(r, identity, pubkey, period) ==
  /\ period \in now .. now + 2
  /\ Arrive(r, [identity |-> identity, pubkey |-> pubkey, period |-> period])

NaiveRegister(r) ==
  /\ \/ \E identity \in Identities, pubkey \in Keys, period \in Periods :
          NaiveArrive(r, identity, pubkey, period)
     \/ Check(r)
     \/ InsertPubkey(r)
     \/ InsertTreeRow(r)
     \/ InsertProofRow(r)
  /\ UNCHANGED <<naiveVars, task, inflight, crashes>>

-----------------------------------------------------------------------------
(* interval_task *)

StartTask ==
  /\ ~ interval_lock
  /\ task' = [task EXCEPT !.pc = "query", !.period = now]
  /\ UNCHANGED <<rowVars, naiveVars, inflight, crashes>>

SelectAccounts ==
  /\ task.pc = "query"
  /\ task' = [task EXCEPT !.pc = "submit", !.todo = TreesToInclude(task.period)]
  /\ UNCHANGED <<rowVars, naiveVars, inflight, crashes>>

\* web3 reads an account and the gas estimate succeeds.
CanSend(pubkey) == Address[pubkey] # None /\ CanSubmitVotingRight(Server, task.period)

\* The transaction is sent, with the nonce of one that is still pending from
\* before a restart, if any.
Submit(pubkey) ==
  /\ task.pc = "submit" /\ pubkey \in task.todo
  /\ CanSend(pubkey)
  /\ inflight' = [account |-> Address[pubkey], period |-> task.period]
  /\ task' = [task EXCEPT !.pc = "mining", !.pubkey = pubkey]
  /\ UNCHANGED <<rowVars, naiveVars, crashes>>

\* Faulty variant: an account is tried until the end of time.
SameAccountAgain(pubkey) == [task EXCEPT !.pc = "submit", !.pubkey = None]

NextAccount(pubkey) == [task EXCEPT !.pc = "submit", !.pubkey = None, !.todo = @ \ {pubkey}]

\* web3 throws before anything is sent.
SubmitFails(pubkey) ==
  /\ task.pc = "submit" /\ pubkey \in task.todo
  /\ ~ CanSend(pubkey)
  /\ task' = NextAccount(pubkey)
  /\ UNCHANGED <<rowVars, naiveVars, inflight, crashes>>

\* The run that waits for the transaction in flight.
Waits == task.pc = "mining" /\ Address[task.pubkey] = inflight.account

Mine ==
  /\ inflight # None
  /\ SubmitVotingRight(Server, inflight.account, inflight.period)
  /\ inflight' = None
  /\ task' = IF Waits THEN [task EXCEPT !.pc = "update"] ELSE task
  /\ UNCHANGED <<rowVars, crashes>>

\* Faulty variant: a transaction that was mined and failed is taken for done.
RevertedIsDone(pubkey) == [task EXCEPT !.pc = "update"]

AfterRevert(pubkey) == NextAccount(pubkey)

Revert ==
  /\ inflight # None
  /\ ~ CanSubmitVotingRight(Server, inflight.period)
  /\ inflight' = None
  /\ task' = IF Waits THEN AfterRevert(task.pubkey) ELSE task
  /\ UNCHANGED <<rowVars, naiveVars, crashes>>

RecordSubmission ==
  /\ task.pc = "update"
  /\ UpdateTreeWithIteration(task.pubkey, 1)
  /\ task' = NextAccount(task.pubkey)
  /\ UNCHANGED <<idp_pubkeys, idp_pubkey_in_tree, requests, raced, naiveVars, inflight,
                 crashes>>

EndTask ==
  /\ task.pc = "submit" /\ task.todo = {}
  /\ task' = IdleTask
  /\ UNCHANGED <<rowVars, naiveVars, inflight, crashes>>

\* A kill and the restart.  The transaction in flight may be mined later or
\* never.
Crash ==
  /\ crashes < MaxCrashes
  /\ crashes' = crashes + 1
  /\ RequestsLost
  /\ task' = IdleTask
  /\ inflight' \in {inflight, None}
  /\ UNCHANGED <<databaseVars, naiveVars>>

-----------------------------------------------------------------------------

TaskStep ==
  \/ StartTask
  \/ SelectAccounts
  \/ \E pubkey \in Keys : Submit(pubkey) \/ SubmitFails(pubkey)
  \/ RecordSubmission
  \/ EndTask

\* What others than the server do at the contracts.
AtContracts ==
  /\ \/ NaiveNewPeriod
     \/ \E newOperator \in Accounts : NaiveChangeOperator(operator, newOperator)
     \/ \E name \in Names, p \in 0 .. MaxPeriod : NaiveCreatePetition(name, p)
     \/ \E sender \in Accounts, i \in DOMAIN petitions : NaiveSign(sender, i)
  /\ UNCHANGED <<rowVars, task, inflight, crashes>>

NaiveServerNext ==
  \/ \E r \in Tokens : NaiveRegister(r)
  \/ TaskStep
  \/ Mine
  \/ Revert
  \/ Crash
  \/ AtContracts

NaiveServerSpec == NaiveServerInit /\ [][NaiveServerNext]_naiveServerVars

\* The interval timer fires again and again and the runs proceed; what is
\* sent is mined or reverts.
NaiveServerFairSpec ==
  /\ NaiveServerSpec
  /\ WF_naiveServerVars(TaskStep)
  /\ WF_naiveServerVars(Mine \/ Revert)

-----------------------------------------------------------------------------
(* Properties *)

Registrations == [pubkey : Keys, identity : Identities, period : Periods]

TaskRecords ==
  [pc     : {"idle", "query", "submit", "mining", "update"},
   period : 0 .. MaxPeriod,
   todo   : SUBSET Keys,
   pubkey : Keys \cup {None}]

\* The types of the variables.
NaiveServerTypeOK ==
  /\ NaiveTypeOK
  /\ idp_pubkeys \subseteq
       [pubkey : Keys, identity : Identities, period : Periods, token : Tokens]
  /\ idp_tree_hashes \subseteq [hash : Keys, iteration : {NULL, 1}, period : Periods]
  /\ idp_pubkey_in_tree \subseteq [hash : Keys, pubkey : Keys]
  /\ requests \in [Tokens ->
       [state : {"new", "check", "pubkey", "tree", "proof", "accepted", "rejected", "lost"},
        reg   : Registrations \cup {None}]]
  /\ \A r \in Open : requests[r].reg \in Registrations
  /\ raced \subseteq SUBSET Tokens
  /\ task \in TaskRecords
  /\ inflight \in [account : Accounts, period : Periods] \cup {None}
  /\ crashes \in Nat

\* Who is told by /proof that the right to vote was entered finds it entered
\* at the contract, for the period of the answer (the order of submitHash and
\* updateTreeWithIteration, with kills and changes of the period between).
ServedAreAuthorized ==
  \A token \in Tokens : \A info \in ProofInfo(token) :
    ValidateAuthorized(Address[info.pubkey], info.period)

\* Only registered accounts get the right to vote, and however requests
\* interleave between the check and the INSERTs, two rows of an identity for a
\* period are of requests that raced each other.  An account has a right for
\* another period than its row's only if its request raced or the process was
\* killed between two INSERTs (register, isRegistered, interval_task).
RightsAreRegistered ==
  /\ \A right \in authorized : \E row \in idp_pubkeys :
       /\ Address[row.pubkey] = right[1]
       /\ \/ row.period = right[2]
          \/ \E pair \in raced : row.token \in pair
          \/ crashes > 0
  /\ \A p, q \in idp_pubkeys :
       p.identity = q.identity /\ p.period = q.period
         => p = q \/ {p.token, q.token} \in raced

\* An account whose tree row waits for the running period finally gets its
\* right, unless the period ends first or the server is no longer the operator,
\* even if the process is killed in between, and whatever keys that web3 refuses
\* wait with it (interval_task selects by the missing iteration and has no early
\* return).
WaitingAreAuthorized ==
  \A pubkey \in {k \in Keys : Address[k] # None} :
    [hash |-> pubkey, iteration |-> NULL, period |-> now] \in idp_tree_hashes
      ~> \/ \E p \in Periods : ValidateAuthorized(Address[pubkey], p)
         \/ \A row \in idp_tree_hashes : row.hash = pubkey => row.period < now
         \/ operator # Server

=============================================================================
