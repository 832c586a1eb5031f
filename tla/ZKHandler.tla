----------------------------- MODULE ZKHandler -----------------------------
(***************************************************************************)
(* The identity provider's server in the zero-knowledge mode: the handler  *)
(* of POST /register (idp/src/main.ts), class ZKProofHandler               *)
(* (idp/src/proof.ts) with its interval task, the submission of a root     *)
(* (shared/web3.ts, submitHash_zk), the database and the ZKIDP contract.   *)
(*                                                                         *)
(* The server is one JavaScript thread: what runs between two awaits is    *)
(* one step.  An exception of the interval task is not caught, and Node    *)
(* ends the process; the same step models a kill.  The database survives,  *)
(* and the process is started again.                                       *)
(*                                                                         *)
(* The server's account is the operator of the contract throughout.        *)
(***************************************************************************)
EXTENDS ZKIDP, IDPDatabase

CONSTANTS
  Identities,   \* what the identity check identifies people by
  Keys,         \* public keys as clients send them: hex digits of either case
  Lower,        \* the lower case of a key, which toHex() of its hash returns
  CAP,          \* leaves of a tree: 2^depth of the contract
  None,         \* no transaction, no registration
  MaxRequests,  \* bound on registration requests
  MaxOpen,      \* bound on registration requests handled at the same time
  MaxTrees,     \* bound on trees built
  MaxCrashes    \* bound on restarts before which the process may be killed

\* A root stands for its tree: how many of its leaves a key is, and what the
\* free leaves were filled with.  Fillings are random and never repeat; a tree
\* without free leaves has the filling 0, unless its leaves are in another
\* order than those of an earlier one.
TreeRoots == [leaves : [Keys -> 0 .. CAP], fill : 0 .. MaxTrees]

ASSUME KeysAssumption ==
  /\ IsFiniteSet(Keys)
  /\ Lower \in [Keys -> Keys]
  /\ \A k \in Keys : Lower[Lower[k]] = Lower[k]
ASSUME CapAssumption == CAP \in Nat \ {0}
ASSUME TreeRootsAssumption == Roots = TreeRoots

VARIABLES
  requests,       \* registration requests, by their token
  raced,          \* what the program does not keep: sets of two requests of one
                  \* identity, of which one arrived while the other was handled
  interval_lock,
  tasks,          \* runs of interval_task
  inflight,       \* transaction sent and not mined: the account has one nonce
  treesBuilt,
  restarts

handlerVars == <<requests, raced, interval_lock, tasks, inflight, treesBuilt, restarts>>
serverVars == <<zkidpVars, databaseVars, handlerVars>>

Tokens == 1 .. MaxRequests

ASSUME BoundsAssumption == MaxRequests \in Nat /\ MaxTrees \in Nat

\* A second run finds the lock taken, unless the lock fails.
TaskIds == 1 .. 2

IdleTask == [pc |-> "idle", period |-> 0, keys |-> {}, hash |-> NoRoot,
             todo |-> {}, events |-> {}]

HandlerInit ==
  /\ requests = [r \in Tokens |-> [state |-> "new", reg |-> None]]
  /\ raced = {}
  /\ interval_lock = FALSE
  /\ tasks = [t \in TaskIds |-> IdleTask]
  /\ inflight = None
  /\ treesBuilt = 0
  /\ restarts = 0

ServerInit == ZKIDPInit /\ DatabaseInit /\ HandlerInit

-----------------------------------------------------------------------------
(* POST /register *)

Open == {r \in Tokens : requests[r].state \in {"check", "insert"}}

\* Open requests that a registration races.
Rivals(reg) == {q \in Open : requests[q].reg.identity = reg.identity}

\* The period is read from the contract and the registration checked against
\* it; invalid requests are answered with 400 and change nothing.  Requests
\* get tokens in the order of their arrival.
ArriveRegistration(r, identity, pubkey, period) ==
  /\ requests[r].state = "new"
  /\ \A q \in 1 .. r - 1 : requests[q].state # "new"
  /\ Cardinality(Open) < MaxOpen
  /\ period \in now .. now + 2
  /\ requests' = [requests EXCEPT ![r] =
       [state |-> "check",
        reg   |-> [pubkey |-> pubkey, identity |-> identity, period |-> period]]]
  /\ raced' = raced \cup {{q, r} : q \in Rivals(requests'[r].reg)}
  /\ UNCHANGED <<zkidpVars, databaseVars, interval_lock, tasks, inflight,
                 treesBuilt, restarts>>

\* The answer of isRegistered: 405 for a known key or identity.
CheckRegistration(r) ==
  /\ requests[r].state = "check"
  /\ requests' = [requests EXCEPT ![r] =
                    IF IsRegistered(@.reg) THEN [state |-> "rejected", reg |-> None]
                                           ELSE [@ EXCEPT !.state = "insert"]]
  /\ UNCHANGED <<zkidpVars, databaseVars, raced, interval_lock, tasks, inflight,
                 treesBuilt, restarts>>

\* The row is inserted, or silently refused; the answer is 200 with the token.
InsertRegistration(r) ==
  /\ requests[r].state = "insert"
  /\ Register([pubkey   |-> requests[r].reg.pubkey,
               identity |-> requests[r].reg.identity,
               period   |-> requests[r].reg.period,
               token    |-> r])
  /\ requests' = [requests EXCEPT ![r] = [state |-> "accepted", reg |-> None]]
  /\ UNCHANGED <<zkidpVars, idp_tree_hashes, idp_pubkey_in_tree, raced, interval_lock,
                 tasks, inflight, treesBuilt, restarts>>

-----------------------------------------------------------------------------
(* interval_task *)

\* Faulty variant: a run starts whatever the lock says.
StartsAnyway == TRUE

MayStart == interval_lock = FALSE

\* The lock is taken and the period read.  A run that finds the lock taken
\* returns at once.
StartTask(t) ==
  /\ tasks[t].pc = "idle"
  /\ \A u \in 1 .. t - 1 : tasks[u].pc # "idle"
  /\ MayStart
  /\ interval_lock' = TRUE
  /\ tasks' = [tasks EXCEPT ![t].pc = "query", ![t].period = now]
  /\ UNCHANGED <<zkidpVars, databaseVars, requests, raced, inflight, treesBuilt, restarts>>

\* Faulty variant: the early return keeps the lock.
LockKept(t) ==
  /\ tasks[t].pc = "query"
  /\ PubkeysWithoutProof(tasks[t].period) = {}
  /\ tasks' = [tasks EXCEPT ![t] = IdleTask]
  /\ UNCHANGED <<zkidpVars, databaseVars, requests, raced, interval_lock, inflight, treesBuilt,
                 restarts>>

\* No key waits: the task ends, whatever trees wait for the blockchain.
NothingToDo(t) ==
  /\ tasks[t].pc = "query"
  /\ PubkeysWithoutProof(tasks[t].period) = {}
  /\ interval_lock' = FALSE
  /\ tasks' = [tasks EXCEPT ![t] = IdleTask]
  /\ UNCHANGED <<zkidpVars, databaseVars, requests, raced, inflight, treesBuilt, restarts>>

\* How many of the leaves are the hash that fromHex reads from a key of S.
LeavesOf(S) == [k \in Keys |-> Cardinality({s \in S : Lower[s] = k})]

\* The same keys in the same case are the same rows in the same order.
Fillings(S) ==
  {fill \in {0, treesBuilt + 1} :
     IF fill = 0 THEN Cardinality(S) = CAP
                 ELSE Cardinality(S) < CAP \/ \E k \in S : Lower[k] # k}

\* The keys are read, free leaves filled and the tree built.
BuildTree(t) ==
  /\ tasks[t].pc = "query"
  /\ PubkeysWithoutProof(tasks[t].period) # {}
  /\ treesBuilt < MaxTrees
  /\ treesBuilt' = treesBuilt + 1
  /\ \E S \in Limited(PubkeysWithoutProof(tasks[t].period), CAP) :
       \E fill \in Fillings(S) :
         tasks' = [tasks EXCEPT ![t].pc = "tree", ![t].keys = S,
                                ![t].hash = [leaves |-> LeavesOf(S), fill |-> fill]]
  /\ UNCHANGED <<zkidpVars, databaseVars, requests, raced, interval_lock, inflight, restarts>>

StoreTree(t) ==
  /\ tasks[t].pc = "tree"
  /\ InsertTree(tasks[t].hash, tasks[t].period)
  /\ tasks' = [tasks EXCEPT ![t].pc = "proofs"]
  /\ UNCHANGED <<zkidpVars, idp_pubkeys, idp_pubkey_in_tree, requests, raced, interval_lock,
                 inflight, treesBuilt, restarts>>

\* Proofs are stored under toHex() of the hashes, in lower case.
StoreProofs(t) ==
  /\ tasks[t].pc = "proofs"
  /\ InsertProofs(tasks[t].hash, {Lower[k] : k \in tasks[t].keys})
  /\ tasks' = [tasks EXCEPT ![t].pc = "select", ![t].keys = {}, ![t].hash = NoRoot]
  /\ UNCHANGED <<zkidpVars, idp_pubkeys, idp_tree_hashes, requests, raced, interval_lock,
                 inflight, treesBuilt, restarts>>

SelectTrees(t) ==
  /\ tasks[t].pc = "select"
  /\ tasks' = [tasks EXCEPT ![t].pc = "submit", ![t].todo = TreesToInclude(tasks[t].period)]
  /\ UNCHANGED <<zkidpVars, databaseVars, requests, raced, interval_lock, inflight, treesBuilt,
                 restarts>>

\* The gas estimate succeeds and the transaction is sent, with the nonce of
\* one that is still pending from before a restart, if any.
SendTree(t) ==
  /\ tasks[t].pc = "submit"
  /\ CanSubmitHash(operator, tasks[t].period)
  /\ \E hash \in tasks[t].todo :
       /\ inflight' = [hash |-> hash, period |-> tasks[t].period]
       /\ tasks' = [tasks EXCEPT ![t].pc = "mining", ![t].hash = hash]
  /\ UNCHANGED <<zkidpVars, databaseVars, requests, raced, interval_lock, treesBuilt, restarts>>

\* The run that waits for the transaction in flight.
Waits(t) == tasks[t].pc = "mining" /\ tasks[t].hash = inflight.hash

\* The transaction succeeds; the run that waits for it reads its event.
MineTree ==
  /\ inflight # None
  /\ SubmitHash(operator, inflight.hash, inflight.period)
  /\ inflight' = None
  /\ tasks' = [t \in TaskIds |->
       IF Waits(t)
       THEN [tasks[t] EXCEPT
               !.pc = "submit", !.hash = NoRoot, !.todo = @ \ {inflight.hash},
               !.events = @ \cup {Event(inflight.hash, inflight.period, pLastIteration')}]
       ELSE tasks[t]]
  /\ UNCHANGED <<databaseVars, requests, raced, interval_lock, treesBuilt, restarts>>

\* The transaction reverts: the period is over or the slots are used up.
RevertTree ==
  /\ inflight # None
  /\ ~ CanSubmitHash(operator, inflight.period)
  /\ inflight' = None
  /\ tasks' = [t \in TaskIds |->
       IF Waits(t) THEN [tasks[t] EXCEPT !.pc = "failed"] ELSE tasks[t]]
  /\ UNCHANGED <<zkidpVars, databaseVars, requests, raced, interval_lock, treesBuilt, restarts>>

\* Faulty variant: the iteration is read from the contract when it is stored.
IterationNow(event) == pLastIteration

IterationOf(event) == event.iteration

\* When all trees are submitted their iterations are stored, one by one.
RecordIteration(t) ==
  /\ tasks[t].pc = "submit" /\ tasks[t].todo = {}
  /\ \E event \in tasks[t].events :
       /\ UpdateTreeWithIteration(event.root, IterationOf(event))
       /\ tasks' = [tasks EXCEPT ![t].events = @ \ {event}]
  /\ UNCHANGED <<zkidpVars, idp_pubkeys, idp_pubkey_in_tree, requests, raced, interval_lock,
                 inflight, treesBuilt, restarts>>

EndTask(t) ==
  /\ tasks[t].pc = "submit" /\ tasks[t].todo = {} /\ tasks[t].events = {}
  /\ interval_lock' = FALSE
  /\ tasks' = [tasks EXCEPT ![t] = IdleTask]
  /\ UNCHANGED <<zkidpVars, databaseVars, requests, raced, inflight, treesBuilt, restarts>>

-----------------------------------------------------------------------------
(* The end of the process, and its restart *)

Restart ==
  /\ tasks' = [t \in TaskIds |-> IdleTask]
  /\ interval_lock' = FALSE
  /\ requests' = [r \in Tokens |->
       IF r \in Open THEN [state |-> "lost", reg |-> None] ELSE requests[r]]
  /\ restarts' = restarts + 1
  /\ UNCHANGED <<zkidpVars, databaseVars, raced, treesBuilt>>

\* The gas estimate or the transaction of a run fails: submitHash_zk throws.
Throw(t) ==
  /\ \/ tasks[t].pc = "failed"
     \/ /\ tasks[t].pc = "submit" /\ tasks[t].todo # {}
        /\ ~ CanSubmitHash(operator, tasks[t].period)
  /\ Restart
  /\ UNCHANGED inflight

\* A kill, or a failing call to the node.  The transaction in flight may be
\* mined later or never.
Crash ==
  /\ restarts < MaxCrashes
  /\ Restart
  /\ inflight' \in {inflight, None}

-----------------------------------------------------------------------------

TaskStep(t) ==
  \/ StartTask(t)
  \/ NothingToDo(t)
  \/ BuildTree(t)
  \/ StoreTree(t)
  \/ StoreProofs(t)
  \/ SelectTrees(t)
  \/ SendTree(t)
  \/ RecordIteration(t)
  \/ EndTask(t)
  \/ Throw(t)

ServerNewPeriod == ZKIDPNewPeriod /\ UNCHANGED <<databaseVars, handlerVars>>

ServerNext ==
  \/ \E r \in Tokens :
       \/ \E identity \in Identities, pubkey \in Keys, period \in Periods :
            ArriveRegistration(r, identity, pubkey, period)
       \/ CheckRegistration(r)
       \/ InsertRegistration(r)
  \/ \E t \in TaskIds : TaskStep(t)
  \/ MineTree
  \/ RevertTree
  \/ Crash
  \/ ServerNewPeriod

ServerSpec == ServerInit /\ [][ServerNext]_serverVars

\* The interval timer fires again and again and the runs proceed; what is
\* sent is mined or reverts.  Nobody is obliged to register.
ServerFairSpec ==
  /\ ServerSpec
  /\ WF_serverVars(\E t \in TaskIds : TaskStep(t))
  /\ WF_serverVars(MineTree \/ RevertTree)

-----------------------------------------------------------------------------
(* Properties *)

Registrations == [pubkey : Keys, identity : Identities, period : Periods]

TaskRecords ==
  [pc     : {"idle", "query", "tree", "proofs", "select", "submit", "mining", "failed"},
   period : 0 .. MaxPeriod,
   keys   : SUBSET Keys,
   hash   : Roots \cup {NoRoot},
   todo   : SUBSET Roots,
   events : SUBSET [root : Roots, period : Periods, iteration : Slots]]

\* The types of the variables.
ServerTypeOK ==
  /\ ZKIDPTypeOK
  /\ idp_pubkeys \subseteq
       [pubkey : Keys, identity : Identities, period : Periods, token : Tokens]
  /\ idp_tree_hashes \subseteq [hash : Roots, iteration : Slots, period : Periods]
  /\ idp_pubkey_in_tree \subseteq [hash : Roots, pubkey : Keys]
  /\ requests \in [Tokens ->
       [state : {"new", "check", "insert", "accepted", "rejected", "lost"},
        reg   : Registrations \cup {None}]]
  /\ \A r \in Open : requests[r].reg \in Registrations
  /\ raced \subseteq SUBSET Tokens
  /\ interval_lock \in BOOLEAN
  /\ tasks \in [TaskIds -> TaskRecords]
  /\ inflight \in [hash : Roots, period : Periods] \cup {None}
  /\ treesBuilt \in 0 .. MaxTrees
  /\ restarts \in Nat

\* A proof that /proof hands out is one the contract accepts as long as the
\* period lasts: at its iteration the contract holds the root of a tree that
\* contains the client's key (the iteration is stored long after it was
\* assigned, with kills and other submissions in between).
ServedProofsUsable ==
  \A token \in Tokens : \A info \in ProofInfo(token) :
    info.period = now =>
      /\ HashAvailable(info.iteration)
      /\ GetHash(info.iteration) = <<info.hash, info.period>>
      /\ info.hash.leaves[info.pubkey] > 0

\* The rows whose key is that of a row in upper case.
Twins(row) == {q \in idp_pubkeys : q # row /\ Lower[q.pubkey] = row.pubkey}

\* What a token is answered, but for a proof made for the twin of its row, in
\* another period than the row's.
Answers(token) ==
  {info \in ProofInfo(token) :
     \A row \in idp_pubkeys :
       row.token = token => info.period = row.period \/ Twins(row) = {}}

\* The server keeps the promise of IdentityProvider.
Provider == INSTANCE IdentityProvider WITH
  Evidence <- Roots \X Slots,
  rows     <- idp_pubkeys,
  raced    <- raced,
  answers  <- [t \in Tokens |->
                {[pubkey   |-> info.pubkey,
                  period   |-> info.period,
                  evidence |-> <<info.hash, info.iteration>>] : info \in Answers(t)}]

\* Tables, trees, transactions, kills and restarts add up to this: a stored
\* registration is answered with a proof for its own key and the period it was
\* made for, though the period may change while its tree is built, and with
\* the same proof ever after, whatever later runs do (interval_task, main.ts,
\* /proof).  Nobody is stored with two keys for a period, unless his requests
\* raced between the check and the INSERT.  A row whose key was registered in
\* upper case too may find a proof of another period; this is left out.
ImplementsProvider == Provider!ProviderSpec

\* While the process is not restarted no root is submitted twice, so that no
\* slot of the contract is wasted, however slow a run of the task is
\* (interval_lock, and the trees selected by their missing iteration).
SubmittedOnce ==
  restarts = 0 =>
    \A e, f \in HashAdded : e.root = f.root => e = f

\* A key stored for the current period is eventually served with a proof,
\* unless the period ends first ("At fixed intervals, the IDP generates a
\* Merkle tree", README.md:54), or the process was killed, or a key was
\* registered in upper case: it is never served, and every run selects it
\* again, in the place of others and for a tree of its own, until the slots
\* are used up.
RegisteredEventuallyServed ==
  \A token \in Tokens :
    (\E row \in idp_pubkeys : row.token = token /\ row.period = now)
      ~> \/ ProofInfo(token) # {}
         \/ \E row \in idp_pubkeys : row.token = token /\ row.period < now
         \/ \E row \in idp_pubkeys : Lower[row.pubkey] # row.pubkey
         \/ restarts > 0

=============================================================================
