-------------------------- MODULE ZKHandler_proofs --------------------------
(***************************************************************************)
(* Proofs about ZKHandler: whenever requests, runs of the interval task,   *)
(* transactions, new periods and restarts interleave, the proofs that      *)
(* /proof hands out are accepted by the contract, the server keeps the     *)
(* promise of IdentityProvider, and no root is submitted twice, for every  *)
(* number of keys, requests, trees, slots and restarts.                    *)
(***************************************************************************)
EXTENDS ZKHandler, ZKVoting_proofs

-----------------------------------------------------------------------------
(* The inductive invariant *)

\* A row is determined by its token and by its public key.
RowsFit ==
  \A p, q \in idp_pubkeys : p.token = q.token \/ p.pubkey = q.pubkey => p = q

\* Until its insertion a request has no row, and once it has passed the check
\* its person only has rows of requests that it races.
RequestFits(r) ==
  /\ requests[r].state \in {"new", "check", "insert"} =>
       \A row \in idp_pubkeys : row.token # r
  /\ requests[r].state = "insert" =>
       \A row \in idp_pubkeys :
         row.identity = requests[r].reg.identity /\ row.period = requests[r].reg.period
           => {row.token, r} \in raced

RequestsFit ==
  /\ \A r \in Tokens : RequestFits(r)
  /\ \A r, q \in Open :
       requests[r].reg.identity = requests[q].reg.identity => r = q \/ {r, q} \in raced

\* Whatever the case it was registered in, a leaf is somebody's key.
LeavesStored(root, period) ==
  \A k \in Keys : root.leaves[k] > 0 =>
    \E row \in idp_pubkeys : Lower[row.pubkey] = k /\ row.period = period

\* The leaves of a tree are registered for its period, and the iteration of a
\* tree is the one of an event of its root.
TreesFit ==
  /\ \A s, t \in idp_tree_hashes : s.hash = t.hash => s = t
  /\ \A tree \in idp_tree_hashes :
       /\ LeavesStored(tree.hash, tree.period)
       /\ tree.iteration # NULL => Event(tree.hash, tree.period, tree.iteration) \in HashAdded

\* A proof is for a leaf of its tree, and neither has another.
ProofsFit ==
  /\ \A e \in idp_pubkey_in_tree : e.hash.leaves[e.pubkey] > 0
  /\ \A e, f \in idp_pubkey_in_tree : e.hash = f.hash \/ e.pubkey = f.pubkey => e = f

\* A run that has the lock is the only one.
LockFits ==
  /\ \A t \in TaskIds : tasks[t].pc # "idle" => interval_lock
  /\ \A t, u \in TaskIds : tasks[t].pc # "idle" /\ tasks[u].pc # "idle" => t = u

Pending(hash, period) ==
  \E tree \in idp_tree_hashes :
    tree.hash = hash /\ tree.period = period /\ tree.iteration = NULL

\* What a run knows: the tree it built, the trees it has to submit, and the
\* events of those it submitted, whose iterations are not stored yet.
TaskFits(t) ==
  /\ tasks[t].pc \in {"idle", "query", "tree", "proofs", "select"} =>
       tasks[t].todo = {} /\ tasks[t].events = {}
  /\ tasks[t].pc # "idle" => tasks[t].period \in Periods
  /\ tasks[t].pc \in {"tree", "proofs"} =>
       /\ tasks[t].hash \in Roots
       /\ \A k \in tasks[t].keys : tasks[t].hash.leaves[Lower[k]] > 0
       /\ LeavesStored(tasks[t].hash, tasks[t].period)
  /\ tasks[t].pc = "mining" =>
       /\ tasks[t].hash \in tasks[t].todo
       /\ inflight = [hash |-> tasks[t].hash, period |-> tasks[t].period]
  /\ \A hash \in tasks[t].todo : Pending(hash, tasks[t].period)
  /\ \A e \in tasks[t].events :
       /\ e \in HashAdded /\ e.root \notin tasks[t].todo
       /\ Pending(e.root, e.period)
  /\ \A e, f \in tasks[t].events : e.root = f.root => e = f

TasksFit == \A t \in TaskIds : TaskFits(t)

\* While the process is not restarted, a transaction in flight is waited for,
\* and an event has been stored as an iteration or is about to be.
SubmissionsFit ==
  /\ \A e \in HashAdded : e.iteration # NULL
  /\ restarts = 0 =>
       /\ inflight # None => \E t \in TaskIds : tasks[t].pc = "mining"
       /\ \A e \in HashAdded :
            \/ \E tree \in idp_tree_hashes : tree.hash = e.root /\ tree.iteration # NULL
            \/ \E t \in TaskIds : e \in tasks[t].events
  /\ SubmittedOnce

ServerInductiveInv ==
  /\ ZKIDPInductiveInv
  /\ ServerTypeOK
  /\ RowsFit
  /\ RequestsFit
  /\ TreesFit
  /\ ProofsFit
  /\ LockFits
  /\ TasksFit
  /\ SubmissionsFit

LEMMA ServerInitInv == ServerInit => ServerInductiveInv
<1> SUFFICES ASSUME ServerInit PROVE ServerInductiveInv
  OBVIOUS
<1> USE DEF ServerInit, HandlerInit, DatabaseInit, IdleTask
<1>1. ZKIDPInductiveInv /\ HashAdded = {}
  BY ZKIDPInitInv DEF ZKIDPInit
<1>2. ServerTypeOK
  <2>1. IdleTask \in TaskRecords
    BY PeriodAssumption DEF TaskRecords
  <2> HIDE DEF IdleTask
  <2>2. tasks \in [TaskIds -> TaskRecords] /\ interval_lock \in BOOLEAN
    BY <2>1
  <2>3. /\ \A r \in Tokens : requests[r].state = "new"
        /\ requests \in [Tokens ->
             [state : {"new", "check", "insert", "accepted", "rejected", "lost"},
              reg   : Registrations \cup {None}]]
    OBVIOUS
  <2>4. treesBuilt \in 0 .. MaxTrees /\ restarts \in Nat
    BY BoundsAssumption
  <2> QED
    BY <1>1, <2>2, <2>3, <2>4 DEF ServerTypeOK, ZKIDPInductiveInv, Open
<1>3. RowsFit /\ RequestsFit /\ TreesFit /\ ProofsFit
  BY DEF RowsFit, RequestsFit, RequestFits, TreesFit, ProofsFit, Open
<1>4. LockFits /\ TasksFit
  BY DEF LockFits, TasksFit, TaskFits
<1>5. SubmissionsFit
  BY <1>1 DEF SubmissionsFit, SubmittedOnce
<1> QED
  BY <1>1, <1>2, <1>3, <1>4, <1>5 DEF ServerInductiveInv

-----------------------------------------------------------------------------
(* What a step leaves alone *)

LEMMA ContractKept ==
  ASSUME ServerInductiveInv, UNCHANGED zkidpVars
  PROVE  ZKIDPInductiveInv' /\ ZKIDPTypeOK'
BY ZKIDPNextInv DEF ServerInductiveInv, ZKIDPInductiveInv

\* The log of the contract only grows.
LEMMA TablesKept ==
  ASSUME ServerInductiveInv, UNCHANGED databaseVars, HashAdded \subseteq HashAdded'
  PROVE  RowsFit' /\ TreesFit' /\ ProofsFit'
BY DEF ServerInductiveInv, databaseVars, RowsFit, TreesFit, ProofsFit, LeavesStored, Event

LEMMA RequestsKept ==
  ASSUME ServerInductiveInv, UNCHANGED <<requests, raced, idp_pubkeys>>
  PROVE  RequestsFit'
BY DEF ServerInductiveInv, RequestsFit, RequestFits, Open

\* A run is not affected by a step that leaves it and what it waits for alone.
LEMMA TaskKept ==
  ASSUME ServerInductiveInv, NEW t \in TaskIds, UNCHANGED <<tasks[t], idp_tree_hashes>>,
         idp_pubkeys \subseteq idp_pubkeys', HashAdded \subseteq HashAdded',
         tasks[t].pc = "mining" => UNCHANGED inflight
  PROVE  TaskFits(t)'
BY DEF ServerInductiveInv, TasksFit, TaskFits, Pending, LeavesStored

LEMMA TasksKept ==
  ASSUME ServerInductiveInv, UNCHANGED <<tasks, idp_tree_hashes, inflight, interval_lock>>,
         idp_pubkeys \subseteq idp_pubkeys', HashAdded \subseteq HashAdded'
  PROVE  TasksFit' /\ LockFits'
<1>1. TasksFit'
  BY TaskKept DEF TasksFit
<1>2. LockFits'
  BY DEF ServerInductiveInv, LockFits
<1> QED
  BY <1>1, <1>2

LEMMA SubmissionsKept ==
  ASSUME ServerInductiveInv,
         UNCHANGED <<HashAdded, restarts, inflight, idp_tree_hashes>>,
         \A t \in TaskIds : /\ tasks'[t].events = tasks[t].events
                            /\ tasks[t].pc = "mining" => tasks'[t].pc = "mining"
  PROVE  SubmissionsFit'
BY DEF ServerInductiveInv, SubmissionsFit, SubmittedOnce

-----------------------------------------------------------------------------
(* POST /register *)

LEMMA ArriveRegistrationInv ==
  ASSUME ServerInductiveInv, NEW r \in Tokens,
         NEW identity \in Identities, NEW pubkey \in Keys, NEW period \in Periods,
         ArriveRegistration(r, identity, pubkey, period)
  PROVE  ServerInductiveInv'
<1> DEFINE reg == [pubkey |-> pubkey, identity |-> identity, period |-> period]
<1>1. /\ requests[r].state = "new"
      /\ requests' = [requests EXCEPT ![r] = [state |-> "check", reg |-> reg]]
      /\ raced' = raced \cup {{q, r} : q \in Rivals(reg)}
      /\ UNCHANGED <<zkidpVars, databaseVars, interval_lock, tasks, inflight,
                     treesBuilt, restarts>>
  <2>1. /\ requests[r].state = "new"
        /\ requests' = [requests EXCEPT ![r] = [state |-> "check", reg |-> reg]]
    BY DEF ArriveRegistration
  <2>2. requests'[r].reg = reg
    BY <2>1 DEF ServerInductiveInv, ServerTypeOK
  <2> QED
    BY <2>1, <2>2 DEF ArriveRegistration
<1>2. reg \in Registrations /\ reg.identity = identity
  BY DEF Registrations
<1> HIDE DEF reg
<1>3. /\ requests'[r].state = "check" /\ requests'[r].reg = reg
      /\ \A q \in Tokens \ {r} : requests'[q] = requests[q]
      /\ requests' \in [Tokens ->
           [state : {"new", "check", "insert", "accepted", "rejected", "lost"},
            reg   : Registrations \cup {None}]]
  BY <1>1, <1>2 DEF ServerInductiveInv, ServerTypeOK
<1>4. Open' = Open \cup {r} /\ r \notin Open /\ Open \subseteq Tokens
  BY <1>1, <1>3 DEF Open
<1>5. /\ raced \subseteq raced' /\ raced' \subseteq SUBSET Tokens
      /\ \A q \in Open : requests[q].reg.identity = reg.identity => {q, r} \in raced'
  BY <1>1, <1>4 DEF Rivals, ServerInductiveInv, ServerTypeOK
<1>6. ServerTypeOK'
  <2>1. \A q \in Open' : requests'[q].reg \in Registrations
    BY <1>2, <1>3, <1>4 DEF ServerInductiveInv, ServerTypeOK
  <2> QED
    BY <1>1, <1>3, <1>5, <2>1, ContractKept
    DEF ServerInductiveInv, ServerTypeOK, databaseVars, zkidpVars
<1>7. RequestsFit'
  <2>1. ASSUME NEW p \in Open', NEW q \in Open',
               requests'[p].reg.identity = requests'[q].reg.identity
        PROVE  p = q \/ {p, q} \in raced'
    <3>1. CASE p \in Open /\ q \in Open
      BY <1>3, <1>4, <1>5, <2>1, <3>1 DEF ServerInductiveInv, RequestsFit
    <3>2. CASE p = r /\ q \in Open
      <4>1. {q, r} = {p, q}
        BY <3>2
      <4>2. requests[q].reg.identity = reg.identity
        BY <1>3, <1>4, <2>1, <3>2
      <4> QED
        BY <1>5, <3>2, <4>1, <4>2
    <3>3. CASE q = r /\ p \in Open
      <4>1. requests[p].reg.identity = reg.identity
        BY <1>3, <1>4, <2>1, <3>3
      <4> QED
        BY <1>5, <3>3, <4>1
    <3> QED
      BY <1>4, <3>1, <3>2, <3>3
  <2>2. ASSUME NEW q \in Tokens PROVE RequestFits(q)'
    <3>1. CASE q = r
      BY <1>1, <1>3, <3>1 DEF ServerInductiveInv, RequestsFit, RequestFits, databaseVars
    <3>2. CASE q # r
      BY <1>1, <1>3, <1>5, <3>2 DEF ServerInductiveInv, RequestsFit, RequestFits, databaseVars
    <3> QED
      BY <3>1, <3>2
  <2> QED
    BY <2>1, <2>2 DEF RequestsFit
<1>8. RowsFit' /\ TreesFit' /\ ProofsFit'
  BY <1>1, TablesKept DEF zkidpVars
<1>9. LockFits' /\ TasksFit'
  BY <1>1, TasksKept DEF zkidpVars, databaseVars
<1>10. SubmissionsFit'
  BY <1>1, SubmissionsKept DEF zkidpVars, databaseVars
<1> QED
  BY <1>1, <1>6, <1>7, <1>8, <1>9, <1>10, ContractKept DEF ServerInductiveInv

LEMMA CheckRegistrationInv ==
  ASSUME ServerInductiveInv, NEW r \in Tokens, CheckRegistration(r)
  PROVE  ServerInductiveInv'
<1>1. /\ requests[r].state = "check"
      /\ requests' = [requests EXCEPT ![r] =
                        IF IsRegistered(requests[r].reg)
                        THEN [state |-> "rejected", reg |-> None]
                        ELSE [requests[r] EXCEPT !.state = "insert"]]
      /\ UNCHANGED <<zkidpVars, databaseVars, raced, interval_lock, tasks, inflight,
                     treesBuilt, restarts>>
  BY DEF CheckRegistration
<1>2. requests[r].reg \in Registrations
  BY <1>1 DEF ServerInductiveInv, ServerTypeOK, Open
<1>3. /\ \/ requests'[r].state = "insert" /\ requests'[r].reg = requests[r].reg
                                          /\ ~ IsRegistered(requests[r].reg)
         \/ requests'[r].state = "rejected" /\ requests'[r].reg = None
      /\ \A q \in Tokens \ {r} : requests'[q] = requests[q]
  BY <1>1 DEF ServerInductiveInv, ServerTypeOK
<1>4. ServerTypeOK'
  <2>1. requests' \in [Tokens ->
          [state : {"new", "check", "insert", "accepted", "rejected", "lost"},
           reg   : Registrations \cup {None}]]
    BY <1>1 DEF ServerInductiveInv, ServerTypeOK
  <2> QED
    BY <1>1, <1>2, <1>3, <2>1, ContractKept
    DEF ServerInductiveInv, ServerTypeOK, databaseVars, Open, zkidpVars
<1>5. Open' \subseteq Open /\ \A q \in Open' : requests'[q].reg = requests[q].reg
  BY <1>1, <1>3 DEF Open
<1>6. RequestsFit'
  <2> SUFFICES ASSUME NEW q \in Tokens PROVE RequestFits(q)'
    BY <1>1, <1>5 DEF ServerInductiveInv, RequestsFit
  <2>1. CASE q = r
    BY <1>1, <1>3, <2>1
    DEF ServerInductiveInv, RequestsFit, RequestFits, databaseVars, IsRegistered
  <2>2. CASE q # r
    BY <1>1, <1>3, <2>2 DEF ServerInductiveInv, RequestsFit, RequestFits, databaseVars
  <2> QED
    BY <2>1, <2>2
<1>7. RowsFit' /\ TreesFit' /\ ProofsFit'
  BY <1>1, TablesKept DEF zkidpVars
<1>8. LockFits' /\ TasksFit'
  BY <1>1, TasksKept DEF zkidpVars, databaseVars
<1>9. SubmissionsFit'
  BY <1>1, SubmissionsKept DEF zkidpVars, databaseVars
<1> QED
  BY <1>1, <1>4, <1>6, <1>7, <1>8, <1>9, ContractKept DEF ServerInductiveInv

RowOf(r) ==
  [pubkey   |-> requests[r].reg.pubkey,
   identity |-> requests[r].reg.identity,
   period   |-> requests[r].reg.period,
   token    |-> r]

\* The row of a request is stored, unless its public key is.
LEMMA InsertRegistrationEffect ==
  ASSUME ServerInductiveInv, NEW r \in Tokens, InsertRegistration(r)
  PROVE  /\ requests[r].state = "insert" /\ requests[r].reg \in Registrations
         /\ RowOf(r).token = r /\ RowOf(r).pubkey = requests[r].reg.pubkey
         /\ RowOf(r).identity = requests[r].reg.identity
         /\ RowOf(r).period = requests[r].reg.period
         /\ \/ idp_pubkeys' = idp_pubkeys
            \/ /\ idp_pubkeys' = idp_pubkeys \cup {RowOf(r)}
               /\ \A row \in idp_pubkeys : row.pubkey # RowOf(r).pubkey /\ row.token # r
         /\ requests' = [requests EXCEPT ![r] = [state |-> "accepted", reg |-> None]]
         /\ UNCHANGED <<zkidpVars, idp_tree_hashes, idp_pubkey_in_tree, raced, interval_lock,
                        tasks, inflight, treesBuilt, restarts>>
<1>1. requests[r].state = "insert"
  BY DEF InsertRegistration
<1>2. requests[r].reg \in Registrations
  BY <1>1 DEF ServerInductiveInv, ServerTypeOK, Open
<1>3. \A row \in idp_pubkeys : row.token # r
  BY <1>1 DEF ServerInductiveInv, RequestsFit, RequestFits
<1> QED
  BY <1>1, <1>2, <1>3 DEF InsertRegistration, Register, RowOf

LEMMA InsertRegistrationInv ==
  ASSUME ServerInductiveInv, NEW r \in Tokens, InsertRegistration(r)
  PROVE  ServerInductiveInv'
<1> DEFINE new == RowOf(r)
<1>1. /\ requests[r].state = "insert" /\ requests[r].reg \in Registrations
      /\ new.token = r /\ new.identity = requests[r].reg.identity
      /\ \/ idp_pubkeys' = idp_pubkeys
         \/ /\ idp_pubkeys' = idp_pubkeys \cup {new}
            /\ \A row \in idp_pubkeys : row.pubkey # new.pubkey /\ row.token # r
      /\ requests' = [requests EXCEPT ![r] = [state |-> "accepted", reg |-> None]]
      /\ UNCHANGED <<zkidpVars, idp_tree_hashes, idp_pubkey_in_tree, raced, interval_lock,
                     tasks, inflight, treesBuilt, restarts>>
  BY InsertRegistrationEffect
<1>2. new \in [pubkey : Keys, identity : Identities, period : Periods, token : Tokens]
  BY <1>1 DEF RowOf, Registrations
<1> HIDE DEF new
<1>3. /\ idp_pubkeys \subseteq idp_pubkeys'
      /\ \A row \in idp_pubkeys' : row \in idp_pubkeys \/ row = new
  BY <1>1
<1>4. /\ requests'[r].state = "accepted"
      /\ \A q \in Tokens \ {r} : requests'[q] = requests[q]
      /\ Open' \subseteq Open /\ r \in Open
      /\ \A q \in Open' : requests'[q].reg = requests[q].reg
  <2>1. /\ requests'[r].state = "accepted"
        /\ \A q \in Tokens \ {r} : requests'[q] = requests[q]
    BY <1>1 DEF ServerInductiveInv, ServerTypeOK
  <2>2. Open' \subseteq Open /\ r \in Open /\ r \notin Open'
    BY <1>1, <2>1 DEF Open
  <2> QED
    BY <2>1, <2>2 DEF Open
<1>5. ServerTypeOK'
  <2>1. requests' \in [Tokens ->
          [state : {"new", "check", "insert", "accepted", "rejected", "lost"},
           reg   : Registrations \cup {None}]]
    BY <1>1 DEF ServerInductiveInv, ServerTypeOK
  <2>2. idp_pubkeys' \subseteq
          [pubkey : Keys, identity : Identities, period : Periods, token : Tokens]
    BY <1>2, <1>3 DEF ServerInductiveInv, ServerTypeOK
  <2>3. \A q \in Open' : requests'[q].reg \in Registrations
    BY <1>4 DEF ServerInductiveInv, ServerTypeOK, Open
  <2> QED
    BY <1>1, <2>1, <2>2, <2>3, ContractKept
    DEF ServerInductiveInv, ServerTypeOK, zkidpVars
<1>6. RowsFit'
  BY <1>1 DEF ServerInductiveInv, RowsFit
<1>7. RequestsFit'
  <2> SUFFICES ASSUME NEW q \in Tokens PROVE RequestFits(q)'
    BY <1>1, <1>4 DEF ServerInductiveInv, RequestsFit
  <2>1. CASE q = r
    BY <1>4, <2>1 DEF RequestFits
  <2>2. CASE q # r
    <3>1. requests'[q] = requests[q] /\ RequestFits(q)
      BY <1>4, <2>2 DEF ServerInductiveInv, RequestsFit
    <3>2. requests[q].state = "insert" /\ new.identity = requests[q].reg.identity
            => {new.token, q} \in raced
      BY <1>1, <1>4, <2>2 DEF ServerInductiveInv, RequestsFit, Open
    <3> QED
      BY <1>1, <1>3, <2>2, <3>1, <3>2 DEF RequestFits
  <2> QED
    BY <2>1, <2>2
<1>8. TreesFit' /\ ProofsFit'
  <2> USE <1>1, <1>3 DEF ServerInductiveInv, zkidpVars
  <2>1. TreesFit'
    BY DEF TreesFit, LeavesStored, Event
  <2>2. ProofsFit'
    BY DEF ProofsFit
  <2> QED
    BY <2>1, <2>2
<1>9. LockFits' /\ TasksFit'
  BY <1>1, <1>3, TasksKept DEF zkidpVars
<1>10. SubmissionsFit'
  BY <1>1, SubmissionsKept DEF zkidpVars
<1> QED
  BY <1>1, <1>5, <1>6, <1>7, <1>8, <1>9, <1>10, ContractKept DEF ServerInductiveInv

-----------------------------------------------------------------------------
(* A run of interval_task *)

\* A run that has the lock is alone: whatever it does to itself, the other
\* run stays idle.
LEMMA OnlyRun ==
  ASSUME ServerInductiveInv, NEW t \in TaskIds, tasks[t].pc # "idle",
         \A u \in TaskIds \ {t} : tasks'[u] = tasks[u],
         interval_lock' = interval_lock \/ tasks'[t].pc = "idle",
         TaskFits(t)'
  PROVE  LockFits' /\ TasksFit'
<1>1. \A u \in TaskIds \ {t} : tasks[u].pc = "idle"
  BY DEF ServerInductiveInv, LockFits
<1>2. \A u \in TaskIds \ {t} : TaskFits(u)'
  BY <1>1 DEF ServerInductiveInv, TasksFit, TaskFits
<1> QED
  BY <1>1, <1>2 DEF ServerInductiveInv, LockFits, TasksFit

\* Types after a step of a run that keeps contract, requests and transactions.
LEMMA RunKeepsTypes ==
  ASSUME ServerInductiveInv, tasks' \in [TaskIds -> TaskRecords],
         interval_lock' \in BOOLEAN,
         UNCHANGED <<zkidpVars, databaseVars, requests, raced, inflight, treesBuilt, restarts>>
  PROVE  ServerTypeOK'
BY ContractKept DEF ServerInductiveInv, ServerTypeOK, databaseVars, Open, zkidpVars

LEMMA StartTaskInv ==
  ASSUME ServerInductiveInv, NEW t \in TaskIds, StartTask(t)
  PROVE  ServerInductiveInv'
<1>1. /\ tasks[t].pc = "idle" /\ interval_lock = FALSE
      /\ interval_lock' = TRUE
      /\ tasks' = [tasks EXCEPT ![t].pc = "query", ![t].period = now]
      /\ UNCHANGED <<zkidpVars, databaseVars, requests, raced, inflight, treesBuilt, restarts>>
  BY DEF StartTask, MayStart
<1>2. tasks \in [TaskIds -> TaskRecords] /\ now \in Periods
  BY DEF ServerInductiveInv, ServerTypeOK, ZKIDPTypeOK, IDPTypeOK
<1>3. /\ tasks'[t].pc = "query" /\ tasks'[t].period = now
      /\ tasks'[t].todo = tasks[t].todo /\ tasks'[t].events = tasks[t].events
      /\ \A u \in TaskIds \ {t} : tasks'[u] = tasks[u]
      /\ tasks' \in [TaskIds -> TaskRecords]
  <2> DEFINE new == [tasks[t] EXCEPT !.pc = "query", !.period = now]
  <2>1. tasks' = [tasks EXCEPT ![t] = new]
    BY <1>1, <1>2
  <2>2. now \in 0 .. MaxPeriod
    BY <1>2, PeriodAssumption DEF Periods
  <2>3. new \in TaskRecords
    BY <1>2, <2>2 DEF TaskRecords
  <2>4. /\ new.pc = "query" /\ new.period = now
        /\ new.todo = tasks[t].todo /\ new.events = tasks[t].events
    BY <1>2 DEF TaskRecords
  <2> QED
    BY <1>2, <2>1, <2>3, <2>4
<1>4. ServerTypeOK'
  BY <1>1, <1>3, RunKeepsTypes
<1>5. \A u \in TaskIds : tasks[u].pc = "idle"
  BY <1>1 DEF ServerInductiveInv, LockFits
<1>6. LockFits'
  BY <1>1, <1>3, <1>5 DEF LockFits
<1>7. TasksFit'
  <2>1. TaskFits(t)'
    BY <1>1, <1>2, <1>3 DEF ServerInductiveInv, TasksFit, TaskFits
  <2>2. \A u \in TaskIds \ {t} : TaskFits(u)'
    BY <1>3, <1>5 DEF ServerInductiveInv, TasksFit, TaskFits
  <2> QED
    BY <2>1, <2>2 DEF TasksFit
<1>8. RowsFit' /\ TreesFit' /\ ProofsFit' /\ RequestsFit'
  BY <1>1, TablesKept, RequestsKept DEF databaseVars, zkidpVars
<1>9. SubmissionsFit'
  <2>1. \A u \in TaskIds : /\ tasks'[u].events = tasks[u].events
                           /\ tasks[u].pc = "mining" => tasks'[u].pc = "mining"
    BY <1>1, <1>3
  <2> QED
    BY <1>1, <2>1, SubmissionsKept DEF zkidpVars, databaseVars
<1> QED
  BY <1>1, <1>4, <1>6, <1>7, <1>8, <1>9, ContractKept DEF ServerInductiveInv

\* A run that has nothing more to do ends.
LEMMA RunEndsInv ==
  ASSUME ServerInductiveInv, NEW t \in TaskIds,
         tasks[t].pc \in {"query", "submit"}, tasks[t].events = {},
         interval_lock' = FALSE,
         tasks' = [tasks EXCEPT ![t] = IdleTask],
         UNCHANGED <<zkidpVars, databaseVars, requests, raced, inflight, treesBuilt, restarts>>
  PROVE  ServerInductiveInv'
<1>1. tasks \in [TaskIds -> TaskRecords]
  BY DEF ServerInductiveInv, ServerTypeOK
<1>2. /\ IdleTask \in TaskRecords
      /\ IdleTask.pc = "idle" /\ IdleTask.todo = {} /\ IdleTask.events = {}
  BY PeriodAssumption DEF IdleTask, TaskRecords
<1>3. /\ tasks'[t] = IdleTask
      /\ \A u \in TaskIds \ {t} : tasks'[u] = tasks[u]
      /\ tasks' \in [TaskIds -> TaskRecords]
  BY <1>1, <1>2
<1>4. ServerTypeOK'
  BY <1>3, RunKeepsTypes
<1>5. LockFits' /\ TasksFit'
  <2>1. TaskFits(t)'
    BY <1>2, <1>3 DEF TaskFits
  <2> QED
    BY <1>2, <1>3, <2>1, OnlyRun
<1>6. RowsFit' /\ TreesFit' /\ ProofsFit' /\ RequestsFit'
  BY TablesKept, RequestsKept DEF databaseVars, zkidpVars
<1>7. SubmissionsFit'
  <2>1. \A u \in TaskIds : /\ tasks'[u].events = tasks[u].events
                           /\ tasks[u].pc = "mining" => tasks'[u].pc = "mining"
    BY <1>2, <1>3
  <2> QED
    BY <2>1, SubmissionsKept DEF zkidpVars, databaseVars
<1> QED
  BY <1>4, <1>5, <1>6, <1>7, ContractKept DEF ServerInductiveInv

LEMMA NothingToDoInv ==
  ASSUME ServerInductiveInv, NEW t \in TaskIds, NothingToDo(t)
  PROVE  ServerInductiveInv'
<1>1. tasks[t].pc = "query" /\ tasks[t].events = {}
  BY DEF NothingToDo, ServerInductiveInv, TasksFit, TaskFits
<1> QED
  BY <1>1, RunEndsInv DEF NothingToDo

LEMMA EndTaskInv ==
  ASSUME ServerInductiveInv, NEW t \in TaskIds, EndTask(t)
  PROVE  ServerInductiveInv'
BY RunEndsInv DEF EndTask

\* The leaves of a tree for at most CAP keys are those keys in lower case.
LEMMA LeavesOfKeys ==
  ASSUME NEW S \in SUBSET Keys, Cardinality(S) <= CAP
  PROVE  /\ LeavesOf(S) \in [Keys -> 0 .. CAP]
         /\ \A k \in Keys : LeavesOf(S)[k] > 0 => \E s \in S : Lower[s] = k
         /\ \A s \in S : LeavesOf(S)[Lower[s]] > 0
<1> DEFINE Same(k) == {s \in S : Lower[s] = k}
<1>1. IsFiniteSet(S) /\ Cardinality(S) \in Nat
  BY KeysAssumption, FS_Subset, FS_CardinalityType
<1>2. ASSUME NEW k \in Keys
      PROVE  /\ LeavesOf(S)[k] = Cardinality(Same(k))
             /\ Cardinality(Same(k)) \in 0 .. CAP
             /\ LeavesOf(S)[k] > 0 <=> Same(k) # {}
  <2>1. Same(k) \subseteq S
    OBVIOUS
  <2>2. IsFiniteSet(Same(k)) /\ Cardinality(Same(k)) <= Cardinality(S)
    BY <1>1, <2>1, FS_Subset
  <2>3. Cardinality(Same(k)) \in Nat /\ (Cardinality(Same(k)) = 0 <=> Same(k) = {})
    BY <2>2, FS_CardinalityType, FS_EmptySet
  <2>4. Cardinality(Same(k)) \in 0 .. CAP
    BY <1>1, <2>2, <2>3, CapAssumption
  <2>5. LeavesOf(S)[k] = Cardinality(Same(k))
    BY DEF LeavesOf
  <2> HIDE DEF Same
  <2> QED
    BY <2>3, <2>4, <2>5
<1>3. LeavesOf(S) \in [Keys -> 0 .. CAP]
  BY <1>2 DEF LeavesOf
<1>4. \A k \in Keys : LeavesOf(S)[k] > 0 => Same(k) # {}
  <2> HIDE DEF Same
  <2> QED
    BY <1>2
<1>5. ASSUME NEW s \in S PROVE LeavesOf(S)[Lower[s]] > 0
  <2>1. Lower[s] \in Keys /\ Same(Lower[s]) # {}
    BY KeysAssumption
  <2> HIDE DEF Same
  <2> QED
    BY <1>2, <2>1
<1> QED
  BY <1>3, <1>4, <1>5

LEMMA BuildTreeInv ==
  ASSUME ServerInductiveInv, NEW t \in TaskIds, BuildTree(t)
  PROVE  ServerInductiveInv'
<1>0. PICK S \in Limited(PubkeysWithoutProof(tasks[t].period), CAP) :
        \E fill \in Fillings(S) :
          tasks' = [tasks EXCEPT ![t].pc = "tree", ![t].keys = S,
                                 ![t].hash = [leaves |-> LeavesOf(S), fill |-> fill]]
  BY Zenon DEF BuildTree
<1>1. PICK fill \in Fillings(S) :
        tasks' = [tasks EXCEPT ![t].pc = "tree", ![t].keys = S,
                               ![t].hash = [leaves |-> LeavesOf(S), fill |-> fill]]
  BY <1>0
<1> DEFINE root == [leaves |-> LeavesOf(S), fill |-> fill]
           new == [tasks[t] EXCEPT !.pc = "tree", !.keys = S, !.hash = root]
<1>2. /\ tasks[t].pc = "query"
      /\ treesBuilt' = treesBuilt + 1 /\ treesBuilt < MaxTrees
      /\ UNCHANGED <<zkidpVars, databaseVars, requests, raced, interval_lock, inflight, restarts>>
  BY DEF BuildTree
<1>3. /\ tasks \in [TaskIds -> TaskRecords]
      /\ treesBuilt \in 0 .. MaxTrees /\ treesBuilt' \in 0 .. MaxTrees
      /\ fill \in 0 .. MaxTrees
  BY <1>2, BoundsAssumption DEF ServerInductiveInv, ServerTypeOK, Fillings
<1>4. /\ tasks[t].todo = {} /\ tasks[t].events = {} /\ tasks[t].period \in Periods
  BY <1>2 DEF ServerInductiveInv, TasksFit, TaskFits
<1>5. /\ \A s \in S : \E row \in idp_pubkeys :
           row.pubkey = s /\ row.period = tasks[t].period
      /\ S \in SUBSET Keys
  BY DEF Limited, PubkeysWithoutProof, ServerInductiveInv, ServerTypeOK
<1>6. Cardinality(S) <= CAP
  <2> DEFINE P == PubkeysWithoutProof(tasks[t].period)
  <2>1. P \subseteq Keys
    BY DEF PubkeysWithoutProof, ServerInductiveInv, ServerTypeOK
  <2>2. Cardinality(P) \in Nat
    BY <2>1, KeysAssumption, FS_Subset, FS_CardinalityType
  <2>3. Cardinality(S) = IF Cardinality(P) < CAP THEN Cardinality(P) ELSE CAP
    BY DEF Limited
  <2> HIDE DEF P
  <2> QED
    BY <2>2, <2>3, CapAssumption
<1>7. /\ LeavesOf(S) \in [Keys -> 0 .. CAP]
      /\ \A k \in Keys : LeavesOf(S)[k] > 0 => \E s \in S : Lower[s] = k
      /\ \A s \in S : LeavesOf(S)[Lower[s]] > 0
  BY <1>5, <1>6, LeavesOfKeys
<1>8. /\ root \in Roots /\ root.leaves = LeavesOf(S)
      /\ \A s \in S : root.leaves[Lower[s]] > 0
  BY <1>3, <1>7, TreeRootsAssumption DEF TreeRoots
<1>9. LeavesStored(root, tasks[t].period)
  BY <1>5, <1>7, <1>8 DEF LeavesStored
<1>10. tasks' = [tasks EXCEPT ![t] = new]
  BY <1>1, <1>3
<1> HIDE DEF root
<1>11. new \in TaskRecords
  <2>1. tasks[t] \in TaskRecords /\ S \in SUBSET Keys /\ root \in Roots
    BY <1>3, <1>5, <1>8
  <2> QED
    BY <2>1 DEF TaskRecords
<1>12. /\ new.pc = "tree" /\ new.keys = S /\ new.hash = root
       /\ new.period = tasks[t].period /\ new.todo = {} /\ new.events = {}
  BY <1>3, <1>4 DEF TaskRecords
<1> HIDE DEF new
<1>13. /\ tasks'[t] = new
       /\ \A u \in TaskIds \ {t} : tasks'[u] = tasks[u]
       /\ tasks' \in [TaskIds -> TaskRecords]
  BY <1>3, <1>10, <1>11
<1>14. ServerTypeOK'
  BY <1>2, <1>3, <1>13, ContractKept
  DEF ServerInductiveInv, ServerTypeOK, databaseVars, Open, zkidpVars
<1>15. LockFits' /\ TasksFit'
  <2>1. TaskFits(t)'
    BY <1>2, <1>4, <1>8, <1>9, <1>12, <1>13 DEF TaskFits, LeavesStored, databaseVars
  <2> QED
    BY <1>2, <1>13, <2>1, OnlyRun
<1>16. RowsFit' /\ TreesFit' /\ ProofsFit' /\ RequestsFit'
  BY <1>2, TablesKept, RequestsKept DEF databaseVars, zkidpVars
<1>17. SubmissionsFit'
  <2>1. \A u \in TaskIds : /\ tasks'[u].events = tasks[u].events
                           /\ tasks[u].pc = "mining" => tasks'[u].pc = "mining"
    BY <1>2, <1>4, <1>12, <1>13
  <2> QED
    BY <1>2, <2>1, SubmissionsKept DEF zkidpVars, databaseVars
<1> QED
  BY <1>2, <1>14, <1>15, <1>16, <1>17, ContractKept DEF ServerInductiveInv

\* The tree is stored, unless a tree of the same root is.
LEMMA StoreTreeEffect ==
  ASSUME ServerInductiveInv, NEW t \in TaskIds, StoreTree(t)
  PROVE  /\ tasks[t].pc = "tree" /\ tasks[t].hash \in Roots
         /\ \/ idp_tree_hashes' = idp_tree_hashes
            \/ \E new \in [hash : {tasks[t].hash}, iteration : {NULL},
                           period : {tasks[t].period}] :
                 /\ idp_tree_hashes' = idp_tree_hashes \cup {new}
                 /\ \A tree \in idp_tree_hashes : tree.hash # tasks[t].hash
         /\ UNCHANGED <<zkidpVars, idp_pubkeys, idp_pubkey_in_tree, requests, raced, interval_lock,
                        inflight, treesBuilt, restarts>>
BY DEF StoreTree, InsertTree, ServerInductiveInv, TasksFit, TaskFits

LEMMA StoreTreeInv ==
  ASSUME ServerInductiveInv, NEW t \in TaskIds, StoreTree(t)
  PROVE  ServerInductiveInv'
<1> DEFINE new == [tasks[t] EXCEPT !.pc = "proofs"]
<1>1. /\ tasks[t].pc = "tree" /\ tasks[t].hash \in Roots
      /\ \/ idp_tree_hashes' = idp_tree_hashes
         \/ \E tree \in [hash : {tasks[t].hash}, iteration : {NULL},
                         period : {tasks[t].period}] :
              /\ idp_tree_hashes' = idp_tree_hashes \cup {tree}
              /\ \A old \in idp_tree_hashes : old.hash # tasks[t].hash
      /\ UNCHANGED <<zkidpVars, idp_pubkeys, idp_pubkey_in_tree, requests, raced, interval_lock,
                     inflight, treesBuilt, restarts>>
  BY StoreTreeEffect
<1>2. tasks \in [TaskIds -> TaskRecords] /\ tasks' = [tasks EXCEPT ![t] = new]
  BY DEF StoreTree, ServerInductiveInv, ServerTypeOK
<1>3. /\ new \in TaskRecords /\ new.pc = "proofs"
      /\ new.hash = tasks[t].hash /\ new.keys = tasks[t].keys
      /\ new.period = tasks[t].period
      /\ new.todo = tasks[t].todo /\ new.events = tasks[t].events
  BY <1>2 DEF TaskRecords
<1> HIDE DEF new
<1>4. /\ tasks'[t] = new
      /\ \A u \in TaskIds \ {t} : tasks'[u] = tasks[u]
      /\ tasks' \in [TaskIds -> TaskRecords]
  BY <1>2, <1>3
<1>5. /\ tasks[t].period \in Periods
      /\ tasks[t].todo = {} /\ tasks[t].events = {}
      /\ LeavesStored(tasks[t].hash, tasks[t].period)
  BY <1>1 DEF ServerInductiveInv, TasksFit, TaskFits
<1>6. /\ idp_tree_hashes \subseteq idp_tree_hashes'
      /\ \A tree \in idp_tree_hashes' :
           \/ tree \in idp_tree_hashes
           \/ /\ tree \in [hash : {tasks[t].hash}, iteration : {NULL},
                           period : {tasks[t].period}]
              /\ \A old \in idp_tree_hashes' : old.hash = tree.hash => old = tree
  BY <1>1
<1>7. ServerTypeOK'
  <2>1. idp_tree_hashes' \subseteq [hash : Roots, iteration : Slots, period : Periods]
    BY <1>1, <1>5, <1>6, SlotsAssumption
    DEF ServerInductiveInv, ServerTypeOK, Slots, NULL
  <2> QED
    BY <1>1, <1>4, <2>1, ContractKept
    DEF ServerInductiveInv, ServerTypeOK, Open, zkidpVars
<1>8. LockFits' /\ TasksFit'
  <2>1. TaskFits(t)'
    BY <1>1, <1>3, <1>4, <1>5 DEF ServerInductiveInv, TasksFit, TaskFits, LeavesStored
  <2> QED
    BY <1>1, <1>4, <2>1, OnlyRun
<1>9. RowsFit' /\ ProofsFit' /\ RequestsFit'
  BY <1>1, RequestsKept DEF ServerInductiveInv, RowsFit, ProofsFit
<1>10. TreesFit'
  <2>1. \A a, b \in idp_tree_hashes' : a.hash = b.hash => a = b
    BY <1>6 DEF ServerInductiveInv, TreesFit
  <2>2. \A tree \in idp_tree_hashes' :
          /\ LeavesStored(tree.hash, tree.period)'
          /\ tree.iteration # NULL => Event(tree.hash, tree.period, tree.iteration) \in HashAdded'
    BY <1>1, <1>5, <1>6 DEF ServerInductiveInv, TreesFit, LeavesStored, zkidpVars
  <2> QED
    BY <2>1, <2>2 DEF TreesFit, Event
<1>11. SubmissionsFit'
  <2>1. \A u \in TaskIds : /\ tasks'[u].events = tasks[u].events
                           /\ tasks[u].pc = "mining" => tasks'[u].pc = "mining"
    BY <1>1, <1>3, <1>4
  <2> QED
    BY <1>1, <1>6, <2>1 DEF ServerInductiveInv, SubmissionsFit, SubmittedOnce, zkidpVars
<1> QED
  BY <1>1, <1>7, <1>8, <1>9, <1>10, <1>11, ContractKept DEF ServerInductiveInv

\* At most one proof is stored, for a leaf of the tree that had none.
LEMMA StoreProofsEffect ==
  ASSUME ServerInductiveInv, NEW t \in TaskIds, StoreProofs(t)
  PROVE  /\ tasks[t].pc = "proofs" /\ tasks[t].hash \in Roots
         /\ \/ idp_pubkey_in_tree' = idp_pubkey_in_tree
            \/ \E e \in [hash : {tasks[t].hash}, pubkey : Keys] :
                 /\ e.hash.leaves[e.pubkey] > 0
                 /\ idp_pubkey_in_tree' = idp_pubkey_in_tree \cup {e}
                 /\ ~ HasProof(e.pubkey)
                 /\ \A f \in idp_pubkey_in_tree : f.hash # e.hash
         /\ UNCHANGED <<zkidpVars, idp_pubkeys, idp_tree_hashes, requests, raced,
                        interval_lock, inflight, treesBuilt, restarts>>
<1> DEFINE keys == {Lower[k] : k \in tasks[t].keys}
<1>1. tasks[t].pc = "proofs"
  BY DEF StoreProofs
<1>2. /\ tasks[t].hash \in Roots /\ tasks[t].keys \in SUBSET Keys
      /\ \A k \in keys : k \in Keys /\ tasks[t].hash.leaves[k] > 0
  <2>1. tasks[t].keys \in SUBSET Keys
    BY DEF ServerInductiveInv, ServerTypeOK, TaskRecords
  <2> QED
    BY <1>1, <2>1, KeysAssumption DEF ServerInductiveInv, TasksFit, TaskFits
<1>3. InsertProofs(tasks[t].hash, keys)
  BY DEF StoreProofs
<1> HIDE DEF keys
<1>4. \/ UNCHANGED idp_pubkey_in_tree
      \/ /\ \A f \in idp_pubkey_in_tree : f.hash # tasks[t].hash
         /\ \E k \in keys :
              /\ ~ HasProof(k)
              /\ idp_pubkey_in_tree' =
                   idp_pubkey_in_tree \cup {[hash |-> tasks[t].hash, pubkey |-> k]}
  BY <1>3 DEF InsertProofs
<1>5. CASE UNCHANGED idp_pubkey_in_tree
  BY <1>1, <1>2, <1>5 DEF StoreProofs
<1>6. CASE /\ \A f \in idp_pubkey_in_tree : f.hash # tasks[t].hash
           /\ \E k \in keys :
                /\ ~ HasProof(k)
                /\ idp_pubkey_in_tree' =
                     idp_pubkey_in_tree \cup {[hash |-> tasks[t].hash, pubkey |-> k]}
  <2>1. PICK k \in keys :
          /\ ~ HasProof(k)
          /\ idp_pubkey_in_tree' =
               idp_pubkey_in_tree \cup {[hash |-> tasks[t].hash, pubkey |-> k]}
    BY <1>6
  <2> DEFINE e == [hash |-> tasks[t].hash, pubkey |-> k]
  <2>2. /\ e \in [hash : {tasks[t].hash}, pubkey : Keys]
        /\ e.pubkey = k /\ e.hash = tasks[t].hash
    BY <1>2
  <2> HIDE DEF e
  <2>3. e.hash.leaves[e.pubkey] > 0
    BY <1>2, <2>2
  <2> QED
    BY <1>1, <1>2, <1>6, <2>1, <2>2, <2>3 DEF StoreProofs, e
<1> QED
  BY <1>4, <1>5, <1>6

LEMMA StoreProofsInv ==
  ASSUME ServerInductiveInv, NEW t \in TaskIds, StoreProofs(t)
  PROVE  ServerInductiveInv'
<1> DEFINE new == [tasks[t] EXCEPT !.pc = "select", !.keys = {}, !.hash = NoRoot]
<1>1. /\ tasks[t].pc = "proofs" /\ tasks[t].hash \in Roots
      /\ \/ idp_pubkey_in_tree' = idp_pubkey_in_tree
         \/ \E e \in [hash : {tasks[t].hash}, pubkey : Keys] :
              /\ e.hash.leaves[e.pubkey] > 0
              /\ idp_pubkey_in_tree' = idp_pubkey_in_tree \cup {e}
              /\ ~ HasProof(e.pubkey)
              /\ \A f \in idp_pubkey_in_tree : f.hash # e.hash
      /\ UNCHANGED <<zkidpVars, idp_pubkeys, idp_tree_hashes, requests, raced,
                     interval_lock, inflight, treesBuilt, restarts>>
  BY StoreProofsEffect
<1>2. tasks \in [TaskIds -> TaskRecords] /\ tasks' = [tasks EXCEPT ![t] = new]
  BY DEF StoreProofs, ServerInductiveInv, ServerTypeOK
<1>3. /\ new \in TaskRecords /\ new.pc = "select"
      /\ new.period = tasks[t].period
      /\ new.todo = tasks[t].todo /\ new.events = tasks[t].events
  BY <1>2 DEF TaskRecords
<1> HIDE DEF new
<1>4. /\ tasks'[t] = new
      /\ \A u \in TaskIds \ {t} : tasks'[u] = tasks[u]
      /\ tasks' \in [TaskIds -> TaskRecords]
  BY <1>2, <1>3
<1>5. /\ tasks[t].period \in Periods /\ tasks[t].todo = {} /\ tasks[t].events = {}
      /\ tasks[t].keys \in SUBSET Keys
  BY <1>1, <1>2 DEF ServerInductiveInv, TasksFit, TaskFits, TaskRecords
<1>6. ServerTypeOK'
  <2>1. idp_pubkey_in_tree' \subseteq [hash : Roots, pubkey : Keys]
    BY <1>1, <1>5 DEF ServerInductiveInv, ServerTypeOK
  <2> QED
    BY <1>1, <1>4, <2>1, ContractKept
    DEF ServerInductiveInv, ServerTypeOK, Open, zkidpVars
<1>7. LockFits' /\ TasksFit'
  <2>1. TaskFits(t)'
    BY <1>3, <1>4, <1>5 DEF TaskFits
  <2> QED
    BY <1>1, <1>4, <2>1, OnlyRun
<1>8. RowsFit' /\ TreesFit' /\ RequestsFit'
  BY <1>1, RequestsKept
  DEF ServerInductiveInv, RowsFit, TreesFit, LeavesStored, Event, zkidpVars
<1>9. ProofsFit'
  BY <1>1 DEF ServerInductiveInv, ProofsFit, HasProof
<1>10. SubmissionsFit'
  <2>1. \A u \in TaskIds : /\ tasks'[u].events = tasks[u].events
                           /\ tasks[u].pc = "mining" => tasks'[u].pc = "mining"
    BY <1>1, <1>3, <1>4
  <2> QED
    BY <1>1, <2>1, SubmissionsKept DEF zkidpVars
<1> QED
  BY <1>1, <1>6, <1>7, <1>8, <1>9, <1>10, ContractKept DEF ServerInductiveInv

LEMMA SelectTreesInv ==
  ASSUME ServerInductiveInv, NEW t \in TaskIds, SelectTrees(t)
  PROVE  ServerInductiveInv'
<1> DEFINE todo == TreesToInclude(tasks[t].period)
           new == [tasks[t] EXCEPT !.pc = "submit", !.todo = todo]
<1>1. /\ tasks[t].pc = "select"
      /\ UNCHANGED <<zkidpVars, databaseVars, requests, raced, interval_lock, inflight,
                     treesBuilt, restarts>>
  BY DEF SelectTrees
<1>2. tasks \in [TaskIds -> TaskRecords] /\ tasks' = [tasks EXCEPT ![t] = new]
  BY DEF SelectTrees, ServerInductiveInv, ServerTypeOK
<1>3. \A hash \in todo : Pending(hash, tasks[t].period) /\ hash \in Roots
  BY DEF TreesToInclude, Pending, ServerInductiveInv, ServerTypeOK
<1> HIDE DEF todo
<1>4. /\ new \in TaskRecords /\ new.pc = "submit"
      /\ new.period = tasks[t].period
      /\ new.todo = todo /\ new.events = tasks[t].events
  BY <1>2, <1>3 DEF TaskRecords
<1> HIDE DEF new
<1>5. /\ tasks'[t] = new
      /\ \A u \in TaskIds \ {t} : tasks'[u] = tasks[u]
      /\ tasks' \in [TaskIds -> TaskRecords]
  BY <1>2, <1>4
<1>6. tasks[t].period \in Periods /\ tasks[t].events = {}
  BY <1>1 DEF ServerInductiveInv, TasksFit, TaskFits
<1>7. ServerTypeOK'
  BY <1>1, <1>5, RunKeepsTypes DEF ServerInductiveInv, ServerTypeOK
<1>8. LockFits' /\ TasksFit'
  <2>1. TaskFits(t)'
    BY <1>1, <1>3, <1>4, <1>5, <1>6 DEF TaskFits, Pending, databaseVars
  <2> QED
    BY <1>1, <1>5, <2>1, OnlyRun
<1>9. RowsFit' /\ TreesFit' /\ ProofsFit' /\ RequestsFit'
  BY <1>1, TablesKept, RequestsKept DEF databaseVars, zkidpVars
<1>10. SubmissionsFit'
  <2>1. \A u \in TaskIds : /\ tasks'[u].events = tasks[u].events
                           /\ tasks[u].pc = "mining" => tasks'[u].pc = "mining"
    BY <1>1, <1>4, <1>5
  <2> QED
    BY <1>1, <2>1, SubmissionsKept DEF zkidpVars, databaseVars
<1> QED
  BY <1>1, <1>7, <1>8, <1>9, <1>10, ContractKept DEF ServerInductiveInv

LEMMA SendTreeInv ==
  ASSUME ServerInductiveInv, NEW t \in TaskIds, SendTree(t)
  PROVE  ServerInductiveInv'
<1>1. PICK hash \in tasks[t].todo :
        /\ inflight' = [hash |-> hash, period |-> tasks[t].period]
        /\ tasks' = [tasks EXCEPT ![t].pc = "mining", ![t].hash = hash]
  BY DEF SendTree
<1> DEFINE new == [tasks[t] EXCEPT !.pc = "mining", !.hash = hash]
<1>2. /\ tasks[t].pc = "submit"
      /\ UNCHANGED <<zkidpVars, databaseVars, requests, raced, interval_lock, treesBuilt, restarts>>
  BY DEF SendTree
<1>3. /\ tasks \in [TaskIds -> TaskRecords] /\ tasks' = [tasks EXCEPT ![t] = new]
      /\ hash \in Roots
  BY <1>1 DEF ServerInductiveInv, ServerTypeOK, TaskRecords
<1>4. /\ new \in TaskRecords /\ new.pc = "mining"
      /\ new.period = tasks[t].period /\ new.hash = hash
      /\ new.todo = tasks[t].todo /\ new.events = tasks[t].events
  BY <1>3 DEF TaskRecords
<1> HIDE DEF new
<1>5. /\ tasks'[t] = new
      /\ \A u \in TaskIds \ {t} : tasks'[u] = tasks[u]
      /\ tasks' \in [TaskIds -> TaskRecords]
  BY <1>3, <1>4
<1>6. TaskFits(t) /\ tasks[t].period \in Periods
  BY <1>2 DEF ServerInductiveInv, TasksFit, TaskFits
<1>7. ServerTypeOK'
  <2>1. inflight' \in [hash : Roots, period : Periods]
    BY <1>1, <1>3, <1>6
  <2> QED
    BY <1>2, <1>5, <2>1, ContractKept
    DEF ServerInductiveInv, ServerTypeOK, databaseVars, Open, zkidpVars
<1>8. LockFits' /\ TasksFit'
  <2>1. TaskFits(t)'
    BY <1>1, <1>2, <1>4, <1>5, <1>6 DEF TaskFits, Pending, databaseVars, zkidpVars
  <2> QED
    BY <1>2, <1>5, <2>1, OnlyRun
<1>9. RowsFit' /\ TreesFit' /\ ProofsFit' /\ RequestsFit'
  BY <1>2, TablesKept, RequestsKept DEF databaseVars, zkidpVars
<1>10. SubmissionsFit'
  <2>1. \A u \in TaskIds : tasks'[u].events = tasks[u].events
    BY <1>4, <1>5
  <2>2. tasks'[t].pc = "mining"
    BY <1>4, <1>5
  <2> QED
    BY <1>2, <2>1, <2>2
    DEF ServerInductiveInv, SubmissionsFit, SubmittedOnce, zkidpVars, databaseVars
<1> QED
  BY <1>2, <1>7, <1>8, <1>9, <1>10, ContractKept DEF ServerInductiveInv

\* What updateTreeWithIteration leaves in the table, row by row.
LEMMA UpdateEffect ==
  ASSUME ServerInductiveInv, NEW hash, NEW iteration \in Slots,
         UpdateTreeWithIteration(hash, iteration)
  PROVE  /\ \A tree \in idp_tree_hashes : \E u \in idp_tree_hashes' :
              /\ u.hash = tree.hash /\ u.period = tree.period
              /\ u.iteration = IF tree.hash = hash THEN iteration ELSE tree.iteration
         /\ \A u \in idp_tree_hashes' : \E tree \in idp_tree_hashes :
              /\ u.hash = tree.hash /\ u.period = tree.period
              /\ u.iteration = IF tree.hash = hash THEN iteration ELSE tree.iteration
         /\ \A u, v \in idp_tree_hashes' : u.hash = v.hash => u = v
         /\ idp_tree_hashes' \subseteq [hash : Roots, iteration : Slots, period : Periods]
<1> DEFINE Rows == [hash : Roots, iteration : Slots, period : Periods]
           New(tree) == IF tree.hash = hash THEN [tree EXCEPT !.iteration = iteration] ELSE tree
<1>1. ASSUME NEW tree \in Rows
      PROVE  /\ New(tree) \in Rows
             /\ New(tree).hash = tree.hash /\ New(tree).period = tree.period
             /\ New(tree).iteration = IF tree.hash = hash THEN iteration ELSE tree.iteration
  OBVIOUS
<1>2. idp_tree_hashes' = {New(tree) : tree \in idp_tree_hashes}
  BY DEF UpdateTreeWithIteration
<1>3. idp_tree_hashes \subseteq Rows
  BY DEF ServerInductiveInv, ServerTypeOK
<1> HIDE DEF New, Rows
<1>4. \A tree \in idp_tree_hashes : New(tree) \in idp_tree_hashes'
  BY <1>2
<1>5. \A u \in idp_tree_hashes' : \E tree \in idp_tree_hashes : u = New(tree)
  BY <1>2
<1>6. idp_tree_hashes' \subseteq Rows
  BY <1>1, <1>3, <1>5
<1>7. \A u, v \in idp_tree_hashes' : u.hash = v.hash => u = v
  BY <1>1, <1>3, <1>5 DEF ServerInductiveInv, TreesFit
<1> QED
  BY <1>1, <1>3, <1>4, <1>5, <1>6, <1>7 DEF Rows

LEMMA RecordIterationEffect ==
  ASSUME ServerInductiveInv, NEW t \in TaskIds, RecordIteration(t)
  PROVE  \E e \in tasks[t].events :
           /\ tasks[t].pc = "submit" /\ tasks[t].todo = {}
           /\ e.root \in Roots /\ e.iteration \in Slots /\ e.iteration # NULL
           /\ e \in HashAdded /\ e = Event(e.root, e.period, e.iteration)
           /\ Pending(e.root, e.period)
           /\ UpdateTreeWithIteration(e.root, e.iteration)
           /\ tasks' = [tasks EXCEPT ![t].events = tasks[t].events \ {e}]
           /\ UNCHANGED <<zkidpVars, idp_pubkeys, idp_pubkey_in_tree, requests, raced,
                          interval_lock, inflight, treesBuilt, restarts>>
<1>1. PICK e \in tasks[t].events :
        /\ UpdateTreeWithIteration(e.root, IterationOf(e))
        /\ tasks' = [tasks EXCEPT ![t].events = tasks[t].events \ {e}]
  BY DEF RecordIteration
<1>2. e \in HashAdded /\ Pending(e.root, e.period)
  BY DEF ServerInductiveInv, TasksFit, TaskFits
<1>3. e \in [root : Roots, period : Periods, iteration : Slots] /\ e.iteration # NULL
  BY <1>2 DEF ServerInductiveInv, ServerTypeOK, ZKIDPTypeOK, SubmissionsFit
<1>4. e.root \in Roots /\ e.iteration \in Slots /\ e = Event(e.root, e.period, e.iteration)
  BY <1>3 DEF Event
<1> QED
  BY <1>1, <1>2, <1>3, <1>4 DEF RecordIteration, IterationOf

LEMMA RecordIterationInv ==
  ASSUME ServerInductiveInv, NEW t \in TaskIds, RecordIteration(t)
  PROVE  ServerInductiveInv'
<1>1. PICK e \in tasks[t].events :
        /\ tasks[t].pc = "submit" /\ tasks[t].todo = {}
        /\ e.root \in Roots /\ e.iteration \in Slots /\ e.iteration # NULL
        /\ e \in HashAdded /\ e = Event(e.root, e.period, e.iteration)
        /\ Pending(e.root, e.period)
        /\ UpdateTreeWithIteration(e.root, e.iteration)
        /\ tasks' = [tasks EXCEPT ![t].events = tasks[t].events \ {e}]
        /\ UNCHANGED <<zkidpVars, idp_pubkeys, idp_pubkey_in_tree, requests, raced,
                       interval_lock, inflight, treesBuilt, restarts>>
  BY RecordIterationEffect
<1> DEFINE new == [tasks[t] EXCEPT !.events = tasks[t].events \ {e}]
<1>2. tasks \in [TaskIds -> TaskRecords] /\ tasks' = [tasks EXCEPT ![t] = new]
  BY <1>1 DEF ServerInductiveInv, ServerTypeOK
<1>3. /\ new \in TaskRecords /\ new.pc = tasks[t].pc
      /\ new.period = tasks[t].period
      /\ new.todo = tasks[t].todo /\ new.events = tasks[t].events \ {e}
  BY <1>2 DEF TaskRecords
<1> HIDE DEF new
<1>4. /\ tasks'[t] = new
      /\ \A u \in TaskIds \ {t} : tasks'[u] = tasks[u]
      /\ tasks' \in [TaskIds -> TaskRecords]
  BY <1>2, <1>3
<1>5. /\ \A tree \in idp_tree_hashes : \E u \in idp_tree_hashes' :
           /\ u.hash = tree.hash /\ u.period = tree.period
           /\ u.iteration = IF tree.hash = e.root THEN e.iteration ELSE tree.iteration
      /\ \A u \in idp_tree_hashes' : \E tree \in idp_tree_hashes :
           /\ u.hash = tree.hash /\ u.period = tree.period
           /\ u.iteration = IF tree.hash = e.root THEN e.iteration ELSE tree.iteration
      /\ \A u, v \in idp_tree_hashes' : u.hash = v.hash => u = v
      /\ idp_tree_hashes' \subseteq [hash : Roots, iteration : Slots, period : Periods]
  BY <1>1, UpdateEffect
<1>6. \A hash, period : hash # e.root /\ Pending(hash, period) => Pending(hash, period)'
  BY <1>5 DEF Pending
<1>7. ServerTypeOK'
  BY <1>1, <1>4, <1>5, ContractKept DEF ServerInductiveInv, ServerTypeOK, Open, zkidpVars
<1>8. LockFits' /\ TasksFit'
  <2>1. TaskFits(t)
    BY DEF ServerInductiveInv, TasksFit
  <2>2. \A f \in new.events : f \in tasks[t].events /\ f.root # e.root
    BY <1>3, <2>1 DEF TaskFits
  <2>3. TaskFits(t)'
    BY <1>1, <1>3, <1>4, <1>6, <2>1, <2>2 DEF TaskFits, zkidpVars
  <2> QED
    BY <1>1, <1>4, <2>3, OnlyRun
<1>9. RowsFit' /\ ProofsFit' /\ RequestsFit'
  BY <1>1, RequestsKept DEF ServerInductiveInv, RowsFit, ProofsFit
<1>10. TreesFit'
  <2>1. PICK mine \in idp_tree_hashes : mine.hash = e.root /\ mine.period = e.period
    BY <1>1 DEF Pending
  <2> SUFFICES ASSUME NEW u \in idp_tree_hashes'
               PROVE  /\ LeavesStored(u.hash, u.period)
                      /\ u.iteration # NULL => Event(u.hash, u.period, u.iteration) \in HashAdded
    BY <1>1, <1>5 DEF TreesFit, LeavesStored, Event, zkidpVars
  <2>2. PICK tree \in idp_tree_hashes :
          /\ u.hash = tree.hash /\ u.period = tree.period
          /\ u.iteration = IF tree.hash = e.root THEN e.iteration ELSE tree.iteration
    BY <1>5
  <2>3. /\ LeavesStored(tree.hash, tree.period)
        /\ tree.iteration # NULL => Event(tree.hash, tree.period, tree.iteration) \in HashAdded
        /\ tree.hash = e.root => tree = mine
    BY <2>1 DEF ServerInductiveInv, TreesFit
  <2> QED
    BY <1>1, <2>1, <2>2, <2>3
<1>11. SubmissionsFit'
  <2>1. \A f \in HashAdded :
          (\E tree \in idp_tree_hashes : tree.hash = f.root /\ tree.iteration # NULL)
            => \E u \in idp_tree_hashes' : u.hash = f.root /\ u.iteration # NULL
    BY <1>1, <1>5
  <2>2. \E u \in idp_tree_hashes' : u.hash = e.root /\ u.iteration # NULL
    BY <1>1, <1>5 DEF Pending
  <2>3. \A f \in HashAdded, u \in TaskIds : f \in tasks[u].events => f = e \/ f \in tasks'[u].events
    BY <1>3, <1>4
  <2>4. \A u \in TaskIds : tasks'[u].pc = tasks[u].pc
    BY <1>3, <1>4
  <2> QED
    BY <1>1, <2>1, <2>2, <2>3, <2>4
    DEF ServerInductiveInv, SubmissionsFit, SubmittedOnce, zkidpVars
<1> QED
  BY <1>1, <1>7, <1>8, <1>9, <1>10, <1>11, ContractKept DEF ServerInductiveInv

-----------------------------------------------------------------------------
(* Restarts *)

LEMMA RestartInv ==
  ASSUME ServerInductiveInv, Restart, inflight' \in {inflight, None}
  PROVE  ServerInductiveInv'
<1>1. /\ tasks' = [t \in TaskIds |-> IdleTask]
      /\ interval_lock' = FALSE
      /\ requests' = [r \in Tokens |->
           IF r \in Open THEN [state |-> "lost", reg |-> None] ELSE requests[r]]
      /\ restarts' = restarts + 1
      /\ UNCHANGED <<zkidpVars, databaseVars, raced, treesBuilt>>
  BY DEF Restart
<1>2. /\ IdleTask \in TaskRecords
      /\ IdleTask.pc = "idle" /\ IdleTask.todo = {} /\ IdleTask.events = {}
  BY PeriodAssumption DEF IdleTask, TaskRecords
<1> HIDE DEF IdleTask
<1>3. \A r \in Tokens :
        /\ r \in Open => requests'[r].state = "lost"
        /\ r \notin Open => requests'[r] = requests[r]
  BY <1>1
<1>4. \A r \in Tokens : r \notin Open'
  BY <1>3 DEF Open
<1>5. ServerTypeOK'
  <2>1. tasks' \in [TaskIds -> TaskRecords]
    BY <1>1, <1>2
  <2>2. requests' \in [Tokens ->
          [state : {"new", "check", "insert", "accepted", "rejected", "lost"},
           reg   : Registrations \cup {None}]]
    BY <1>1 DEF ServerInductiveInv, ServerTypeOK
  <2>3. \A r \in Open' : requests'[r].reg \in Registrations
    BY <1>4 DEF Open
  <2>4. inflight' \in [hash : Roots, period : Periods] \cup {None} /\ restarts' \in Nat
    BY <1>1 DEF ServerInductiveInv, ServerTypeOK
  <2>5. ZKIDPTypeOK'
    BY <1>1, ContractKept
  <2> QED
    BY <1>1, <2>1, <2>2, <2>3, <2>4, <2>5 DEF ServerInductiveInv, ServerTypeOK, databaseVars
<1>6. RequestsFit'
  <2> SUFFICES ASSUME NEW r \in Tokens PROVE RequestFits(r)'
    BY <1>4 DEF RequestsFit, Open
  <2>1. CASE r \in Open
    BY <1>3, <2>1 DEF RequestFits
  <2>2. CASE r \notin Open
    BY <1>1, <1>3, <1>4, <2>2
    DEF ServerInductiveInv, RequestsFit, RequestFits, databaseVars
  <2> QED
    BY <2>1, <2>2
<1>7. LockFits' /\ TasksFit'
  BY <1>1, <1>2 DEF LockFits, TasksFit, TaskFits
<1>8. RowsFit' /\ TreesFit' /\ ProofsFit'
  BY <1>1, TablesKept DEF zkidpVars
<1>9. SubmissionsFit'
  <2>1. restarts' # 0
    BY <1>1 DEF ServerInductiveInv, ServerTypeOK
  <2> QED
    BY <1>1, <2>1 DEF ServerInductiveInv, SubmissionsFit, SubmittedOnce, zkidpVars
<1> QED
  BY <1>1, <1>5, <1>6, <1>7, <1>8, <1>9, ContractKept DEF ServerInductiveInv

-----------------------------------------------------------------------------
(* Transactions and periods *)

\* Who is mining waits for the transaction in flight.
LEMMA MiningWaits ==
  ASSUME ServerInductiveInv, NEW t \in TaskIds
  PROVE  /\ Waits(t) <=> tasks[t].pc = "mining"
         /\ tasks[t].pc = "mining" =>
              /\ inflight.hash \in tasks[t].todo
              /\ inflight.period = tasks[t].period
              /\ Pending(inflight.hash, inflight.period)
BY DEF ServerInductiveInv, TasksFit, TaskFits, Waits

\* The transaction in flight succeeds with an event of its own.
LEMMA MineTreeEffect ==
  ASSUME ServerInductiveInv, MineTree
  PROVE  /\ inflight # None /\ inflight' = None
         /\ ZKIDPInductiveInv'
         /\ \E e \in [root : Roots, period : Periods, iteration : Slots] :
              /\ e.root = inflight.hash /\ e.period = inflight.period /\ e.iteration # NULL
              /\ HashAdded' = HashAdded \cup {e}
              /\ tasks' = [t \in TaskIds |->
                   IF Waits(t)
                   THEN [tasks[t] EXCEPT
                           !.pc = "submit", !.hash = NoRoot,
                           !.todo = tasks[t].todo \ {inflight.hash},
                           !.events = tasks[t].events \cup {e}]
                   ELSE tasks[t]]
         /\ UNCHANGED <<databaseVars, requests, raced, interval_lock, treesBuilt, restarts>>
<1> DEFINE hash == inflight.hash
           period == inflight.period
<1>1. /\ inflight # None /\ inflight' = None
      /\ SubmitHash(operator, hash, period)
      /\ tasks' = [t \in TaskIds |->
           IF Waits(t)
           THEN [tasks[t] EXCEPT
                   !.pc = "submit", !.hash = NoRoot,
                   !.todo = tasks[t].todo \ {hash},
                   !.events = tasks[t].events \cup {Event(hash, period, pLastIteration')}]
           ELSE tasks[t]]
      /\ UNCHANGED <<databaseVars, requests, raced, interval_lock, treesBuilt, restarts>>
  BY DEF MineTree
<1>2. operator \in Accounts /\ hash \in Roots /\ period \in Periods
  BY <1>1 DEF ServerInductiveInv, ServerTypeOK, ZKIDPTypeOK, IDPTypeOK
<1>3. ZKIDPInductiveInv'
  BY <1>1, <1>2, SubmitHashInv DEF ServerInductiveInv
<1>4. /\ pLastIteration' \in Slots /\ pLastIteration' # 0
      /\ HashAdded' = HashAdded \cup {Event(hash, period, pLastIteration')}
  <2>1. HashAdded' = HashAdded \cup {Event(hash, period, pLastIteration')}
    BY <1>1 DEF SubmitHash
  <2>2. pLastIteration' \in Slots /\ pLastIteration' # 0
    BY <1>1, <1>2, SubmitHashEffect DEF ServerInductiveInv
  <2> QED
    BY <2>1, <2>2
<1> DEFINE e == Event(hash, period, pLastIteration')
<1>5. /\ e \in [root : Roots, period : Periods, iteration : Slots]
      /\ e.root = hash /\ e.period = period /\ e.iteration # NULL
  BY <1>2, <1>4 DEF Event, NULL
<1> HIDE DEF e
<1> QED
  BY <1>1, <1>3, <1>4, <1>5 DEF e

LEMMA MineTreeInv ==
  ASSUME ServerInductiveInv, MineTree
  PROVE  ServerInductiveInv'
<1> DEFINE hash == inflight.hash
<1>1. PICK e \in [root : Roots, period : Periods, iteration : Slots] :
        /\ e.root = hash /\ e.period = inflight.period /\ e.iteration # NULL
        /\ HashAdded' = HashAdded \cup {e}
        /\ tasks' = [t \in TaskIds |->
             IF Waits(t)
             THEN [tasks[t] EXCEPT
                     !.pc = "submit", !.hash = NoRoot,
                     !.todo = tasks[t].todo \ {hash},
                     !.events = tasks[t].events \cup {e}]
             ELSE tasks[t]]
  BY MineTreeEffect
<1>2. /\ inflight # None /\ inflight' = None
      /\ ZKIDPInductiveInv'
      /\ UNCHANGED <<databaseVars, requests, raced, interval_lock, treesBuilt, restarts>>
  BY MineTreeEffect
<1>3. tasks \in [TaskIds -> TaskRecords]
  BY DEF ServerInductiveInv, ServerTypeOK
<1> DEFINE New(t) == [tasks[t] EXCEPT !.pc = "submit", !.hash = NoRoot,
                                      !.todo = tasks[t].todo \ {hash},
                                      !.events = tasks[t].events \cup {e}]
<1>4. ASSUME NEW t \in TaskIds
      PROVE  /\ New(t) \in TaskRecords /\ New(t).pc = "submit"
             /\ New(t).period = tasks[t].period
             /\ New(t).todo = tasks[t].todo \ {hash}
             /\ New(t).events = tasks[t].events \cup {e}
  BY <1>3 DEF TaskRecords
<1>5. /\ \A t \in TaskIds : tasks[t].pc = "mining" => tasks'[t] = New(t)
      /\ \A t \in TaskIds : tasks[t].pc # "mining" => tasks'[t] = tasks[t]
  BY <1>1, MiningWaits
<1> HIDE DEF New
<1>6. tasks' \in [TaskIds -> TaskRecords]
  BY <1>1, <1>3, <1>4 DEF New
<1>7. ServerTypeOK'
  BY <1>2, <1>6 DEF ServerInductiveInv, ServerTypeOK, ZKIDPInductiveInv, databaseVars, Open
<1>8. LockFits'
  BY <1>2, <1>4, <1>5 DEF ServerInductiveInv, LockFits
<1>9. TasksFit'
  <2> SUFFICES ASSUME NEW t \in TaskIds PROVE TaskFits(t)'
    BY DEF TasksFit
  <2>1. CASE tasks[t].pc # "mining"
    BY <1>1, <1>2, <1>5, <2>1, TaskKept DEF databaseVars
  <2>2. CASE tasks[t].pc = "mining"
    <3>1. TaskFits(t)
      BY DEF ServerInductiveInv, TasksFit
    <3>2. /\ tasks'[t].pc = "submit" /\ tasks'[t].period = tasks[t].period
          /\ tasks'[t].todo = tasks[t].todo \ {hash}
          /\ tasks'[t].events = tasks[t].events \cup {e}
      BY <1>4, <1>5, <2>2
    <3>3. hash \in tasks[t].todo /\ Pending(e.root, e.period) /\ tasks[t].period \in Periods
      BY <1>1, <2>2, <3>1, MiningWaits DEF TaskFits
    <3>4. \A h, p : Pending(h, p)' <=> Pending(h, p)
      BY <1>2 DEF Pending, databaseVars
    <3>5. \A f \in tasks[t].events : f.root # e.root
      BY <1>1, <3>1, <3>3 DEF TaskFits
    <3>6. \A h \in tasks'[t].todo : Pending(h, tasks[t].period)'
      BY <3>1, <3>2, <3>4 DEF TaskFits
    <3>7. \A f \in tasks'[t].events :
            /\ f \in HashAdded' /\ f.root \notin tasks'[t].todo
            /\ Pending(f.root, f.period)'
      BY <1>1, <3>1, <3>2, <3>3, <3>4 DEF TaskFits
    <3>8. \A f, g \in tasks'[t].events : f.root = g.root => f = g
      BY <3>1, <3>2, <3>5 DEF TaskFits
    <3> HIDE DEF hash
    <3> QED
      BY <3>2, <3>3, <3>6, <3>7, <3>8 DEF TaskFits
  <2> QED
    BY <2>1, <2>2
<1>10. RowsFit' /\ TreesFit' /\ ProofsFit' /\ RequestsFit'
  BY <1>1, <1>2, TablesKept, RequestsKept DEF databaseVars
<1>11. SubmissionsFit'
  <2>1. ASSUME restarts = 0
        PROVE  \E t \in TaskIds : tasks[t].pc = "mining"
    BY <1>2, <2>1 DEF ServerInductiveInv, SubmissionsFit
  <2>2. ASSUME restarts = 0, NEW f \in HashAdded
        PROVE  f.root # e.root
    <3>1. PICK t \in TaskIds : tasks[t].pc = "mining"
      BY <2>1, <2>2
    <3>2. hash \in tasks[t].todo /\ Pending(hash, inflight.period)
      BY <3>1, MiningWaits
    <3>3. CASE \E tree \in idp_tree_hashes : tree.hash = f.root /\ tree.iteration # NULL
      BY <1>1, <3>2, <3>3 DEF ServerInductiveInv, TreesFit, Pending
    <3>4. CASE \E u \in TaskIds : f \in tasks[u].events
      <4>1. PICK u \in TaskIds : f \in tasks[u].events
        BY <3>4
      <4>2. u = t /\ f.root \notin tasks[u].todo
        BY <3>1, <4>1 DEF ServerInductiveInv, LockFits, TasksFit, TaskFits
      <4> QED
        BY <1>1, <3>2, <4>2
    <3> QED
      BY <2>2, <3>3, <3>4 DEF ServerInductiveInv, SubmissionsFit
  <2>3. SubmittedOnce'
    BY <1>1, <1>2, <2>2 DEF ServerInductiveInv, SubmissionsFit, SubmittedOnce
  <2>4. \A t \in TaskIds : tasks[t].events \subseteq tasks'[t].events
    BY <1>4, <1>5
  <2>5. restarts = 0 => \E t \in TaskIds : e \in tasks'[t].events
    BY <1>4, <1>5, <2>1
  <2> QED
    BY <1>1, <1>2, <2>3, <2>4, <2>5
    DEF ServerInductiveInv, SubmissionsFit, databaseVars
<1> QED
  BY <1>2, <1>7, <1>8, <1>9, <1>10, <1>11 DEF ServerInductiveInv

LEMMA RevertTreeInv ==
  ASSUME ServerInductiveInv, RevertTree
  PROVE  ServerInductiveInv'
<1>1. /\ inflight # None /\ inflight' = None
      /\ tasks' = [t \in TaskIds |->
           IF Waits(t) THEN [tasks[t] EXCEPT !.pc = "failed"] ELSE tasks[t]]
      /\ UNCHANGED <<zkidpVars, databaseVars, requests, raced, interval_lock, treesBuilt, restarts>>
  BY DEF RevertTree
<1>2. tasks \in [TaskIds -> TaskRecords]
  BY DEF ServerInductiveInv, ServerTypeOK
<1> DEFINE New(t) == [tasks[t] EXCEPT !.pc = "failed"]
<1>3. ASSUME NEW t \in TaskIds
      PROVE  /\ New(t) \in TaskRecords /\ New(t).pc = "failed"
             /\ New(t).period = tasks[t].period
             /\ New(t).todo = tasks[t].todo /\ New(t).events = tasks[t].events
  BY <1>2 DEF TaskRecords
<1>4. /\ \A t \in TaskIds : tasks[t].pc = "mining" => tasks'[t] = New(t)
      /\ \A t \in TaskIds : tasks[t].pc # "mining" => tasks'[t] = tasks[t]
  BY <1>1, MiningWaits
<1> HIDE DEF New
<1>5. tasks' \in [TaskIds -> TaskRecords]
  BY <1>1, <1>2, <1>3 DEF New
<1>6. ServerTypeOK'
  BY <1>1, <1>5, ContractKept
  DEF ServerInductiveInv, ServerTypeOK, databaseVars, Open, zkidpVars
<1>7. LockFits'
  <2>1. \A t \in TaskIds : tasks'[t].pc # "idle" => tasks[t].pc # "idle"
    BY <1>4
  <2> QED
    BY <1>1, <2>1 DEF ServerInductiveInv, LockFits
<1>8. TasksFit'
  <2> SUFFICES ASSUME NEW t \in TaskIds PROVE TaskFits(t)'
    BY DEF TasksFit
  <2>1. CASE tasks[t].pc # "mining"
    BY <1>1, <1>4, <2>1, TaskKept DEF databaseVars, zkidpVars
  <2>2. CASE tasks[t].pc = "mining"
    <3>1. TaskFits(t)
      BY DEF ServerInductiveInv, TasksFit
    <3>2. /\ tasks'[t].pc = "failed" /\ tasks'[t].period = tasks[t].period
          /\ tasks'[t].todo = tasks[t].todo /\ tasks'[t].events = tasks[t].events
      BY <1>3, <1>4, <2>2
    <3>3. \A h, p : Pending(h, p)' <=> Pending(h, p)
      BY <1>1 DEF Pending, databaseVars
    <3> QED
      BY <1>1, <2>2, <3>1, <3>2, <3>3 DEF TaskFits, zkidpVars
  <2> QED
    BY <2>1, <2>2
<1>9. RowsFit' /\ TreesFit' /\ ProofsFit' /\ RequestsFit'
  BY <1>1, TablesKept, RequestsKept DEF databaseVars, zkidpVars
<1>10. SubmissionsFit'
  <2>1. \A t \in TaskIds : tasks'[t].events = tasks[t].events
    BY <1>3, <1>4
  <2> QED
    BY <1>1, <2>1
    DEF ServerInductiveInv, SubmissionsFit, SubmittedOnce, zkidpVars, databaseVars
<1> QED
  BY <1>1, <1>6, <1>7, <1>8, <1>9, <1>10, ContractKept DEF ServerInductiveInv

LEMMA ServerNewPeriodInv ==
  ASSUME ServerInductiveInv, ServerNewPeriod
  PROVE  ServerInductiveInv'
<1>1. UNCHANGED <<databaseVars, handlerVars, HashAdded>>
  BY DEF ServerNewPeriod, ZKIDPNewPeriod
<1>2. ZKIDPInductiveInv'
  BY ZKIDPNextInv DEF ServerInductiveInv, ServerNewPeriod, ZKIDPNext
<1>3. ServerTypeOK'
  BY <1>1, <1>2
  DEF ServerInductiveInv, ServerTypeOK, ZKIDPInductiveInv, databaseVars, handlerVars, Open
<1>4. RowsFit' /\ TreesFit' /\ ProofsFit' /\ RequestsFit'
  BY <1>1, TablesKept, RequestsKept DEF databaseVars, handlerVars
<1>5. LockFits' /\ TasksFit'
  BY <1>1, TasksKept DEF databaseVars, handlerVars
<1>6. SubmissionsFit'
  BY <1>1, SubmissionsKept DEF databaseVars, handlerVars
<1> QED
  BY <1>2, <1>3, <1>4, <1>5, <1>6 DEF ServerInductiveInv

-----------------------------------------------------------------------------

LEMMA ServerNextInv == ServerInductiveInv /\ [ServerNext]_serverVars => ServerInductiveInv'
<1> SUFFICES ASSUME ServerInductiveInv, [ServerNext]_serverVars
             PROVE  ServerInductiveInv'
  OBVIOUS
<1>1. ASSUME NEW r \in Tokens,
             \/ \E identity \in Identities, pubkey \in Keys, period \in Periods :
                  ArriveRegistration(r, identity, pubkey, period)
             \/ CheckRegistration(r)
             \/ InsertRegistration(r)
      PROVE  ServerInductiveInv'
  BY <1>1, ArriveRegistrationInv, CheckRegistrationInv, InsertRegistrationInv
<1>2. ASSUME NEW t \in TaskIds, TaskStep(t)
      PROVE  ServerInductiveInv'
  <2>1. CASE StartTask(t) \/ NothingToDo(t) \/ BuildTree(t) \/ StoreTree(t) \/ StoreProofs(t)
    BY <2>1, StartTaskInv, NothingToDoInv, BuildTreeInv, StoreTreeInv, StoreProofsInv
  <2>2. CASE SelectTrees(t) \/ SendTree(t) \/ RecordIteration(t) \/ EndTask(t)
    BY <2>2, SelectTreesInv, SendTreeInv, RecordIterationInv, EndTaskInv
  <2>3. CASE Throw(t)
    BY <2>3, RestartInv DEF Throw
  <2> QED
    BY <1>2, <2>1, <2>2, <2>3 DEF TaskStep
<1>3. CASE MineTree \/ RevertTree
  BY <1>3, MineTreeInv, RevertTreeInv
<1>4. CASE Crash
  BY <1>4, RestartInv DEF Crash
<1>5. CASE ServerNewPeriod
  BY <1>5, ServerNewPeriodInv
<1>6. CASE UNCHANGED serverVars
  <2> USE <1>6 DEF serverVars, zkidpVars, databaseVars, handlerVars
  <2>1. ServerTypeOK' /\ ZKIDPInductiveInv'
    BY ContractKept DEF ServerInductiveInv, ServerTypeOK, Open
  <2>2. RowsFit' /\ TreesFit' /\ ProofsFit' /\ RequestsFit'
    BY TablesKept, RequestsKept
  <2>3. LockFits' /\ TasksFit' /\ SubmissionsFit'
    BY TasksKept, SubmissionsKept
  <2> QED
    BY <2>1, <2>2, <2>3 DEF ServerInductiveInv
<1> QED
  BY <1>1, <1>2, <1>3, <1>4, <1>5, <1>6 DEF ServerNext

\* Tables, runs, transactions and the slots of the contract fit together in
\* every reachable state.
THEOREM ServerInvariance == ServerSpec => []ServerInductiveInv
  BY ServerInitInv, ServerNextInv, PTL DEF ServerSpec

\* The variables have their types in every reachable state.
THEOREM ServerTypeCorrect == ServerSpec => []ServerTypeOK
<1>1. ServerInductiveInv => ServerTypeOK
  BY DEF ServerInductiveInv
<1> QED
  BY <1>1, ServerInvariance, PTL

\* No root is submitted twice while the process is not restarted.
THEOREM RootsSubmittedOnce == ServerSpec => []SubmittedOnce
<1>1. ServerInductiveInv => SubmittedOnce
  BY DEF ServerInductiveInv, SubmissionsFit
<1> QED
  BY <1>1, ServerInvariance, PTL

-----------------------------------------------------------------------------
(* Proofs that /proof hands out *)

\* A complete row of getProofInfo joins a row of each table.
LEMMA ProofInfoRows ==
  ASSUME ServerTypeOK, NEW token, NEW info \in ProofInfo(token)
  PROVE  \E row \in idp_pubkeys, tree \in idp_tree_hashes, e \in idp_pubkey_in_tree :
           /\ row.token = token
           /\ tree.iteration # NULL
           /\ e.hash = tree.hash /\ e.pubkey = row.pubkey
           /\ info.pubkey = row.pubkey /\ info.hash = tree.hash
           /\ info.period = tree.period /\ info.iteration = tree.iteration
<1>1. PICK q \in idp_pubkeys \X idp_tree_hashes :
        /\ q[1].token = token
        /\ q[2].iteration # NULL
        /\ [hash |-> q[2].hash, pubkey |-> q[1].pubkey] \in idp_pubkey_in_tree
        /\ info = [pubkey |-> q[1].pubkey, hash |-> q[2].hash, iteration |-> q[2].iteration,
                   period |-> q[2].period]
  BY DEF ProofInfo
<1>2. q[1] \in idp_pubkeys /\ q[2] \in idp_tree_hashes
  OBVIOUS
<1>3. /\ info.pubkey = q[1].pubkey /\ info.hash = q[2].hash
      /\ info.iteration = q[2].iteration /\ info.period = q[2].period
  BY <1>1
<1>4. PICK e \in idp_pubkey_in_tree : e.hash = q[2].hash /\ e.pubkey = q[1].pubkey
  BY <1>1
<1> QED
  BY <1>1, <1>2, <1>3, <1>4

\* And any such rows are joined.
LEMMA RowsProofInfo ==
  ASSUME ServerTypeOK, NEW token, NEW row \in idp_pubkeys, NEW tree \in idp_tree_hashes,
         NEW e \in idp_pubkey_in_tree,
         row.token = token, tree.iteration # NULL,
         e.hash = tree.hash, e.pubkey = row.pubkey
  PROVE  [pubkey |-> row.pubkey, hash |-> tree.hash, iteration |-> tree.iteration,
          period |-> tree.period] \in ProofInfo(token)
<1> DEFINE q == <<row, tree>>
<1>1. /\ q \in idp_pubkeys \X idp_tree_hashes
      /\ q[1] = row /\ q[2] = tree
  OBVIOUS
<1>2. e = [hash |-> tree.hash, pubkey |-> row.pubkey]
  BY DEF ServerTypeOK
<1> HIDE DEF q
<1>3. q \in {p \in idp_pubkeys \X idp_tree_hashes :
              /\ p[1].token = token
              /\ p[2].iteration # NULL
              /\ [hash |-> p[2].hash, pubkey |-> p[1].pubkey] \in idp_pubkey_in_tree}
  BY <1>1, <1>2
<1> QED
  BY <1>1, <1>3 DEF ProofInfo

\* A proof that is served for the current period is one the contract accepts:
\* its iteration still holds its root, and its tree contains the key.
THEOREM ServedProofsAccepted == ServerSpec => []ServedProofsUsable
<1>1. ServerInductiveInv => ServedProofsUsable
  <2> SUFFICES ASSUME ServerInductiveInv, NEW token \in Tokens, NEW info \in ProofInfo(token),
                      info.period = now
               PROVE  /\ HashAvailable(info.iteration)
                      /\ GetHash(info.iteration) = <<info.hash, info.period>>
                      /\ info.hash.leaves[info.pubkey] > 0
    BY DEF ServedProofsUsable
  <2>1. ServerTypeOK /\ ZKIDPInductiveInv
    BY DEF ServerInductiveInv
  <2>2. PICK row \in idp_pubkeys, tree \in idp_tree_hashes, e \in idp_pubkey_in_tree :
          /\ row.token = token
          /\ tree.iteration # NULL
          /\ e.hash = tree.hash /\ e.pubkey = row.pubkey
          /\ info.pubkey = row.pubkey /\ info.hash = tree.hash
          /\ info.period = tree.period /\ info.iteration = tree.iteration
    BY <2>1, ProofInfoRows
  <2>3. /\ Event(info.hash, info.period, info.iteration) \in HashAdded
        /\ info.hash.leaves[info.pubkey] > 0
    BY <2>2 DEF ServerInductiveInv, TreesFit, ProofsFit
  <2> DEFINE event == Event(info.hash, info.period, info.iteration)
  <2>4. /\ event.root = info.hash /\ event.period = info.period
        /\ event.iteration = info.iteration
    BY DEF Event
  <2> HIDE DEF event
  <2>5. /\ HashAvailable(event.iteration)
        /\ GetHash(event.iteration) = <<event.root, event.period>>
    BY <2>1, <2>3, <2>4, CurrentRootsFromInv DEF CurrentRootsRetrievable, event
  <2> QED
    BY <2>3, <2>4, <2>5
<1> QED
  BY <1>1, ServerInvariance, PTL

-----------------------------------------------------------------------------
(* The server keeps the promise of IdentityProvider *)

Told(t) ==
  {[pubkey   |-> info.pubkey,
    period   |-> info.period,
    evidence |-> <<info.hash, info.iteration>>] : info \in Answers(t)}

AnswerOf(row, tree) ==
  [pubkey |-> row.pubkey, period |-> tree.period,
   evidence |-> <<tree.hash, tree.iteration>>]

\* The token of a row is answered when a proof leads to a tree of the row's
\* period that is on the blockchain.
Given(row, a) ==
  \E tree \in idp_tree_hashes, e \in idp_pubkey_in_tree :
    /\ tree.iteration # NULL /\ tree.period = row.period
    /\ e.hash = tree.hash /\ e.pubkey = row.pubkey
    /\ a = AnswerOf(row, tree)

\* A leaf of a tree of another period than a row's is there for a twin of the row.
LEMMA LeafOfTwin ==
  ASSUME ServerInductiveInv, NEW row \in idp_pubkeys, NEW tree \in idp_tree_hashes,
         tree.hash.leaves[row.pubkey] > 0
  PROVE  tree.period = row.period \/ Twins(row) # {}
<1>1. row.pubkey \in Keys
  BY DEF ServerInductiveInv, ServerTypeOK
<1>2. PICK q \in idp_pubkeys : Lower[q.pubkey] = row.pubkey /\ q.period = tree.period
  BY <1>1 DEF ServerInductiveInv, TreesFit, LeavesStored
<1> QED
  BY <1>2 DEF Twins

LEMMA AnswersAreGiven ==
  ServerInductiveInv =>
    \A t, a : a \in Told(t) <=> \E row \in idp_pubkeys : row.token = t /\ Given(row, a)
<1> SUFFICES ASSUME ServerInductiveInv, NEW t, NEW a
             PROVE  a \in Told(t) <=>
                      \E row \in idp_pubkeys : row.token = t /\ Given(row, a)
  OBVIOUS
<1>1. ServerTypeOK
  BY DEF ServerInductiveInv
<1>2. ASSUME a \in Told(t)
      PROVE  \E row \in idp_pubkeys : row.token = t /\ Given(row, a)
  <2>1. PICK info \in Answers(t) :
          a = [pubkey |-> info.pubkey, period |-> info.period,
               evidence |-> <<info.hash, info.iteration>>]
    BY <1>2 DEF Told
  <2>2. /\ info \in ProofInfo(t)
        /\ \A row \in idp_pubkeys :
             row.token = t => info.period = row.period \/ Twins(row) = {}
    BY DEF Answers
  <2>3. PICK row \in idp_pubkeys, tree \in idp_tree_hashes, e \in idp_pubkey_in_tree :
          /\ row.token = t
          /\ tree.iteration # NULL
          /\ e.hash = tree.hash /\ e.pubkey = row.pubkey
          /\ info.pubkey = row.pubkey /\ info.hash = tree.hash
          /\ info.period = tree.period /\ info.iteration = tree.iteration
    BY <1>1, <2>2, ProofInfoRows
  <2>4. tree.hash.leaves[row.pubkey] > 0
    BY <2>3 DEF ServerInductiveInv, ProofsFit
  <2>5. tree.period = row.period
    BY <2>2, <2>3, <2>4, LeafOfTwin
  <2>6. a = AnswerOf(row, tree)
    BY <2>1, <2>3 DEF AnswerOf
  <2> QED
    BY <2>3, <2>5, <2>6 DEF Given
<1>3. ASSUME NEW row \in idp_pubkeys, row.token = t, Given(row, a)
      PROVE  a \in Told(t)
  <2>1. PICK tree \in idp_tree_hashes, e \in idp_pubkey_in_tree :
          /\ tree.iteration # NULL /\ tree.period = row.period
          /\ e.hash = tree.hash /\ e.pubkey = row.pubkey
          /\ a = AnswerOf(row, tree)
    BY <1>3 DEF Given
  <2> DEFINE info == [pubkey |-> row.pubkey, hash |-> tree.hash,
                      iteration |-> tree.iteration, period |-> tree.period]
  <2>2. info \in ProofInfo(t)
    BY <1>1, <1>3, <2>1, RowsProofInfo
  <2>3. /\ info.pubkey = row.pubkey /\ info.hash = tree.hash
        /\ info.period = tree.period /\ info.iteration = tree.iteration
    OBVIOUS
  <2> HIDE DEF info
  <2>4. a = [pubkey |-> info.pubkey, period |-> info.period,
             evidence |-> <<info.hash, info.iteration>>]
    BY <2>1, <2>3 DEF AnswerOf
  <2>5. \A other \in idp_pubkeys : other.token = t => info.period = other.period
    BY <1>3, <2>1, <2>3 DEF ServerInductiveInv, RowsFit
  <2>6. info \in Answers(t)
    BY <2>2, <2>5 DEF Answers
  <2> QED
    BY <2>4, <2>6 DEF Told
<1> QED
  BY <1>2, <1>3

LEMMA AnswersAreGivenNext ==
  (ServerInductiveInv =>
     \A t, a : a \in Told(t) <=> \E row \in idp_pubkeys : row.token = t /\ Given(row, a))'
BY AnswersAreGiven, PTL

\* What is given to a row is for its key and its period.
LEMMA GivenFits ==
  ServerInductiveInv =>
    \A row \in idp_pubkeys : \A a : Given(row, a) => a \in Provider!AnswersTo(row)
<1> SUFFICES ASSUME ServerInductiveInv, NEW row \in idp_pubkeys,
                    NEW tree \in idp_tree_hashes, tree.period = row.period
             PROVE  AnswerOf(row, tree) \in Provider!AnswersTo(row)
  BY DEF Given
<1>1. tree.hash \in Roots /\ tree.iteration \in Slots
  BY DEF ServerInductiveInv, ServerTypeOK
<1> QED
  BY <1>1 DEF AnswerOf, Provider!AnswersTo

LEMMA GivenFitsNext ==
  (ServerInductiveInv =>
     \A row \in idp_pubkeys : \A a : Given(row, a) => a \in Provider!AnswersTo(row))'
BY GivenFits, PTL

LEMMA ProviderInitSimulation == ServerInit => Provider!ProviderInit
BY DEF ServerInit, DatabaseInit, ProofInfo, Answers, Provider!ProviderInit

\* A step after which every row has what it had is a stutter for answers.
LEMMA AnswersKept ==
  ASSUME ServerInductiveInv, ServerInductiveInv',
         idp_pubkeys \subseteq idp_pubkeys',
         \A row \in idp_pubkeys : \A a : Given(row, a)' <=> Given(row, a),
         \A row \in idp_pubkeys' \ idp_pubkeys : \A a : ~ Given(row, a)',
         NEW t \in Tokens
  PROVE  Told(t)' = Told(t)
<1>1. ASSUME NEW a PROVE a \in Told(t) <=>
                           \E row \in idp_pubkeys : row.token = t /\ Given(row, a)
  BY AnswersAreGiven
<1>2. ASSUME NEW a PROVE a \in Told(t)' <=>
                           \E row \in idp_pubkeys' : row.token = t /\ Given(row, a)'
  BY AnswersAreGivenNext
<1>3. ASSUME NEW a PROVE a \in Told(t)' <=> a \in Told(t)
  BY <1>1, <1>2
<1>4. \A a \in Told(t) : a \in Told(t)'
  BY <1>3
<1>5. \A a \in Told(t)' : a \in Told(t)
  BY <1>3
<1> QED
  BY <1>4, <1>5

LEMMA ProviderStutters ==
  ASSUME UNCHANGED idp_pubkeys, \A t \in Tokens : Told(t)' = Told(t)
  PROVE  UNCHANGED Provider!providerVars
BY DEF Told, Provider!providerVars

\* Only the tables matter to the provider.
LEMMA DatabaseStutters ==
  ASSUME UNCHANGED databaseVars
  PROVE  UNCHANGED Provider!providerVars
BY DEF databaseVars, ProofInfo, Answers, Twins, Provider!providerVars

LEMMA ProviderCardinality == \A S : Provider!Cardinality(S) = Cardinality(S)
BY DEF Cardinality, Provider!Cardinality

\* What a key has been given is one answer.
LEMMA OneGiven ==
  ASSUME ServerInductiveInv, NEW row, NEW a, NEW b, Given(row, a), Given(row, b)
  PROVE  a = b
BY DEF Given, ServerInductiveInv, TreesFit, ProofsFit

\* A step that gives something to one row at most, which had nothing.
LEMMA GivingAnswers ==
  ASSUME ServerInductiveInv, ServerInductiveInv', idp_pubkeys \subseteq idp_pubkeys',
         NEW own \in idp_pubkeys', NEW answer,
         own \in idp_pubkeys => \A a : ~ Given(own, a),
         \A a : Given(own, a)' <=> a = answer,
         \A row \in idp_pubkeys' \ {own} :
            row \in idp_pubkeys /\ \A a : Given(row, a)' <=> Given(row, a)
  PROVE  Provider!Answer(own)
<1>1. own.token \in Tokens /\ \A row \in idp_pubkeys' : row.token = own.token => row = own
  BY DEF ServerInductiveInv, ServerTypeOK, RowsFit
<1>2. \A t, a : a \in Told(t) <=> \E row \in idp_pubkeys : row.token = t /\ Given(row, a)
  BY AnswersAreGiven
<1>3. \A t, a : a \in Told(t)' <=> \E row \in idp_pubkeys' : row.token = t /\ Given(row, a)'
  BY AnswersAreGivenNext
<1>4. Told(own.token) = {}
  BY <1>1, <1>2
<1>5. Told(own.token)' = {answer}
  <2>1. ASSUME NEW a PROVE a \in Told(own.token)' <=> a = answer
    BY <1>1, <1>3
  <2> QED
    BY <2>1
<1>6. ASSUME NEW t \in Tokens \ {own.token}
      PROVE  Told(t)' = Told(t)
  <2>1. ASSUME NEW a PROVE a \in Told(t)' <=> a \in Told(t)
    BY <1>2, <1>3
  <2>2. \A a \in Told(t) : a \in Told(t)'
    BY <2>1
  <2>3. \A a \in Told(t)' : a \in Told(t)
    BY <2>1
  <2> QED
    BY <2>2, <2>3
<1>7. answer \in Provider!AnswersTo(own)
  <2>1. Given(own, answer)'
    OBVIOUS
  <2>2. \A row \in idp_pubkeys' : \A a : Given(row, a)' => a \in Provider!AnswersTo(row)
    BY GivenFitsNext DEF Provider!AnswersTo
  <2> QED
    BY <2>1, <2>2
<1>8. Cardinality(Told(own.token)') = 1
  BY <1>5, FS_Singleton
<1> QED
  BY <1>1, <1>4, <1>5, <1>6, <1>7, <1>8, ProviderCardinality DEF Told, Provider!Answer

\* A new row is nobody's entry, and its request races those of the same person
\* that are stored.  It has no proof, unless its key has a twin whose proof
\* is made for the same period: then it is answered at once.
LEMMA InsertRegistrationEnrols ==
  ASSUME ServerInductiveInv, ServerInductiveInv', NEW r \in Tokens, InsertRegistration(r)
  PROVE  Provider!Enrol(r) \/ UNCHANGED Provider!providerVars
<1>1. PICK new :
        /\ requests[r].state = "insert"
        /\ new.token = r
        /\ new.identity = requests[r].reg.identity /\ new.period = requests[r].reg.period
        /\ \/ idp_pubkeys' = idp_pubkeys
           \/ /\ idp_pubkeys' = idp_pubkeys \cup {new}
              /\ \A row \in idp_pubkeys : row.pubkey # new.pubkey /\ row.token # r
        /\ UNCHANGED <<idp_tree_hashes, idp_pubkey_in_tree>>
  BY InsertRegistrationEffect
<1>2. CASE idp_pubkeys' = idp_pubkeys
  BY <1>1, <1>2, DatabaseStutters DEF databaseVars
<1>3. CASE /\ idp_pubkeys' = idp_pubkeys \cup {new}
           /\ \A row \in idp_pubkeys : row.pubkey # new.pubkey /\ row.token # r
  <2>1. \A row, a : Given(row, a)' <=> Given(row, a)
    BY <1>1 DEF Given
  <2>2. \A row \in idp_pubkeys : Provider!SamePerson(row, new) => {row.token, r} \in raced
    BY <1>1 DEF ServerInductiveInv, RequestsFit, RequestFits, Provider!SamePerson
  <2>3. \A row \in idp_pubkeys : ~ Provider!SameEntry(row, new)
    BY <1>1, <1>3 DEF Provider!SameEntry
  <2>4. new \in idp_pubkeys' /\ new.token = r /\ new \notin idp_pubkeys
    BY <1>1, <1>3
  <2>5. CASE \A a : ~ Given(new, a)
    <3>1. \A t \in Tokens : Told(t)' = Told(t)
      BY <1>3, <2>1, <2>5, AnswersKept
    <3> QED
      BY <1>3, <2>2, <2>3, <2>4, <3>1 DEF Told, Provider!Enrol
  <2>6. ASSUME NEW answer, Given(new, answer)
        PROVE  Provider!Enrol(r)
    <3>1. \A a : Given(new, a)' <=> a = answer
      <4>1. ASSUME NEW a, Given(new, a) PROVE a = answer
        BY <2>6, <4>1, OneGiven
      <4> QED
        BY <2>1, <2>6, <4>1
    <3>2. \A row \in idp_pubkeys' \ {new} : row \in idp_pubkeys
      BY <1>3
    <3>3. Provider!Answer(new)
      BY <1>3, <2>1, <2>4, <3>1, <3>2, GivingAnswers
    <3> QED
      BY <1>3, <2>2, <2>3, <2>4, <3>3 DEF Provider!Enrol
  <2> QED
    BY <2>5, <2>6
<1> QED
  BY <1>1, <1>2, <1>3

\* A new tree is not on the blockchain.
LEMMA StoreTreeStutters ==
  ASSUME ServerInductiveInv, ServerInductiveInv', NEW t \in TaskIds, StoreTree(t)
  PROVE  UNCHANGED Provider!providerVars
<1>1. /\ \/ idp_tree_hashes' = idp_tree_hashes
         \/ \E new \in [hash : {tasks[t].hash}, iteration : {NULL},
                        period : {tasks[t].period}] :
              /\ idp_tree_hashes' = idp_tree_hashes \cup {new}
              /\ \A tree \in idp_tree_hashes : tree.hash # tasks[t].hash
      /\ UNCHANGED <<idp_pubkeys, idp_pubkey_in_tree>>
  BY StoreTreeEffect
<1>2. /\ idp_tree_hashes \subseteq idp_tree_hashes'
      /\ \A tree \in idp_tree_hashes' : tree.iteration # NULL => tree \in idp_tree_hashes
  BY <1>1
<1>3. \A row, a : Given(row, a)' <=> Given(row, a)
  BY <1>1, <1>2 DEF Given
<1> QED
  BY <1>1, <1>3, AnswersKept, ProviderStutters

\* A step that only gives something to one row that had nothing is a Grant.
LEMMA GivingGrants ==
  ASSUME ServerInductiveInv, ServerInductiveInv', UNCHANGED idp_pubkeys,
         NEW own \in idp_pubkeys, NEW answer,
         \A a : ~ Given(own, a),
         \A a : Given(own, a)' <=> a = answer,
         \A row \in idp_pubkeys \ {own} : \A a : Given(row, a)' <=> Given(row, a)
  PROVE  Provider!Grant(own.token)
<1>1. Provider!Answer(own)
  BY GivingAnswers
<1> QED
  BY <1>1 DEF Provider!Grant

\* A proof is stored before the iteration of its tree, or after it if its
\* tree was stored and submitted by an earlier run: then it is an answer, if
\* its key is somebody's and the tree of his period.
LEMMA StoreProofsGrants ==
  ASSUME ServerInductiveInv, ServerInductiveInv', NEW t \in TaskIds, StoreProofs(t)
  PROVE  (\E r \in Tokens : Provider!Grant(r)) \/ UNCHANGED Provider!providerVars
<1>1. /\ \/ idp_pubkey_in_tree' = idp_pubkey_in_tree
         \/ \E e \in [hash : {tasks[t].hash}, pubkey : Keys] :
              /\ e.hash.leaves[e.pubkey] > 0
              /\ idp_pubkey_in_tree' = idp_pubkey_in_tree \cup {e}
              /\ ~ HasProof(e.pubkey)
              /\ \A f \in idp_pubkey_in_tree : f.hash # e.hash
      /\ UNCHANGED <<idp_pubkeys, idp_tree_hashes>>
  BY StoreProofsEffect
<1>2. CASE idp_pubkey_in_tree' = idp_pubkey_in_tree
  BY <1>1, <1>2, DatabaseStutters DEF databaseVars
<1>3. ASSUME NEW e \in [hash : {tasks[t].hash}, pubkey : Keys],
             idp_pubkey_in_tree' = idp_pubkey_in_tree \cup {e},
             ~ HasProof(e.pubkey)
      PROVE  (\E r \in Tokens : Provider!Grant(r)) \/ UNCHANGED Provider!providerVars
  <2>1. \A row \in idp_pubkeys : row.pubkey # e.pubkey =>
          \A a : Given(row, a)' <=> Given(row, a)
    BY <1>1, <1>3 DEF Given
  <2>2. \A row, a : row.pubkey = e.pubkey => ~ Given(row, a)
    BY <1>3 DEF Given, HasProof
  <2>3. CASE \A row \in idp_pubkeys, tree \in idp_tree_hashes :
               row.pubkey = e.pubkey /\ tree.hash = e.hash /\ tree.period = row.period
                 => tree.iteration = NULL
    <3>1. \A row \in idp_pubkeys : \A a : Given(row, a)' <=> Given(row, a)
      BY <1>1, <1>3, <2>3 DEF Given
    <3> QED
      BY <1>1, <3>1, AnswersKept, ProviderStutters
  <2>4. ASSUME NEW own \in idp_pubkeys, NEW tree \in idp_tree_hashes,
               own.pubkey = e.pubkey, tree.hash = e.hash, tree.period = own.period,
               tree.iteration # NULL
        PROVE  \E r \in Tokens : Provider!Grant(r)
    <3>1. \A row \in idp_pubkeys \ {own} : row.pubkey # e.pubkey
      BY <2>4 DEF ServerInductiveInv, RowsFit
    <3>2. \A a : Given(own, a)' <=> a = AnswerOf(own, tree)
      <4>1. \A other \in idp_tree_hashes : other.hash = e.hash => other = tree
        BY <2>4 DEF ServerInductiveInv, TreesFit
      <4>2. \A f \in idp_pubkey_in_tree' : f.pubkey = own.pubkey => f = e
        BY <1>3, <2>4 DEF HasProof
      <4> QED
        BY <1>1, <1>3, <2>4, <4>1, <4>2 DEF Given, AnswerOf
    <3>3. Provider!Grant(own.token)
      BY <1>1, <2>1, <2>2, <2>4, <3>1, <3>2, GivingGrants
    <3>4. own.token \in Tokens
      BY DEF ServerInductiveInv, ServerTypeOK
    <3> QED
      BY <3>3, <3>4
  <2> QED
    BY <2>3, <2>4
<1> QED
  BY <1>1, <1>2, <1>3

\* With the iteration of its tree the one proof of the tree is an answer.
LEMMA RecordIterationGrants ==
  ASSUME ServerInductiveInv, ServerInductiveInv', NEW t \in TaskIds, RecordIteration(t)
  PROVE  (\E r \in Tokens : Provider!Grant(r)) \/ UNCHANGED Provider!providerVars
<1>1. PICK e \in tasks[t].events :
        /\ e.root \in Roots /\ e.iteration \in Slots /\ e.iteration # NULL
        /\ Pending(e.root, e.period)
        /\ UpdateTreeWithIteration(e.root, e.iteration)
        /\ UNCHANGED <<idp_pubkeys, idp_pubkey_in_tree>>
  BY RecordIterationEffect
<1>2. /\ \A tree \in idp_tree_hashes : \E u \in idp_tree_hashes' :
           /\ u.hash = tree.hash /\ u.period = tree.period
           /\ u.iteration = IF tree.hash = e.root THEN e.iteration ELSE tree.iteration
      /\ \A u \in idp_tree_hashes' : \E tree \in idp_tree_hashes :
           /\ u.hash = tree.hash /\ u.period = tree.period
           /\ u.iteration = IF tree.hash = e.root THEN e.iteration ELSE tree.iteration
      /\ \A u, v \in idp_tree_hashes' : u.hash = v.hash => u = v
  BY <1>1, UpdateEffect
<1>3. \A tree \in idp_tree_hashes : tree.hash = e.root => tree.iteration = NULL
  BY <1>1 DEF Pending, ServerInductiveInv, TreesFit
<1>4. PICK mine \in idp_tree_hashes' : mine.hash = e.root /\ mine.iteration = e.iteration
  BY <1>1, <1>2 DEF Pending
<1>5. ASSUME NEW row \in idp_pubkeys,
             \/ \A f \in idp_pubkey_in_tree : f.pubkey = row.pubkey => f.hash # e.root
             \/ row.period # mine.period
      PROVE  \A a : Given(row, a)' <=> Given(row, a)
  <2>1. \A u \in idp_tree_hashes' : u.hash = e.root => u.period = mine.period
    BY <1>2, <1>4
  <2>2. \A u \in idp_tree_hashes : u.hash = e.root => u.period = mine.period
    BY <1>2, <2>1
  <2>3. ASSUME NEW a, Given(row, a) PROVE Given(row, a)'
    <3>1. PICK tree \in idp_tree_hashes, f \in idp_pubkey_in_tree :
            /\ tree.iteration # NULL /\ tree.period = row.period
            /\ f.hash = tree.hash /\ f.pubkey = row.pubkey
            /\ a = AnswerOf(row, tree)
      BY <2>3 DEF Given
    <3>2. PICK u \in idp_tree_hashes' :
            u.hash = tree.hash /\ u.period = tree.period /\ u.iteration = tree.iteration
      BY <1>2, <1>3, <3>1
    <3>3. a = AnswerOf(row, u)
      BY <3>1, <3>2 DEF AnswerOf
    <3> QED
      BY <1>1, <3>1, <3>2, <3>3 DEF Given, AnswerOf
  <2>4. ASSUME NEW a, Given(row, a)' PROVE Given(row, a)
    <3>1. PICK u \in idp_tree_hashes', f \in idp_pubkey_in_tree :
            /\ u.iteration # NULL /\ u.period = row.period
            /\ f.hash = u.hash /\ f.pubkey = row.pubkey
            /\ a = AnswerOf(row, u)
      BY <1>1, <2>4 DEF Given, AnswerOf
    <3>2. u.hash # e.root
      BY <1>5, <2>1, <3>1
    <3>3. PICK tree \in idp_tree_hashes :
            u.hash = tree.hash /\ u.period = tree.period /\ u.iteration = tree.iteration
      BY <1>2, <3>2
    <3>4. a = AnswerOf(row, tree)
      BY <3>1, <3>3 DEF AnswerOf
    <3> QED
      BY <3>1, <3>3, <3>4 DEF Given
  <2> QED
    BY <2>3, <2>4
<1>6. CASE \A own \in idp_pubkeys, f \in idp_pubkey_in_tree :
             ~ (f.hash = e.root /\ f.pubkey = own.pubkey /\ own.period = mine.period)
  <2>1. \A row \in idp_pubkeys : \A a : Given(row, a)' <=> Given(row, a)
    BY <1>5, <1>6
  <2> QED
    BY <1>1, <2>1, AnswersKept, ProviderStutters
<1>7. ASSUME NEW own \in idp_pubkeys, NEW f \in idp_pubkey_in_tree,
             f.hash = e.root, f.pubkey = own.pubkey, own.period = mine.period
      PROVE  \E r \in Tokens : Provider!Grant(r)
  <2>1. \A g \in idp_pubkey_in_tree : g.hash = e.root \/ g.pubkey = f.pubkey => g = f
    BY <1>7 DEF ServerInductiveInv, ProofsFit
  <2>2. \A row \in idp_pubkeys : row.pubkey = f.pubkey => row = own
    BY <1>7 DEF ServerInductiveInv, RowsFit
  <2>3. \A a : ~ Given(own, a)
    BY <1>3, <1>7, <2>1 DEF Given
  <2>4. \A a : Given(own, a)' <=> a = AnswerOf(own, mine)
    <3>1. \A u \in idp_tree_hashes' : u.hash = f.hash => u = mine
      BY <1>2, <1>4, <1>7
    <3> QED
      BY <1>1, <1>4, <1>7, <2>1, <3>1 DEF Given, AnswerOf
  <2>5. \A row \in idp_pubkeys \ {own} : \A a : Given(row, a)' <=> Given(row, a)
    BY <1>5, <2>1, <2>2
  <2>6. Provider!Grant(own.token)
    BY <1>1, <2>3, <2>4, <2>5, GivingGrants
  <2>7. own.token \in Tokens
    BY DEF ServerInductiveInv, ServerTypeOK
  <2> QED
    BY <2>6, <2>7
<1> QED
  BY <1>6, <1>7

LEMMA ProviderStepSimulation ==
  ASSUME ServerInductiveInv, ServerInductiveInv', [ServerNext]_serverVars
  PROVE  [Provider!ProviderNext]_(Provider!providerVars)
<1>1. ASSUME NEW r \in Tokens, InsertRegistration(r)
      PROVE  [Provider!ProviderNext]_(Provider!providerVars)
  BY <1>1, InsertRegistrationEnrols DEF Provider!ProviderNext
<1>2. ASSUME NEW t \in TaskIds, StoreTree(t) \/ StoreProofs(t) \/ RecordIteration(t)
      PROVE  [Provider!ProviderNext]_(Provider!providerVars)
  BY <1>2, StoreTreeStutters, StoreProofsGrants, RecordIterationGrants
  DEF Provider!ProviderNext
<1>3. CASE /\ ~ \E r \in Tokens : InsertRegistration(r)
           /\ ~ \E t \in TaskIds : StoreTree(t) \/ StoreProofs(t) \/ RecordIteration(t)
  <2>1. UNCHANGED databaseVars
    BY <1>3
    DEF ServerNext, serverVars, databaseVars, ArriveRegistration, CheckRegistration, TaskStep,
        StartTask, NothingToDo, BuildTree, SelectTrees, SendTree, EndTask, Throw, Restart,
        MineTree, RevertTree, Crash, ServerNewPeriod
  <2> QED
    BY <2>1, DatabaseStutters
<1> QED
  BY <1>1, <1>2, <1>3

\* Whatever runs, transactions and restarts do in between, a registration is
\* answered once, with a proof for its own key and its own period, and the
\* answer stays; nobody is stored with two keys, unless his requests raced.
THEOREM ServerImplementsProvider == ServerSpec => ImplementsProvider
<1>1. ServerInductiveInv /\ ServerInductiveInv' /\ [ServerNext]_serverVars
        => [Provider!ProviderNext]_(Provider!providerVars)
  BY ProviderStepSimulation
<1> QED
  BY <1>1, ProviderInitSimulation, ServerInvariance, PTL
  DEF ServerSpec, ImplementsProvider, Provider!ProviderSpec

=============================================================================
