-------------------------- MODULE SemaphoreHandler --------------------------
(***************************************************************************)
(* The Semaphore mode from end to end: class SemaphoreProofHandler         *)
(* (idp/src/proof.ts) with its database, addMembers (shared/web3.ts), the  *)
(* contracts, and clients, which keep the first group they are given       *)
(* (client/src/keys.ts, indefinitely_valid) and sign with it               *)
(* (client/src/provider.ts).                                               *)
(*                                                                         *)
(* Rows are handed out in the order of their rowids, as neither query of   *)
(* the table has an index to use or an ORDER BY.                           *)
(***************************************************************************)
EXTENDS RowRegistration, SemaphoreVoting, Integers

CONSTANTS
  Commitments,   \* identity commitments as clients write them: BigInt parses them
  BigInt,        \* their numbers, of which two strings may have the same
  MaxCrashes     \* bound on kills of the process

ASSUME BigIntAssumption == BigInt \in [Commitments -> Int]

VARIABLES
  treeOrder,   \* the hashes of idp_tree_hashes by their rowid
  task,        \* the run of interval_task
  inflight,    \* batch sent and not mined
  groups,      \* the group each client holds, by its token
  crashes

semaphoreServerVars ==
  <<rowVars, semaphoreVars, treeOrder, task, inflight, groups, crashes>>

IdleTask == [pc |-> "idle", batch |-> << >>]

\* The lock is taken when a run starts and released by its finally clause.
interval_lock == task.pc # "idle"

\* registration.period = 1
ThePeriod == 1

Position(hash) == CHOOSE k \in DOMAIN treeOrder : treeOrder[k] = hash

\* Rows of a set of trees as a query returns them.
InRowOrder(hashes) ==
  CHOOSE rows \in [1 .. Cardinality(hashes) -> hashes] :
    \A m, n \in DOMAIN rows : m < n => Position(rows[m]) < Position(rows[n])

Parsed(commitments) == [k \in DOMAIN commitments |-> BigInt[commitments[k]]]

\* Faulty variant: trees that are not on the blockchain yet are included.
TreesStored == Parsed(InRowOrder(TreesOfPeriod(ThePeriod)))

\* treesIncludedOnBlockchain, the group that /proof and / hand out.
TreesIncluded == Parsed(InRowOrder(TreesOfPeriod(ThePeriod) \ TreesToInclude(ThePeriod)))

SemaphoreServerInit ==
  /\ RowsInit
  /\ SemaphoreInit
  /\ treeOrder = << >>
  /\ task = IdleTask
  /\ inflight = << >>
  /\ groups = [r \in Tokens |-> << >>]
  /\ crashes = 0

-----------------------------------------------------------------------------
(* POST /register *)

SemaphoreInsertTreeRow(r) ==
  /\ InsertTreeRow(r)
  /\ treeOrder' = IF Contains(treeOrder, requests[r].reg.pubkey)
                  THEN treeOrder ELSE Append(treeOrder, requests[r].reg.pubkey)

SemaphoreRegister(r) ==
  /\ \/ /\ \/ \E identity \in Identities, commitment \in Commitments :
                Arrive(r, [identity |-> identity, pubkey |-> commitment,
                           period |-> ThePeriod])
           \/ Check(r)
           \/ InsertPubkey(r)
           \/ InsertProofRow(r)
        /\ UNCHANGED treeOrder
     \/ SemaphoreInsertTreeRow(r)
  /\ UNCHANGED <<semaphoreVars, task, inflight, groups, crashes>>

-----------------------------------------------------------------------------
(* interval_task *)

SelectBatch ==
  /\ ~ interval_lock
  /\ TreesToInclude(ThePeriod) # {}
  /\ task' = [pc |-> "submit", batch |-> InRowOrder(TreesToInclude(ThePeriod))]
  /\ UNCHANGED <<rowVars, semaphoreVars, treeOrder, inflight, groups, crashes>>

\* The gas estimate succeeds and the transaction is sent, with the nonce of
\* one that is still pending from before a restart, if any.
SendBatch ==
  /\ task.pc = "submit"
  /\ CanAddMembers(operator, Parsed(task.batch))
  /\ inflight' = Parsed(task.batch)
  /\ task' = [task EXCEPT !.pc = "mining"]
  /\ UNCHANGED <<rowVars, semaphoreVars, treeOrder, groups, crashes>>

\* The run that waits for the transaction in flight.
Waits == task.pc = "mining" /\ Parsed(task.batch) = inflight

MineBatch ==
  /\ inflight # << >>
  /\ AddMembers(operator, inflight)
  /\ inflight' = << >>
  /\ task' = IF Waits THEN [task EXCEPT !.pc = "update"] ELSE task
  /\ UNCHANGED <<rowVars, treeOrder, groups, crashes>>

\* Faulty variant: the lock stays taken when the last row is updated.
LockKept == [task EXCEPT !.batch = Tail(@)]

\* The rest of the run after the update of its first row.
AfterUpdate == IF Len(task.batch) = 1 THEN IdleTask ELSE [task EXCEPT !.batch = Tail(@)]

UpdateRow ==
  /\ task.pc = "update" /\ task.batch # << >>
  /\ UpdateTreeWithIteration(Head(task.batch), 1)
  /\ task' = AfterUpdate
  /\ UNCHANGED <<idp_pubkeys, idp_pubkey_in_tree, requests, raced, semaphoreVars,
                 treeOrder, inflight, groups, crashes>>

\* The process ends and is started again.
Restart ==
  /\ RequestsLost
  /\ task' = IdleTask
  /\ UNCHANGED <<databaseVars, semaphoreVars, treeOrder, groups>>

\* The gas estimate fails: nobody catches what interval_task throws.
Throw ==
  /\ task.pc = "submit"
  /\ ~ CanAddMembers(operator, Parsed(task.batch))
  /\ Restart
  /\ UNCHANGED <<inflight, crashes>>

\* A kill.  The transaction in flight may be mined later or never.
Crash ==
  /\ crashes < MaxCrashes
  /\ crashes' = crashes + 1
  /\ Restart
  /\ inflight' \in {inflight, << >>}

-----------------------------------------------------------------------------
(* Clients *)

\* What /proof answers the owner of a token with 200.
GroupsServed(r) == {TreesIncluded : info \in ProofInfo(r)}

\* The client that got the answer to its registration asks for the group and
\* keeps it.
Obtain(r) ==
  /\ requests[r].state = "accepted" /\ groups[r] = << >>
  /\ \E group \in GroupsServed(r) : groups' = [groups EXCEPT ![r] = group]
  /\ UNCHANGED <<rowVars, semaphoreVars, treeOrder, task, inflight, crashes>>

SignWithGroup(r, i) ==
  /\ \E row \in idp_pubkeys :
       row.token = r /\ SemaphoreSign(i, BigInt[row.pubkey], groups[r])
  /\ UNCHANGED <<rowVars, treeOrder, task, inflight, groups, crashes>>

-----------------------------------------------------------------------------

TaskStep == SelectBatch \/ SendBatch \/ UpdateRow \/ Throw

GroupOrPetitionChange ==
  /\ \/ ExpireRoot
     \/ \E name \in Names, p \in 0 .. MaxPeriod : SemaphoreCreatePetition(name, p)
  /\ UNCHANGED <<rowVars, treeOrder, task, inflight, groups, crashes>>

SemaphoreServerNext ==
  \/ \E r \in Tokens :
       \/ SemaphoreRegister(r)
       \/ Obtain(r)
       \/ \E i \in DOMAIN petitions : SignWithGroup(r, i)
  \/ TaskStep
  \/ MineBatch
  \/ Crash
  \/ GroupOrPetitionChange

SemaphoreServerSpec == SemaphoreServerInit /\ [][SemaphoreServerNext]_semaphoreServerVars

\* The interval timer fires again and again, its runs proceed, and what is
\* sent is mined.
SemaphoreServerFairSpec ==
  /\ SemaphoreServerSpec
  /\ WF_semaphoreServerVars(TaskStep)
  /\ WF_semaphoreServerVars(MineBatch)

-----------------------------------------------------------------------------
(* Properties *)

Registrations == [pubkey : Commitments, identity : Identities, period : {ThePeriod}]

\* The types of the variables.
SemaphoreServerTypeOK ==
  /\ SemaphoreTypeOK
  /\ idp_pubkeys \subseteq
       [pubkey : Commitments, identity : Identities, period : {ThePeriod}, token : Tokens]
  /\ idp_tree_hashes \subseteq [hash : Commitments, iteration : {NULL, 1}, period : {ThePeriod}]
  /\ idp_pubkey_in_tree \subseteq [hash : Commitments, pubkey : Commitments]
  /\ requests \in [Tokens ->
       [state : {"new", "check", "pubkey", "tree", "proof", "accepted", "rejected", "lost"},
        reg   : Registrations \cup {None}]]
  /\ \A r \in Open : requests[r].reg \in Registrations
  /\ raced \subseteq SUBSET Tokens
  /\ treeOrder \in Seq(Commitments)
  /\ ToSet(treeOrder) = {row.hash : row \in idp_tree_hashes} /\ IsInjective(treeOrder)
  /\ task \in [pc : {"idle", "submit", "mining", "update"}, batch : Seq(Commitments)]
  /\ inflight \in Seq(Leaves)
  /\ crashes \in Nat
  /\ groups \in [Tokens -> Seq(Leaves)]

\* The group handed out is the beginning of the group on the blockchain, leaf
\* by leaf, at any time and after any kill; and it is the whole group whenever
\* no batch is being added, unless the process was killed (register,
\* interval_task, proof_info, with registrations in the middle of a run).
GroupsAreConsistent ==
  /\ IsPrefix(TreesIncluded, members)
  /\ \A r \in Tokens : IsPrefix(groups[r], members)
  /\ crashes = 0 /\ task.pc # "update" => TreesIncluded = members

\* Every member is the commitment of a registered person, and two members are
\* of one identity only if the two requests raced: one arrived while the other
\* was between its check and its INSERTs (isRegistered, the primary keys of the
\* tables, treesToIncludeOnBlockchain).
OneMemberPerIdentity ==
  \E row \in [ToSet(members) -> idp_pubkeys] :
    \A c, d \in ToSet(members) :
      /\ BigInt[row[c].pubkey] = c
      /\ row[c].identity = row[d].identity => c = d \/ {row[c].token, row[d].token} \in raced

Waiting(c) == [hash |-> c, iteration |-> NULL, period |-> ThePeriod] \in idp_tree_hashes

\* The number is no leaf, or another commitment has the same.
IsRefused(c) ==
  \/ BigInt[c] \notin Leaves
  \/ \E row \in idp_tree_hashes : row.hash # c /\ BigInt[row.hash] = BigInt[c]

\* Unless the process is killed, or a row waits that addMembers refuses and
\* every batch with it, a commitment whose row waits gets into the group that is
\* handed out (interval_task: the batch is sent, mined and marked, row after
\* row, and the lock is released).
WaitingAreAdded ==
  \A c \in Commitments :
    Waiting(c) ~> \/ crashes > 0
                  \/ Contains(TreesIncluded, BigInt[c])
                  \/ \E d \in Commitments : Waiting(d) /\ IsRefused(d)

=============================================================================
