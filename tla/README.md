# TLA+ models of blockchain-petition

Blockchain-petition lets people sign petitions on an Ethereum blockchain.  An
*identity provider* (IDP) decides who may sign; how much it and everybody else
learn about who signed what depends on the mode of a deployment: *naive*
(accounts are entered in a table), *zero-knowledge* (Merkle trees of keys and
zk-SNARKs), *PSS* (pseudonymous signatures) and *Semaphore* (a group on the
blockchain).

This directory holds TLA+ modules of the contracts, the IDP's server and the
voter's browser, TLC configurations that check them on small instances, and
TLAPS proofs, for instances of every size, about the contracts and the server of
each mode, the trees, and the voter's browser.  File names below are relative to the
root of the repository.

## 1. The system

| Part | Code | State | Operations |
| --- | --- | --- | --- |
| IDP contract, common part | `platform/contracts/IDP.sol` 12-47 | operator, start, period length | `change_operator`, `period` |
| ZKIDP | `IDP.sol` 49-108 | `pRoot`, `pRootForPeriod` (255 slots), `pLastIteration` | `submitHash`, `getHash` |
| NaiveIDP | `IDP.sol` 110-140 | `authorized` | `submitVotingRight`, `validateAuthorized` |
| PSSIDP, SemaphoreIDP | `IDP.sol` 142-234 | none / a group of the Semaphore library | `addMembers`, `validateProof` |
| Registry | `platform/contracts/Registry.sol` | counter, list of petitions | `createPetition` |
| Petitions, one contract per mode | `platform/contracts/Petition.sol` | id, period, who signed, count | `sign` |
| Circuit | `zk/stimmrechtsbeweis.zok` | none | check of a Merkle path and of `H_pers` |
| Merkle trees | `shared/merkle.ts` | nodes | construction, `getProof` |
| Server | `idp/src/main.ts` | the proof handler | `POST /register`, `POST /proof`, a timer |
| Proof handlers, one per mode | `idp/src/proof.ts` | `interval_lock` | `register`, `interval_task`, `return_proof` |
| Database | `idp/src/database.ts` | three SQLite tables | one method per statement |
| Connectors | `shared/web3.ts` | account, contracts | calls and transactions |
| Key managers | `client/src/keys.ts` | keys and proofs, by period | `get_key`, `get_proof`, `save`, `load` |
| Credential manager | `client/src/idp.ts` | tokens, replies, flags `working` and `failed` | `obtain_token`, `obtain_credentials` |
| Providers, one per mode | `client/src/provider.ts` | none | `sign`, `signable` |
| Proving worker and its helper | `client/src/zokrates.ts`, `compileZokratesWorker.js` | artifacts, proving key, handler of answers | `init`, `constructProof` |
| Repository | `client/src/web3repository.ts` | period, petitions, timers | `init`, `refresh`, `setPeriod` |
| Connectors of the wallet | `client/src/web3.ts` | accounts, `connected` | `init`, `onAccountsChange`, `updateState` |
| Shared state and pages | `client/src/state.ts`, `layoutWidgets.ts`, `nav.ts`, `setup.ts`, `web3.ts` | one object handed to all pages | clicks, `stateChanged` |

How they interact: a browser sends a key (an account, a commitment, an identity,
depending on the mode) with an identity to `/register` and gets a token.  The
server stores a row.  At intervals the server's task turns the rows that wait
into something on the blockchain: a root, a voting right, a batch of members; in
the PSS mode it makes the key at once.  The browser asks `/proof` with its token
until it gets what it needs for signing, saves it, and sends `sign` to a petition,
which consults the IDP contract.  The blockchain's clock (`period()`) is read by
all of them and advances on its own.

What is hard about it:

* **Concurrency.**  The server is one thread, but every `await` lets other requests,
  the timer or the end of a transaction in between; there are no database
  transactions over more than one statement.
* **Failure.**  The process may be killed between any two awaits, with a transaction
  sent and not mined; an exception of the task ends it too.  Rows that violate a
  constraint are refused and the refusal is taken for a result (`database.ts:74`).
  Replies to the browser are lost, the page is reloaded, calls to the node fail.
* **Ordering.**  Iterations are stored after the roots are mined; marked rows become
  a group whose order must be that of the leaves on the blockchain; replies reach
  the browser while later calls are under way.
* **Time.**  The period is read once and used after many awaits.  The slots of ZKIDP
  are reused in each period by a counter that is reset lazily.
* **Limits.**  255 slots, `2^depth` leaves, `max_tries` polls.

Each hazard is listed with its line and its properties under `hazards` in
`PROJECT.json`.

What makes the components correct: roots of the running period stay where their
events say (ZKIDP); a count is the number of different entitled voters, for every
mode (contracts); what the server hands out is accepted by the contract, for the
period asked for, final, and handed out in the end (handlers); a registered key, its
token and its proof survive losses and reloads and stay together (managers); proofs
of leaves are accepted and nothing else is (trees and circuit); the page ends up
with current data and without its overlay (repository), with parts that belong
together (connection), and a proof goes to the signature it was made for (worker).

## 2. Modules

    RootLog <.......... ZKIDP            Merkle     ClientState     Connection
                       /  |   \
                      /   |    `-- ZKHandler -- IDPDatabase        Credentials
                   IDP    |          :              |
                      \   |          :        RowRegistration      ProvingWorker
       Ballot <...  Registry         :          /     |       \
          ^          /  |  \         :         /      |        \
          :... ZKVoting |  NaiveVoting -- NaiveHandler         \
                        |            :              |           \
                  SemaphoreVoting ---:------ SemaphoreHandler  PSSHandler (with Registry)
                                     v                            :
                              IdentityProvider <..................:

    ....>  implements (refinement)

The four modules of the browser stand on their own: each takes from the rest of the
system (the server, the node, the wallet, the worker) what it answers and when.

| Module | Models |
| --- | --- |
| `IDP` | clock and operator |
| `ZKIDP` | slot array, counter, lazy reset, the log of events |
| `RootLog` | abstract: what a ZKIDP promises, a log of the roots of one period |
| `Registry` | `createPetition`, and the part all petitions share |
| `Ballot` | abstract: what a petition promises in any mode; with `Timely`, only while its period lasts |
| `ZKVoting` | `ZKIDP`, `Registry` and `ZKPetition.sign` with the circuit as the relation for which proofs exist |
| `NaiveVoting` | `NaiveIDP`, `Registry` and `NaivePetition.sign`; its steps are taken by `NaiveHandler` |
| `SemaphoreVoting` | `SemaphoreIDP`, `Registry` and `SemaphorePetition.sign` |
| `IdentityProvider` | abstract: what the server promises, registrations answered once and for all, and one of a person per period unless two of his requests raced |
| `IDPDatabase` | the tables, their constraints and every query |
| `ZKHandler` | server of the zero-knowledge mode, with `ZKIDP` |
| `RowRegistration` | `register` of the other three modes: three inserts after a check |
| `NaiveHandler` | server of the naive mode with `NaiveVoting`: one instance from the registration to the signature |
| `SemaphoreHandler` | server of the Semaphore mode, with its contracts and signing clients |
| `PSSHandler` | server of the PSS mode, with petitions and signing clients |
| `Merkle` | construction of a tree, collection of a proof, folding in the circuit |
| `Credentials` | keys, tokens, proofs and flags of a voter in each of the four modes, and what is saved and loaded |
| `ProvingWorker` | proofs of signatures: the helper, the worker they share, the overlay that keeps them apart |
| `Connection` | from the choice of a registry to the main page: attempts to connect, the wallet, the identity, the objects made |
| `ClientState` | shared state, repository, timers and dates of periods on the main page |
| `*_proofs` | theorems and proofs about the module of the name; those about `ZKIDP` are in `ZKVoting_proofs`, `Connection` in `Credentials_proofs`, `ProvingWorker` in `ClientState_proofs` |
| `MC*` | instances for TLC |

`PROJECT.json` maps every definition to the lines it stands for.  The conventions:

* On the server one step is what runs between two awaits.  A database method is one
  statement and atomic, so a handler has one action per statement.  The state of a
  request or of a run of the task is a record with a field `state` or `pc` that says
  which await it is at (`requests`, `task`, `tasks`), and what its local variables hold.
* In the browser one step is what runs from one event (a click, a reply, a timer, a
  digest) to the next, everything that `setState` sets off included (`SetState`, `Told`).
* `interval_lock` is a variable where its misuse is conceivable (`ZKHandler`, in which
  two runs can exist) and follows from `task` in the others.
* A transaction is estimated, sent (`inflight`), and then mined or reverted.  A kill
  forgets requests and runs; it keeps the database; the transaction in flight may
  still be mined, or never.  The server's account sends one transaction per nonce, so
  a new process replaces the one in flight when it sends its own.
* A call that reverts is a call that is not enabled.
* Hashes are injective: `InternalId`, `HPers` and `Hash` are tuples.  A root stands for
  the keys in its tree (justified by `Merkle`), a Semaphore root for its sequence of
  members.  A proof exists exactly for statements that are true.  These idealisations
  are the assumptions about cryptography; there are no others.
* In each module some operators are headed *Faulty variant*.  They are not used; put
  in place of the operator that follows them they show that the property named in
  `PROJECT.json` notices the mistake.  (One of them, `LoadedAsSaved`, is what `load()`
  would have to do; see section 5.)
* What is written in several ways is modelled as written, next to what it is parsed to:
  a public key and its lower case (`Lower`), a Semaphore commitment and its number
  (`BigInt`, of which `Leaves` are those the group accepts), the text of an account and the
  account (`Address`, `None` if web3 refuses it).
* `raced` (pairs of requests of one identity, one of which arrived while the other was
  handled), `past` (what replies told and what was missed) and `disturbed` (jobs that another
  one got in the way of) are history variables: nothing the system does depends on them,
  and properties use them to say exactly which behaviours they do not speak of.
* Operators named `...TypeOK` give the types of the variables.

## 3. What the runs check

`expect` is `pass` except for `MCCredentialsReload`.  Sizes are distinct states.

| Run | Instance | States | Question and properties |
| --- | --- | --- | --- |
| `MCZKVoting` | 4 slots, 3 periods, 2 petitions, 2 accounts, 2 keys, one of them in both trees | 937 602 | Slot reuse: `CurrentRootsRetrievable`, `SlotsTraceToEvents`, refinement of `RootLog`; petitions: `SignersCountVoters`, `SignaturesUnlinkable`, `PublishedKeysCanSign`, refinement of `Ballot` |
| `MCNaiveHandler` | 2 requests at a time, 2 identities, 2 accounts, one of them the server's, the other written in two ways, a text with a wrong checksum, 2 periods, a petition, a kill, any change of the operator | 1 498 694 | `ServedAreAuthorized`, `RightsAreRegistered`, `WaitingAreAuthorized`, refinement of the timely `Ballot` |
| `MCZKHandler` | 2 requests at a time, 2 identities, 2 keys, one of them in two spellings, 2 kills, 4 slots, 2 periods, 3 trees of 2 leaves | 1 421 325 | What `/proof` answers is accepted by the contract (`ServedProofsUsable`), no root is sent twice (`SubmittedOnce`), refinement of `IdentityProvider`: right key, right period, final; everybody is served (`RegisteredEventuallyServed`) |
| `MCMerkle` | depth 2, three leaf hashes, arbitrary proofs | 24 244 | `ProofsOfLeavesAccepted`, `OnlyLeavesAccepted` |
| `MCCredentials` | 4 modes, 2 calls, 2 periods, 2 accounts, a loss, a reload, a click while a key is generated | 128 994 | `RegisteredKeysSaved`, `ProofBelongsToKey`, `OneRequestPerPeriod`, `WorkingHasReason`, `TokensKept`, `RetryHelps` |
| `MCCredentialsReload` | Semaphore mode, 1 call, a reload | stops at a violation | `KeysHaveTheirType` is violated: a bug of `load()`, see section 5 |
| `MCSemaphoreHandler` | 2 requests at a time, 2 identities, commitments `1`, `01`, `2` and `0`, 2 petitions, a kill | 271 115 | `GroupsAreConsistent`, `OneMemberPerIdentity`, `SemaphoreSignersCountMembers`, `WaitingAreAdded` |
| `MCPSSHandler` | 2 identities, 3 requests at a time, 2 petitions, a kill | 194 283 | `OneSignaturePerIdentity`, `StoredRegistrationsServed`, refinement of `IdentityProvider` |
| `MCClientState` | 2 runs of `init`, 2 periods, a petition, a failing call | 623 314 | `OverlayHasReason`, `SignedNotOffered` |
| `MCClientPeriod` | a run of `init`, 2 calls of timers, 2 periods, a failing call | 437 410 | `DatesFitPeriod`, `PeriodCatchesUp` |
| `MCProvingWorker` | 3 clicks at a time, 2 petitions, a failure | 1 641 361 | `OneProofAtATime`, `HelperInitialised`, `PageReturns` |
| `MCConnection` | 2 overlapping attempts, 2 identities, a change of the access, a failing call, 6 managers | 145 802 | `ConnectionFits`, `AppGetsReady` |

In the browser calls to the node are executed, and their replies arrive, in any order.

Each property is stated in words above its definition.  Some invariants are not run
because a refinement implies them: `IterationNamesOneRoot` and the bound of the index
(`ZKIDPTypeOK`) follow from `RootLog` and the inductive invariant, `NoSignatureAheadOfPeriod`
from `Ballot`, and that the result of a naive petition is final after its period from
the timely `Ballot`; the first three are theorems.

**Why the bounds are enough.**  Slots: with 4 a period can fill the array, the next one can
reuse a part of it, and the third sees slots of two earlier periods; that is every relation
a slot can have to the counter (`LiveSlots`, `StaleSlots`).  Two petitions of one name tell
ids apart; a petition may be assigned to the period after the last one.  Two overlapping
requests show every order of check and insertion, and one after the other the second finds
what the first left.  Two spellings of one key, commitment or account and one that is not
accepted are what conversions can make differ; the commitment `2` is what a batch holds that
could be added. A kill can fall between any two steps; two kills (`MCZKHandler`) are enough
for one to hit the run that resubmits what the first left unrecorded.  Trees of two leaves
and a depth of 2 have full and partly filled trees, equal siblings and equal subtrees.  Two
polls instead of 120 include one that is repeated and one that gives up.  In `MCCredentials`
a request of one period can be under way while the credentials of the other are saved, which
is what takes a flag of one to the storage with the other; one reload and one loss can each
fall at every point of both.  In `MCClientPeriod` up to three calls of `setPeriod` are under
way at a time, which is as many as it takes to leave an old period behind when replies
overtake each other; in `MCClientState` the two runs are a signature's and another whose
older answer may arrive after the one that knows of the signature.  In `MCProvingWorker`
three clicks are what it takes for one to uncover the page under a second while the third
asks the worker; two petitions tell their proofs apart.  In `MCConnection` two attempts can
replace each other, or the second follows one that was refused or failed; of 6 managers not
all are ever made, so this bound never stands in the way.  The clock of each run stops at
its bound, which ends no behaviour that matters before it does: in the liveness properties
"unless the period ends" is part of the statement.

**Deadlock** is checked in the runs of the contracts, the trees, the naive server and the
credentials (`Credentials` has an explicit step for the page that has nothing left to do).
It is not where the system, or its bounded model, may really stop: in `MCZKHandler` a key in
upper case is selected by every run, each of which builds a tree, until `MaxTrees` of them
are built; in `MCSemaphoreHandler` and `MCPSSHandler` the clock stands still (a period lasts
ten years) and the bounded requests are used up in the end; in those of `ClientState` a
first `init()` that fails leaves the page covered for good, so nothing happens any more; so
it does in `MCProvingWorker` when the initialisation of the helper fails within a
measurement; and `MCConnection` ends with the main page, or when the attempts are used up.

**Fairness.**  `ServerFairSpec`, `NaiveServerFairSpec`, `SemaphoreServerFairSpec`: the timer is
a `setInterval`, so weak fairness of the task's steps, and transactions that are sent
are mined or revert.  Nothing obliges anyone to register, and time need not
pass.  In the PSS mode each started request proceeds (`PSSFairSpec`).  `ClientFairSpec`:
digests end, timers fire, requests are answered or lost.  `PatientSpec` adds strong
fairness of the button, as a property about retrying supposes a voter who does.
`ClientStateFairSpec`: timers fire, calls are executed and answered (perhaps by a failure),
transactions end.  `WorkerFairSpec`: the worker answers, and whatever else is awaited
comes.  `ConnectionFairSpec`: calls are answered, listeners are told, and a voter who is
shown the field for the identity enters one; nobody is obliged to approve a request
of the wallet.

**Conditions.**  What a property does not speak of is part of its statement, and is as little
as the code allows:

* Uniqueness per identity (`RightsAreRegistered`, `OneMemberPerIdentity`, `IdentityProvider`) is
  promised unless the two requests `raced`; the runs handle several at a time.  That an
  account's right is for the period of its row is promised unless its request raced or
  a kill cut a registration off.
* `RegisteredEventuallyServed` excuses kills, and behaviours in which a key in upper case is
  registered.  `ImplementsProvider` of
  `ZKHandler` leaves out answers of another period that are found because the same key was
  registered in upper case as well.
* `WaitingAreAdded` excuses kills, and behaviours in which a commitment waits that the group
  refuses; `StoredRegistrationsServed` kills; `WaitingAreAuthorized` a server that is not the
  operator.
* `RegisteredKeysSaved`, `ProofBelongsToKey` and `RetryHelps` speak of behaviours in which
  nobody clicks while a key is generated; `RetryHelps` excuses four traps (`Trapped`).
* `SignedNotOffered` allows a signed petition on the page if an earlier list had told that it
  is signed (`past.told`) and an older answer replaced that list; `PeriodCatchesUp` an old period
  if the reply with the new one was `missed`: it agreed with what was remembered when the
  call was sent, and an older reply had replaced that since.
* `OneProofAtATime` speaks of jobs that are not `disturbed`; `HelperInitialised` has no condition.
* `ConnectionFits` ties the key manager to the connector only if one attempt was set up;
  `AppGetsReady` supposes that the URL of the provider is obtained.

Section 5 says what happens in the behaviours left out.

## 4. What is proved

All statements are theorems about every value of the constants, under the named assumptions
of the modules.  Some are about the code: at least one period, 1 to 255 slots (which is
what keeps the `uint8` from overflowing; nothing is said of one that does), a tree of
`DEPTH` levels with `Width[d]` equal to `2^d`, at least one leaf (`CAP`), a server that has
one of the accounts, at least one poll.  The others only tell values apart: `NoRoot` is no
root, `None` no token, what is undefined, unreadable or without content in `Credentials`
neither a key nor a row; `Leaves` gives each root its set of keys, `Roots` of `ZKHandler`
are `TreeRoots`, keys are finitely many and a key in lower case stays as it is, `Address`
gives an account or `None`, which is no account, and `BigInt` an integer; the calls of
`Credentials` are finitely many, the first run of `ClientState` exists, since its `init()`
is under way when the page opens, and what `Connection` calls `Nil` is neither a name nor a
number.  Bounds such as `MaxRequests` are natural numbers.  The theorems hold for every
bound on requests, kills, petitions, losses, reloads, runs, timers' calls, failures, jobs,
attempts and changes of the accounts; the bound on keys in `Credentials` plays no part.

No theorem has a hypothesis of its own.  TLC agrees with each inductive invariant of the
servers and of the browser on the instance of the component's run; for `SemaphoreHandler`
and `ClientState` the natural numbers have to be bounded.

**The contracts of the zero-knowledge mode** (`ZKVoting_proofs`).  None of the safety
properties of `ZKIDP` is inductive: that a root of the current period is retrievable
depends on how the counter got where it is.  `ZKIDPInductiveInv` says it: slot 0 is unused;
the slots up to the counter hold roots of one period, which is not in the future
(`LiveSlots`); those above it are unwritten or of earlier periods (`StaleSlots`); events are
older than that period or still in their slot (`EventsMatchSlots`); and a readable slot
belongs to an event.  Its step for `submitHash` splits on whether the counter is reset.
From it follow `ZKIDPTypeCorrect`, `CurrentRootsStayRetrievable`,
`ReadableSlotsTraceToEvents`, `IterationsNameOneRoot`, and `ContractImplementsRootLog`: a
submission maps to `StartOver` if the counter is reset and to `Extend` if not.

`VotingInductiveInv` of `ZKVoting` adds to it that ids are numbered by the counter,
that marks on a petition are identities made for its id, and that those who signed
belong to the electorate of the period and are counted.  The essential lemma is
`ReadableRootsElect`: what `getHash` returns for a period was published in it, so whoever
can prove membership was admitted.  From it follow `CountsAreHonest`,
`SignaturesFitOnePetition`, `PetitionsWaitForTheirPeriod`, `VotingRightsAreKept`, and
`ZKVotingImplementsBallot`: the step simulation maps `submitHash` to `Admit`, `createPetition`
to `Open` and `sign` to `Vote`.

**Trees and circuit** (`Merkle_proofs`).  `MerkleInductiveInv`: the levels built hash the
levels below; the trail of a proof leads from a leaf towards the root and each entry
completes a hash (`TrailHashes`), though `which()` may leave the path when hashes are equal;
the digest follows the trail; and the digest of a key that is no leaf is no node of its
height (`DigestOffTree`, from the injectivity of `Hash`).  `LeafProofsAreAccepted` and
`NothingButLeavesIsAccepted` follow for every depth.  They justify that `ZKVoting` and
`ZKHandler` take a root for the set of its keys.

**The server of the PSS mode** (`PSSHandler_proofs`).  `PSSInductiveInv` says for each of
the five statements of `register` what it finds and leaves (`RequestFits`): before the
second a request has no row, before the fourth no proof, and from then on the identity's
rows are there.  Identity, public key and token of a row determine each other (`RowsFit`),
an iteration implies a stored proof (`TreesFit`), the keys of different identities differ
(`ProofsFit`), a client holds the key of its row (`ClientsFit`), and marks on petitions are
pseudonyms of such keys (`MarksFit`).  `NobodyCountsTwice` is `OneSignaturePerIdentity`, and
`PSSImplementsProvider` the refinement of `IdentityProvider` with `raced` empty: nobody is
stored twice however registrations overlap and kills cut them off.  What makes it true is
the primary key, not the check in `register`.

**The server of the zero-knowledge mode** (`ZKHandler_proofs`).  `ServerInductiveInv` rests
on `ZKIDPInductiveInv` and adds the tables and the runs of the task: a request that passed
its check finds rows of its person only of requests that it races (`RequestsFit`); the
leaves of a tree are lower cases of keys registered for its period (`LeavesStored`) and its
iteration is that of an event (`TreesFit`); who has the lock is alone (`LockFits`); what a
run still has to submit waits in the table, and events it has seen are not among it
(`TaskFits`); without a restart an event is either stored or in the hands of a run
(`SubmissionsFit`, from which `RootsSubmittedOnce` follows).  `ServedProofsAccepted` is
`ServedProofsUsable`: the row that is served has an event, and the contract still has the
events of its period, whatever was submitted, killed and resubmitted meanwhile.
`ServerImplementsProvider` maps each insertion of a row to `Enrol`, and to `Grant` whichever
comes last of a tree's row in `idp_pubkey_in_tree` (`StoreProofsGrants`) and its iteration
(`RecordIterationGrants`); that answers are final needs that neither a key nor a tree has
two rows in that table.  A row inserted in lower case may be answered by its `Enrol`
already, if the proof was made for the same key in upper case.

**The naive mode** (`NaiveHandler_proofs`).  `NaiveInductiveInv` follows an account from its
row to its right: a right is entered for a tree that waits for that period (`RightsFit`),
an iteration is stored only after the right is (`TreesFit`), and a run knows no accounts but
those (`TaskFits`).  `ServedHaveTheRight` holds whatever overlaps or is killed.  For
`RightsOfRegistered` it says how the period of a tree can differ from that of the row of its
account: only if the row is `Excused`, its request having raced or a kill having cut a
registration off; otherwise a row without a tree is that of the request about to insert it
(`IsAhead`).  `NaiveImplementsTimelyBallot` is the refinement of `Ballot` with `Timely`,
from the registration in the server to the signature on the blockchain.

**The Semaphore mode** (`SemaphoreHandler_proofs`).  The group is rebuilt from the table in
the order of its rows, while the contract keeps the order in which batches arrive.  The
heart of `SemaphoreInductiveInv` is `OrderFits`: for some `n` the first `n` rows, and no
others, are marked, and the members are the numbers of a beginning of the rows (`Marked`),
while the batch of the run and the transaction in flight continue after the `n`-th
(`BatchesFit`); every group handed out or accepted is a beginning of the members
(`GroupsFit`).  It needs lemmas on sequences (`PrefixPointwise` and others) and on what a
query returns in the order of rows (`NeighboursInOrder`, `RowsSelected`).  After a kill
members may be left unmarked; then no later batch gets through, nor does one with a number
that is refused: both keep the invariant true and are traps of section 5.
`GroupsStayConsistent`, `SignersStayCounted` and `MembersOfIdentities` follow, the last
because members are numbers of different rows, and rows of one identity those of requests
that raced.

**Credentials** (`Credentials_proofs`).  `ClientInductiveInv` holds for the four modes at
once.  It says what each call under way was started with (`CallFits`: its flag is set, its
key is the one kept unless somebody clicked while it was generated, the reply it waits for
is about this key), that the storage has what the page has but for flags and unreadable keys
(`StorageFits`), and what a row implies for tokens and keys.  The steps of a call are alike
but for what they do to one period, which `CallGoesOn` and `ProceedInv` prove once.
Theorems: `KeysOfRowsSaved`, `ProofsFitKeys`, `RequestsDoNotOverlap`, `FlagsHaveReasons`,
and the action property `TokensKept` (`TokensAreKept`): no step and no reload loses a token
that arrived.

**Connections** (`Credentials_proofs`).  `ConnectionFits` speaks of a main page that is
complete; `ConnectionInductiveInv` says how it gets there, however attempts overlap.  The
connector is one that was set up, nothing is made before there is one, and as long as no
second attempt is set up there is one manager and it is the connector's (`ConnectorFits`,
`Sole`).  Provider and repository are made and replaced together, and a key manager is that of
the repository that was opened and has the identity of the page (`Fits`, stated for the page
before and after it is told to all, as the app is told before the manager).  Theorems:
`ConnectionInvariance`, `MainPageFits`.

**The main page** (`ClientState_proofs`).  `PageInductiveInv` has a clause for each thing the page
shows.  The overlay and the dates need little: the dates of the period shown are on the page
or asked for (`DatesAwaited`), after every `setState` (`ToldShows`) and whatever else
arrives.  That a signed petition is not offered again needs an argument about time.  A
signature was told of by a list (`past.told`), or a run is still going to list the petition
and to read its flag after the signature (`WillSee`, `SignaturesSeen`): `init()` after the
transaction is such a run, and its calls follow one another whatever the order in which
those of other runs are executed and answered.  When nothing is under way nobody will see,
so every signature was told, and the list shown is the repository's (`ListShown`).
`RunGoesOn`, `RunBegins` and `CallOver` do the bookkeeping of calls once for all actions.
Theorems: `PageInvariance`, `PageTypeCorrect`, `OverlayExplained`, `DatesOfPeriodShown`,
`NotOfferedTwice`.

**The proving worker** (`ClientState_proofs`).  A job that nobody got in the way of is alone
between the click and the proof and the page is covered, the handler of the worker's
answers is its own, and the one request under way is what it waits for (`Alone`,
`JobsKeptApart`).  The helper needs an invariant about all jobs, disturbed or not: before it
is made there are only refreshes (`Unused`), who gets its artifacts has the worker and the page
for himself (`Initialising`), and an answer with a proof, or a transaction, means that artifacts
and key are there (`HelperFits`).  Theorems: `WorkerInvariance`, `ProofsOneAtATime`,
`HelperUsedInitialised`.

Only model-checked: liveness under fairness, which TLAPS 1.4 does not support
(`WaitingAreAuthorized`, `RegisteredEventuallyServed`, `WaitingAreAdded`,
`StoredRegistrationsServed`, `RetryHelps`, `PeriodCatchesUp`, `PageReturns`,
`AppGetsReady`).  Every invariant, action property and refinement of the passing runs is a
theorem.

## 5. Where the code does less than one may expect

The following are behaviours of the models and of the code.  Most can
be seen by changing one constant or by dropping a condition from a property.

* **Two keys of one identity** (`proof.ts:96`).  `register` awaits the check and then
  inserts; no constraint of the table mentions identity and period.  Two concurrent requests
  with different keys are both stored (README.md:48 of the repository says the IDP verifies that
  an ID has not been used in the period), in the naive and the
  Semaphore mode as well.  In the PSS mode the same race is harmless, since the identity is
  the primary key.
* **Keys in upper case** (`proof.ts:176`).  A key is accepted in either case and stored as
  it was sent; its proof is stored under the lower case of its hash, and the two strings are
  compared.  The tree is built and its root mined, the client gets nothing (README.md:54
  says it receives the proof), and the key is selected again by each run, in the place of
  others.  If the same key is registered in lower case too, even by somebody else, that row
  finds the proof, perhaps one of another period.
* **Spellings of a commitment** (`proof.ts:288`).  What `BigInt` parses is accepted and stored as
  it was sent, so 0, numbers outside the field and one number in two spellings reach
  `addMembers`, which reverts for the whole batch, in every later run, and each time ends the
    process.  Neither those who wait nor anybody who registers later is ever added
  (`IsRefused`).
* **Spellings of an account** (`proof.ts:327`).  An account may be registered in several ways,
  and by different people: each is a row, all enter the one right.  One whose checksum is
  wrong is tried in each run and refused by web3, which holds up nobody else
  (`WaitingAreAuthorized`).
* **One key of a tree** (`database.ts:98`).  `idp_pubkey_in_tree.hash` is unique, so of all
  keys of a tree one gets a row.  The others enter a tree again in the next run, and a
  period serves at most as many keys as there are slots; `deploy.ts:85` counts on
  `2^depth` per run.
* **A tree that waits for somebody else** (`proof.ts:123`).  A tree that was stored before
  a kill is only selected after the early return taken when no key waits for a
  proof.  Without its excuse for kills
  `RegisteredEventuallyServed` fails.
* **Late signatures** (`Petition.sol:97`).  `ZKPetition.sign` does not look at the clock, so
  it implements `Ballot` with `Timely` false; the naive one implements the timely ballot
  (`Petition.sol:76`).
* **A lost reply** (`client/src/idp.ts:121`).  If the reply of `/register` is lost, the
  token is, and each retry is answered 405: the first of the four traps.
* **Double clicks** (`keys.ts:30`).  Two clicks while a key is generated make two keys; the
  second replaces the one that is being registered, and the proof does not fit it.
  Without `doubles = 0` `RegisteredKeysSaved` and `ProofBelongsToKey` fail.
* **Saved flags** (`client/src/idp.ts:219`).  `save()` writes the flags of all periods, so a
  reload may restore `working` for a period whose request is gone; there is no button
  as long as it is set.  `WorkingHasReason` shows that this is the only way.
* **Semaphore keys after a reload** (`keys.ts:288`).  `save()` exports `keys.identity`, and
  `load()` puts the identity it imports in the place of `keys`, so `key.identity`
  (`keys.ts:253`, `provider.ts:226`) is undefined from then on.  `MCCredentialsReload` shows
  it; with `LoadedAsSaved` in place of `Loaded` the property holds.
* **Naive credentials** (`keys.ts:152-169`).  A right belongs to the account of the
  wallet, which a connector reads once (`shared/web3.ts:95`), but it is stored with the
  identity: whoever opens the page with another account has a proof for the first one.
* **Refused rows** (`database.ts:74`).  A row that violates a constraint is answered with
  200 and a token the server does not know.  In the naive mode an account that
  registers for a second period gets such an answer, its row being keyed by the account.
* **Cut-off registrations.**  In the naive, PSS and Semaphore modes a kill between the
  inserts leaves an identity registered that is never served; in the latter two for
  good, as `registration.period` is always 1.
* **Semaphore batches** (`proof.ts:289`).  After a kill between `addMembers` and the updates
  each later run adds the same members, which reverts, and the exception ends the
  process: no member is ever added again.
* **Semaphore groups in between** (`proof.ts:290`).  While the rows of a batch are marked one
  by one, `/proof` hands out a beginning of the batch that was never a root of its own;
  the client keeps it for ever (`indefinitely_valid`) and no signature with it is
  accepted.  The same happens when the root of a kept group expires.
  `GroupsAreConsistent` therefore speaks of beginnings.
* **One pseudonym** (`provider.ts:177`).  The sector is a constant, so the pseudonym of a
  PSS signer is the same on all petitions.
* **Old data** (`web3repository.ts:155`).  Three overlapping calls of `setPeriod` whose replies
  overtake each other leave an old period on the page until the next change: the last reply
  agrees with what was remembered when its call was sent, so it is missed, though an
  older one has replaced that since.  Likewise an answer from before a signature, read
  last, offers the petition again.  `PeriodCatchesUp` and `SignedNotOffered` say that there is no
  other way to either.  Of the timers of `startPeriodRefreshInterval` only the one of 30 s
  is of use: the others multiply milliseconds by 1000 (131-149).  Each `init()` adds a set of
  timers.
* **Left overlay** (`web3repository.ts:70`).  `init()` has no `finally`: a failing call leaves
  the overlay, and there is nothing left to click on.  `OverlayHasReason` allows it after
  a failure and in no other case.
* **Uncovered pages** (`zokrates.ts:40`).  The overlay is one text of the whole page, and
  whoever is done takes it away.  While a signature is pending the page can be
  clicked on (`constructProof` ends with the overlay off): a second signature is proved,
  the first is mined, its `init()` lifts the overlay, and a third click takes over the
  handler of the worker and with it the second one's answer.  Two clicks within a digest are
  enough for the same, as the page is covered only after it.  `OneProofAtATime` says that only
  such jobs, and those they get in the way of, can lose an answer.
* **Measurements** (`perf.ts:6`).  In the zero-knowledge mode the petition a measurement
  makes up has no period, so `_hpers` throws at once: what a click on the rocket does is
  to initialise the helper.
* **A helper that failed** (`provider.ts:68`).  `_init` looks whether the helper was made,
  not whether its `init()` succeeded: after a failed download each signature ends with
  an error until the page is reloaded.
* **Two connections at a time** (`client/src/web3.ts:148`).  The button stays there during an
  attempt.  Of two attempts that are both set up the later one replaces connector,
  repository and provider, but not the key manager, whose credentials are then those of the
  provider of the first; and the connector changes before the rest.
* **Connected without an account** (`client/src/web3.ts:23`).  From the second click on,
  `localWeb3Connect` resolves at once if the wallet counts as connected, though the
  first request was refused: `init()` then sets `connected` without access to an account,
  contrary to the comment at line 108.
* **A stranded page** (`client/src/web3.ts:155-157`).  The connector is put into the state
  before the URL of the provider is asked for; if this call fails, no later
  `updateState` repeats it.

## 6. What is not modelled

* The curve arithmetic, the generated verifier, ZoKrates, the PSS library and the
  Semaphore library: external; the model says what they accept.
* The Ethereum network beyond one chain without reorganisations, and gas.
* Time in seconds: the clock counts periods.  That the interval of the task keeps the
  number of runs below the number of slots (`shared/web3.ts:130`) is therefore not shown;
  `MCZKHandler` uses the slots up and checks what is served then.
* The check of identities, CORS and the encoding of messages.
* `addMember` of `SemaphoreIDP`, which nobody sends, is a batch of one in the model.
* `hide()` of petitions, which the registry never calls.
* Client: two registries in one session (the choice is made before the first attempt and
  `Connection` keeps it), a change of the identity once the main page is shown (there is
  no field for it), error messages, the list of registries, and layout.  In
  `ClientState` the two reads of `this.period` around the awaits of
  `startPeriodRefreshInterval` (`web3repository.ts:128-130`) count as one.
* Performance: the measurements of `perf.ts` and `perfWorker.js` beyond what a click on the
  main page does to the shared helper; the page they have of their own computes times
  and shares no state with the rest.
* The refinement of `IdentityProvider` by the naive and the Semaphore server: in both, a
  kill between the inserts lets a row be answered with what another registration left
  behind (a tree of another period, a group that grows), so they promise less;
  `ServedAreAuthorized` and `GroupsAreConsistent` say what they do promise.
* Scripts of the deployment: they run once and sequentially; only the state in which the
  contracts begin is taken from them (`VotingInit`, `PSSInit`).

## 7. Plan

Done, in this order: the ZKIDP contract and its log; the contracts of the
zero-knowledge mode and the ballot; the server of this mode with its database; trees and
circuit; the other modes; the abstract provider; credentials of all modes; the client's
state with failing calls and the dates of periods; the proving worker; connections.

Proved, in this order: the ZKIDP contract; the contracts of the zero-knowledge mode; the
trees; the servers of the PSS, the zero-knowledge, the naive and the Semaphore mode, with
their contracts and refinements; the credentials; the proving worker; the main page;
connections.

Next, for the model: a composition of `Credentials` with `ZKHandler` and `ZKVoting`, in place
of the abstract server of `Credentials`, to show that its answers are those of
`IdentityProvider`; and, with it, that a proof the page keeps is accepted by a petition.
