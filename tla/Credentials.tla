---------------------------- MODULE Credentials ----------------------------
(***************************************************************************)
(* How a voter's browser gets its credentials: the button of the identity  *)
(* widget (client/src/nav.ts, IDPWidget), the keys and proofs of the key   *)
(* manager of each mode (client/src/keys.ts), the tokens and replies of    *)
(* IDPManager (client/src/idp.ts), and what both save in the local         *)
(* storage.  One person, one identity, several periods.                    *)
(*                                                                         *)
(* The modes differ in what the server is given: a key of the period (ZK), *)
(* the wallet's account (naive), the identity itself (PSS) or a commitment *)
(* (Semaphore).  The last two have one period, of number 1.                *)
(*                                                                         *)
(* The page is one JavaScript thread.  What runs from one event to the     *)
(* next (a click, a finished digest, a reply, a timer) is one step, the    *)
(* continuations of promises that are settled on the way included.         *)
(***************************************************************************)
EXTENDS Naturals, FiniteSets

CONSTANTS
  Modes,        \* of "zk", "naive", "pss" and "semaphore"
  Accounts,     \* of the voter's wallet
  Me,           \* the identity
  Imported,     \* a key without the field that is asked for
  Calls,        \* names for the calls of get_proof under way
  Periods,      \* periods the widget may be showing
  None,         \* undefined
  Refused,      \* the server's answer when it does not register a key: 405
  NotReady,     \* its answer while there is no proof for a token: 503
  MaxTries,     \* max_tries of obtain_credentials: 120
  MaxKeys,      \* bound on key pairs generated
  MaxDoubles,   \* bound on clicks while a key is generated
  MaxReloads,   \* bound on reloads of the page
  MaxLosses     \* bound on requests or replies lost

ASSUME ModesAssumption == Modes \subseteq {"zk", "naive", "pss", "semaphore"}
ASSUME PeriodsAssumption == 1 \in Periods
ASSUME MaxTriesAssumption == MaxTries \in Nat \ {0}
ASSUME CallsAssumption == IsFiniteSet(Calls)

\* What can be a public key: generated keys are numbered.
Pubkeys == Nat \cup Accounts \cup {Me}

\* undefined, an unreadable key and the answers without content are nothing else.
ASSUME ValuesAssumption ==
  /\ None # Imported /\ Imported \notin Nat /\ None \notin Pubkeys
  /\ None # Refused /\ None # NotReady /\ Refused # NotReady
  /\ \A answer \in {None, Refused, NotReady} :
       answer \notin [pubkey : Pubkeys, period : Periods]

VARIABLES
  mode,         \* of the registry
  account,      \* the first account of the wallet when the page was opened
  repo,         \* KeyManager: period -> [keys, proof]
  credentials,  \* IDPManager: period -> [working, failed, token, response]
  storage,      \* what both saved last
  calls,        \* get_proof(period, true) under way
  rows,         \* the server: registrations it has stored
  ready,        \* and those it has a proof for
  keysMade, doubles, reloads, losses

bounds == <<doubles, reloads, losses>>
clientVars ==
  <<mode, account, repo, credentials, storage, calls, rows, ready, keysMade, bounds>>

Keys == 1 .. MaxKeys

\* The object without fields that is the key of two modes.
Empty == 0

\* The server's rows.  A token names its row, and a proof what it proves.
Registrations == [pubkey : Keys \cup Accounts \cup {Me}, period : Periods]

indefinitely_valid == mode \in {"pss", "semaphore"}

\* Periods credentials are kept for.
KeyPeriods == IF indefinitely_valid THEN {1} ELSE Periods

NoEntry == [keys |-> None, proof |-> None]
NewCredential == [working |-> FALSE, failed |-> FALSE, token |-> None, response |-> None]
NoCall == [pc |-> "idle", period |-> None, pubkey |-> None, answer |-> None, try |-> 0]

ClientInit ==
  /\ mode \in Modes /\ account \in Accounts
  /\ repo = [p \in Periods |-> NoEntry]
  /\ credentials = [p \in Periods |-> NewCredential]
  /\ storage = [repo |-> repo, credentials |-> credentials]
  /\ calls = [c \in Calls |-> NoCall]
  /\ rows = {} /\ ready = {}
  /\ keysMade = 0 /\ doubles = 0 /\ reloads = 0 /\ losses = 0

-----------------------------------------------------------------------------
(* obtain_token and obtain_credentials up to their first request *)

\* Faulty variant: the flag is not looked at.
NeverRefused(p) == FALSE

AlreadyRequested(p) == credentials[p].working

\* A token is asked for unless there is one.
FirstRequest(p) == IF credentials[p].token = None THEN "register" ELSE "poll"

\* What the server is to register.
client_identity(keys) ==
  [zk |-> keys, semaphore |-> keys, naive |-> account, pss |-> Me][mode]

\* The call goes on with the key the repository holds: it is refused, asks
\* for a token, or asks for the proof with the token it has.
Proceed(c, p, keys) ==
  IF AlreadyRequested(p)
  THEN /\ calls' = [calls EXCEPT ![c] = NoCall]
       /\ UNCHANGED credentials
  ELSE /\ credentials' = [credentials EXCEPT ![p].working = TRUE, ![p].failed = FALSE]
       /\ calls' = [calls EXCEPT ![c] =
            [pc |-> FirstRequest(p), period |-> p, pubkey |-> client_identity(keys),
             answer |-> None, try |-> 0]]

\* Faulty variant: a key is generated for every request.
KeyNeverThere(p) == FALSE

HasKey(p) == repo[p].keys # None

\* Faulty variant: a failure is shown and no button.
NoButtonAfterFailure(p) ==
  ~credentials[p].failed /\ ~credentials[p].working /\ credentials[p].response = None

\* What the widget shows: a button after a failure, or when nothing is under
\* way and no proof has arrived.
ButtonShown(p) ==
  credentials[p].failed \/ (~credentials[p].working /\ credentials[p].response = None)

Generating(p) == {c \in Calls : calls[c].pc = "generate" /\ calls[c].period = p}

\* obtainProofClick: get_proof, which first looks for a proof and a key.  A
\* key without its field ends it with an exception.
Click(c, p) ==
  /\ calls[c].pc = "idle"
  /\ ButtonShown(p)
  /\ repo[p].proof = None
  /\ IF HasKey(p)
     THEN repo[p].keys # Imported /\ Proceed(c, p, repo[p].keys) /\ UNCHANGED doubles
     ELSE /\ mode = "zk"
          /\ doubles' = doubles + Cardinality(Generating(p))
          /\ doubles' <= MaxDoubles
          /\ keysMade + Cardinality({d \in Calls : calls[d].pc = "generate"}) < MaxKeys
          /\ calls' = [calls EXCEPT ![c] = [NoCall EXCEPT !.pc = "generate", !.period = p]]
          /\ UNCHANGED credentials
  /\ UNCHANGED <<mode, account, repo, storage, rows, ready, keysMade, reloads, losses>>

\* Faulty variant: a new key is not saved.
KeyNotSaved(newRepo) == storage

SaveKey(newRepo) == [storage EXCEPT !.repo = newRepo]

\* The key is stored under its period and saved.
KeepKey(c, p, keys) ==
  LET newRepo == [repo EXCEPT ![p] = [keys |-> keys, proof |-> None]]
  IN  /\ repo' = newRepo
      /\ storage' = SaveKey(newRepo)
      /\ Proceed(c, p, keys)

\* generate_key of the mode with digests is done.
KeyGenerated(c) ==
  /\ calls[c].pc = "generate"
  /\ keysMade' = keysMade + 1
  /\ KeepKey(c, calls[c].period, keysMade')
  /\ UNCHANGED <<mode, account, rows, ready, bounds>>

\* The other modes have a key at once.
FirstClick(c, p) ==
  /\ calls[c].pc = "idle"
  /\ ButtonShown(p)
  /\ mode # "zk" /\ ~ HasKey(p)
  /\ keysMade' = IF mode = "semaphore" THEN keysMade + 1 ELSE keysMade
  /\ KeepKey(c, p, IF mode = "semaphore" THEN keysMade' ELSE Empty)
  /\ UNCHANGED <<mode, account, rows, ready, bounds>>

-----------------------------------------------------------------------------
(* The replies *)

\* Faulty variant: the flag that takes the button away is not reset.
FlagKept(c) ==
  /\ credentials' = [credentials EXCEPT ![calls[c].period].failed = TRUE]
  /\ calls' = [calls EXCEPT ![c] = NoCall]

\* The call ends with an exception and the period is marked as failed.
Fail(c) ==
  /\ credentials' = [credentials EXCEPT ![calls[c].period].working = FALSE,
                                        ![calls[c].period].failed = TRUE]
  /\ calls' = [calls EXCEPT ![c] = NoCall]

\* POST /register at the server: one key for an identity and period.  A key
\* that has a row of another period gets a token without a row.
ServerRegisters(c) ==
  LET row == [pubkey |-> calls[c].pubkey, period |-> calls[c].period]
  IN  /\ calls[c].pc = "register" /\ calls[c].answer = None
      /\ IF \E r \in rows : r.period = row.period
         THEN /\ calls' = [calls EXCEPT ![c].answer = Refused]
              /\ UNCHANGED rows
         ELSE /\ calls' = [calls EXCEPT ![c].answer = row]
              /\ rows' = IF \E r \in rows : r.pubkey = row.pubkey THEN rows
                         ELSE rows \cup {row}
      /\ UNCHANGED <<mode, account, repo, credentials, storage, ready, keysMade, bounds>>

\* Faulty variant: the token is kept in memory only.
TokenNotSaved(newCredentials) == storage

SaveToken(newCredentials) == [storage EXCEPT !.credentials = newCredentials]

\* The token arrives and is saved; then the proof is asked for.
TokenArrives(c) ==
  LET p == calls[c].period
      saved == [credentials EXCEPT ![p].working = FALSE, ![p].token = calls[c].answer]
  IN  /\ calls[c].pc = "register" /\ calls[c].answer \notin {None, Refused}
      /\ credentials' = [saved EXCEPT ![p].working = TRUE]
      /\ storage' = SaveToken(saved)
      /\ calls' = [calls EXCEPT ![c].pc = "poll", ![c].answer = None]
      /\ UNCHANGED <<mode, account, repo, rows, ready, keysMade, bounds>>

\* 405 for a registered identity, 404 for an unknown token.
RequestRefused(c) ==
  /\ calls[c].pc \in {"register", "poll"} /\ calls[c].answer = Refused
  /\ Fail(c)
  /\ UNCHANGED <<mode, account, repo, storage, rows, ready, keysMade, bounds>>

\* The server has built a tree and stored its iteration.
ServerReady(row) ==
  /\ row \in rows \ ready
  /\ ready' = ready \cup {row}
  /\ UNCHANGED <<mode, account, repo, credentials, storage, calls, rows, keysMade, bounds>>

\* POST /proof at the server: the answer depends on what is stored now.
ServerAnswers(c) ==
  LET token == credentials[calls[c].period].token
  IN  /\ calls[c].pc = "poll" /\ calls[c].answer = None
      /\ calls' = [calls EXCEPT ![c].answer =
           IF token \in ready THEN token ELSE IF token \in rows THEN NotReady ELSE Refused]
      /\ UNCHANGED <<mode, account, repo, credentials, storage, rows, ready, keysMade, bounds>>

\* The proof arrives: both managers store and save it.
ProofArrives(c) ==
  LET p == calls[c].period
      proof == calls[c].answer
      newCredentials == [credentials EXCEPT ![p].working = FALSE, ![p].response = proof]
      newRepo == [repo EXCEPT ![p].proof = proof]
  IN  /\ calls[c].pc = "poll" /\ proof \notin {None, NotReady, Refused}
      /\ credentials' = newCredentials
      /\ repo' = newRepo
      /\ storage' = [repo |-> newRepo, credentials |-> newCredentials]
      /\ calls' = [calls EXCEPT ![c] = NoCall]
      /\ UNCHANGED <<mode, account, rows, ready, keysMade, bounds>>

\* 503: wait for ten seconds, or give up.
ProofNotReady(c) ==
  /\ calls[c].pc = "poll" /\ calls[c].answer = NotReady
  /\ IF calls[c].try < MaxTries
     THEN /\ calls' = [calls EXCEPT ![c].pc = "sleep", ![c].answer = None,
                                               ![c].try = @ + 1]
          /\ UNCHANGED credentials
     ELSE Fail(c)
  /\ UNCHANGED <<mode, account, repo, storage, rows, ready, keysMade, bounds>>

TryAgain(c) ==
  /\ calls[c].pc = "sleep"
  /\ credentials' = [credentials EXCEPT ![calls[c].period].working = TRUE]
  /\ calls' = [calls EXCEPT ![c].pc = "poll"]
  /\ UNCHANGED <<mode, account, repo, storage, rows, ready, keysMade, bounds>>

\* A request or its reply is lost, before or after the server handled it.
RequestLost(c) ==
  /\ losses < MaxLosses
  /\ losses' = losses + 1
  /\ calls[c].pc \in {"register", "poll"}
  /\ Fail(c)
  /\ UNCHANGED <<mode, account, repo, storage, rows, ready, keysMade, doubles, reloads>>

\* Faulty variant: keys of every mode are read as they were.
LoadedAsSaved(saved) == saved

\* load() of the key manager.  The Semaphore one saves the field identity of
\* its key and puts what it reads in the place of the key.
Loaded(saved) ==
  [p \in Periods |-> IF mode = "semaphore" /\ saved[p].keys # None
                     THEN [saved[p] EXCEPT !.keys = Imported] ELSE saved[p]]

\* The page is closed and opened again with the same identity, and perhaps
\* with another account: load() of both managers, and no call goes on.
Reload ==
  /\ reloads < MaxReloads
  /\ reloads' = reloads + 1
  /\ account' \in Accounts
  /\ repo' = Loaded(storage.repo)
  /\ credentials' = storage.credentials
  /\ calls' = [c \in Calls |-> NoCall]
  /\ UNCHANGED <<mode, storage, rows, ready, keysMade, doubles, losses>>

-----------------------------------------------------------------------------

\* What goes on by itself when a call is under way.
CallStep(c) ==
  \/ KeyGenerated(c)
  \/ ServerRegisters(c)
  \/ TokenArrives(c)
  \/ RequestRefused(c)
  \/ ServerAnswers(c)
  \/ ProofArrives(c)
  \/ ProofNotReady(c)
  \/ TryAgain(c)

\* With all reloads and losses used up and everything obtained nothing is
\* left to do; the page stays open.
Idle ==
  /\ \A c \in Calls : calls[c].pc = "idle"
  /\ UNCHANGED clientVars

ClientNext ==
  \/ \E c \in Calls :
       \/ \E p \in KeyPeriods : Click(c, p) \/ FirstClick(c, p)
       \/ CallStep(c)
       \/ RequestLost(c)
  \/ \E row \in Registrations : ServerReady(row)
  \/ Reload
  \/ Idle

ClientSpec == ClientInit /\ [][ClientNext]_clientVars

\* Digests end, timers fire, and requests are answered (or lost).
ClientFairSpec ==
  ClientSpec /\ \A c \in Calls : WF_clientVars(CallStep(c))

\* Besides, the voter clicks the button again whenever it is shown.
PatientSpec ==
  ClientFairSpec /\ \A p \in Periods :
    SF_clientVars(p \in KeyPeriods /\ \E c \in Calls : Click(c, p) \/ FirstClick(c, p))

-----------------------------------------------------------------------------
(* Properties *)

\* The types of the variables.
ClientTypeOK ==
  /\ mode \in Modes /\ account \in Accounts
  /\ repo \in [Periods -> [keys  : Keys \cup {Empty, Imported, None},
                          proof : Registrations \cup {None}]]
  /\ credentials \in [Periods ->
       [working : BOOLEAN, failed : BOOLEAN,
        token : Registrations \cup {None}, response : Registrations \cup {None}]]
  /\ \A c \in Calls :
       /\ calls[c].pc \in {"idle", "generate", "register", "poll", "sleep"}
       /\ calls[c].pc = "idle" <=> calls[c] = NoCall
       /\ calls[c].pc \in {"poll", "sleep"} => credentials[calls[c].period].token # None
       /\ calls[c].try \in 0 .. MaxTries
  /\ rows \subseteq Registrations /\ ready \subseteq rows

\* If nobody clicks while a key is generated, a key the server has registered
\* is in the storage, whenever the page is closed: get_key saves it before the
\* registration is sent, and no later save replaces it.
RegisteredKeysSaved ==
  doubles = 0 /\ mode \in {"zk", "semaphore"} =>
    \A row \in rows : storage.repo[row.period].keys = row.pubkey

\* What a proof was made for is what will be used with it: under the same
\* condition the key kept for its period, and the wallet's account unless
\* the page was opened again (get_proof puts a proof next to whatever key the
\* repository holds by then; the naive mode keeps it with the identity).
ProofBelongsToKey ==
  \A p \in Periods : repo[p].proof # None =>
    /\ repo[p].proof.period = p
    /\ doubles = 0 => repo[p].keys # None
    /\ doubles = 0 /\ repo[p].keys \in Keys => repo[p].proof.pubkey = repo[p].keys
    /\ mode = "naive" /\ reloads = 0 => repo[p].proof.pubkey = account

\* A request for the credentials of period p is under way.
Requested(p) ==
  \E c \in Calls : calls[c].period = p /\ calls[c].pc \in {"register", "poll", "sleep"}

\* Only one request for a period's credentials is under way at a time, however
\* often the button is clicked (the flag working of obtain_token and
\* obtain_credentials).
OneRequestPerPeriod ==
  \A c, d \in Calls :
    /\ calls[c].pc \in {"register", "poll", "sleep"}
    /\ calls[d].pc \in {"register", "poll", "sleep"}
    /\ calls[c].period = calls[d].period
    => c = d

\* The flag that takes the button away is set by a request under way, in this
\* page or, if the credentials of another period were saved meanwhile, in one
\* that is closed: a token is saved with its own flag down (obtain_token,
\* obtain_credentials, save and load of IDPManager).
WorkingHasReason ==
  \A p \in Periods : credentials[p].working =>
    \/ Requested(p)
    \/ reloads > 0 /\ \E q \in Periods \ {p} : credentials[q].token # None

\* A token that arrived is not lost, whatever is reloaded or fails later: it
\* is the only way to the proof (obtain_token and load()).
TokensKept ==
  [][\A p \in Periods :
       credentials[p].token # None => credentials'[p].token = credentials[p].token]_clientVars

\* What a voter cannot get out of by clicking: the server has a registration
\* whose token did not arrive, or no registration for the token; the flag of
\* a request that was under way was restored; the key is unreadable.
Trapped(p) ==
  \/ /\ \E row \in rows : row.period = p /\ credentials[p].token # row
     /\ ~ Requested(p)
  \/ credentials[p].token \notin rows \cup {None}
  \/ credentials[p].working /\ ~ Requested(p)
  \/ repo[p].keys = Imported

\* If the server gets the proofs of all its registrations ready, a voter who
\* clicks "Erneut versuchen" (client/src/nav.ts:302) after a failure finally
\* gets the proof, or is in one of four known traps, provided nobody clicked
\* while a key was generated: requests that are lost, polling that is given up
\* and reloads of the page are survived.
RetryHelps ==
  <>[](rows = ready /\ doubles = 0) =>
    \A p \in Periods : credentials[p].failed ~> repo[p].proof # None \/ Trapped(p)

\* keys.ts:237: "interface ISemaphoreKey { identity: Identity }", which is
\* what SemaphoreKeyManager is declared to keep.
KeysHaveTheirType == \A p \in Periods : repo[p].keys # Imported

=============================================================================
