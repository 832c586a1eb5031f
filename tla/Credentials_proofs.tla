-------------------------- MODULE Credentials_proofs --------------------------
(***************************************************************************)
(* Proofs about the client until it signs.  Of Credentials: in every mode, *)
(* whatever requests are lost and however clicks, digests, replies and     *)
(* reloads of the page interleave, what the server has registered is       *)
(* saved, a proof belongs to the key it is kept with, and a token is never *)
(* lost.  Of Connection: the connector, the provider and the key manager   *)
(* of the main page belong together.                                       *)
(***************************************************************************)
EXTENDS Credentials, Connection, FiniteSetTheorems, SequenceTheorems, TLAPS

-----------------------------------------------------------------------------
(* Credentials: the inductive invariant *)

\* Rows, tokens and proofs; the bound on keys is of no concern here.
Rows == [pubkey : Pubkeys, period : Periods]

Entries == [keys : Nat \cup {Imported, None}, proof : Rows \cup {None}]

CredentialRecords ==
  [working : BOOLEAN, failed : BOOLEAN,
   token : Rows \cup {None}, response : Rows \cup {None}]

CallRecords ==
  [pc     : {"idle", "generate", "register", "poll", "sleep"},
   period : Periods \cup {None},
   pubkey : Pubkeys \cup {None},
   answer : Rows \cup {None, Refused, NotReady},
   try    : Nat]

ClientTypes ==
  /\ mode \in Modes /\ account \in Accounts
  /\ repo \in [Periods -> Entries]
  /\ credentials \in [Periods -> CredentialRecords]
  /\ storage \in [repo : [Periods -> Entries], credentials : [Periods -> CredentialRecords]]
  /\ calls \in [Calls -> CallRecords]
  /\ rows \subseteq Rows
  /\ keysMade \in Nat /\ doubles \in Nat /\ reloads \in Nat

\* The modes in which the server is given the key.
KeyMode == mode \in {"zk", "semaphore"}

Asks(c) == calls[c].pc \in {"register", "poll", "sleep"}

\* What a call under way is based on.
CallFits(c) ==
  LET p == calls[c].period
  IN  /\ calls[c].pc # "idle" => p \in KeyPeriods
      /\ calls[c].pc = "generate" => mode = "zk" /\ (doubles = 0 => repo[p].keys = None)
      /\ Asks(c) =>
           /\ credentials[p].working /\ repo[p].keys \notin {None, Imported}
           /\ doubles = 0 /\ KeyMode => repo[p].keys = calls[c].pubkey
           /\ mode = "naive" => calls[c].pubkey = account
           /\ calls[c].pubkey \in Pubkeys
      /\ calls[c].pc = "register" =>
           /\ credentials[p].token = None
           /\ calls[c].answer \in {None, Refused, [pubkey |-> calls[c].pubkey, period |-> p]}
      /\ calls[c].pc \in {"poll", "sleep"} =>
           /\ credentials[p].token # None
           /\ calls[c].answer \in {None, NotReady, Refused, credentials[p].token}

\* Calls, and how they keep out of each other's way.
CallsFit ==
  /\ \A c \in Calls : CallFits(c)
  /\ OneRequestPerPeriod
  /\ doubles = 0 => \A c, d \in Calls :
       /\ calls[c].pc = "generate" /\ calls[d].pc = "generate"
       /\ calls[c].period = calls[d].period
       => c = d

\* The storage has what the page has, but for flags and unreadable keys.
StorageFits ==
  \A p \in Periods :
    /\ storage.credentials[p].token = credentials[p].token
    /\ storage.credentials[p].working => \E q \in Periods \ {p} : credentials[q].token # None
    /\ storage.repo[p].keys # Imported
    /\ storage.repo[p].keys # None => p \in KeyPeriods
    /\ ~ KeyMode => storage.repo[p].keys \in {None, Empty}
    /\ repo[p].proof = storage.repo[p].proof
    /\ \/ repo[p].keys = storage.repo[p].keys
       \/ /\ mode = "semaphore" /\ repo[p].keys = Imported /\ storage.repo[p].keys # None
          /\ \A c \in Calls : calls[c].pc = "idle"

\* Tokens, and proofs, which name the row they are for.
TokensFit ==
  \A p \in Periods :
    /\ credentials[p].token # None =>
         /\ credentials[p].token.period = p
         /\ storage.repo[p].keys # None
         /\ doubles = 0 /\ KeyMode => storage.repo[p].keys = credentials[p].token.pubkey
         /\ mode = "naive" /\ reloads = 0 => credentials[p].token.pubkey = account
    /\ repo[p].proof \in {None, credentials[p].token}

ClientInductiveInv ==
  /\ ClientTypes
  /\ CallsFit
  /\ StorageFits
  /\ TokensFit
  /\ RegisteredKeysSaved
  /\ WorkingHasReason
-----------------------------------------------------------------------------
(* The initial states *)

LEMMA ClientInitInv == ClientInit => ClientInductiveInv
<1> SUFFICES ASSUME ClientInit PROVE ClientInductiveInv
  OBVIOUS
<1>1. /\ NoEntry \in Entries /\ NewCredential \in CredentialRecords /\ NoCall \in CallRecords
      /\ NoEntry.keys = None /\ NoEntry.proof = None
      /\ NewCredential.working = FALSE /\ NewCredential.token = None
      /\ NoCall.pc = "idle"
  BY DEF NoEntry, NewCredential, NoCall, Entries, CredentialRecords, CallRecords
<1>2. /\ \A p \in Periods : repo[p] = NoEntry /\ credentials[p] = NewCredential
      /\ \A c \in Calls : calls[c] = NoCall
      /\ storage.repo = repo /\ storage.credentials = credentials
      /\ rows = {}
  BY DEF ClientInit
<1>3. ClientTypes
  BY <1>1 DEF ClientInit, ClientTypes
<1>4. CallsFit
  BY <1>1, <1>2 DEF CallsFit, CallFits, Asks, OneRequestPerPeriod
<1>5. StorageFits /\ TokensFit
  BY <1>1, <1>2, ValuesAssumption DEF StorageFits, TokensFit
<1>6. RegisteredKeysSaved /\ WorkingHasReason
  BY <1>1, <1>2 DEF RegisteredKeysSaved, WorkingHasReason
<1> QED
  BY <1>3, <1>4, <1>5, <1>6 DEF ClientInductiveInv

-----------------------------------------------------------------------------
(* Calls *)

LEMMA CallsTyped ==
  ASSUME ClientTypes, NEW c \in Calls
  PROVE  /\ calls[c] \in CallRecords
         /\ calls[c].pc \in {"idle", "generate", "register", "poll", "sleep"}
         /\ calls[c].answer \in Rows \cup {None, Refused, NotReady}
         /\ NoCall \in CallRecords /\ NoCall.pc = "idle"
BY DEF ClientTypes, CallRecords, NoCall

LEMMA KeyPeriodsArePeriods == KeyPeriods \subseteq Periods
BY PeriodsAssumption DEF KeyPeriods

\* The row a call asks for.
RowOf(c) == [pubkey |-> calls[c].pubkey, period |-> calls[c].period]

LEMMA AskingCalls ==
  ASSUME ClientInductiveInv, NEW c \in Calls, Asks(c)
  PROVE  /\ calls[c].period \in Periods /\ calls[c].period \in KeyPeriods
         /\ calls[c].pubkey \in Pubkeys
         /\ credentials[calls[c].period].working
         /\ repo[calls[c].period].keys \notin {None, Imported}
         /\ repo[calls[c].period].keys = storage.repo[calls[c].period].keys
         /\ doubles = 0 /\ KeyMode => repo[calls[c].period].keys = calls[c].pubkey
         /\ mode = "naive" => calls[c].pubkey = account
         /\ \A q \in Periods : repo[q].keys = storage.repo[q].keys
         /\ \A d \in Calls \ {c} : Asks(d) => calls[d].period # calls[c].period
         /\ RowOf(c) \in Rows
<1>1. calls[c].pc # "idle" /\ CallFits(c) /\ StorageFits /\ OneRequestPerPeriod
  BY DEF ClientInductiveInv, CallsFit, Asks
<1>2. calls[c].period \in Periods /\ calls[c].period \in KeyPeriods
  BY <1>1, KeyPeriodsArePeriods DEF CallFits
<1>3. \A q \in Periods : repo[q].keys = storage.repo[q].keys
  BY <1>1 DEF StorageFits
<1>4. /\ calls[c].pubkey \in Pubkeys
      /\ credentials[calls[c].period].working
      /\ repo[calls[c].period].keys \notin {None, Imported}
      /\ doubles = 0 /\ KeyMode => repo[calls[c].period].keys = calls[c].pubkey
      /\ mode = "naive" => calls[c].pubkey = account
  BY <1>1 DEF CallFits
<1>5. \A d \in Calls \ {c} : Asks(d) => calls[d].period # calls[c].period
  BY <1>1 DEF OneRequestPerPeriod, Asks
<1> QED
  BY <1>2, <1>3, <1>4, <1>5 DEF RowOf, Rows

\* One call goes on or ends, the server stores the row it asks for or not, and
\* the page keeps what it has but for the flags.
LEMMA CallGoesOn ==
  ASSUME ClientInductiveInv, NEW c \in Calls, Asks(c),
         UNCHANGED <<mode, account, repo, storage, keysMade, doubles, reloads>>,
         rows' \subseteq rows \cup {RowOf(c)},
         calls' \in [Calls -> CallRecords], credentials' \in [Periods -> CredentialRecords],
         \A d \in Calls \ {c} : calls'[d] = calls[d],
         \A q \in Periods : /\ credentials'[q].token = credentials[q].token
                            /\ q # calls[c].period => credentials'[q] = credentials[q],
         \/ calls'[c].pc = "idle" /\ ~ credentials'[calls[c].period].working
         \/ /\ credentials'[calls[c].period].working
            /\ calls'[c].period = calls[c].period /\ calls'[c].pubkey = calls[c].pubkey
            /\ \/ /\ calls[c].pc = "register" /\ calls'[c].pc = "register"
                  /\ calls'[c].answer \in {None, Refused, RowOf(c)}
               \/ /\ calls[c].pc \in {"poll", "sleep"} /\ calls'[c].pc \in {"poll", "sleep"}
                  /\ calls'[c].answer \in
                       {None, NotReady, Refused, credentials[calls[c].period].token}
  PROVE  ClientInductiveInv'
<1> DEFINE p == calls[c].period
           Goes == /\ calls'[c].period = p /\ calls'[c].pubkey = calls[c].pubkey
                   /\ calls'[c].pc \in {"register", "poll", "sleep"}
<1>1. ClientTypes /\ CallsFit /\ StorageFits /\ TokensFit /\ RegisteredKeysSaved /\ WorkingHasReason
  BY DEF ClientInductiveInv
<1>2. /\ p \in Periods /\ calls[c].pubkey \in Pubkeys
      /\ repo[p].keys = storage.repo[p].keys
      /\ doubles = 0 /\ KeyMode => repo[p].keys = calls[c].pubkey
      /\ \A d \in Calls \ {c} : Asks(d) => calls[d].period # p
      /\ RowOf(c) \in Rows /\ RowOf(c).period = p /\ RowOf(c).pubkey = calls[c].pubkey
      /\ \A q \in Periods : repo[q].keys = storage.repo[q].keys
  BY AskingCalls DEF RowOf
<1>3. calls'[c].pc = "idle" \/ Goes
  OBVIOUS
<1>4. ClientTypes'
  BY <1>1, <1>2 DEF ClientTypes
<1>5. ASSUME NEW d \in Calls PROVE CallFits(d)'
  <2>1. CASE d # c
    <3>1. calls'[d] = calls[d] /\ CallFits(d)
      BY <1>1, <2>1 DEF CallsFit
    <3>2. calls[d].pc # "idle" => calls[d].period \in Periods
      BY <3>1, KeyPeriodsArePeriods DEF CallFits
    <3>3. Asks(d) => credentials'[calls[d].period].working
      <4>1. Asks(d) => /\ calls[d].period # p /\ calls[d].pc # "idle"
                       /\ credentials[calls[d].period].working
        BY <1>2, <2>1, <3>1 DEF Asks, CallFits
      <4> QED
        BY <3>2, <4>1
    <3>4. calls[d].pc # "idle" =>
            credentials'[calls[d].period].token = credentials[calls[d].period].token
      BY <3>2
    <3> QED
      BY <3>1, <3>3, <3>4 DEF CallFits, Asks, KeyMode, KeyPeriods, indefinitely_valid
  <2>2. CASE d = c
    <3>1. CallFits(c) /\ Asks(c)
      BY <1>1 DEF CallsFit
    <3>2. CASE calls'[c].pc = "idle"
      BY <2>2, <3>2 DEF CallFits, Asks
    <3>3. CASE calls'[c].pc # "idle"
      <4>1. credentials'[p].token = credentials[p].token
        BY <1>2
      <4> QED
        BY <2>2, <3>1, <3>3, <4>1
        DEF CallFits, Asks, KeyMode, KeyPeriods, indefinitely_valid, RowOf
    <3> QED
      BY <3>2, <3>3
  <2> QED
    BY <2>1, <2>2
<1>6. OneRequestPerPeriod'
  BY <1>1, <1>2, <1>3 DEF CallsFit, OneRequestPerPeriod, Asks
<1>7. doubles' = 0 => \A d, e \in Calls :
        /\ calls'[d].pc = "generate" /\ calls'[e].pc = "generate"
        /\ calls'[d].period = calls'[e].period
        => d = e
  BY <1>1, <1>3 DEF CallsFit
<1>8. CallsFit'
  BY <1>5, <1>6, <1>7 DEF CallsFit
<1>9. StorageFits'
  BY <1>1, <1>2 DEF StorageFits, KeyMode, KeyPeriods, indefinitely_valid
<1>10. TokensFit'
  BY <1>1 DEF TokensFit, KeyMode
<1>11. RegisteredKeysSaved'
  BY <1>1, <1>2 DEF RegisteredKeysSaved, KeyMode
<1>12. WorkingHasReason'
  <2>1. ASSUME NEW q \in Periods, credentials'[q].working, credentials[q].working, Requested(q)
        PROVE  Requested(q)'
    <3>1. PICK d \in Calls : calls[d].period = q /\ Asks(d)
      BY <2>1 DEF Requested, Asks
    <3>2. CASE d = c
      BY <1>3, <2>1, <3>1, <3>2 DEF Requested
    <3>3. CASE d # c
      BY <3>1, <3>3 DEF Requested, Asks
    <3> QED
      BY <3>2, <3>3
  <2>2. ASSUME NEW q \in Periods, credentials'[q].working
        PROVE  credentials[q].working
    BY <2>2, AskingCalls
  <2>3. \A q \in Periods : credentials'[q].token = credentials[q].token
    OBVIOUS
  <2> QED
    BY <1>1, <2>1, <2>2, <2>3 DEF WorkingHasReason
<1> QED
  BY <1>4, <1>8, <1>9, <1>10, <1>11, <1>12 DEF ClientInductiveInv

\* A call that fails.
LEMMA FailEffect ==
  ASSUME ClientTypes, NEW c \in Calls, calls[c].period \in Periods, Fail(c)
  PROVE  /\ calls' \in [Calls -> CallRecords] /\ credentials' \in [Periods -> CredentialRecords]
         /\ \A d \in Calls \ {c} : calls'[d] = calls[d]
         /\ \A q \in Periods : /\ credentials'[q].token = credentials[q].token
                               /\ q # calls[c].period => credentials'[q] = credentials[q]
         /\ calls'[c].pc = "idle" /\ ~ credentials'[calls[c].period].working
<1> DEFINE p == calls[c].period
<1>1. /\ credentials' = [credentials EXCEPT ![p].working = FALSE, ![p].failed = TRUE]
      /\ calls' = [calls EXCEPT ![c] = NoCall]
  BY DEF Fail
<1>2. /\ credentials \in [Periods -> CredentialRecords] /\ calls \in [Calls -> CallRecords]
      /\ NoCall \in CallRecords /\ NoCall.pc = "idle"
  BY CallsTyped DEF ClientTypes
<1>3. /\ credentials' \in [Periods -> CredentialRecords]
      /\ \A q \in Periods : /\ credentials'[q].token = credentials[q].token
                            /\ q # p => credentials'[q] = credentials[q]
      /\ ~ credentials'[p].working
  BY <1>1, <1>2 DEF CredentialRecords
<1> QED
  BY <1>1, <1>2, <1>3

LEMMA ServerRegistersInv ==
  ASSUME ClientInductiveInv, NEW c \in Calls, ServerRegisters(c)
  PROVE  ClientInductiveInv'
<1>1. ClientTypes /\ Asks(c) /\ calls[c].pc = "register"
  BY DEF ClientInductiveInv, ServerRegisters, Asks
<1>2. PICK answer \in {Refused, RowOf(c)} : calls' = [calls EXCEPT ![c].answer = answer]
  BY DEF ServerRegisters, RowOf
<1>3. /\ rows' \subseteq rows \cup {RowOf(c)}
      /\ UNCHANGED <<mode, account, repo, credentials, storage, keysMade, doubles, reloads>>
  BY DEF ServerRegisters, RowOf, bounds
<1>4. answer \in Rows \cup {Refused}
  BY <1>1, <1>2, AskingCalls
<1>5. /\ calls' \in [Calls -> CallRecords]
      /\ \A d \in Calls \ {c} : calls'[d] = calls[d]
      /\ calls'[c].period = calls[c].period /\ calls'[c].pubkey = calls[c].pubkey
      /\ calls'[c].pc = "register" /\ calls'[c].answer = answer
  BY <1>1, <1>2, <1>4 DEF ClientTypes, CallRecords
<1>6. credentials' \in [Periods -> CredentialRecords] /\ credentials'[calls[c].period].working
  BY <1>1, <1>3, AskingCalls DEF ClientTypes
<1> QED
  BY <1>1, <1>2, <1>3, <1>5, <1>6, CallGoesOn

LEMMA RequestRefusedInv ==
  ASSUME ClientInductiveInv, NEW c \in Calls, RequestRefused(c)
  PROVE  ClientInductiveInv'
<1>1. /\ ClientTypes /\ Asks(c) /\ Fail(c)
      /\ UNCHANGED <<mode, account, repo, storage, rows, keysMade, doubles, reloads>>
  BY DEF ClientInductiveInv, RequestRefused, Asks, bounds
<1>2. calls[c].period \in Periods
  BY <1>1, AskingCalls
<1> QED
  BY <1>1, <1>2, FailEffect, CallGoesOn

LEMMA RequestLostInv ==
  ASSUME ClientInductiveInv, NEW c \in Calls, RequestLost(c)
  PROVE  ClientInductiveInv'
<1>1. /\ ClientTypes /\ Asks(c) /\ Fail(c)
      /\ UNCHANGED <<mode, account, repo, storage, rows, keysMade, doubles, reloads>>
  BY DEF ClientInductiveInv, RequestLost, Asks
<1>2. calls[c].period \in Periods
  BY <1>1, AskingCalls
<1> QED
  BY <1>1, <1>2, FailEffect, CallGoesOn

LEMMA ServerAnswersInv ==
  ASSUME ClientInductiveInv, NEW c \in Calls, ServerAnswers(c)
  PROVE  ClientInductiveInv'
<1> DEFINE token == credentials[calls[c].period].token
<1>1. /\ ClientTypes /\ Asks(c) /\ calls[c].pc = "poll"
      /\ UNCHANGED <<mode, account, repo, credentials, storage, rows, keysMade, doubles, reloads>>
  BY DEF ClientInductiveInv, ServerAnswers, Asks, bounds
<1>2. PICK answer \in {token, NotReady, Refused} : calls' = [calls EXCEPT ![c].answer = answer]
  BY DEF ServerAnswers
<1>3. answer \in Rows \cup {None, NotReady, Refused}
  BY <1>1, <1>2, AskingCalls DEF ClientTypes, CredentialRecords
<1>4. /\ calls' \in [Calls -> CallRecords]
      /\ \A d \in Calls \ {c} : calls'[d] = calls[d]
      /\ calls'[c].period = calls[c].period /\ calls'[c].pubkey = calls[c].pubkey
      /\ calls'[c].pc = "poll" /\ calls'[c].answer = answer
  BY <1>1, <1>2, <1>3 DEF ClientTypes, CallRecords
<1>5. credentials' \in [Periods -> CredentialRecords] /\ credentials'[calls[c].period].working
  BY <1>1, AskingCalls DEF ClientTypes
<1> QED
  BY <1>1, <1>2, <1>4, <1>5, CallGoesOn

LEMMA ProofNotReadyInv ==
  ASSUME ClientInductiveInv, NEW c \in Calls, ProofNotReady(c)
  PROVE  ClientInductiveInv'
<1>1. /\ ClientTypes /\ Asks(c) /\ calls[c].pc = "poll"
      /\ UNCHANGED <<mode, account, repo, storage, rows, keysMade, doubles, reloads>>
  BY DEF ClientInductiveInv, ProofNotReady, Asks, bounds
<1>2. calls[c].period \in Periods /\ credentials[calls[c].period].working
  BY <1>1, AskingCalls
<1>3. CASE Fail(c)
  BY <1>1, <1>2, <1>3, FailEffect, CallGoesOn
<1>4. CASE /\ calls' = [calls EXCEPT ![c].pc = "sleep", ![c].answer = None, ![c].try = @ + 1]
           /\ UNCHANGED credentials
  <2>1. /\ calls' \in [Calls -> CallRecords]
        /\ \A d \in Calls \ {c} : calls'[d] = calls[d]
        /\ calls'[c].period = calls[c].period /\ calls'[c].pubkey = calls[c].pubkey
        /\ calls'[c].pc = "sleep" /\ calls'[c].answer = None
    BY <1>1, <1>4 DEF ClientTypes, CallRecords
  <2>2. credentials' \in [Periods -> CredentialRecords]
    BY <1>1, <1>4 DEF ClientTypes
  <2> QED
    BY <1>1, <1>2, <1>4, <2>1, <2>2, CallGoesOn
<1> QED
  BY <1>3, <1>4 DEF ProofNotReady

LEMMA TryAgainInv ==
  ASSUME ClientInductiveInv, NEW c \in Calls, TryAgain(c)
  PROVE  ClientInductiveInv'
<1> DEFINE p == calls[c].period
<1>1. /\ ClientTypes /\ Asks(c) /\ calls[c].pc = "sleep" /\ CallFits(c)
      /\ credentials' = [credentials EXCEPT ![p].working = TRUE]
      /\ calls' = [calls EXCEPT ![c].pc = "poll"]
      /\ UNCHANGED <<mode, account, repo, storage, rows, keysMade, doubles, reloads>>
  BY DEF ClientInductiveInv, CallsFit, TryAgain, Asks, bounds
<1>2. p \in Periods
  BY <1>1, AskingCalls
<1>3. /\ credentials' \in [Periods -> CredentialRecords]
      /\ credentials'[p].working
      /\ \A q \in Periods : /\ credentials'[q].token = credentials[q].token
                            /\ q # p => credentials'[q] = credentials[q]
  BY <1>1, <1>2 DEF ClientTypes, CredentialRecords
<1>4. /\ calls' \in [Calls -> CallRecords]
      /\ \A d \in Calls \ {c} : calls'[d] = calls[d]
      /\ calls'[c].period = p /\ calls'[c].pubkey = calls[c].pubkey
      /\ calls'[c].pc = "poll" /\ calls'[c].answer = calls[c].answer
  BY <1>1 DEF ClientTypes, CallRecords
<1>5. calls[c].answer \in {None, NotReady, Refused, credentials[p].token}
  BY <1>1 DEF CallFits
<1> QED
  BY <1>1, <1>3, <1>4, <1>5, CallGoesOn

\* Trees at the server and the page at rest.
LEMMA NothingChanges ==
  ASSUME ClientInductiveInv,
         UNCHANGED <<mode, account, repo, credentials, storage, calls, rows, keysMade, doubles,
                     reloads>>
  PROVE  ClientInductiveInv'
<1>1. ClientTypes' /\ StorageFits' /\ TokensFit' /\ RegisteredKeysSaved' /\ WorkingHasReason'
  BY DEF ClientInductiveInv, ClientTypes, StorageFits, TokensFit, RegisteredKeysSaved,
         WorkingHasReason, Requested, KeyMode, KeyPeriods, indefinitely_valid
<1>2. CallsFit'
  BY DEF ClientInductiveInv, CallsFit, CallFits, OneRequestPerPeriod, Asks, KeyMode, KeyPeriods,
         indefinitely_valid
<1> QED
  BY <1>1, <1>2 DEF ClientInductiveInv

\* The token is saved with the flag of its period down; the flags of others
\* are saved as they are.
LEMMA TokenArrivesInv ==
  ASSUME ClientInductiveInv, NEW c \in Calls, TokenArrives(c)
  PROVE  ClientInductiveInv'
<1> DEFINE p == calls[c].period
           row == calls[c].answer
           saved == [credentials EXCEPT ![p].working = FALSE, ![p].token = row]
<1>1. /\ calls[c].pc = "register" /\ row \notin {None, Refused}
      /\ credentials' = [saved EXCEPT ![p].working = TRUE]
      /\ storage' = [storage EXCEPT !.credentials = saved]
      /\ calls' = [calls EXCEPT ![c].pc = "poll", ![c].answer = None]
      /\ UNCHANGED <<mode, account, repo, rows, keysMade, doubles, reloads>>
  BY DEF TokenArrives, SaveToken, bounds
<1>2. ClientTypes /\ CallsFit /\ StorageFits /\ TokensFit /\ RegisteredKeysSaved /\ WorkingHasReason
  BY DEF ClientInductiveInv
<1>3. Asks(c) /\ CallFits(c)
  BY <1>1, <1>2 DEF CallsFit, Asks
<1>4. /\ p \in Periods /\ calls[c].pubkey \in Pubkeys
      /\ repo[p].keys \notin {None, Imported}
      /\ doubles = 0 /\ KeyMode => repo[p].keys = calls[c].pubkey
      /\ mode = "naive" => calls[c].pubkey = account
      /\ \A d \in Calls \ {c} : Asks(d) => calls[d].period # p
      /\ \A q \in Periods : repo[q].keys = storage.repo[q].keys
      /\ RowOf(c) \in Rows /\ RowOf(c).period = p /\ RowOf(c).pubkey = calls[c].pubkey
      /\ RowOf(c) # None
  BY <1>3, AskingCalls, ValuesAssumption DEF RowOf, Rows
<1>5. row = RowOf(c) /\ credentials[p].token = None
  BY <1>1, <1>3 DEF CallFits, RowOf
<1>6. /\ saved \in [Periods -> CredentialRecords]
      /\ saved[p].token = RowOf(c) /\ ~ saved[p].working
      /\ \A q \in Periods \ {p} : saved[q] = credentials[q]
  <2> DEFINE new == [credentials[p] EXCEPT !.working = FALSE, !.token = row]
  <2>1. credentials \in [Periods -> CredentialRecords] /\ row \in Rows
    BY <1>2, <1>4, <1>5 DEF ClientTypes
  <2>2. saved = [credentials EXCEPT ![p] = new]
    BY <1>4, <2>1
  <2>3. new \in CredentialRecords /\ new.token = row /\ new.working = FALSE
    BY <1>4, <2>1 DEF CredentialRecords
  <2> HIDE DEF new, saved
  <2> QED
    BY <1>4, <1>5, <2>1, <2>2, <2>3
<1> HIDE DEF saved
<1>7. /\ credentials' \in [Periods -> CredentialRecords]
      /\ credentials'[p].token = RowOf(c) /\ credentials'[p].working
      /\ \A q \in Periods \ {p} : credentials'[q] = credentials[q]
  BY <1>1, <1>4, <1>6 DEF CredentialRecords
<1>8. /\ storage' \in [repo : [Periods -> Entries], credentials : [Periods -> CredentialRecords]]
      /\ storage'.repo = storage.repo /\ storage'.credentials = saved
  BY <1>1, <1>2, <1>6 DEF ClientTypes
<1>9. /\ calls' \in [Calls -> CallRecords]
      /\ \A d \in Calls \ {c} : calls'[d] = calls[d]
      /\ calls'[c].period = p /\ calls'[c].pubkey = calls[c].pubkey
      /\ calls'[c].pc = "poll" /\ calls'[c].answer = None
  BY <1>1, <1>2 DEF ClientTypes, CallRecords
<1> HIDE DEF p, row
<1>10. ClientTypes'
  BY <1>1, <1>2, <1>7, <1>8, <1>9 DEF ClientTypes
<1>11. ASSUME NEW d \in Calls PROVE CallFits(d)'
  <2>1. CASE d = c
    BY <1>1, <1>3, <1>4, <1>7, <1>9, <2>1
    DEF CallFits, Asks, KeyMode, KeyPeriods, indefinitely_valid, p
  <2>2. CASE d # c
    <3>1. calls'[d] = calls[d] /\ CallFits(d)
      BY <1>2, <1>9, <2>2 DEF CallsFit
    <3>2. calls[d].pc # "idle" => calls[d].period \in Periods
      BY <3>1, KeyPeriodsArePeriods DEF CallFits
    <3>3. Asks(d) => credentials'[calls[d].period] = credentials[calls[d].period]
      BY <1>4, <1>7, <2>2, <3>2 DEF Asks
    <3> QED
      BY <1>1, <3>1, <3>3 DEF CallFits, Asks, KeyMode, KeyPeriods, indefinitely_valid
  <2> QED
    BY <2>1, <2>2
<1>12. CallsFit'
  BY <1>1, <1>2, <1>4, <1>9, <1>11 DEF CallsFit, OneRequestPerPeriod, Asks
<1>13. \A q \in Periods :
         credentials[q].token # None => credentials'[q].token = credentials[q].token
  BY <1>5, <1>7
<1>14. StorageFits'
  <2>1. ASSUME NEW q \in Periods
        PROVE  /\ storage'.credentials[q].token = credentials'[q].token
               /\ storage'.credentials[q].working =>
                    \E o \in Periods \ {q} : credentials'[o].token # None
    <3>1. CASE q = p
      BY <1>6, <1>7, <1>8, <3>1
    <3>2. CASE q # p
      BY <1>4, <1>6, <1>7, <1>8, <3>2
    <3> QED
      BY <3>1, <3>2
  <2>2. ASSUME NEW q \in Periods
        PROVE  repo'[q].keys = storage'.repo[q].keys
    BY <1>1, <1>4, <1>8
  <2> QED
    BY <1>1, <1>2, <1>8, <2>1, <2>2 DEF StorageFits, KeyMode, KeyPeriods, indefinitely_valid
<1>15. TokensFit'
  <2>1. ASSUME NEW q \in Periods, q = p
        PROVE  /\ credentials'[q].token.period = q
               /\ storage'.repo[q].keys # None
               /\ doubles = 0 /\ KeyMode => storage'.repo[q].keys = credentials'[q].token.pubkey
               /\ mode = "naive" => credentials'[q].token.pubkey = account
               /\ repo'[q].proof \in {None, credentials'[q].token}
    <3>1. repo[q].proof = None
      BY <1>2, <1>5, <2>1 DEF TokensFit
    <3> QED
      BY <1>1, <1>4, <1>7, <1>8, <2>1, <3>1
  <2> QED
    BY <1>1, <1>2, <1>7, <1>8, <2>1 DEF TokensFit, KeyMode
<1>16. RegisteredKeysSaved'
  BY <1>1, <1>2, <1>8 DEF RegisteredKeysSaved
<1>17. WorkingHasReason'
  <2>1. ASSUME NEW q \in Periods, Requested(q) PROVE Requested(q)'
    <3>1. PICK d \in Calls : calls[d].period = q /\ Asks(d)
      BY <2>1 DEF Requested, Asks
    <3>2. CASE d = c
      BY <1>9, <3>1, <3>2 DEF Requested, p
    <3>3. CASE d # c
      BY <1>9, <3>1, <3>3 DEF Requested, Asks
    <3> QED
      BY <3>2, <3>3
  <2>2. ASSUME NEW q \in Periods, q # p, credentials'[q].working
        PROVE  \/ Requested(q)'
               \/ reloads > 0 /\ \E o \in Periods \ {q} : credentials'[o].token # None
    <3>1. \/ Requested(q)
          \/ reloads > 0 /\ \E o \in Periods \ {q} : credentials[o].token # None
      BY <1>2, <1>7, <2>2 DEF WorkingHasReason
    <3>2. \A o \in Periods : credentials[o].token # None => credentials'[o].token # None
      BY <1>13
    <3> QED
      BY <2>1, <3>1, <3>2
  <2>3. \A q : q = p => Requested(q)'
    BY <1>9 DEF Requested
  <2> QED
    BY <1>1, <2>2, <2>3 DEF WorkingHasReason
<1> QED
  BY <1>10, <1>12, <1>14, <1>15, <1>16, <1>17 DEF ClientInductiveInv

\* Flags of other periods are saved as they are: then this period has a token.
LEMMA ProofArrivesInv ==
  ASSUME ClientInductiveInv, NEW c \in Calls, ProofArrives(c)
  PROVE  ClientInductiveInv'
<1> DEFINE p == calls[c].period
           proof == calls[c].answer
           newCredential == [credentials[p] EXCEPT !.working = FALSE, !.response = proof]
           newEntry == [repo[p] EXCEPT !.proof = proof]
<1>1. ClientTypes /\ CallsFit /\ StorageFits /\ TokensFit /\ RegisteredKeysSaved /\ WorkingHasReason
  BY DEF ClientInductiveInv
<1>2. calls[c].pc = "poll" /\ proof \notin {None, NotReady, Refused} /\ Asks(c) /\ CallFits(c)
  BY <1>1 DEF ProofArrives, CallsFit, Asks
<1>3. /\ p \in Periods
      /\ \A d \in Calls \ {c} : Asks(d) => calls[d].period # p
      /\ \A q \in Periods : repo[q].keys = storage.repo[q].keys
      /\ repo[p].keys # None
  BY <1>2, AskingCalls
<1>4. proof = credentials[p].token /\ proof # None /\ proof \in Rows
  BY <1>1, <1>2, <1>3 DEF CallFits, ClientTypes, CredentialRecords
<1>5. /\ newCredential \in CredentialRecords /\ newCredential.working = FALSE
      /\ newCredential.token = credentials[p].token
  BY <1>1, <1>3, <1>4 DEF ClientTypes, CredentialRecords
<1>6. newEntry \in Entries /\ newEntry.keys = repo[p].keys /\ newEntry.proof = proof
  BY <1>1, <1>3, <1>4 DEF ClientTypes, Entries
<1>7. credentials \in [Periods -> CredentialRecords] /\ repo \in [Periods -> Entries]
  BY <1>1 DEF ClientTypes
<1>8. /\ credentials' = [credentials EXCEPT ![p] = newCredential]
      /\ repo' = [repo EXCEPT ![p] = newEntry]
      /\ storage' = [repo |-> repo', credentials |-> credentials']
      /\ calls' = [calls EXCEPT ![c] = NoCall]
      /\ UNCHANGED <<mode, account, rows, keysMade, doubles, reloads>>
  BY <1>3, <1>7 DEF ProofArrives, bounds
<1> HIDE DEF newCredential, newEntry
<1>9. /\ credentials' \in [Periods -> CredentialRecords]
      /\ ~ credentials'[p].working /\ credentials'[p].token = credentials[p].token
      /\ \A q \in Periods \ {p} : credentials'[q] = credentials[q]
      /\ \A q \in Periods : credentials'[q].token = credentials[q].token
  BY <1>3, <1>5, <1>7, <1>8
<1>10. /\ repo' \in [Periods -> Entries]
       /\ repo'[p].proof = proof
       /\ \A q \in Periods \ {p} : repo'[q] = repo[q]
       /\ \A q \in Periods : repo'[q].keys = repo[q].keys
  BY <1>3, <1>6, <1>7, <1>8
<1>11. /\ storage' \in [repo : [Periods -> Entries], credentials : [Periods -> CredentialRecords]]
       /\ storage'.repo = repo' /\ storage'.credentials = credentials'
  BY <1>8, <1>9, <1>10
<1>12. /\ calls' \in [Calls -> CallRecords]
       /\ \A d \in Calls \ {c} : calls'[d] = calls[d]
       /\ calls'[c].pc = "idle"
  BY <1>1, <1>8, CallsTyped DEF ClientTypes
<1> HIDE DEF p, proof
<1>13. ClientTypes'
  BY <1>1, <1>8, <1>9, <1>10, <1>11, <1>12 DEF ClientTypes
<1>14. ASSUME NEW d \in Calls PROVE CallFits(d)'
  <2>1. CASE d = c
    BY <1>12, <2>1 DEF CallFits, Asks
  <2>2. CASE d # c
    <3>1. calls'[d] = calls[d] /\ CallFits(d)
      BY <1>1, <1>12, <2>2 DEF CallsFit
    <3>2. calls[d].pc # "idle" => calls[d].period \in Periods
      BY <3>1, KeyPeriodsArePeriods DEF CallFits
    <3>3. Asks(d) => credentials'[calls[d].period] = credentials[calls[d].period]
      BY <1>3, <1>9, <2>2, <3>2 DEF Asks
    <3>4. calls[d].pc # "idle" => repo'[calls[d].period].keys = repo[calls[d].period].keys
      BY <1>10, <3>2
    <3> QED
      BY <1>8, <3>1, <3>3, <3>4 DEF CallFits, Asks, KeyMode, KeyPeriods, indefinitely_valid
  <2> QED
    BY <2>1, <2>2
<1>15. CallsFit'
  BY <1>1, <1>8, <1>12, <1>14 DEF CallsFit, OneRequestPerPeriod
<1>16. StorageFits'
  <2>1. ASSUME NEW q \in Periods, credentials'[q].working
        PROVE  \E o \in Periods \ {q} : credentials'[o].token # None
    <3>1. p \in Periods \ {q} /\ credentials'[p].token # None
      BY <1>3, <1>4, <1>9, <2>1
    <3> QED
      BY <3>1
  <2>2. \A q \in Periods : /\ repo'[q].keys = storage.repo[q].keys
                           /\ storage'.repo[q] = repo'[q]
                           /\ storage'.credentials[q] = credentials'[q]
    BY <1>3, <1>10, <1>11
  <2> QED
    BY <1>1, <1>8, <2>1, <2>2 DEF StorageFits, KeyMode, KeyPeriods, indefinitely_valid
<1>17. \A q \in Periods : storage'.repo[q].keys = storage.repo[q].keys
  BY <1>3, <1>10, <1>11
<1>18. TokensFit'
  <2>1. \A q \in Periods : repo'[q].proof \in {None, credentials'[q].token}
    BY <1>1, <1>4, <1>9, <1>10 DEF TokensFit
  <2> QED
    BY <1>1, <1>8, <1>9, <1>17, <2>1 DEF TokensFit, KeyMode
<1>19. RegisteredKeysSaved'
  <2>1. \A row \in rows : row.period \in Periods
    BY <1>1 DEF ClientTypes, Rows
  <2> QED
    BY <1>1, <1>8, <1>17, <2>1 DEF RegisteredKeysSaved
<1>20. WorkingHasReason'
  <2>1. ASSUME NEW q \in Periods, q # p, Requested(q) PROVE Requested(q)'
    <3>1. PICK d \in Calls : calls[d].period = q /\ Asks(d)
      BY <2>1 DEF Requested, Asks
    <3>2. calls'[d] = calls[d]
      BY <1>12, <2>1, <3>1 DEF p
    <3> QED
      BY <3>1, <3>2 DEF Requested, Asks
  <2>2. ASSUME NEW q \in Periods, credentials'[q].working
        PROVE  q # p /\ credentials[q].working
    BY <1>9, <2>2
  <2> QED
    BY <1>1, <1>8, <1>9, <2>1, <2>2 DEF WorkingHasReason
<1> QED
  BY <1>13, <1>15, <1>16, <1>18, <1>19, <1>20 DEF ClientInductiveInv

-----------------------------------------------------------------------------
(* Clicks and keys *)

\* A call that is refused, or asks for the credentials.
LEMMA ProceedEffect ==
  ASSUME ClientTypes, NEW c \in Calls, NEW p \in Periods, NEW keys \in Nat,
         Proceed(c, p, keys)
  PROVE  /\ calls' \in [Calls -> CallRecords]
         /\ \A d \in Calls \ {c} : calls'[d] = calls[d]
         /\ credentials' \in [Periods -> CredentialRecords]
         /\ \A q \in Periods \ {p} : credentials'[q] = credentials[q]
         /\ \A q \in Periods : credentials'[q].token = credentials[q].token
         /\ credentials'[p].working
         /\ \/ credentials[p].working /\ calls'[c].pc = "idle"
            \/ /\ ~ credentials[p].working
               /\ calls'[c].period = p /\ calls'[c].answer = None
               /\ calls'[c].pubkey \in Pubkeys
               /\ KeyMode => calls'[c].pubkey = keys
               /\ mode = "naive" => calls'[c].pubkey = account
               /\ IF credentials[p].token = None THEN calls'[c].pc = "register"
                                                 ELSE calls'[c].pc = "poll"
<1>1. credentials \in [Periods -> CredentialRecords] /\ calls \in [Calls -> CallRecords]
  BY DEF ClientTypes
<1>2. CASE AlreadyRequested(p)
  BY <1>1, <1>2, CallsTyped DEF Proceed, AlreadyRequested
<1>3. CASE ~ AlreadyRequested(p)
  <2> DEFINE new == [pc |-> FirstRequest(p), period |-> p, pubkey |-> client_identity(keys),
                     answer |-> None, try |-> 0]
             credential == [credentials[p] EXCEPT !.working = TRUE, !.failed = FALSE]
  <2>1. /\ client_identity(keys) \in Pubkeys
        /\ KeyMode => client_identity(keys) = keys
        /\ mode = "naive" => client_identity(keys) = account
    BY ModesAssumption DEF client_identity, ClientTypes, KeyMode, Pubkeys
  <2>2. new \in CallRecords
    BY <2>1 DEF CallRecords, FirstRequest
  <2>3. /\ credential \in CredentialRecords
        /\ credential.working = TRUE /\ credential.token = credentials[p].token
    BY <1>1 DEF CredentialRecords
  <2>4. credentials' = [credentials EXCEPT ![p] = credential] /\ calls' = [calls EXCEPT ![c] = new]
    BY <1>1, <1>3 DEF Proceed
  <2>5. /\ new.pc = FirstRequest(p) /\ new.period = p /\ new.pubkey = client_identity(keys)
        /\ new.answer = None
    OBVIOUS
  <2> HIDE DEF new, credential
  <2> QED
    BY <1>1, <1>3, <2>1, <2>2, <2>3, <2>4, <2>5 DEF AlreadyRequested, FirstRequest
<1> QED
  BY <1>2, <1>3

\* The one period with an unreadable key has no button that leads further.
LEMMA NothingUnreadable ==
  ASSUME ClientInductiveInv, NEW p \in KeyPeriods, repo[p].keys # Imported
  PROVE  \A q \in Periods : repo[q].keys = storage.repo[q].keys
BY DEF ClientInductiveInv, StorageFits, KeyPeriods, indefinitely_valid

\* A call goes on with the key the repository holds now: one that was there, or
\* a new one in the place of none.
LEMMA ProceedInv ==
  ASSUME ClientInductiveInv, NEW c \in Calls, NEW p \in KeyPeriods, NEW keys \in Nat,
         Proceed(c, p, keys),
         \/ calls[c].pc = "idle"
         \/ calls[c].pc = "generate" /\ calls[c].period = p,
         UNCHANGED <<mode, account, rows, doubles, reloads>>, keysMade' \in Nat,
         repo' \in [Periods -> Entries],
         storage' \in [repo : [Periods -> Entries], credentials : [Periods -> CredentialRecords]],
         storage'.credentials = storage.credentials,
         \A q \in Periods : /\ storage'.repo[q].keys = repo'[q].keys
                            /\ storage'.repo[q].proof = repo'[q].proof
                            /\ q # p => repo'[q] = repo[q],
         repo'[p].keys = keys, repo'[p].proof \in {None, repo[p].proof},
         \/ repo[p].keys = keys
         \/ /\ doubles = 0 => repo[p].keys = None
            /\ repo[p].keys # Imported
            /\ calls[c].pc = "generate" \/ mode # "zk"
            /\ ~ KeyMode => keys = Empty
  PROVE  ClientInductiveInv'
<1>1. ClientTypes /\ CallsFit /\ StorageFits /\ TokensFit /\ RegisteredKeysSaved /\ WorkingHasReason
  BY DEF ClientInductiveInv
<1>2. /\ p \in Periods /\ keys # None /\ keys # Imported
      /\ \A q \in Periods : repo[q].keys = storage.repo[q].keys
      /\ ~ Asks(c)
  <2>1. p \in Periods /\ keys # None /\ keys # Imported
    BY KeyPeriodsArePeriods, ValuesAssumption DEF Pubkeys
  <2>2. repo[p].keys # Imported
    BY <2>1
  <2> QED
    BY <2>1, <2>2, NothingUnreadable DEF Asks
<1>3. /\ calls' \in [Calls -> CallRecords]
      /\ \A d \in Calls \ {c} : calls'[d] = calls[d]
      /\ credentials' \in [Periods -> CredentialRecords]
      /\ \A q \in Periods \ {p} : credentials'[q] = credentials[q]
      /\ \A q \in Periods : credentials'[q].token = credentials[q].token
      /\ credentials'[p].working
      /\ \/ credentials[p].working /\ calls'[c].pc = "idle"
         \/ /\ ~ credentials[p].working
            /\ calls'[c].period = p /\ calls'[c].answer = None
            /\ calls'[c].pubkey \in Pubkeys
            /\ KeyMode => calls'[c].pubkey = keys
            /\ mode = "naive" => calls'[c].pubkey = account
            /\ IF credentials[p].token = None THEN calls'[c].pc = "register"
                                              ELSE calls'[c].pc = "poll"
  BY <1>1, <1>2, ProceedEffect
<1>4. ClientTypes'
  BY <1>1, <1>3 DEF ClientTypes
<1>5. ASSUME NEW d \in Calls \ {c} PROVE CallFits(d)'
  <2>1. calls'[d] = calls[d] /\ CallFits(d)
    BY <1>1, <1>3, <1>5 DEF CallsFit
  <2>2. calls[d].pc # "idle" => calls[d].period \in Periods
    BY <2>1, KeyPeriodsArePeriods DEF CallFits
  <2>3. Asks(d) => credentials'[calls[d].period].working
    <3>1. Asks(d) => calls[d].pc # "idle" /\ credentials[calls[d].period].working
      BY <2>1 DEF CallFits, Asks
    <3> QED
      BY <1>3, <2>2, <3>1
  <2>4. calls[d].pc # "idle" =>
          credentials'[calls[d].period].token = credentials[calls[d].period].token
    BY <1>3, <2>2
  <2>5. calls[d].pc = "generate" /\ doubles = 0 => repo'[calls[d].period].keys = None
    <3> SUFFICES ASSUME calls[d].pc = "generate", doubles = 0
                 PROVE  repo'[calls[d].period].keys = None
      OBVIOUS
    <3>1. mode = "zk" /\ repo[calls[d].period].keys = None /\ calls[d].period \in Periods
      BY <2>1, <2>2 DEF CallFits
    <3>2. calls[d].period # p
      BY <1>1, <1>2, <1>5, <3>1 DEF CallsFit
    <3> QED
      BY <3>1, <3>2
  <2>6. Asks(d) => /\ repo'[calls[d].period].keys \notin {None, Imported}
                   /\ doubles = 0 /\ KeyMode =>
                        repo'[calls[d].period].keys = calls[d].pubkey
    <3> SUFFICES ASSUME Asks(d)
                 PROVE  /\ repo'[calls[d].period].keys \notin {None, Imported}
                        /\ doubles = 0 /\ KeyMode =>
                             repo'[calls[d].period].keys = calls[d].pubkey
      OBVIOUS
    <3>1. /\ repo[calls[d].period].keys \notin {None, Imported}
          /\ doubles = 0 /\ KeyMode => repo[calls[d].period].keys = calls[d].pubkey
          /\ calls[d].period \in Periods
      BY <2>1, <2>2 DEF CallFits, Asks
    <3>2. CASE calls[d].period # p
      BY <3>1, <3>2
    <3>3. CASE calls[d].period = p
      BY <1>2, <3>1, <3>3
    <3> QED
      BY <3>2, <3>3
  <2> QED
    BY <2>1, <2>3, <2>4, <2>5, <2>6 DEF CallFits, Asks, KeyMode, KeyPeriods, indefinitely_valid
<1>6. CallFits(c)'
  <2>1. CASE calls'[c].pc = "idle"
    BY <2>1 DEF CallFits, Asks
  <2>2. CASE calls'[c].pc # "idle"
    BY <1>2, <1>3, <2>2 DEF CallFits, Asks, KeyMode, KeyPeriods, indefinitely_valid
  <2> QED
    BY <2>1, <2>2
<1>7. ASSUME NEW d \in Calls, Asks(d), calls[d].period = p
      PROVE  credentials[p].working
  BY <1>1, <1>7 DEF CallsFit, CallFits
<1>8. OneRequestPerPeriod'
  BY <1>1, <1>3, <1>7 DEF CallsFit, OneRequestPerPeriod, Asks
<1>9. doubles' = 0 => \A d, e \in Calls :
        /\ calls'[d].pc = "generate" /\ calls'[e].pc = "generate"
        /\ calls'[d].period = calls'[e].period
        => d = e
  BY <1>1, <1>3 DEF CallsFit
<1>10. CallsFit'
  BY <1>5, <1>6, <1>8, <1>9 DEF CallsFit
<1>11. StorageFits'
  <2>1. ASSUME NEW q \in Periods
        PROVE  /\ storage'.repo[q].keys # Imported
               /\ storage'.repo[q].keys # None => q \in KeyPeriods
               /\ ~ KeyMode => storage'.repo[q].keys \in {None, Empty}
    <3>1. CASE q = p
      BY <1>1, <1>2, <3>1 DEF StorageFits
    <3>2. CASE q # p
      BY <1>1, <1>2, <3>2 DEF StorageFits
    <3> QED
      BY <3>1, <3>2
  <2> QED
    BY <1>1, <1>3, <2>1 DEF StorageFits, KeyMode, KeyPeriods, indefinitely_valid
<1>12. ASSUME NEW q \in Periods, doubles = 0, storage.repo[q].keys # None
       PROVE  storage'.repo[q].keys = storage.repo[q].keys
  <2>1. CASE q = p
    BY <1>2, <1>12, <2>1
  <2>2. CASE q # p
    BY <1>2, <2>2
  <2> QED
    BY <2>1, <2>2
<1>13. TokensFit'
  <2>1. ASSUME NEW q \in Periods, credentials[q].token # None
        PROVE  /\ storage'.repo[q].keys # None
               /\ doubles = 0 /\ KeyMode =>
                    storage'.repo[q].keys = credentials[q].token.pubkey
    <3>1. /\ storage.repo[q].keys # None
          /\ doubles = 0 /\ KeyMode => storage.repo[q].keys = credentials[q].token.pubkey
      BY <1>1, <2>1 DEF TokensFit
    <3>2. storage'.repo[q].keys # None
      <4>1. CASE q = p
        BY <1>2, <4>1
      <4>2. CASE q # p
        BY <1>2, <3>1, <4>2
      <4> QED
        BY <4>1, <4>2
    <3> QED
      BY <1>12, <3>1, <3>2
  <2>2. \A q \in Periods : repo'[q].proof \in {None, credentials'[q].token}
    BY <1>1, <1>2, <1>3 DEF TokensFit
  <2> QED
    BY <1>1, <1>3, <2>1, <2>2 DEF TokensFit, KeyMode
<1>14. RegisteredKeysSaved'
  <2>1. \A row \in rows : row.period \in Periods /\ row.pubkey # None
    BY <1>1, ValuesAssumption DEF ClientTypes, Rows
  <2> QED
    BY <1>1, <1>12, <2>1 DEF RegisteredKeysSaved
<1>15. WorkingHasReason'
  <2>1. ASSUME NEW q \in Periods, Requested(q) PROVE Requested(q)'
    <3>1. PICK d \in Calls : calls[d].period = q /\ Asks(d)
      BY <2>1 DEF Requested, Asks
    <3>2. calls'[d] = calls[d]
      BY <1>2, <1>3, <3>1
    <3> QED
      BY <3>1, <3>2 DEF Requested, Asks
  <2>2. ASSUME NEW q \in Periods, ~ credentials[q].working, credentials'[q].working
        PROVE  Requested(q)'
    <3>1. q = p /\ calls'[c].period = p /\ calls'[c].pc \in {"register", "poll"}
      BY <1>3, <2>2
    <3> QED
      BY <3>1 DEF Requested
  <2> QED
    BY <1>1, <1>3, <2>1, <2>2 DEF WorkingHasReason
<1> QED
  BY <1>4, <1>10, <1>11, <1>13, <1>14, <1>15 DEF ClientInductiveInv

\* A new key is kept and saved.
LEMMA KeepKeyInv ==
  ASSUME ClientInductiveInv, NEW c \in Calls, NEW p \in KeyPeriods, NEW keys \in Nat,
         KeepKey(c, p, keys),
         \/ calls[c].pc = "idle"
         \/ calls[c].pc = "generate" /\ calls[c].period = p,
         UNCHANGED <<mode, account, rows, doubles, reloads>>, keysMade' \in Nat,
         doubles = 0 => repo[p].keys = None,
         repo[p].keys # Imported,
         calls[c].pc = "generate" \/ mode # "zk",
         ~ KeyMode => keys = Empty
  PROVE  ClientInductiveInv'
<1> DEFINE entry == [keys |-> keys, proof |-> None]
<1>1. /\ repo' = [repo EXCEPT ![p] = entry]
      /\ storage' = [storage EXCEPT !.repo = repo']
      /\ Proceed(c, p, keys)
  BY DEF KeepKey, SaveKey
<1>2. entry \in Entries /\ entry.keys = keys /\ entry.proof = None
  BY DEF Entries
<1>3. /\ p \in Periods /\ repo \in [Periods -> Entries]
      /\ storage \in [repo : [Periods -> Entries], credentials : [Periods -> CredentialRecords]]
  BY KeyPeriodsArePeriods DEF ClientInductiveInv, ClientTypes
<1> HIDE DEF entry
<1>4. /\ repo' \in [Periods -> Entries] /\ repo'[p] = entry
      /\ \A q \in Periods : q # p => repo'[q] = repo[q]
  BY <1>1, <1>2, <1>3
<1>5. /\ storage' \in [repo : [Periods -> Entries], credentials : [Periods -> CredentialRecords]]
      /\ storage'.repo = repo' /\ storage'.credentials = storage.credentials
  BY <1>1, <1>3, <1>4
<1> QED
  BY <1>1, <1>2, <1>4, <1>5, ProceedInv

LEMMA KeyGeneratedInv ==
  ASSUME ClientInductiveInv, NEW c \in Calls, KeyGenerated(c)
  PROVE  ClientInductiveInv'
<1>1. /\ calls[c].pc = "generate" /\ keysMade' = keysMade + 1
      /\ KeepKey(c, calls[c].period, keysMade + 1)
      /\ UNCHANGED <<mode, account, rows, doubles, reloads>>
  BY DEF KeyGenerated, bounds
<1>2. /\ calls[c].period \in KeyPeriods /\ calls[c].period \in Periods /\ mode = "zk"
      /\ doubles = 0 => repo[calls[c].period].keys = None
  BY <1>1, KeyPeriodsArePeriods DEF ClientInductiveInv, CallsFit, CallFits
<1>3. repo[calls[c].period].keys # Imported
  BY <1>2 DEF ClientInductiveInv, StorageFits
<1>4. keysMade + 1 \in Nat /\ keysMade' \in Nat
  BY <1>1 DEF ClientInductiveInv, ClientTypes
<1> QED
  BY <1>1, <1>2, <1>3, <1>4, KeepKeyInv DEF KeyMode

LEMMA FirstClickInv ==
  ASSUME ClientInductiveInv, NEW c \in Calls, NEW p \in KeyPeriods, FirstClick(c, p)
  PROVE  ClientInductiveInv'
<1> DEFINE keys == IF mode = "semaphore" THEN keysMade + 1 ELSE Empty
<1>1. /\ calls[c].pc = "idle" /\ mode # "zk" /\ repo[p].keys = None
      /\ keysMade' = IF mode = "semaphore" THEN keysMade + 1 ELSE keysMade
      /\ KeepKey(c, p, keys)
      /\ UNCHANGED <<mode, account, rows, doubles, reloads>>
  BY DEF FirstClick, HasKey, bounds
<1>2. keys \in Nat /\ keysMade' \in Nat
  BY <1>1 DEF ClientInductiveInv, ClientTypes, Empty
<1>3. ~ KeyMode => keys = Empty
  BY DEF KeyMode
<1>4. repo[p].keys # Imported
  BY <1>1, ValuesAssumption
<1> HIDE DEF keys
<1> QED
  BY <1>1, <1>2, <1>3, <1>4, KeepKeyInv

LEMMA ClickInv ==
  ASSUME ClientInductiveInv, NEW c \in Calls, NEW p \in KeyPeriods, Click(c, p)
  PROVE  ClientInductiveInv'
<1>1. ClientTypes /\ CallsFit /\ StorageFits /\ TokensFit /\ RegisteredKeysSaved /\ WorkingHasReason
  BY DEF ClientInductiveInv
<1>2. /\ calls[c].pc = "idle" /\ p \in Periods
      /\ UNCHANGED <<mode, account, repo, storage, rows, keysMade, reloads>>
  BY KeyPeriodsArePeriods DEF Click
<1>3. CASE HasKey(p)
  <2>1. /\ repo[p].keys # Imported /\ Proceed(c, p, repo[p].keys)
        /\ repo[p].keys # None /\ doubles' = doubles
    BY <1>3 DEF Click, HasKey
  <2>2. repo[p].keys \in Nat
    BY <1>1, <1>2, <2>1 DEF ClientTypes, Entries
  <2>3. \A q \in Periods : /\ repo[q].keys = storage.repo[q].keys
                           /\ repo[q].proof = storage.repo[q].proof
    BY <1>1, <2>1, NothingUnreadable DEF StorageFits
  <2>4. /\ repo' \in [Periods -> Entries] /\ keysMade' \in Nat
        /\ storage' \in [repo : [Periods -> Entries], credentials : [Periods -> CredentialRecords]]
    BY <1>1, <1>2 DEF ClientTypes
  <2> DEFINE keys == repo[p].keys
  <2>5. /\ storage'.credentials = storage.credentials
        /\ \A q \in Periods : /\ storage'.repo[q].keys = repo'[q].keys
                              /\ storage'.repo[q].proof = repo'[q].proof
                              /\ q # p => repo'[q] = repo[q]
        /\ repo'[p].keys = keys /\ repo'[p].proof \in {None, repo[p].proof}
    BY <1>2, <2>3
  <2>6. keys \in Nat /\ Proceed(c, p, keys) /\ repo[p].keys = keys
    BY <2>1, <2>2
  <2> HIDE DEF keys
  <2> QED
    BY <1>2, <2>1, <2>4, <2>5, <2>6, ProceedInv
<1>4. CASE ~ HasKey(p)
  <2> DEFINE new == [NoCall EXCEPT !.pc = "generate", !.period = p]
  <2>1. /\ mode = "zk" /\ repo[p].keys = None
        /\ doubles' = doubles + Cardinality(Generating(p))
        /\ calls' = [calls EXCEPT ![c] = new]
        /\ credentials' = credentials
    BY <1>4 DEF Click, HasKey
  <2>2. new \in CallRecords /\ new.pc = "generate" /\ new.period = p
    BY <1>2 DEF CallRecords, NoCall
  <2> HIDE DEF new
  <2>3. /\ calls' \in [Calls -> CallRecords]
        /\ \A d \in Calls \ {c} : calls'[d] = calls[d]
        /\ calls'[c].pc = "generate" /\ calls'[c].period = p
    BY <1>1, <2>1, <2>2 DEF ClientTypes
  <2>4. /\ doubles' \in Nat
        /\ doubles' = 0 => /\ doubles = 0
                           /\ \A d \in Calls : ~ (calls[d].pc = "generate" /\ calls[d].period = p)
    <3>1. IsFiniteSet(Generating(p)) /\ doubles \in Nat
      <4>1. Generating(p) \subseteq Calls
        BY DEF Generating
      <4> QED
        BY <1>1, <4>1, CallsAssumption, FS_Subset DEF ClientTypes
    <3>2. /\ Cardinality(Generating(p)) \in Nat
          /\ Cardinality(Generating(p)) = 0 <=> Generating(p) = {}
      BY <3>1, FS_CardinalityType, FS_EmptySet
    <3>3. Generating(p) = {} =>
            \A d \in Calls : ~ (calls[d].pc = "generate" /\ calls[d].period = p)
      BY DEF Generating
    <3> QED
      BY <2>1, <3>1, <3>2, <3>3
  <2>5. ClientTypes'
    BY <1>1, <1>2, <2>1, <2>3, <2>4 DEF ClientTypes
  <2>6. ASSUME NEW d \in Calls PROVE CallFits(d)'
    <3>1. CASE d = c
      <4>1. calls'[d].pc = "generate" /\ calls'[d].period = p
        BY <2>3, <3>1
      <4>2. repo'[p].keys = None /\ mode' = "zk" /\ p \in KeyPeriods'
        BY <1>2, <2>1 DEF KeyPeriods, indefinitely_valid
      <4> QED
        BY <4>1, <4>2 DEF CallFits, Asks
    <3>2. CASE d # c
      <4>1. calls'[d] = calls[d] /\ CallFits(d)
        BY <1>1, <2>3, <3>2 DEF CallsFit
      <4> QED
        BY <1>2, <2>1, <2>4, <4>1 DEF CallFits, Asks, KeyMode, KeyPeriods, indefinitely_valid
    <3> QED
      BY <3>1, <3>2
  <2>7. OneRequestPerPeriod'
    BY <1>1, <2>3 DEF CallsFit, OneRequestPerPeriod
  <2>8. doubles' = 0 => \A d, e \in Calls :
          /\ calls'[d].pc = "generate" /\ calls'[e].pc = "generate"
          /\ calls'[d].period = calls'[e].period
          => d = e
    BY <1>1, <2>3, <2>4 DEF CallsFit
  <2>9. CallsFit'
    BY <2>6, <2>7, <2>8 DEF CallsFit
  <2>10. StorageFits'
    BY <1>1, <1>2, <2>1 DEF StorageFits, KeyMode, KeyPeriods, indefinitely_valid
  <2>11. TokensFit' /\ RegisteredKeysSaved'
    BY <1>1, <1>2, <2>1, <2>4 DEF TokensFit, RegisteredKeysSaved, KeyMode
  <2>12. WorkingHasReason'
    <3>1. ASSUME NEW q \in Periods, Requested(q) PROVE Requested(q)'
      <4>1. PICK d \in Calls : calls[d].period = q /\ Asks(d)
        BY <3>1 DEF Requested, Asks
      <4>2. calls'[d] = calls[d]
        BY <1>2, <2>3, <4>1 DEF Asks
      <4> QED
        BY <4>1, <4>2 DEF Requested, Asks
    <3> QED
      BY <1>1, <1>2, <2>1, <3>1 DEF WorkingHasReason
  <2> QED
    BY <2>5, <2>9, <2>10, <2>11, <2>12 DEF ClientInductiveInv
<1> QED
  BY <1>3, <1>4

-----------------------------------------------------------------------------
(* The page is opened again *)

LEMMA ReloadInv ==
  ASSUME ClientInductiveInv, Reload
  PROVE  ClientInductiveInv'
<1>1. ClientTypes /\ StorageFits /\ TokensFit /\ RegisteredKeysSaved
  BY DEF ClientInductiveInv
<1>2. /\ reloads' = reloads + 1 /\ account' \in Accounts
      /\ repo' = Loaded(storage.repo) /\ credentials' = storage.credentials
      /\ calls' = [c \in Calls |-> NoCall]
      /\ UNCHANGED <<mode, storage, rows, keysMade, doubles>>
  BY DEF Reload
<1>3. /\ storage.repo \in [Periods -> Entries]
      /\ storage.credentials \in [Periods -> CredentialRecords]
      /\ reloads' \in Nat /\ reloads' > 0
  BY <1>1, <1>2 DEF ClientTypes
<1>4. /\ calls' \in [Calls -> CallRecords]
      /\ \A c \in Calls : calls'[c].pc = "idle"
  BY <1>2 DEF CallRecords, NoCall
<1>5. ASSUME NEW q \in Periods
      PROVE  /\ repo'[q] \in Entries
             /\ repo'[q].proof = storage.repo[q].proof
             /\ \/ repo'[q].keys = storage.repo[q].keys
                \/ /\ mode = "semaphore" /\ storage.repo[q].keys # None
                   /\ repo'[q].keys = Imported
  <2>1. CASE mode = "semaphore" /\ storage.repo[q].keys # None
    <3>1. repo'[q] = [storage.repo[q] EXCEPT !.keys = Imported] /\ storage.repo[q] \in Entries
      BY <1>2, <1>3, <2>1 DEF Loaded
    <3> QED
      BY <2>1, <3>1 DEF Entries
  <2>2. CASE ~ (mode = "semaphore" /\ storage.repo[q].keys # None)
    BY <1>2, <1>3, <2>2 DEF Loaded
  <2> QED
    BY <2>1, <2>2
<1>6. repo' \in [Periods -> Entries]
  BY <1>2, <1>5 DEF Loaded
<1>7. ClientTypes'
  BY <1>1, <1>2, <1>3, <1>4, <1>6 DEF ClientTypes
<1>8. CallsFit'
  BY <1>4 DEF CallsFit, CallFits, Asks, OneRequestPerPeriod
<1>9. StorageFits'
  BY <1>1, <1>2, <1>4, <1>5 DEF StorageFits, KeyMode, KeyPeriods, indefinitely_valid
<1>10. TokensFit'
  BY <1>1, <1>2, <1>3, <1>5 DEF StorageFits, TokensFit, KeyMode
<1>11. RegisteredKeysSaved'
  BY <1>1, <1>2 DEF RegisteredKeysSaved
<1>12. WorkingHasReason'
  BY <1>1, <1>2, <1>3 DEF StorageFits, WorkingHasReason
<1> QED
  BY <1>7, <1>8, <1>9, <1>10, <1>11, <1>12 DEF ClientInductiveInv

-----------------------------------------------------------------------------
(* The invariant *)

LEMMA ClientNextInv ==
  ASSUME ClientInductiveInv, [ClientNext]_clientVars
  PROVE  ClientInductiveInv'
<1>1. ASSUME NEW c \in Calls, NEW p \in KeyPeriods, Click(c, p) \/ FirstClick(c, p)
      PROVE  ClientInductiveInv'
  BY <1>1, ClickInv, FirstClickInv
<1>2. ASSUME NEW c \in Calls, CallStep(c)
      PROVE  ClientInductiveInv'
  BY <1>2, KeyGeneratedInv, ServerRegistersInv, TokenArrivesInv, RequestRefusedInv,
     ServerAnswersInv, ProofArrivesInv, ProofNotReadyInv, TryAgainInv
  DEF CallStep
<1>3. ASSUME NEW c \in Calls, RequestLost(c)
      PROVE  ClientInductiveInv'
  BY <1>3, RequestLostInv
<1>4. ASSUME NEW row \in Registrations, ServerReady(row)
      PROVE  ClientInductiveInv'
  BY <1>4, NothingChanges DEF ServerReady, bounds
<1>5. CASE Reload
  BY <1>5, ReloadInv
<1>6. CASE Idle \/ UNCHANGED clientVars
  BY <1>6, NothingChanges DEF Idle, clientVars, bounds
<1> QED
  BY <1>1, <1>2, <1>3, <1>4, <1>5, <1>6 DEF ClientNext

\* The inductive invariant: calls, flags, keys, tokens and proofs of the page,
\* the storage and the rows of the server fit together (get_proof, get_key,
\* obtain_token, obtain_credentials, save and load of both managers).
THEOREM ClientInvariance == ClientSpec => []ClientInductiveInv
<1>1. ClientInductiveInv /\ [ClientNext]_clientVars => ClientInductiveInv'
  BY ClientNextInv
<1> QED
  BY <1>1, ClientInitInv, PTL DEF ClientSpec

-----------------------------------------------------------------------------
(* The properties *)

\* If nobody clicks while a key is generated, a key the server has registered
\* is in the storage (get_key saves it before the registration is sent).
THEOREM KeysOfRowsSaved == ClientSpec => []RegisteredKeysSaved
<1>1. ClientInductiveInv => RegisteredKeysSaved
  BY DEF ClientInductiveInv
<1> QED
  BY <1>1, ClientInvariance, PTL

\* A proof is for its period and, under the same condition, for the key it is
\* kept with; in the naive mode for the account of the page (get_proof).
THEOREM ProofsFitKeys == ClientSpec => []ProofBelongsToKey
<1>1. ASSUME ClientInductiveInv PROVE ProofBelongsToKey
  <2> SUFFICES ASSUME NEW p \in Periods, repo[p].proof # None
               PROVE  /\ repo[p].proof.period = p
                      /\ repo[p].keys # None
                      /\ doubles = 0 /\ repo[p].keys \in Keys =>
                           repo[p].proof.pubkey = repo[p].keys
                      /\ mode = "naive" /\ reloads = 0 => repo[p].proof.pubkey = account
    BY DEF ProofBelongsToKey
  <2>1. StorageFits /\ TokensFit
    BY <1>1 DEF ClientInductiveInv
  <2>2. repo[p].proof = credentials[p].token /\ credentials[p].token # None
    BY <2>1 DEF TokensFit
  <2>3. repo[p].keys = storage.repo[p].keys \/ repo[p].keys = Imported
    BY <2>1 DEF StorageFits
  <2>4. repo[p].keys \in Keys => repo[p].keys = storage.repo[p].keys /\ KeyMode
    <3>1. \A k \in Keys : k \in Nat /\ k # 0 /\ k # None /\ k # Imported
      BY ValuesAssumption DEF Keys, Pubkeys
    <3> QED
      BY <2>1, <2>3, <3>1 DEF StorageFits, Empty
  <2> QED
    BY <2>1, <2>2, <2>3, <2>4, ValuesAssumption DEF TokensFit
<1> QED
  BY <1>1, ClientInvariance, PTL

\* Only one request for a period's credentials is under way at a time (the flag
\* working of obtain_token and obtain_credentials).
THEOREM RequestsDoNotOverlap == ClientSpec => []OneRequestPerPeriod
<1>1. ClientInductiveInv => OneRequestPerPeriod
  BY DEF ClientInductiveInv, CallsFit
<1> QED
  BY <1>1, ClientInvariance, PTL

\* The flag that takes the button away is that of a request under way, or was
\* saved when the token or the proof of another period arrived.
THEOREM FlagsHaveReasons == ClientSpec => []WorkingHasReason
<1>1. ClientInductiveInv => WorkingHasReason
  BY DEF ClientInductiveInv
<1> QED
  BY <1>1, ClientInvariance, PTL

\* Steps that change only flags and response of one period.
LEMMA FlagsOnly ==
  ASSUME ClientTypes, NEW q \in Periods, NEW c \in Calls,
         \/ Fail(c) /\ calls[c].period = q
         \/ \E keys : Proceed(c, q, keys)
         \/ credentials' = [credentials EXCEPT ![q].working = TRUE]
         \/ \E response : credentials' = [credentials EXCEPT ![q].working = FALSE,
                                                             ![q].response = response]
  PROVE  \A p \in Periods : credentials'[p].token = credentials[p].token
<1> SUFFICES ASSUME NEW p \in Periods PROVE credentials'[p].token = credentials[p].token
  OBVIOUS
<1>1. credentials \in [Periods -> CredentialRecords]
  BY DEF ClientTypes
<1>2. CASE Fail(c) /\ calls[c].period = q
  BY <1>1, <1>2 DEF Fail, CredentialRecords
<1>3. CASE \E keys : Proceed(c, q, keys)
  BY <1>1, <1>3 DEF Proceed, CredentialRecords
<1>4. CASE credentials' = [credentials EXCEPT ![q].working = TRUE]
  BY <1>1, <1>4 DEF CredentialRecords
<1>5. CASE \E response : credentials' = [credentials EXCEPT ![q].working = FALSE,
                                                            ![q].response = response]
  <2>1. PICK response : credentials' = [credentials EXCEPT ![q].working = FALSE,
                                                            ![q].response = response]
    BY <1>5
  <2> DEFINE new == [credentials[q] EXCEPT !.working = FALSE, !.response = response]
  <2>2. credentials' = [credentials EXCEPT ![q] = new]
    BY <1>1, <2>1
  <2>3. new.token = credentials[q].token
    BY <1>1 DEF CredentialRecords
  <2> HIDE DEF new
  <2> QED
    BY <1>1, <2>2, <2>3
<1> QED
  BY <1>2, <1>3, <1>4, <1>5

\* No step loses a token.
LEMMA TokensStay ==
  ASSUME ClientInductiveInv, [ClientNext]_clientVars
  PROVE  \A p \in Periods :
           credentials[p].token # None => credentials'[p].token = credentials[p].token
<1> DEFINE Kept == \A p \in Periods :
             credentials[p].token # None => credentials'[p].token = credentials[p].token
<1>1. ClientTypes /\ CallsFit /\ StorageFits
  BY DEF ClientInductiveInv
<1>2. ASSUME NEW c \in Calls, NEW p \in KeyPeriods, Click(c, p) PROVE Kept
  <2>1. credentials' = credentials \/ \E keys : Proceed(c, p, keys)
    BY <1>2 DEF Click
  <2> QED
    BY <1>1, <2>1, FlagsOnly, KeyPeriodsArePeriods
<1>3. ASSUME NEW c \in Calls, NEW p \in KeyPeriods, FirstClick(c, p) PROVE Kept
  <2>1. \E keys : Proceed(c, p, keys)
    BY <1>3 DEF FirstClick, KeepKey
  <2> QED
    BY <1>1, <2>1, FlagsOnly, KeyPeriodsArePeriods
<1>4. ASSUME NEW c \in Calls, KeyGenerated(c) PROVE Kept
  <2>1. calls[c].period \in Periods /\ \E keys : Proceed(c, calls[c].period, keys)
    BY <1>1, <1>4, KeyPeriodsArePeriods DEF KeyGenerated, KeepKey, CallsFit, CallFits
  <2> QED
    BY <1>1, <2>1, FlagsOnly
<1>5. ASSUME NEW c \in Calls, TokenArrives(c) PROVE Kept
  <2> DEFINE p == calls[c].period
  <2>1. calls[c].pc = "register" /\ Asks(c) /\ CallFits(c)
    BY <1>1, <1>5 DEF TokenArrives, CallsFit, Asks
  <2>2. p \in Periods /\ credentials[p].token = None
    BY <2>1, AskingCalls DEF CallFits
  <2>3. \A q \in Periods \ {p} : credentials'[q] = credentials[q]
    BY <1>1, <1>5, <2>2 DEF TokenArrives, ClientTypes
  <2> HIDE DEF p
  <2> QED
    BY <2>2, <2>3
<1>6. ASSUME NEW c \in Calls,
             \/ RequestRefused(c) \/ RequestLost(c) \/ ProofNotReady(c) \/ TryAgain(c)
             \/ ProofArrives(c)
      PROVE  Kept
  <2>1. Asks(c) /\ calls[c].period \in Periods
    <3>1. Asks(c)
      BY <1>6 DEF RequestRefused, RequestLost, ProofNotReady, TryAgain, ProofArrives, Asks
    <3> QED
      BY <3>1, AskingCalls
  <2>2. \/ credentials' = credentials
        \/ Fail(c)
        \/ credentials' = [credentials EXCEPT ![calls[c].period].working = TRUE]
        \/ \E response :
             credentials' = [credentials EXCEPT ![calls[c].period].working = FALSE,
                                                ![calls[c].period].response = response]
    BY <1>6 DEF RequestRefused, RequestLost, ProofNotReady, TryAgain, ProofArrives
  <2> QED
    BY <1>1, <2>1, <2>2, FlagsOnly
<1>7. ASSUME NEW c \in Calls, ServerRegisters(c) \/ ServerAnswers(c) PROVE Kept
  BY <1>7 DEF ServerRegisters, ServerAnswers
<1>8. CASE Reload
  BY <1>1, <1>8 DEF Reload, StorageFits
<1>9. ASSUME NEW row \in Registrations, ServerReady(row) PROVE Kept
  BY <1>9 DEF ServerReady
<1>10. CASE Idle \/ UNCHANGED clientVars
  BY <1>10 DEF Idle, clientVars
<1> QED
  BY <1>2, <1>3, <1>4, <1>5, <1>6, <1>7, <1>8, <1>9, <1>10 DEF ClientNext, CallStep

\* A token that arrived is not lost, whatever is reloaded or fails later
\* (obtain_token and load()).
THEOREM TokensAreKept == ClientSpec => TokensKept
<1>1. ClientInductiveInv /\ [ClientNext]_clientVars =>
        [\A p \in Periods :
           credentials[p].token # None => credentials'[p].token = credentials[p].token]_clientVars
  BY TokensStay
<1> QED
  BY <1>1, ClientInvariance, PTL DEF ClientSpec, TokensKept

-----------------------------------------------------------------------------
(* Connection: the inductive invariant *)

AttemptRecords ==
  [pc : {"none", "popup", "setup", "ready", "failed"},
   popup : BOOLEAN, accounts : BOOLEAN, connected : BOOLEAN]

ManagerRecords ==
  [owner : Clicks, pc : {"url", "lost", "anonymous", "digest", "known"},
   wanted : Names \cup {Nil}, identity : Names \cup {Nil}]

ConnectionPages ==
  [connector : Clicks \cup {Nil}, identity : Names \cup {Nil},
   idp : Nat \cup {Nil}, repository : Nat \cup {Nil},
   keymanager : Nat \cup {Nil}, opened : Nat \cup {Nil}, ready : BOOLEAN]

ConnectionTypes ==
  /\ attempts \in [Clicks -> AttemptRecords] /\ access \in BOOLEAN
  /\ toTell \in Seq(Clicks) /\ managers \in Seq(ManagerRecords)
  /\ page \in ConnectionPages

\* No other attempt than c was ever set up.
Sole(c) == \A w \in Clicks \ {c} : ~ HasConnector(w)

\* The connector was set up, and the first attempt that was set up became it;
\* until a second one is set up there is one manager, made for it.
ConnectorFits ==
  /\ page.connector # Nil => HasConnector(page.connector)
  /\ page.connector = Nil => managers = << >> /\ \A w \in Clicks : ~ HasConnector(w)
  /\ page.connector # Nil /\ Sole(page.connector) =>
       Len(managers) = 1 /\ managers[1].owner = page.connector

\* What the page p has of the managers ms, also before p is told to all: a key
\* manager is that of the repository opened, and has the identity of the page.
Fits(p, ms) ==
  /\ p.idp = p.repository /\ p.idp \in DOMAIN ms \cup {Nil}
  /\ p.keymanager # Nil =>
       /\ p.keymanager \in DOMAIN ms /\ p.opened = p.keymanager
       /\ p.connector # Nil /\ p.idp # Nil
       /\ ms[p.keymanager].pc \notin {"url", "lost"}
       /\ ms[p.keymanager].identity = p.identity

AttemptsFirst == \E n \in 0 .. MaxClicks : \A w \in Clicks : attempts[w].pc # "none" <=> w <= n

ConnectionInductiveInv ==
  ConnectionTypes /\ AttemptsFirst /\ ConnectorFits /\ Fits(page, managers)

-----------------------------------------------------------------------------
LEMMA ClicksAreNumbers == Nil \notin Clicks /\ Nil \notin Nat /\ Clicks \subseteq Nat \ {0}
  BY ConnectionAssumption DEF Clicks

\* The attempts made so far are the first ones.
LEMMA AttemptsMade ==
  ASSUME ConnectionTypes, AttemptsFirst
  PROVE  \E n \in 0 .. MaxClicks :
           /\ Attempts \in Seq(Clicks) /\ Len(Attempts) = n
           /\ \A w \in Clicks : attempts[w].pc # "none" <=> w <= n
<1>1. PICK n \in 0 .. MaxClicks : \A w \in Clicks : attempts[w].pc # "none" <=> w <= n
  BY DEF AttemptsFirst
<1>2. n \in Nat /\ {w \in Clicks : attempts[w].pc # "none"} = 1 .. n
  BY <1>1, ConnectionAssumption DEF Clicks
<1>3. Attempts = [w \in 1 .. n |-> w] /\ 1 .. n \subseteq Clicks
  BY <1>2 DEF Attempts
<1>4. Attempts \in [1 .. n -> Clicks]
  BY <1>3
<1>5. Attempts \in Seq(Clicks) /\ Len(Attempts) = n
  BY <1>2, <1>4, SeqDef, LenProperties
<1> QED
  BY <1>1, <1>5

\* No attempt is forgotten, and none is set up: the connector fits as before.
LEMMA AttemptsKept ==
  ASSUME AttemptsFirst, ConnectorFits, page'.connector = page.connector,
         Len(managers') = Len(managers),
         Len(managers) = 1 => managers'[1].owner = managers[1].owner,
         managers = << >> => managers' = << >>,
         \A w \in Clicks : /\ attempts'[w].pc = "none" <=> attempts[w].pc = "none"
                           /\ HasConnector(w)' <=> HasConnector(w),
         page.connector \in Clicks \cup {Nil}
  PROVE  AttemptsFirst' /\ ConnectorFits'
<1>1. PICK n \in 0 .. MaxClicks : \A w \in Clicks : attempts'[w].pc # "none" <=> w <= n
  BY DEF AttemptsFirst
<1>2. AttemptsFirst'
  BY <1>1 DEF AttemptsFirst
<1>3. Sole(page.connector)' <=> Sole(page.connector)
  BY DEF Sole
<1>4. ConnectorFits'
  BY <1>3 DEF ConnectorFits, Sole
<1> QED
  BY <1>2, <1>4

\* Whoever is told takes over the identity, and the key manager that is made
\* is told with the others.
LEMMA SetStateFits ==
  ASSUME NEW p \in ConnectionPages, NEW ms \in Seq(ManagerRecords), Fits(p, ms),
         NEW as, SetState(p, ms, as)
  PROVE  /\ attempts' = as /\ page' \in ConnectionPages /\ page'.connector = p.connector
         /\ managers' \in Seq(ManagerRecords) /\ Len(managers') = Len(ms)
         /\ \A m \in DOMAIN ms : managers'[m].owner = ms[m].owner
         /\ Fits(page', managers')
<1> DEFINE changed(m) == /\ p.identity # Nil /\ ms[m].pc \notin {"url", "lost"}
                         /\ ms[m].identity # p.identity
           taken(m) == [ms[m] EXCEPT !.identity = p.identity, !.pc = "digest"]
<1>1. /\ attempts' = as /\ page' = AppChanged(p, ms, as)
      /\ managers' = [m \in DOMAIN ms |-> IF changed(m) THEN taken(m) ELSE ms[m]]
  BY DEF SetState, ManagersChanged
<1>2. /\ \A m \in DOMAIN ms : ms[m] \in ManagerRecords
      /\ DOMAIN ms = 1 .. Len(ms) /\ Len(ms) \in Nat /\ Nil \notin DOMAIN ms
  BY ElementOfSeq, LenProperties, ClicksAreNumbers
<1>3. ASSUME NEW m \in DOMAIN ms
      PROVE  /\ managers'[m] \in ManagerRecords /\ managers'[m].owner = ms[m].owner
             /\ managers'[m].pc \in {"url", "lost"} <=> ms[m].pc \in {"url", "lost"}
             /\ p.identity # Nil /\ ms[m].pc \notin {"url", "lost"} =>
                  managers'[m].identity = p.identity
             /\ p.identity = Nil => managers'[m].identity = ms[m].identity
             /\ ms[m].identity = p.identity => managers'[m].identity = p.identity
  <2>1. managers'[m] = IF changed(m) THEN taken(m) ELSE ms[m]
    BY <1>1
  <2>2. /\ taken(m) \in ManagerRecords /\ taken(m).pc = "digest"
        /\ taken(m).identity = p.identity /\ taken(m).owner = ms[m].owner
    BY <1>2 DEF ManagerRecords, ConnectionPages
  <2> HIDE DEF taken
  <2> QED
    BY <1>2, <2>1, <2>2
<1>4. managers' \in [1 .. Len(ms) -> ManagerRecords]
  BY <1>1, <1>2, <1>3
<1>5. managers' \in Seq(ManagerRecords) /\ Len(managers') = Len(ms) /\ DOMAIN managers' = DOMAIN ms
  BY <1>2, <1>4, SeqDef, LenProperties
<1>6. /\ page' \in ConnectionPages
      /\ \A f \in {"connector", "identity", "idp", "repository"} : page'[f] = p[f]
      /\ \/ page' = p
         \/ /\ page'.keymanager = p.idp /\ page'.opened = p.repository
            /\ p.connector # Nil /\ p.identity # Nil /\ p.idp # Nil
            /\ ms[p.idp].pc = "known"
  BY <1>1 DEF AppChanged, IdentityKnown, ConnectionPages
<1>7. /\ page'.connector = p.connector /\ page'.identity = p.identity
      /\ page'.idp = p.idp /\ page'.repository = p.repository
  BY <1>6
<1>8. Fits(page', managers')
  <2>1. CASE page' = p
    BY <1>3, <1>5, <2>1 DEF Fits
  <2>2. CASE page' # p
    BY <1>3, <1>5, <1>6, <1>7, <2>2 DEF Fits
  <2> QED
    BY <2>1, <2>2
<1> QED
  BY <1>1, <1>3, <1>5, <1>6, <1>7, <1>8

\* The attempt w, which is set up, becomes the connector, and asks for the URL.
LEMMA NewConnectionKeeps ==
  ASSUME ConnectionInductiveInv, NEW w \in Clicks,
         NEW as \in [Clicks -> AttemptRecords], as[w].connected, as[w].pc = "ready",
         attempts[w].pc # "none",
         \A v \in Clicks \ {w} : as[v].pc = attempts[v].pc,
         page.connector # w, UpdateState(w, as), access' = access, toTell' \in Seq(Clicks)
  PROVE  ConnectionInductiveInv'
<1> DEFINE m == [owner |-> w, pc |-> "url", wanted |-> page.identity, identity |-> Nil]
           ms == Append(managers, m)
           p == [page EXCEPT !.connector = w]
<1>1. /\ ConnectionTypes /\ AttemptsFirst /\ ConnectorFits /\ Fits(page, managers)
      /\ page \in ConnectionPages /\ managers \in Seq(ManagerRecords)
      /\ Nil \notin Clicks /\ SetState(p, ms, as)
  BY ClicksAreNumbers
     DEF ConnectionInductiveInv, ConnectionTypes, UpdateState, NewConnection
<1>2. m \in ManagerRecords
  BY <1>1 DEF ManagerRecords, ConnectionPages
<1>3. m.owner = w
  OBVIOUS
<1>4. /\ p \in ConnectionPages /\ p.connector = w
      /\ p.idp = page.idp /\ p.repository = page.repository /\ p.identity = page.identity
      /\ p.keymanager = page.keymanager /\ p.opened = page.opened
  BY <1>1 DEF ConnectionPages
<1> HIDE DEF m, p
<1>5. /\ ms \in Seq(ManagerRecords) /\ Len(ms) = Len(managers) + 1
      /\ DOMAIN managers = 1 .. Len(managers) /\ Len(managers) \in Nat
      /\ DOMAIN ms = 1 .. Len(managers) + 1
      /\ \A k \in DOMAIN managers : k \in DOMAIN ms /\ ms[k] = managers[k]
      /\ ms[Len(managers) + 1] = m
  BY <1>1, <1>2, AppendProperties, LenProperties
<1> HIDE DEF ms
<1>6. Fits(p, ms)
  BY <1>1, <1>4, <1>5 DEF Fits
<1>7. /\ attempts' = as /\ page' \in ConnectionPages /\ page'.connector = w
      /\ managers' \in Seq(ManagerRecords) /\ Len(managers') = Len(ms)
      /\ \A k \in DOMAIN ms : managers'[k].owner = ms[k].owner
      /\ Fits(page', managers')
  BY <1>1, <1>4, <1>5, <1>6, SetStateFits
<1>8. ConnectionTypes'
  BY <1>1, <1>7 DEF ConnectionTypes
<1>9. AttemptsFirst'
  <2>1. PICK n \in 0 .. MaxClicks : \A v \in Clicks : attempts[v].pc # "none" <=> v <= n
    BY <1>1 DEF AttemptsFirst
  <2>2. \A v \in Clicks : attempts'[v].pc # "none" <=> v <= n
    BY <1>7, <2>1
  <2> QED
    BY <2>2 DEF AttemptsFirst
<1>10. ASSUME Sole(w)'
       PROVE  Len(managers') = 1 /\ managers'[1].owner = w
  <2>1. page.connector = Nil
    <3>1. ASSUME page.connector # Nil PROVE FALSE
      <4>1. page.connector \in Clicks \ {w} /\ attempts[page.connector].pc = "ready"
        BY <1>1, <3>1 DEF ConnectorFits, HasConnector, ConnectionPages
      <4>2. attempts'[page.connector].pc = "ready"
        BY <1>7, <4>1
      <4> QED
        BY <1>10, <4>1, <4>2 DEF Sole, HasConnector
    <3> QED
      BY <3>1
  <2>2. managers = << >> /\ Len(managers) = 0
    BY <1>1, <2>1, EmptySeq DEF ConnectorFits
  <2> QED
    BY <1>3, <1>5, <1>7, <2>2
<1>11. ConnectorFits'
  BY <1>1, <1>7, <1>10 DEF ConnectorFits, HasConnector
<1> QED
  BY <1>7, <1>8, <1>9, <1>11 DEF ConnectionInductiveInv

LEMMA ConnectionInitInv == ConnectionInit => ConnectionInductiveInv
<1> SUFFICES ASSUME ConnectionInit
             PROVE  ConnectionInductiveInv
  OBVIOUS
<1>1. Nil \notin Clicks /\ Clicks \subseteq Nat \ {0} /\ 0 \in 0 .. MaxClicks
  BY ClicksAreNumbers, ConnectionAssumption
<1>2. /\ attempts \in [Clicks -> AttemptRecords]
      /\ \A w \in Clicks : attempts[w].pc = "none"
  BY DEF ConnectionInit, AttemptRecords
<1>3. ConnectionTypes
  <2>1. page \in ConnectionPages
    BY DEF ConnectionInit, ConnectionPages
  <2>2. access \in BOOLEAN /\ toTell \in Seq(Clicks) /\ managers \in Seq(ManagerRecords)
    BY EmptySeq DEF ConnectionInit
  <2> QED
    BY <1>2, <2>1, <2>2 DEF ConnectionTypes
<1>4. AttemptsFirst
  <2>1. \A w \in Clicks : attempts[w].pc # "none" <=> w <= 0
    BY <1>1, <1>2
  <2> QED
    BY <1>1, <2>1 DEF AttemptsFirst
<1>5. ConnectorFits
  BY <1>2 DEF ConnectionInit, ConnectorFits, HasConnector
<1>6. Fits(page, managers)
  BY DEF ConnectionInit, Fits
<1> QED
  BY <1>3, <1>4, <1>5, <1>6 DEF ConnectionInductiveInv

\* An attempt that is told of the accounts is the connector already, was
\* replaced by a later one and comes back, or was never set up.
LEMMA TellKeeps ==
  ASSUME ConnectionInductiveInv, Tell
  PROVE  ConnectionInductiveInv'
<1> DEFINE w == Head(toTell)
           told == [attempts[w] EXCEPT !.accounts = access, !.connected = Connected(w)]
           as == [attempts EXCEPT ![w].accounts = access, ![w].connected = Connected(w)]
<1>1. /\ ConnectionTypes /\ AttemptsFirst /\ ConnectorFits /\ Fits(page, managers)
      /\ toTell \in Seq(Clicks) /\ toTell # << >> /\ page.connector \in Clicks \cup {Nil}
      /\ attempts \in [Clicks -> AttemptRecords] /\ access \in BOOLEAN
  BY DEF ConnectionInductiveInv, ConnectionTypes, ConnectionPages, Tell
<1>2. w \in Clicks /\ Tail(toTell) \in Seq(Clicks)
  BY <1>1, HeadTailProperties
<1> HIDE DEF w
<1>3. /\ told \in AttemptRecords /\ told.pc = attempts[w].pc
      /\ told.connected = Connected(w) /\ Connected(w) \in BOOLEAN
  BY <1>1, <1>2 DEF AttemptRecords, Connected, HasConnector
<1>4. as = [attempts EXCEPT ![w] = told]
  OBVIOUS
<1> HIDE DEF told, as
<1>5. /\ as \in [Clicks -> AttemptRecords] /\ \A v \in Clicks : as[v].pc = attempts[v].pc
      /\ as[w].connected = Connected(w)
  BY <1>1, <1>2, <1>3, <1>4
<1>6. /\ UpdateState(w, as) /\ toTell' = Tail(toTell)
      /\ UNCHANGED <<access, changes, failures>>
  BY DEF Tell, w, as
<1>7. CASE NewConnection(w, as)
  <2>1. as[w].connected /\ page.connector # w
    BY <1>7 DEF NewConnection
  <2>2. as[w].pc = "ready" /\ attempts[w].pc # "none"
    BY <1>2, <1>5, <2>1 DEF Connected, HasConnector
  <2> QED
    BY <1>2, <1>5, <1>6, <2>1, <2>2, NewConnectionKeeps
<1>8. CASE ~ NewConnection(w, as)
  <2>1. attempts' = as /\ UNCHANGED <<page, managers>>
    BY <1>6, <1>8 DEF UpdateState
  <2>2. ConnectionTypes' /\ Fits(page, managers)'
    BY <1>1, <1>2, <1>5, <1>6, <2>1 DEF ConnectionTypes, Fits
  <2>3. AttemptsFirst' /\ ConnectorFits'
    BY <1>1, <1>5, <2>1, AttemptsKept DEF HasConnector
  <2> QED
    BY <2>2, <2>3 DEF ConnectionInductiveInv
<1> QED
  BY <1>7, <1>8

\* A new attempt is the next one.
LEMMA ConnectClickKeeps ==
  ASSUME ConnectionInductiveInv, ConnectClick
  PROVE  ConnectionInductiveInv'
<1>1. /\ ConnectionTypes /\ AttemptsFirst /\ ConnectorFits /\ Fits(page, managers)
      /\ page.connector = Nil /\ attempts \in [Clicks -> AttemptRecords]
      /\ Len(Attempts) < MaxClicks
      /\ UNCHANGED <<access, toTell, managers, page, changes, failures>>
  BY DEF ConnectionInductiveInv, ConnectionTypes, ConnectClick
<1>2. PICK n \in 0 .. MaxClicks :
        /\ Len(Attempts) = n
        /\ \A w \in Clicks : attempts[w].pc # "none" <=> w <= n
  BY <1>1, AttemptsMade
<1> DEFINE w == n + 1
<1>3. w \in Clicks /\ w \in 0 .. MaxClicks /\ \A v \in Clicks : v <= w <=> v <= n \/ v = w
  BY <1>1, <1>2, ConnectionAssumption DEF Clicks
<1>4. PICK pc \in {"popup", "setup"} :
        attempts' = [attempts EXCEPT ![w].pc = pc, ![w].popup = TRUE]
  BY <1>2 DEF ConnectClick
<1> DEFINE new == [attempts[w] EXCEPT !.pc = pc, !.popup = TRUE]
<1>5. new \in AttemptRecords /\ new.pc = pc
  BY <1>1, <1>3 DEF AttemptRecords
<1>6. attempts' = [attempts EXCEPT ![w] = new]
  BY <1>4
<1> HIDE DEF new, w
<1>7. /\ attempts' \in [Clicks -> AttemptRecords]
      /\ \A v \in Clicks : attempts'[v] = IF v = w THEN new ELSE attempts[v]
  BY <1>1, <1>3, <1>5, <1>6
<1>8. ConnectionTypes' /\ Fits(page, managers)'
  BY <1>1, <1>7 DEF ConnectionTypes, Fits
<1>9. \A v \in Clicks : attempts'[v].pc # "none" <=> v <= w
  BY <1>2, <1>3, <1>5, <1>7
<1>10. AttemptsFirst'
  BY <1>3, <1>9 DEF AttemptsFirst
<1>11. ConnectorFits'
  BY <1>1, <1>5, <1>7 DEF ConnectorFits, HasConnector
<1> QED
  BY <1>8, <1>10, <1>11 DEF ConnectionInductiveInv

\* The voter answers the wallet, or changes its access.
LEMMA WalletKeeps ==
  ASSUME ConnectionInductiveInv
  PROVE  /\ \A w \in Clicks : Approve(w) \/ Refuse(w) => ConnectionInductiveInv'
         /\ AccessChanges => ConnectionInductiveInv'
<1>1. /\ ConnectionTypes /\ AttemptsFirst /\ ConnectorFits /\ Fits(page, managers)
      /\ attempts \in [Clicks -> AttemptRecords] /\ page.connector \in Clicks \cup {Nil}
  BY DEF ConnectionInductiveInv, ConnectionTypes, ConnectionPages
<1>2. PICK n \in 0 .. MaxClicks : Attempts \in Seq(Clicks) /\ Len(Attempts) = n
  BY <1>1, AttemptsMade
<1>3. ASSUME NEW w \in Clicks, Approve(w) \/ Refuse(w)
      PROVE  ConnectionInductiveInv'
  <2> DEFINE pc == IF attempts[w].pc # "popup" THEN attempts[w].pc
                   ELSE IF Approve(w) THEN "setup" ELSE "failed"
             new == [attempts[w] EXCEPT !.popup = FALSE, !.pc = pc]
  <2>1. /\ attempts' = [attempts EXCEPT ![w] = new]
        /\ access' \in {access, TRUE} /\ toTell' \in {toTell, Attempts}
        /\ UNCHANGED <<managers, page, changes, failures>>
    <3>1. CASE Approve(w)
      BY <1>1, <3>1 DEF Approve
    <3>2. CASE ~ Approve(w)
      BY <1>1, <1>3, <3>2 DEF Refuse
    <3> QED
      BY <3>1, <3>2
  <2>2. new \in AttemptRecords /\ new.pc = pc
    BY <1>1 DEF AttemptRecords
  <2>3. /\ pc = "none" <=> attempts[w].pc = "none"
        /\ pc = "ready" <=> attempts[w].pc = "ready"
    OBVIOUS
  <2> HIDE DEF new, pc
  <2>4. /\ attempts' \in [Clicks -> AttemptRecords]
        /\ \A v \in Clicks : attempts'[v] = IF v = w THEN new ELSE attempts[v]
    BY <1>1, <2>1, <2>2
  <2>5. ConnectionTypes' /\ Fits(page, managers)'
    BY <1>1, <1>2, <2>1, <2>4 DEF ConnectionTypes, Fits
  <2>6. AttemptsFirst' /\ ConnectorFits'
    BY <1>1, <2>1, <2>2, <2>3, <2>4, AttemptsKept DEF HasConnector
  <2> QED
    BY <2>5, <2>6 DEF ConnectionInductiveInv
<1>4. ASSUME AccessChanges
      PROVE  ConnectionInductiveInv'
  <2>1. /\ UNCHANGED <<attempts, managers, page, failures>> /\ Attempts # << >>
        /\ access' = ~ access
        /\ toTell' = [k \in 1 .. n * n |-> Attempts[1 + ((k - 1) % n)]]
    BY <1>2, <1>4 DEF AccessChanges
  <2>2. n \in Nat \ {0} /\ n * n \in Nat /\ DOMAIN Attempts = 1 .. n
    BY <1>2, <2>1, EmptySeq, LenProperties, ConnectionAssumption
  <2>3. ASSUME NEW k \in 1 .. n * n
        PROVE  Attempts[1 + ((k - 1) % n)] \in Clicks
    <3>1. (k - 1) % n \in 0 .. n - 1
      BY <2>2
    <3>2. 1 + ((k - 1) % n) \in 1 .. n
      BY <2>2, <3>1
    <3> QED
      BY <1>2, <3>2, ElementOfSeq
  <2>4. toTell' \in Seq(Clicks)
    BY <2>1, <2>2, <2>3, SeqDef
  <2>5. ConnectionTypes'
    BY <1>1, <2>1, <2>4 DEF ConnectionTypes
  <2>6. AttemptsFirst' /\ ConnectorFits' /\ Fits(page, managers)'
    BY <1>1, <2>1 DEF AttemptsFirst, ConnectorFits, Fits, Sole, HasConnector
  <2> QED
    BY <2>5, <2>6 DEF ConnectionInductiveInv
<1> QED
  BY <1>3, <1>4

\* The attempt that is set up becomes the connector, with a manager of its own.
LEMMA SetUpKeeps ==
  ASSUME ConnectionInductiveInv, NEW w \in Clicks, SetUp(w)
  PROVE  ConnectionInductiveInv'
<1>1. /\ ConnectionTypes /\ AttemptsFirst /\ ConnectorFits /\ Fits(page, managers)
      /\ page.connector \in Clicks \cup {Nil} /\ toTell \in Seq(Clicks)
      /\ attempts \in [Clicks -> AttemptRecords]
      /\ attempts[w].pc = "setup" /\ UNCHANGED <<access, toTell, changes>>
  BY DEF ConnectionInductiveInv, ConnectionTypes, ConnectionPages, SetUp
<1>2. page.connector # w
  BY <1>1, ClicksAreNumbers DEF ConnectorFits, HasConnector
<1>3. CASE /\ CallFails /\ attempts' = [attempts EXCEPT ![w].pc = "failed"]
           /\ UNCHANGED <<managers, page>>
  <2> DEFINE new == [attempts[w] EXCEPT !.pc = "failed"]
  <2>1. new \in AttemptRecords /\ new.pc = "failed" /\ attempts' = [attempts EXCEPT ![w] = new]
    BY <1>1, <1>3 DEF AttemptRecords
  <2> HIDE DEF new
  <2>2. /\ attempts' \in [Clicks -> AttemptRecords]
        /\ \A v \in Clicks : attempts'[v] = IF v = w THEN new ELSE attempts[v]
    BY <1>1, <2>1
  <2>3. ConnectionTypes' /\ Fits(page, managers)'
    BY <1>1, <1>3, <2>2 DEF ConnectionTypes, Fits
  <2>4. AttemptsFirst' /\ ConnectorFits'
    BY <1>1, <1>3, <2>1, <2>2, AttemptsKept DEF HasConnector
  <2> QED
    BY <2>3, <2>4 DEF ConnectionInductiveInv
<1>4. CASE UpdateState(w, [attempts EXCEPT ![w].pc = "ready", ![w].connected = TRUE])
  <2> DEFINE new == [attempts[w] EXCEPT !.pc = "ready", !.connected = TRUE]
             as == [attempts EXCEPT ![w].pc = "ready", ![w].connected = TRUE]
  <2>1. new \in AttemptRecords /\ new.pc = "ready" /\ new.connected
    BY <1>1 DEF AttemptRecords
  <2>2. as = [attempts EXCEPT ![w] = new]
    OBVIOUS
  <2> HIDE DEF new, as
  <2>3. /\ as \in [Clicks -> AttemptRecords]
        /\ \A v \in Clicks : as[v] = IF v = w THEN new ELSE attempts[v]
    BY <1>1, <2>1, <2>2
  <2>4. UpdateState(w, as)
    BY <1>4 DEF as
  <2> QED
    BY <1>1, <1>2, <2>1, <2>3, <2>4, NewConnectionKeeps
<1> QED
  BY <1>3, <1>4 DEF SetUp

\* What is left to show when the attempts stay as they are.
LEMMA ManagerSteps ==
  ASSUME ConnectionInductiveInv, UNCHANGED <<attempts, access, toTell>>,
         page' \in ConnectionPages, page'.connector = page.connector,
         managers' \in Seq(ManagerRecords), Len(managers') = Len(managers),
         \A m \in DOMAIN managers : managers'[m].owner = managers[m].owner,
         Fits(page', managers')
  PROVE  ConnectionInductiveInv'
<1>1. /\ ConnectionTypes /\ AttemptsFirst /\ ConnectorFits
      /\ page.connector \in Clicks \cup {Nil} /\ managers \in Seq(ManagerRecords)
  BY DEF ConnectionInductiveInv, ConnectionTypes, ConnectionPages
<1>2. ConnectionTypes'
  BY <1>1 DEF ConnectionTypes
<1>3. /\ Len(managers) = 1 => 1 \in DOMAIN managers
      /\ managers = << >> => managers' = << >>
  BY <1>1, LenProperties, EmptySeq
<1>4. AttemptsFirst' /\ ConnectorFits'
  BY <1>1, <1>3, AttemptsKept DEF HasConnector
<1> QED
  BY <1>2, <1>4 DEF ConnectionInductiveInv

\* The URL arrives, and the id is computed, for one of the managers.
LEMMA ManagerKeeps ==
  ASSUME ConnectionInductiveInv, NEW k \in DOMAIN managers, UrlArrives(k) \/ DigestEnds(k)
  PROVE  ConnectionInductiveInv'
<1>1. /\ page \in ConnectionPages /\ managers \in Seq(ManagerRecords)
      /\ Fits(page, managers) /\ UNCHANGED <<access, toTell>>
  BY DEF ConnectionInductiveInv, ConnectionTypes, UrlArrives, DigestEnds
<1>2. /\ managers[k] \in ManagerRecords /\ DOMAIN managers = 1 .. Len(managers)
      /\ k \in Nat /\ Nil # k
  BY <1>1, ElementOfSeq, LenProperties, ClicksAreNumbers
<1> DEFINE At(m) == [managers EXCEPT ![k] = m]
<1>3. ASSUME NEW m \in ManagerRecords, m.owner = managers[k].owner,
             page.keymanager = k => /\ m.pc \notin {"url", "lost"}
                                    /\ m.identity = managers[k].identity,
             NEW p \in {page, Install(page, k)}
      PROVE  /\ At(m) \in Seq(ManagerRecords) /\ Len(At(m)) = Len(managers)
             /\ \A j \in DOMAIN managers : At(m)[j].owner = managers[j].owner
             /\ p \in ConnectionPages /\ p.connector = page.connector /\ Fits(p, At(m))
  <2>1. /\ At(m) \in Seq(ManagerRecords) /\ Len(At(m)) = Len(managers)
        /\ DOMAIN At(m) = DOMAIN managers
        /\ \A j \in DOMAIN managers : At(m)[j] = IF j = k THEN m ELSE managers[j]
    BY <1>1, ExceptSeq
  <2>2. /\ p \in ConnectionPages /\ p.connector = page.connector
        /\ p.identity = page.identity /\ p.keymanager = page.keymanager
        /\ p.opened = page.opened
        /\ \/ p.idp = page.idp /\ p.repository = page.repository
           \/ p.idp = k /\ p.repository = k
    BY <1>1, <1>2 DEF Install, ConnectionPages
  <2> HIDE DEF At
  <2>3. Fits(p, At(m))
    BY <1>1, <1>2, <1>3, <2>1, <2>2 DEF Fits
  <2> QED
    BY <1>3, <2>1, <2>2, <2>3
<1>4. ASSUME NEW m \in ManagerRecords, m.owner = managers[k].owner,
             page.keymanager = k => /\ m.pc \notin {"url", "lost"}
                                    /\ m.identity = managers[k].identity,
             NEW p \in {page, Install(page, k)}, SetState(p, At(m), attempts)
      PROVE  ConnectionInductiveInv'
  <2>1. /\ At(m) \in Seq(ManagerRecords) /\ Len(At(m)) = Len(managers)
        /\ \A j \in DOMAIN managers : At(m)[j].owner = managers[j].owner
        /\ p \in ConnectionPages /\ p.connector = page.connector /\ Fits(p, At(m))
    BY <1>3, <1>4
  <2>2. DOMAIN At(m) = DOMAIN managers
    OBVIOUS
  <2> HIDE DEF At
  <2>3. /\ attempts' = attempts /\ page' \in ConnectionPages /\ page'.connector = p.connector
        /\ managers' \in Seq(ManagerRecords) /\ Len(managers') = Len(At(m))
        /\ \A j \in DOMAIN At(m) : managers'[j].owner = At(m)[j].owner
        /\ Fits(page', managers')
    BY <1>4, <2>1, SetStateFits
  <2> QED
    BY <1>1, <2>1, <2>2, <2>3, ManagerSteps
<1>5. ASSUME NEW m \in ManagerRecords, m.owner = managers[k].owner, page.keymanager # k,
             managers' = At(m), UNCHANGED <<page, attempts>>
      PROVE  ConnectionInductiveInv'
  <2>1. /\ At(m) \in Seq(ManagerRecords) /\ Len(At(m)) = Len(managers)
        /\ \A j \in DOMAIN managers : At(m)[j].owner = managers[j].owner
        /\ Fits(page, At(m))
    BY <1>3, <1>5
  <2> QED
    BY <1>1, <1>5, <2>1, ManagerSteps
<1>6. ASSUME managers[k].pc = "url" PROVE page.keymanager # k
  BY <1>1, <1>2, <1>6 DEF Fits
<1>7. CASE /\ UrlArrives(k)
           /\ SetState(Install(page, k), [managers EXCEPT ![k].pc = "anonymous"], attempts)
  <2> DEFINE m == [managers[k] EXCEPT !.pc = "anonymous"]
  <2>1. m \in ManagerRecords /\ m.owner = managers[k].owner
    BY <1>2 DEF ManagerRecords
  <2>2. SetState(Install(page, k), At(m), attempts) /\ page.keymanager # k
    BY <1>6, <1>7 DEF UrlArrives
  <2> HIDE DEF m, At
  <2> QED
    BY <1>4, <2>1, <2>2
<1>8. CASE /\ UrlArrives(k) /\ UNCHANGED <<page, attempts>>
           /\ managers' = [managers EXCEPT ![k].identity = managers[k].wanted,
                                           ![k].pc = "digest"]
  <2> DEFINE m == [managers[k] EXCEPT !.identity = managers[k].wanted, !.pc = "digest"]
  <2>1. m \in ManagerRecords /\ m.owner = managers[k].owner
    BY <1>2 DEF ManagerRecords
  <2>2. managers' = At(m) /\ page.keymanager # k
    BY <1>6, <1>8 DEF UrlArrives
  <2> HIDE DEF m, At
  <2> QED
    BY <1>5, <1>8, <2>1, <2>2
<1>9. CASE /\ UrlArrives(k) /\ UNCHANGED <<page, attempts>>
           /\ managers' = [managers EXCEPT ![k].pc = "lost"]
  <2> DEFINE m == [managers[k] EXCEPT !.pc = "lost"]
  <2>1. m \in ManagerRecords /\ m.owner = managers[k].owner
    BY <1>2 DEF ManagerRecords
  <2>2. managers' = At(m) /\ page.keymanager # k
    BY <1>6, <1>9 DEF UrlArrives
  <2> HIDE DEF m, At
  <2> QED
    BY <1>5, <1>9, <2>1, <2>2
<1>10. CASE DigestEnds(k)
  <2> DEFINE m == [managers[k] EXCEPT !.pc = "known", !.wanted = Nil]
             p == IF managers[k].wanted # Nil THEN Install(page, k) ELSE page
  <2>1. /\ m \in ManagerRecords /\ m.owner = managers[k].owner
        /\ m.pc \notin {"url", "lost"} /\ m.identity = managers[k].identity
    BY <1>2 DEF ManagerRecords
  <2>2. SetState(p, At(m), attempts) /\ p \in {page, Install(page, k)}
    BY <1>10 DEF DigestEnds
  <2> HIDE DEF m, p, At
  <2> QED
    BY <1>4, <2>1, <2>2
<1> QED
  BY <1>7, <1>8, <1>9, <1>10 DEF UrlArrives

LEMMA VoterKeeps ==
  ASSUME ConnectionInductiveInv, EnterIdentity \/ RepositoryReady
  PROVE  ConnectionInductiveInv'
<1>1. /\ page \in ConnectionPages /\ managers \in Seq(ManagerRecords)
      /\ Fits(page, managers) /\ UNCHANGED <<access, toTell>>
  BY DEF ConnectionInductiveInv, ConnectionTypes, EnterIdentity, RepositoryReady
<1>2. CASE EnterIdentity
  <2>1. PICK name \in Names : SetState([page EXCEPT !.identity = name], managers, attempts)
    BY <1>2 DEF EnterIdentity
  <2> DEFINE p == [page EXCEPT !.identity = name]
  <2>2. page.keymanager = Nil
    BY <1>2 DEF EnterIdentity
  <2>3. p \in ConnectionPages /\ p.connector = page.connector /\ Fits(p, managers)
    BY <1>1, <2>2 DEF ConnectionPages, Fits
  <2> HIDE DEF p
  <2>4. /\ attempts' = attempts /\ page' \in ConnectionPages
        /\ page'.connector = p.connector
        /\ managers' \in Seq(ManagerRecords) /\ Len(managers') = Len(managers)
        /\ \A j \in DOMAIN managers : managers'[j].owner = managers[j].owner
        /\ Fits(page', managers')
    BY <1>1, <2>1, <2>3, SetStateFits DEF p
  <2> QED
    BY <1>1, <2>3, <2>4, ManagerSteps
<1>3. CASE RepositoryReady
  <2>1. page' = [page EXCEPT !.ready = TRUE] /\ UNCHANGED <<attempts, managers>>
    BY <1>3 DEF RepositoryReady
  <2>2. /\ page' \in ConnectionPages
        /\ page'.connector = page.connector /\ page'.identity = page.identity
        /\ page'.idp = page.idp /\ page'.repository = page.repository
        /\ page'.keymanager = page.keymanager /\ page'.opened = page.opened
    BY <1>1, <2>1 DEF ConnectionPages
  <2>3. Fits(page', managers')
    BY <1>1, <2>1, <2>2 DEF Fits
  <2> QED
    BY <1>1, <2>1, <2>2, <2>3, ManagerSteps
<1> QED
  BY <1>2, <1>3

\* Whatever attempts are made, also while another is under way, refused, failed
\* or withdrawn: the connector was set up, a manager is made for each that was,
\* and the key manager is that of the repository opened (client/src/web3.ts,
\* idp.ts, layoutWidgets.ts).
THEOREM ConnectionInvariance == ConnectionSpec => []ConnectionInductiveInv
<1>1. ConnectionInit => ConnectionInductiveInv
  BY ConnectionInitInv
<1>2. ConnectionInductiveInv /\ [ConnectionNext]_connectionVars => ConnectionInductiveInv'
  <2> SUFFICES ASSUME ConnectionInductiveInv, [ConnectionNext]_connectionVars
               PROVE  ConnectionInductiveInv'
    OBVIOUS
  <2>1. CASE UNCHANGED connectionVars
    BY <2>1
    DEF connectionVars, ConnectionInductiveInv, ConnectionTypes, AttemptsFirst,
        ConnectorFits, Fits, Sole, HasConnector
  <2> QED
    BY <2>1, TellKeeps, ConnectClickKeeps, WalletKeeps, SetUpKeeps, ManagerKeeps, VoterKeeps
       DEF ConnectionNext
<1> QED
  BY <1>1, <1>2, PTL DEF ConnectionSpec

\* What the main page puts together belongs together, also when two attempts
\* that overlap are both set up: repository, provider, identity and key manager,
\* and the connector too while no other attempt is set up (updateState,
\* set_identity, PetitionApp.stateChanged).
THEOREM MainPageFits == ConnectionSpec => []ConnectionFits
<1>1. ConnectionInductiveInv => ConnectionFits
  <2> SUFFICES ASSUME ConnectionInductiveInv, page.keymanager # Nil
               PROVE  /\ page.opened = page.keymanager /\ page.repository = page.idp
                      /\ managers[page.keymanager].identity = page.identity
                      /\ HasConnector(page.connector)
                      /\ Sole(page.connector) =>
                           /\ page.keymanager = page.idp
                           /\ managers[page.idp].owner = page.connector
    BY DEF ConnectionFits, Sole
  <2>1. ConnectorFits /\ Fits(page, managers) /\ managers \in Seq(ManagerRecords)
    BY DEF ConnectionInductiveInv, ConnectionTypes
  <2>2. /\ page.keymanager \in DOMAIN managers /\ page.idp \in DOMAIN managers
        /\ page.connector # Nil /\ DOMAIN managers = 1 .. Len(managers)
    BY <2>1, LenProperties DEF Fits
  <2>3. Sole(page.connector) => page.keymanager = 1 /\ page.idp = 1
    BY <2>1, <2>2 DEF ConnectorFits
  <2> QED
    BY <2>1, <2>2, <2>3 DEF Fits, ConnectorFits
<1> QED
  BY <1>1, ConnectionInvariance, PTL

=============================================================================
