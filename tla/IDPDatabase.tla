---------------------------- MODULE IDPDatabase ----------------------------
(***************************************************************************)
(* The server's SQLite database (idp/src/database.ts): three tables, the   *)
(* constraints of its schema, and its queries.  Every query is one         *)
(* statement of its own transaction, so each is atomic and the awaits      *)
(* between them are where other handlers run.                              *)
(*                                                                         *)
(* sqlite3 passes the error of a failed statement as the first argument    *)
(* of the callback, and every writing method takes that argument for the   *)
(* result: a row that violates a constraint is silently not stored.        *)
(***************************************************************************)
EXTENDS Naturals, FiniteSets

VARIABLES
  idp_pubkeys,         \* rows [pubkey, identity, period, token]
  idp_tree_hashes,     \* rows [hash, iteration, period]
  idp_pubkey_in_tree   \* rows [hash, pubkey]; the proof follows from both

databaseVars == <<idp_pubkeys, idp_tree_hashes, idp_pubkey_in_tree>>

\* The NULL of the column iteration; the contract's iterations start at 1.
NULL == 0

DatabaseInit ==
  /\ idp_pubkeys = {}
  /\ idp_tree_hashes = {}
  /\ idp_pubkey_in_tree = {}

-----------------------------------------------------------------------------
(* Registrations *)

\* Faulty variant: only the public key is looked up.
KeyIsRegistered(reg) ==
  \E row \in idp_pubkeys : row.pubkey = reg.pubkey /\ row.period = reg.period

\* isRegistered
IsRegistered(reg) ==
  \E row \in idp_pubkeys :
    /\ row.identity = reg.identity \/ row.pubkey = reg.pubkey
    /\ row.period = reg.period

\* register: pubkey is the primary key and token is unique.
Register(row) ==
  idp_pubkeys' =
    IF \E r \in idp_pubkeys : r.pubkey = row.pubkey \/ r.token = row.token
    THEN idp_pubkeys ELSE idp_pubkeys \cup {row}

HasProof(pubkey) == \E row \in idp_pubkey_in_tree : row.pubkey = pubkey

\* Faulty variant: the period is not part of the query.
PubkeysOfAnyPeriod(period) ==
  {row.pubkey : row \in {r \in idp_pubkeys : ~HasProof(r.pubkey)}}

\* pubkeys_to_include, without its limit.
PubkeysWithoutProof(period) ==
  {row.pubkey : row \in {r \in idp_pubkeys : r.period = period /\ ~HasProof(r.pubkey)}}

\* The LIMIT clause picks any rows, as the query has no ORDER BY.
Limited(S, maxkeys) ==
  {T \in SUBSET S : Cardinality(T) = IF Cardinality(S) < maxkeys THEN Cardinality(S)
                                                                 ELSE maxkeys}

-----------------------------------------------------------------------------
(* Trees and proofs *)

\* insertTree: hash is the primary key.
InsertTree(hash, period) ==
  idp_tree_hashes' =
    IF \E row \in idp_tree_hashes : row.hash = hash
    THEN idp_tree_hashes
    ELSE idp_tree_hashes \cup {[hash |-> hash, iteration |-> NULL, period |-> period]}

\* insertProof for several keys of a tree, started together: hash is unique
\* and so is pubkey, so only the statement executed first can succeed, and
\* only if the tree had no proof before and its key had none.
InsertProofs(hash, pubkeys) ==
  LET free == {k \in pubkeys : ~HasProof(k)}
  IN  IF free = {} \/ \E row \in idp_pubkey_in_tree : row.hash = hash
      THEN UNCHANGED idp_pubkey_in_tree
      ELSE \E k \in free :
             idp_pubkey_in_tree' = idp_pubkey_in_tree \cup {[hash |-> hash, pubkey |-> k]}

\* Faulty variant for the trees to submit: those that are on the blockchain are
\* selected again.
TreesOfPeriod(period) ==
  {row.hash : row \in {r \in idp_tree_hashes : r.period = period}}

\* treesToIncludeOnBlockchain
TreesToInclude(period) ==
  {row.hash : row \in {r \in idp_tree_hashes : r.period = period /\ r.iteration = NULL}}

\* updateTreeWithIteration
UpdateTreeWithIteration(hash, iteration) ==
  idp_tree_hashes' =
    {IF row.hash = hash THEN [row EXCEPT !.iteration = iteration] ELSE row :
       row \in idp_tree_hashes}

-----------------------------------------------------------------------------
(* What a token is worth *)

\* getProofInfo as /proof answers it with 200: the rows of its two joins that
\* are complete.  There is at most one.
ProofInfo(token) ==
  {[pubkey |-> r[1].pubkey, hash |-> r[2].hash, iteration |-> r[2].iteration,
    period |-> r[2].period] :
     r \in {q \in idp_pubkeys \X idp_tree_hashes :
              /\ q[1].token = token
              /\ q[2].iteration # NULL
              /\ [hash |-> q[2].hash, pubkey |-> q[1].pubkey] \in idp_pubkey_in_tree}}

=============================================================================
