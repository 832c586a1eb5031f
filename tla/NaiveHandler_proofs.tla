------------------------- MODULE NaiveHandler_proofs -------------------------
(***************************************************************************)
(* Proofs about NaiveHandler: however registrations, runs of the interval  *)
(* task, transactions, petitions and kills interleave, who is served has   *)
(* the right to vote, rights are of registered accounts, and the contracts *)
(* keep the promise of Ballot in its strict form, for every number of      *)
(* accounts, requests, petitions, periods and kills.                       *)
(***************************************************************************)
EXTENDS NaiveHandler, FiniteSetTheorems, SequenceTheorems, TLAPS

-----------------------------------------------------------------------------
(* The inductive invariant *)

\* A row is determined by its token and by its public key, and two rows have one
\* identity in a period only if their requests raced.
RowsFit ==
  /\ \A p, q \in idp_pubkeys : p.token = q.token \/ p.pubkey = q.pubkey => p = q
  /\ \A p, q \in idp_pubkeys :
       p.identity = q.identity /\ p.period = q.period
         => p = q \/ {p.token, q.token} \in raced

HasTree(key) == \E tree \in idp_tree_hashes : tree.hash = key

HasTreeFor(key, period) ==
  \E tree \in idp_tree_hashes : tree.hash = key /\ tree.period = period

\* The tree of a row may be for another period than the row.
Excused(row) == (\E pair \in raced : row.token \in pair) \/ crashes > 0

IsRowFor(row, key, period) ==
  row.pubkey = key /\ (row.period = period \/ Excused(row))

\* What the statements of register have left behind so far.  The tree that is
\* going to be inserted is for the period of the row, or it is going to be
\* refused, or the row is excused.
RequestFits(r) ==
  /\ requests[r].state \in {"new", "check", "pubkey"} =>
       \A row \in idp_pubkeys : row.token # r
  /\ requests[r].state = "pubkey" =>
       \A row \in idp_pubkeys :
         row.identity = requests[r].reg.identity /\ row.period = requests[r].reg.period
           => {row.token, r} \in raced
  /\ requests[r].state = "tree" =>
       \/ HasTree(requests[r].reg.pubkey)
       \/ \E row \in idp_pubkeys :
            IsRowFor(row, requests[r].reg.pubkey, requests[r].reg.period)

SameClaim(reg, other) == reg.identity = other.identity \/ reg.pubkey = other.pubkey

RequestsFit ==
  /\ \A r \in Tokens : RequestFits(r)
  /\ \A r, q \in Open :
       SameClaim(requests[r].reg, requests[q].reg) => r = q \/ {r, q} \in raced

\* The request of a row is about to insert the tree.
IsAhead(row) ==
  requests[row.token].state = "tree" /\ requests[row.token].reg.pubkey = row.pubkey

\* A tree has one row, its account the right to vote once an iteration is
\* stored, and its period is that of the key's row, if that is not excused.
\* Without kills rows without a tree are those whose request inserts it.
TreesFit ==
  /\ \A s, t \in idp_tree_hashes : s.hash = t.hash => s = t
  /\ \A t \in idp_tree_hashes :
       t.iteration # NULL => ValidateAuthorized(Address[t.hash], t.period)
  /\ \A t \in idp_tree_hashes : \E row \in idp_pubkeys : IsRowFor(row, t.hash, t.period)
  /\ crashes = 0 => \A row \in idp_pubkeys : HasTree(row.pubkey) \/ IsAhead(row)

\* The tree of a key is the key.
ProofsFit == \A e \in idp_pubkey_in_tree : e.hash = e.pubkey

\* Rights are entered for accounts a tree of which waits for that period.
HasRight(account, period) ==
  \E key \in Keys : Address[key] = account /\ HasTreeFor(key, period)

RightsFit ==
  /\ \A right \in authorized : HasRight(right[1], right[2])
  /\ inflight # None => HasRight(inflight.account, inflight.period)

\* What a run knows of its keys.
TaskFits ==
  /\ task.pc # "idle" => task.period \in Periods
  /\ task.pc \in {"idle", "query"} => task.todo = {}
  /\ \A key \in task.todo : HasTreeFor(key, task.period)
  /\ task.pc \in {"mining", "update"} =>
       task.pubkey \in Keys /\ HasTreeFor(task.pubkey, task.period)
  /\ task.pc = "mining" => inflight = [account |-> Address[task.pubkey], period |-> task.period]
  /\ task.pc = "update" => ValidateAuthorized(Address[task.pubkey], task.period)

NaiveInductiveInv ==
  /\ NaiveServerTypeOK
  /\ RowsFit
  /\ RequestsFit
  /\ TreesFit
  /\ ProofsFit
  /\ RightsFit
  /\ TaskFits

LEMMA NaiveInitInv == NaiveServerInit => NaiveInductiveInv
<1> SUFFICES ASSUME NaiveServerInit PROVE NaiveInductiveInv
  OBVIOUS
<1> USE DEF NaiveServerInit, RowsInit, DatabaseInit, NaiveInit, IDPInit, RegistryInit, IdleTask
<1>1. NaiveTypeOK
  BY PeriodAssumption, EmptySeq DEF NaiveTypeOK, IDPTypeOK, Periods
<1>2. Open = {}
  BY DEF Open
<1>3. task \in TaskRecords
  BY PeriodAssumption DEF TaskRecords
<1>4. NaiveServerTypeOK
  BY <1>1, <1>2, <1>3 DEF NaiveServerTypeOK
<1>5. RowsFit /\ TreesFit /\ ProofsFit /\ RightsFit
  BY DEF RowsFit, TreesFit, ProofsFit, RightsFit
<1>6. RequestsFit
  BY <1>2 DEF RequestsFit, RequestFits
<1>7. TaskFits
  BY DEF TaskFits
<1> QED
  BY <1>4, <1>5, <1>6, <1>7 DEF NaiveInductiveInv

-----------------------------------------------------------------------------
(* What a step leaves alone *)

LEMMA ContractsKept ==
  ASSUME NaiveInductiveInv, UNCHANGED naiveVars
  PROVE  NaiveTypeOK'
BY DEF NaiveInductiveInv, NaiveServerTypeOK, NaiveTypeOK, IDPTypeOK, naiveVars, idpVars,
       registryVars

\* Rights are never taken back.
LEMMA TablesKept ==
  ASSUME NaiveInductiveInv, UNCHANGED <<rowVars, crashes>>,
         authorized \subseteq authorized'
  PROVE  RowsFit' /\ RequestsFit' /\ TreesFit' /\ ProofsFit'
<1> USE DEF NaiveInductiveInv, rowVars, databaseVars
<1>1. RowsFit' /\ ProofsFit'
  BY DEF RowsFit, ProofsFit
<1>2. RequestsFit'
  BY DEF RequestsFit, RequestFits, Open, HasTree, IsRowFor, Excused, SameClaim
<1>3. TreesFit'
  BY DEF TreesFit, HasTree, IsRowFor, Excused, IsAhead, ValidateAuthorized
<1> QED
  BY <1>1, <1>2, <1>3

\* The step of a request does not concern the run and its transaction, as
\* trees stay with their periods.
LEMMA RunKept ==
  ASSUME NaiveInductiveInv, UNCHANGED <<authorized, task, inflight>>,
         \A a, p : HasTreeFor(a, p) => HasTreeFor(a, p)'
  PROVE  RightsFit' /\ TaskFits'
BY DEF NaiveInductiveInv, RightsFit, HasRight, TaskFits, ValidateAuthorized

\* Rows that are there stay, the excused ones excused.
LEMMA RowsForKept ==
  ASSUME NaiveInductiveInv, idp_pubkeys \subseteq idp_pubkeys', raced \subseteq raced',
         crashes > 0 => crashes' > 0
  PROVE  \A key, period : (\E row \in idp_pubkeys : IsRowFor(row, key, period))
                            => \E row \in idp_pubkeys' : IsRowFor(row, key, period)'
<1>1. \A row : Excused(row) => Excused(row)'
  BY DEF Excused
<1>2. \A row, key, period : IsRowFor(row, key, period) => IsRowFor(row, key, period)'
  BY <1>1 DEF IsRowFor
<1> QED
  BY <1>2

-----------------------------------------------------------------------------
(* POST /register *)

LEMMA NaiveArriveInv ==
  ASSUME NaiveInductiveInv, NEW r \in Tokens, NEW identity \in Identities,
         NEW key \in Keys, NEW period \in Periods,
         NaiveArrive(r, identity, key, period),
         UNCHANGED <<naiveVars, task, inflight, crashes>>
  PROVE  NaiveInductiveInv'
<1> DEFINE reg == [identity |-> identity, pubkey |-> key, period |-> period]
<1>1. /\ requests[r].state = "new"
      /\ requests' = [requests EXCEPT ![r] = [state |-> "check", reg |-> reg]]
      /\ raced' = raced \cup {{q, r} : q \in Rivals(reg)}
      /\ UNCHANGED databaseVars
  BY DEF NaiveArrive, Arrive
<1>2. reg \in Registrations
  BY DEF Registrations
<1> HIDE DEF reg
<1>3. Open' = Open \cup {r} /\ raced' \subseteq SUBSET Tokens
  BY <1>1 DEF NaiveInductiveInv, NaiveServerTypeOK, Open, Rivals
<1>4. NaiveServerTypeOK'
  <2>1. requests' \in [Tokens ->
          [state : {"new", "check", "pubkey", "tree", "proof", "accepted", "rejected", "lost"},
           reg   : Registrations \cup {None}]]
    BY <1>1, <1>2 DEF NaiveInductiveInv, NaiveServerTypeOK
  <2>2. \A q \in Open' : requests'[q].reg \in Registrations
    BY <1>1, <1>2, <1>3 DEF NaiveInductiveInv, NaiveServerTypeOK, Open
  <2> QED
    BY <1>1, <1>3, <2>1, <2>2, ContractsKept
    DEF NaiveInductiveInv, NaiveServerTypeOK, databaseVars, naiveVars
<1>5. /\ raced \subseteq raced'
      /\ \A q \in Open : SameClaim(requests[q].reg, reg) => {q, r} \in raced'
  BY <1>1 DEF Rivals, SameClaim
<1>6. /\ requests'[r].state = "check"
      /\ requests'[r].reg = reg
      /\ \A q \in Tokens \ {r} : requests'[q] = requests[q]
  BY <1>1 DEF NaiveInductiveInv, NaiveServerTypeOK
<1>7. RowsFit' /\ ProofsFit'
  BY <1>1, <1>5 DEF NaiveInductiveInv, RowsFit, ProofsFit, databaseVars
<1>8. TreesFit'
  <2>1. \A row \in idp_pubkeys : IsAhead(row) => IsAhead(row)'
    BY <1>1, <1>6 DEF IsAhead, NaiveInductiveInv, NaiveServerTypeOK
  <2>2. \A key2, period2 : (\E row \in idp_pubkeys : IsRowFor(row, key2, period2))
                             => \E row \in idp_pubkeys' : IsRowFor(row, key2, period2)'
    BY <1>1, <1>5, RowsForKept DEF databaseVars, NaiveInductiveInv, NaiveServerTypeOK
  <2> QED
    BY <1>1, <2>1, <2>2
    DEF NaiveInductiveInv, TreesFit, HasTree, ValidateAuthorized, databaseVars, naiveVars
<1>9. RequestsFit'
  <2>1. ASSUME NEW q \in Tokens PROVE RequestFits(q)'
    <3>1. CASE q = r
      BY <1>1, <1>6, <3>1 DEF NaiveInductiveInv, RequestsFit, RequestFits, databaseVars
    <3>2. CASE q # r
      <4>1. requests'[q] = requests[q] /\ RequestFits(q)
        BY <1>6, <3>2 DEF NaiveInductiveInv, RequestsFit
      <4>2. \A a, p : (\E row \in idp_pubkeys : IsRowFor(row, a, p))
                        => \E row \in idp_pubkeys' : IsRowFor(row, a, p)'
        BY <1>1, <1>5, RowsForKept DEF databaseVars, NaiveInductiveInv, NaiveServerTypeOK
      <4> QED
        BY <1>1, <1>5, <4>1, <4>2 DEF RequestFits, databaseVars, HasTree
    <3> QED
      BY <3>1, <3>2
  <2>2. ASSUME NEW p \in Open', NEW q \in Open', SameClaim(requests'[p].reg, requests'[q].reg)
        PROVE  p = q \/ {p, q} \in raced'
    <3>1. r \notin Open /\ {p, q} = {q, p} /\ Open \subseteq Tokens
      BY <1>1 DEF Open
    <3>2. CASE p \in Open /\ q \in Open
      <4>1. SameClaim(requests[p].reg, requests[q].reg)
        BY <1>6, <2>2, <3>1, <3>2
      <4> QED
        BY <1>5, <3>2, <4>1 DEF NaiveInductiveInv, RequestsFit
    <3>3. CASE p = r /\ q \in Open
      <4>1. SameClaim(requests[q].reg, reg)
        BY <1>6, <2>2, <3>1, <3>3 DEF SameClaim
      <4> QED
        BY <1>5, <3>1, <3>3, <4>1
    <3>4. CASE q = r /\ p \in Open
      <4>1. SameClaim(requests[p].reg, reg)
        BY <1>6, <2>2, <3>1, <3>4 DEF SameClaim
      <4> QED
        BY <1>5, <3>4, <4>1
    <3> QED
      BY <1>3, <3>2, <3>3, <3>4
  <2> QED
    BY <2>1, <2>2 DEF RequestsFit, SameClaim
<1>10. RightsFit' /\ TaskFits'
  BY <1>1, RunKept DEF databaseVars, naiveVars, HasTreeFor
<1> QED
  BY <1>4, <1>7, <1>8, <1>9, <1>10 DEF NaiveInductiveInv

LEMMA CheckInv ==
  ASSUME NaiveInductiveInv, NEW r \in Tokens, Check(r),
         UNCHANGED <<naiveVars, task, inflight, crashes>>
  PROVE  NaiveInductiveInv'
<1>1. /\ requests[r].state = "check" /\ r \in Open /\ requests[r].reg \in Registrations
      /\ UNCHANGED <<databaseVars, raced>>
  BY DEF Check, Closes, Moves, NaiveInductiveInv, NaiveServerTypeOK, Open
<1>2. /\ requests' \in [Tokens ->
            [state : {"new", "check", "pubkey", "tree", "proof", "accepted", "rejected", "lost"},
             reg   : Registrations \cup {None}]]
      /\ \A q \in Tokens \ {r} : requests'[q] = requests[q]
      /\ \/ requests'[r].state = "rejected"
         \/ /\ requests'[r].state = "pubkey" /\ requests'[r].reg = requests[r].reg
            /\ ~ IsRegistered(requests[r].reg)
  BY DEF Check, Closes, Moves, NaiveInductiveInv, NaiveServerTypeOK
<1>3. /\ Open' \subseteq Open /\ \A q \in Open' : requests'[q].reg = requests[q].reg
      /\ \A row \in idp_pubkeys : IsAhead(row) => IsAhead(row)'
  BY <1>1, <1>2 DEF Open, IsAhead, databaseVars, NaiveInductiveInv, NaiveServerTypeOK
<1>4. NaiveServerTypeOK'
  <2>1. \A q \in Open' : requests'[q].reg \in Registrations
    BY <1>1, <1>2, <1>3 DEF NaiveInductiveInv, NaiveServerTypeOK, Open
  <2> QED
    BY <1>1, <1>2, <2>1, ContractsKept
    DEF NaiveInductiveInv, NaiveServerTypeOK, databaseVars, naiveVars
<1>5. RowsFit' /\ ProofsFit'
  BY <1>1 DEF NaiveInductiveInv, RowsFit, ProofsFit, databaseVars
<1>6. TreesFit'
  BY <1>1, <1>3
  DEF NaiveInductiveInv, TreesFit, HasTree, IsRowFor, Excused, ValidateAuthorized,
      databaseVars, naiveVars
<1>7. RequestsFit'
  <2>1. ASSUME NEW q \in Tokens PROVE RequestFits(q)'
    <3>1. CASE q = r
      <4>1. requests'[r].state = "pubkey" =>
              \A row \in idp_pubkeys : ~ (/\ row.identity = requests[r].reg.identity
                                          /\ row.period = requests[r].reg.period)
        BY <1>2 DEF IsRegistered
      <4> QED
        BY <1>1, <1>2, <3>1, <4>1 DEF NaiveInductiveInv, RequestsFit, RequestFits, databaseVars
    <3>2. CASE q # r
      BY <1>1, <1>2, <3>2
      DEF NaiveInductiveInv, RequestsFit, RequestFits, databaseVars, HasTree, IsRowFor, Excused
    <3> QED
      BY <3>1, <3>2
  <2> QED
    BY <1>1, <1>3, <2>1 DEF NaiveInductiveInv, RequestsFit, SameClaim
<1>8. RightsFit' /\ TaskFits'
  BY <1>1, RunKept DEF databaseVars, naiveVars, HasTreeFor
<1> QED
  BY <1>4, <1>5, <1>6, <1>7, <1>8 DEF NaiveInductiveInv

RequestRecords ==
  [state : {"new", "check", "pubkey", "tree", "proof", "accepted", "rejected", "lost"},
   reg   : Registrations \cup {None}]

\* A request moves on to its next statement.
LEMMA MovesEffect ==
  ASSUME NaiveInductiveInv, NEW r \in Tokens, requests[r].state \in {"pubkey", "tree"},
         NEW state \in {"tree", "proof"}, Moves(r, state)
  PROVE  /\ requests' \in [Tokens -> RequestRecords]
         /\ requests'[r].state = state /\ requests'[r].reg = requests[r].reg
         /\ \A q \in Tokens \ {r} : requests'[q] = requests[q]
         /\ Open' = Open /\ r \in Open /\ raced' = raced
         /\ \A q \in Open : requests'[q].reg = requests[q].reg
         /\ requests[r].reg \in Registrations
         /\ \A q \in Open' : requests'[q].reg \in Registrations
<1>1. requests \in [Tokens -> RequestRecords] /\ r \in Open /\ requests[r].reg \in Registrations
  BY DEF NaiveInductiveInv, NaiveServerTypeOK, RequestRecords, Open
<1>2. /\ requests' \in [Tokens -> RequestRecords]
      /\ requests'[r].state = state /\ requests'[r].reg = requests[r].reg
      /\ \A q \in Tokens \ {r} : requests'[q] = requests[q]
  BY <1>1 DEF Moves, RequestRecords
<1>3. /\ Open' = Open /\ raced' = raced
      /\ \A q \in Open : requests'[q].reg = requests[q].reg
  BY <1>1, <1>2 DEF Open, Moves
<1>4. \A q \in Open' : requests'[q].reg \in Registrations
  BY <1>2, <1>3 DEF NaiveInductiveInv, NaiveServerTypeOK, Open
<1> QED
  BY <1>1, <1>2, <1>3, <1>4

RowOf(r) ==
  [pubkey   |-> requests[r].reg.pubkey,
   identity |-> requests[r].reg.identity,
   period   |-> requests[r].reg.period,
   token    |-> r]

LEMMA InsertPubkeyInv ==
  ASSUME NaiveInductiveInv, NEW r \in Tokens, InsertPubkey(r),
         UNCHANGED <<naiveVars, task, inflight, crashes>>
  PROVE  NaiveInductiveInv'
<1> DEFINE new == RowOf(r)
           reg == requests[r].reg
<1>1. /\ requests[r].state = "pubkey" /\ Moves(r, "tree")
      /\ UNCHANGED <<idp_tree_hashes, idp_pubkey_in_tree>>
  BY DEF InsertPubkey
<1>2. /\ requests' \in [Tokens -> RequestRecords]
      /\ requests'[r].state = "tree" /\ requests'[r].reg = reg
      /\ \A q \in Tokens \ {r} : requests'[q] = requests[q]
      /\ Open' = Open /\ r \in Open /\ raced' = raced
      /\ \A q \in Open : requests'[q].reg = requests[q].reg
      /\ reg \in Registrations
      /\ \A q \in Open' : requests'[q].reg \in Registrations
  BY <1>1, MovesEffect
<1>3. /\ new \in [pubkey : Keys, identity : Identities, period : Periods, token : Tokens]
      /\ new.pubkey = reg.pubkey /\ new.identity = reg.identity
      /\ new.period = reg.period /\ new.token = r
  BY <1>2 DEF RowOf, Registrations
<1>4. \/ idp_pubkeys' = idp_pubkeys /\ \E p \in idp_pubkeys : p.pubkey = reg.pubkey
      \/ /\ idp_pubkeys' = idp_pubkeys \cup {new}
         /\ \A p \in idp_pubkeys : p.pubkey # reg.pubkey /\ p.token # r
  <2>1. \A p \in idp_pubkeys : p.token # r
    BY <1>1 DEF NaiveInductiveInv, RequestsFit, RequestFits
  <2> QED
    BY <2>1 DEF InsertPubkey, Register, RowOf
<1> HIDE DEF new, reg
<1>5. /\ idp_pubkeys \subseteq idp_pubkeys'
      /\ \A p \in idp_pubkeys' : p \in idp_pubkeys \/ p = new
  BY <1>4
<1>6. /\ \A p \in idp_pubkeys : p.identity = reg.identity /\ p.period = reg.period
                                   => {p.token, r} \in raced
      /\ \A q \in Open \ {r} : SameClaim(requests[q].reg, reg) => {q, r} \in raced
  BY <1>1, <1>2 DEF NaiveInductiveInv, RequestsFit, RequestFits, reg
<1>7. NaiveServerTypeOK'
  BY <1>1, <1>2, <1>3, <1>5, ContractsKept
  DEF NaiveInductiveInv, NaiveServerTypeOK, naiveVars, RequestRecords
<1>8. RowsFit' /\ ProofsFit'
  <2>1. \A p \in idp_pubkeys : p.identity = new.identity /\ p.period = new.period =>
          {p.token, new.token} \in raced /\ {new.token, p.token} \in raced
    <3>1. \A q : {q, r} = {r, q}
      OBVIOUS
    <3> QED
      BY <1>3, <1>6, <3>1
  <2>2. CASE idp_pubkeys' = idp_pubkeys
    BY <1>1, <1>2, <2>2 DEF NaiveInductiveInv, RowsFit, ProofsFit
  <2>3. CASE /\ idp_pubkeys' = idp_pubkeys \cup {new}
             /\ \A p \in idp_pubkeys : p.pubkey # reg.pubkey /\ p.token # r
    BY <1>1, <1>2, <1>3, <2>1, <2>3 DEF NaiveInductiveInv, RowsFit, ProofsFit
  <2> QED
    BY <1>4, <2>2, <2>3
<1>9. \A key, period : (\E row \in idp_pubkeys : IsRowFor(row, key, period))
                         => \E row \in idp_pubkeys' : IsRowFor(row, key, period)'
  BY <1>2, <1>5, RowsForKept DEF NaiveInductiveInv, NaiveServerTypeOK
<1>10. TreesFit'
  <2>1. \A t \in idp_tree_hashes :
          t.iteration # NULL => ValidateAuthorized(Address[t.hash], t.period)'
    BY DEF NaiveInductiveInv, TreesFit, ValidateAuthorized, naiveVars
  <2>2. ASSUME crashes = 0, NEW row \in idp_pubkeys'
        PROVE  HasTree(row.pubkey) \/ IsAhead(row)'
    <3>1. CASE row = new
      BY <1>2, <1>3, <3>1 DEF IsAhead
    <3>2. CASE row \in idp_pubkeys
      <4>1. HasTree(row.pubkey) \/ IsAhead(row)
        BY <2>2, <3>2 DEF NaiveInductiveInv, TreesFit
      <4>2. row.token \in Tokens /\ row.token # r
        BY <1>1, <3>2 DEF NaiveInductiveInv, NaiveServerTypeOK, RequestsFit, RequestFits
      <4> QED
        BY <1>2, <4>1, <4>2 DEF IsAhead
    <3> QED
      BY <1>5, <3>1, <3>2
  <2> QED
    BY <1>1, <1>9, <2>1, <2>2 DEF NaiveInductiveInv, TreesFit, HasTree
<1>11. RequestsFit'
  <2>1. ASSUME NEW q \in Tokens PROVE RequestFits(q)'
    <3>1. CASE q = r
      <4>1. \/ HasTree(reg.pubkey)
            \/ \E row \in idp_pubkeys' :
                 row.pubkey = reg.pubkey /\ (row.period = reg.period \/ Excused(row))
        <5>1. ASSUME NEW p \in idp_pubkeys, p.pubkey = reg.pubkey
              PROVE  HasTree(reg.pubkey) \/ Excused(p)
          <6>1. CASE crashes # 0
            BY <6>1 DEF Excused, NaiveInductiveInv, NaiveServerTypeOK
          <6>2. CASE crashes = 0 /\ IsAhead(p)
            <7>1. /\ p.token \in Open \ {r}
                  /\ SameClaim(requests[p.token].reg, reg)
              BY <1>1, <5>1, <6>2
              DEF IsAhead, Open, SameClaim, NaiveInductiveInv, NaiveServerTypeOK
            <7> QED
              BY <1>6, <7>1 DEF Excused
          <6> QED
            BY <5>1, <6>1, <6>2 DEF NaiveInductiveInv, TreesFit
        <5>2. ASSUME new \in idp_pubkeys'
              PROVE  \E row \in idp_pubkeys' :
                       row.pubkey = reg.pubkey /\ row.period = reg.period
          BY <1>3, <5>2
        <5> QED
          BY <1>4, <5>1, <5>2
      <4> QED
        BY <1>1, <1>2, <3>1, <4>1 DEF RequestFits, HasTree, IsRowFor, Excused
    <3>2. CASE q # r
      <4>1. requests'[q] = requests[q] /\ RequestFits(q)
        BY <1>2, <3>2 DEF NaiveInductiveInv, RequestsFit
      <4>2. requests[q].state = "pubkey" =>
              \A row \in idp_pubkeys' :
                 row.identity = requests[q].reg.identity /\ row.period = requests[q].reg.period
                   => {row.token, q} \in raced
        <5>1. requests[q].state = "pubkey" /\ new.identity = requests[q].reg.identity
                => {new.token, q} \in raced
          <6>1. {r, q} = {q, r}
            OBVIOUS
          <6>2. requests[q].state = "pubkey" => q \in Open \ {r}
            BY <3>2 DEF Open
          <6> QED
            BY <1>3, <1>6, <6>1, <6>2 DEF SameClaim
        <5> QED
          BY <1>5, <4>1, <5>1 DEF RequestFits
      <4> QED
        BY <1>1, <1>2, <1>3, <1>5, <1>9, <3>2, <4>1, <4>2 DEF RequestFits, HasTree
    <3> QED
      BY <3>1, <3>2
  <2> QED
    BY <1>2, <2>1 DEF NaiveInductiveInv, RequestsFit, SameClaim
<1>12. RightsFit' /\ TaskFits'
  BY <1>1, RunKept DEF naiveVars, HasTreeFor
<1> QED
  BY <1>7, <1>8, <1>10, <1>11, <1>12 DEF NaiveInductiveInv

LEMMA InsertTreeRowInv ==
  ASSUME NaiveInductiveInv, NEW r \in Tokens, InsertTreeRow(r),
         UNCHANGED <<naiveVars, task, inflight, crashes>>
  PROVE  NaiveInductiveInv'
<1> DEFINE reg == requests[r].reg
           new == [hash |-> reg.pubkey, iteration |-> NULL, period |-> reg.period]
<1>1. /\ requests[r].state = "tree" /\ Moves(r, "proof")
      /\ UNCHANGED <<idp_pubkeys, idp_pubkey_in_tree>>
  BY DEF InsertTreeRow
<1>2. /\ requests' \in [Tokens -> RequestRecords]
      /\ requests'[r].state = "proof" /\ requests'[r].reg = reg
      /\ \A q \in Tokens \ {r} : requests'[q] = requests[q]
      /\ Open' = Open /\ r \in Open /\ raced' = raced
      /\ \A q \in Open : requests'[q].reg = requests[q].reg
      /\ reg \in Registrations
      /\ \A q \in Open' : requests'[q].reg \in Registrations
  BY <1>1, MovesEffect
<1>3. /\ new \in [hash : Keys, iteration : {NULL, 1}, period : Periods]
      /\ new.hash = reg.pubkey /\ new.period = reg.period /\ new.iteration = NULL
  BY <1>2 DEF Registrations
<1>4. \/ idp_tree_hashes' = idp_tree_hashes /\ HasTree(reg.pubkey)
      \/ /\ idp_tree_hashes' = idp_tree_hashes \cup {new}
         /\ ~ HasTree(reg.pubkey)
  BY DEF InsertTreeRow, InsertTree, HasTree
<1> HIDE DEF new, reg
<1>5. /\ idp_tree_hashes \subseteq idp_tree_hashes'
      /\ \A t \in idp_tree_hashes' : t \in idp_tree_hashes \/ t = new
      /\ \E t \in idp_tree_hashes' : t.hash = reg.pubkey
      /\ \A key : HasTree(key) => HasTree(key)'
      /\ \A key, period : HasTreeFor(key, period) => HasTreeFor(key, period)'
  <2>1. CASE idp_tree_hashes' = idp_tree_hashes /\ HasTree(reg.pubkey)
    BY <2>1 DEF HasTree, HasTreeFor
  <2>2. CASE idp_tree_hashes' = idp_tree_hashes \cup {new}
    <3>1. idp_tree_hashes \subseteq idp_tree_hashes' /\ new \in idp_tree_hashes'
      BY <2>2
    <3>2. \A t \in idp_tree_hashes' : t \in idp_tree_hashes \/ t = new
      BY <2>2
    <3>3. \E t \in idp_tree_hashes' : t.hash = reg.pubkey
      BY <1>3, <3>1
    <3> QED
      BY <3>1, <3>2, <3>3 DEF HasTree, HasTreeFor
  <2> QED
    BY <1>4, <2>1, <2>2
<1>6. \A row, key, period : IsRowFor(row, key, period)' <=> IsRowFor(row, key, period)
  BY <1>2 DEF IsRowFor, Excused
<1>7. NaiveServerTypeOK'
  BY <1>1, <1>2, <1>3, <1>5, ContractsKept
  DEF NaiveInductiveInv, NaiveServerTypeOK, naiveVars, RequestRecords
<1>8. RowsFit' /\ ProofsFit'
  BY <1>1, <1>2 DEF NaiveInductiveInv, RowsFit, ProofsFit
<1>9. TreesFit'
  <2>1. \A s, t \in idp_tree_hashes' : s.hash = t.hash => s = t
    BY <1>3, <1>4 DEF NaiveInductiveInv, TreesFit, HasTree
  <2>2. \A t \in idp_tree_hashes' :
          t.iteration # NULL => ValidateAuthorized(Address[t.hash], t.period)'
    BY <1>3, <1>5 DEF NaiveInductiveInv, TreesFit, ValidateAuthorized, naiveVars
  <2>3. \A t \in idp_tree_hashes' : \E row \in idp_pubkeys : IsRowFor(row, t.hash, t.period)
    <3>1. CASE idp_tree_hashes' = idp_tree_hashes
      BY <3>1 DEF NaiveInductiveInv, TreesFit
    <3>2. CASE /\ idp_tree_hashes' = idp_tree_hashes \cup {new}
               /\ ~ HasTree(reg.pubkey)
      <4>1. \E row \in idp_pubkeys : IsRowFor(row, reg.pubkey, reg.period)
        BY <1>1, <3>2 DEF NaiveInductiveInv, RequestsFit, RequestFits, reg
      <4> QED
        BY <1>3, <3>2, <4>1 DEF NaiveInductiveInv, TreesFit
    <3> QED
      BY <1>4, <3>1, <3>2
  <2>4. ASSUME crashes = 0, NEW row \in idp_pubkeys
        PROVE  (\E t \in idp_tree_hashes' : t.hash = row.pubkey) \/ IsAhead(row)'
    <3>1. HasTree(row.pubkey) \/ IsAhead(row)
      BY <2>4 DEF NaiveInductiveInv, TreesFit
    <3>2. CASE HasTree(row.pubkey)
      BY <1>5, <3>2 DEF HasTree
    <3>3. CASE IsAhead(row)
      <4>1. CASE row.token = r
        BY <1>5, <3>3, <4>1 DEF IsAhead, reg
      <4>2. CASE row.token # r
        BY <1>2, <3>3, <4>2 DEF IsAhead, NaiveInductiveInv, NaiveServerTypeOK
      <4> QED
        BY <4>1, <4>2
    <3> QED
      BY <3>1, <3>2, <3>3
  <2> QED
    BY <1>1, <1>6, <2>1, <2>2, <2>3, <2>4 DEF TreesFit, HasTree
<1>10. RequestsFit'
  <2>1. ASSUME NEW q \in Tokens PROVE RequestFits(q)'
    <3>1. CASE q = r
      BY <1>2, <3>1 DEF RequestFits
    <3>2. CASE q # r
      <4>1. requests'[q] = requests[q] /\ RequestFits(q)
        BY <1>2, <3>2 DEF NaiveInductiveInv, RequestsFit
      <4> QED
        BY <1>1, <1>2, <1>5, <1>6, <4>1 DEF RequestFits
    <3> QED
      BY <3>1, <3>2
  <2> QED
    BY <1>2, <2>1 DEF NaiveInductiveInv, RequestsFit, SameClaim
<1>11. RightsFit' /\ TaskFits'
  BY <1>1, <1>5, RunKept DEF naiveVars
<1> QED
  BY <1>7, <1>8, <1>9, <1>10, <1>11 DEF NaiveInductiveInv

LEMMA InsertProofRowInv ==
  ASSUME NaiveInductiveInv, NEW r \in Tokens, InsertProofRow(r),
         UNCHANGED <<naiveVars, task, inflight, crashes>>
  PROVE  NaiveInductiveInv'
<1> DEFINE k == requests[r].reg.pubkey
<1>1. /\ requests[r].state = "proof"
      /\ requests' = [requests EXCEPT ![r] = [state |-> "accepted", reg |-> None]]
      /\ InsertProofs(k, {k})
      /\ UNCHANGED <<idp_pubkeys, idp_tree_hashes, raced>>
  BY DEF InsertProofRow, Closes
<1>2. \/ idp_pubkey_in_tree' = idp_pubkey_in_tree
      \/ idp_pubkey_in_tree' = idp_pubkey_in_tree \cup {[hash |-> k, pubkey |-> k]}
  BY <1>1 DEF InsertProofs
<1>3. k \in Keys
  BY <1>1 DEF NaiveInductiveInv, NaiveServerTypeOK, Open, Registrations
<1> HIDE DEF k
<1>4. /\ requests' \in [Tokens -> RequestRecords]
      /\ requests'[r].state = "accepted"
      /\ \A q \in Tokens \ {r} : requests'[q] = requests[q]
  BY <1>1 DEF NaiveInductiveInv, NaiveServerTypeOK, RequestRecords
<1>5. /\ Open' \subseteq Open
      /\ \A q \in Open' : requests'[q] = requests[q]
      /\ \A row \in idp_pubkeys : IsAhead(row) => IsAhead(row)'
  BY <1>1, <1>4 DEF Open, IsAhead, NaiveInductiveInv, NaiveServerTypeOK
<1>6. NaiveServerTypeOK'
  <2>1. \A q \in Open' : requests'[q].reg \in Registrations
    BY <1>5 DEF NaiveInductiveInv, NaiveServerTypeOK
  <2>2. idp_pubkey_in_tree' \subseteq [hash : Keys, pubkey : Keys]
    BY <1>2, <1>3 DEF NaiveInductiveInv, NaiveServerTypeOK
  <2> QED
    BY <1>1, <1>4, <2>1, <2>2, ContractsKept
    DEF NaiveInductiveInv, NaiveServerTypeOK, naiveVars, RequestRecords
<1>7. RowsFit' /\ ProofsFit'
  BY <1>1, <1>2 DEF NaiveInductiveInv, RowsFit, ProofsFit
<1>8. TreesFit'
  BY <1>1, <1>5
  DEF NaiveInductiveInv, TreesFit, HasTree, IsRowFor, Excused, ValidateAuthorized, naiveVars
<1>9. RequestsFit'
  <2>1. ASSUME NEW q \in Tokens PROVE RequestFits(q)'
    <3>1. CASE q = r
      BY <1>4, <3>1 DEF RequestFits
    <3>2. CASE q # r
      BY <1>1, <1>4, <3>2
      DEF NaiveInductiveInv, RequestsFit, RequestFits, HasTree, IsRowFor, Excused
    <3> QED
      BY <3>1, <3>2
  <2> QED
    BY <1>1, <1>5, <2>1 DEF NaiveInductiveInv, RequestsFit, SameClaim
<1>10. RightsFit' /\ TaskFits'
  BY <1>1, RunKept DEF naiveVars, HasTreeFor
<1> QED
  BY <1>6, <1>7, <1>8, <1>9, <1>10 DEF NaiveInductiveInv

-----------------------------------------------------------------------------
(* A run of interval_task *)

\* Types and tables after a step of the run that only sends a transaction.
LEMMA RunKeepsTables ==
  ASSUME NaiveInductiveInv, UNCHANGED <<rowVars, naiveVars, crashes>>,
         task' \in TaskRecords, inflight' \in [account : Accounts, period : Periods] \cup {None}
  PROVE  NaiveServerTypeOK' /\ RowsFit' /\ RequestsFit' /\ TreesFit' /\ ProofsFit'
<1>1. NaiveServerTypeOK'
  BY ContractsKept DEF NaiveInductiveInv, NaiveServerTypeOK, rowVars, databaseVars, Open
<1> QED
  BY <1>1, TablesKept DEF rowVars, naiveVars

LEMMA RightsKept ==
  ASSUME NaiveInductiveInv, UNCHANGED <<rowVars, naiveVars, inflight>>
  PROVE  RightsFit' /\ \A a, p : HasTreeFor(a, p)' <=> HasTreeFor(a, p)
BY DEF NaiveInductiveInv, RightsFit, HasRight, HasTreeFor, rowVars, databaseVars, naiveVars

LEMMA StartTaskInv ==
  ASSUME NaiveInductiveInv, StartTask
  PROVE  NaiveInductiveInv'
<1> DEFINE new == [task EXCEPT !.pc = "query", !.period = now]
<1>1. /\ task.pc = "idle" /\ task' = new
      /\ UNCHANGED <<rowVars, naiveVars, inflight, crashes>>
  BY DEF StartTask, interval_lock
<1>2. task \in TaskRecords /\ now \in Periods /\ now \in 0 .. MaxPeriod
  BY DEF NaiveInductiveInv, NaiveServerTypeOK, NaiveTypeOK, IDPTypeOK, Periods
<1>3. new \in TaskRecords /\ new.pc = "query" /\ new.period = now /\ new.todo = task.todo
  BY <1>2 DEF TaskRecords
<1> HIDE DEF new
<1>4. TaskFits'
  BY <1>1, <1>2, <1>3 DEF NaiveInductiveInv, TaskFits
<1> QED
  BY <1>1, <1>3, <1>4, RunKeepsTables, RightsKept
  DEF NaiveInductiveInv, NaiveServerTypeOK

LEMMA SelectAccountsInv ==
  ASSUME NaiveInductiveInv, SelectAccounts
  PROVE  NaiveInductiveInv'
<1> DEFINE new == [task EXCEPT !.pc = "submit", !.todo = TreesToInclude(task.period)]
<1>1. /\ task.pc = "query" /\ task' = new
      /\ UNCHANGED <<rowVars, naiveVars, inflight, crashes>>
  BY DEF SelectAccounts
<1>2. task \in TaskRecords
  BY DEF NaiveInductiveInv, NaiveServerTypeOK
<1>3. /\ TreesToInclude(task.period) \in SUBSET Keys
      /\ \A key \in TreesToInclude(task.period) : HasTreeFor(key, task.period)
  BY DEF TreesToInclude, HasTreeFor, NaiveInductiveInv, NaiveServerTypeOK
<1>4. /\ new \in TaskRecords /\ new.pc = "submit" /\ new.period = task.period
      /\ new.todo = TreesToInclude(task.period)
  BY <1>2, <1>3 DEF TaskRecords
<1> HIDE DEF new
<1>5. TaskFits'
  BY <1>1, <1>3, <1>4, RightsKept DEF NaiveInductiveInv, TaskFits
<1> QED
  BY <1>1, <1>4, <1>5, RunKeepsTables, RightsKept
  DEF NaiveInductiveInv, NaiveServerTypeOK

LEMMA SubmitInv ==
  ASSUME NaiveInductiveInv, NEW pubkey \in Keys, Submit(pubkey)
  PROVE  NaiveInductiveInv'
<1> DEFINE new == [task EXCEPT !.pc = "mining", !.pubkey = pubkey]
           transaction == [account |-> Address[pubkey], period |-> task.period]
<1>1. /\ task.pc = "submit" /\ pubkey \in task.todo /\ task' = new
      /\ Address[pubkey] # None
      /\ inflight' = transaction
      /\ UNCHANGED <<rowVars, naiveVars, crashes>>
  BY DEF Submit, CanSend
<1>2. task \in TaskRecords /\ task.period \in Periods /\ HasTreeFor(pubkey, task.period)
  BY <1>1 DEF NaiveInductiveInv, NaiveServerTypeOK, TaskFits
<1>3. /\ new \in TaskRecords /\ new.pc = "mining" /\ new.period = task.period
      /\ new.todo = task.todo /\ new.pubkey = pubkey
  BY <1>2 DEF TaskRecords
<1>4. /\ transaction \in [account : Accounts, period : Periods]
      /\ transaction.account = Address[pubkey] /\ transaction.period = task.period
  BY <1>1, <1>2, AddressAssumption
<1>5. \A a, p : HasTreeFor(a, p)' <=> HasTreeFor(a, p)
  BY <1>1 DEF HasTreeFor, rowVars, databaseVars
<1>6. inflight' = [account |-> Address[task'.pubkey], period |-> task'.period]
  BY <1>1, <1>3
<1> HIDE DEF new, transaction
<1>7. RightsFit'
  BY <1>1, <1>2, <1>4, <1>5 DEF NaiveInductiveInv, RightsFit, HasRight, naiveVars
<1>8. TaskFits'
  BY <1>1, <1>2, <1>3, <1>5, <1>6 DEF NaiveInductiveInv, TaskFits
<1> QED
  BY <1>1, <1>3, <1>4, <1>7, <1>8, RunKeepsTables DEF NaiveInductiveInv

\* The account the run is busy with is left, tried or not.
LEMMA NextAccountFits ==
  ASSUME NaiveInductiveInv, NEW pubkey, task.pc \in {"submit", "mining", "update"},
         task' = NextAccount(pubkey),
         \A a, p : HasTreeFor(a, p) => HasTreeFor(a, p)'
  PROVE  task' \in TaskRecords /\ TaskFits'
<1>1. task \in TaskRecords
  BY DEF NaiveInductiveInv, NaiveServerTypeOK
<1>2. /\ task' \in TaskRecords /\ task'.pc = "submit" /\ task'.period = task.period
      /\ task'.todo \subseteq task.todo
  BY <1>1 DEF TaskRecords, NextAccount
<1> QED
  BY <1>2 DEF NaiveInductiveInv, TaskFits

LEMMA SubmitFailsInv ==
  ASSUME NaiveInductiveInv, NEW pubkey \in Keys, SubmitFails(pubkey)
  PROVE  NaiveInductiveInv'
<1>1. /\ task.pc = "submit" /\ task' = NextAccount(pubkey)
      /\ UNCHANGED <<rowVars, naiveVars, inflight, crashes>>
  BY DEF SubmitFails
<1>2. RightsFit' /\ \A a, p : HasTreeFor(a, p)' <=> HasTreeFor(a, p)
  BY <1>1, RightsKept
<1>3. task' \in TaskRecords /\ TaskFits'
  BY <1>1, <1>2, NextAccountFits
<1> QED
  BY <1>1, <1>2, <1>3, RunKeepsTables DEF NaiveInductiveInv, NaiveServerTypeOK

LEMMA RevertInv ==
  ASSUME NaiveInductiveInv, Revert
  PROVE  NaiveInductiveInv'
<1>1. /\ inflight # None /\ inflight' = None
      /\ task' = IF Waits THEN NextAccount(task.pubkey) ELSE task
      /\ UNCHANGED <<rowVars, naiveVars, crashes>>
  BY DEF Revert, AfterRevert
<1>2. task.pc = "mining" <=> Waits
  BY DEF NaiveInductiveInv, TaskFits, Waits
<1>3. \A a, p : HasTreeFor(a, p)' <=> HasTreeFor(a, p)
  BY <1>1 DEF HasTreeFor, rowVars, databaseVars
<1>4. RightsFit'
  BY <1>1, <1>3 DEF NaiveInductiveInv, RightsFit, HasRight, naiveVars
<1>5. task' \in TaskRecords /\ TaskFits'
  <2>1. CASE Waits
    BY <1>1, <1>2, <1>3, <2>1, NextAccountFits
  <2>2. CASE ~ Waits
    BY <1>1, <1>2, <1>3, <2>2
    DEF NaiveInductiveInv, NaiveServerTypeOK, TaskFits, ValidateAuthorized, naiveVars
  <2> QED
    BY <2>1, <2>2
<1> QED
  BY <1>1, <1>4, <1>5, RunKeepsTables DEF NaiveInductiveInv

\* The right to vote is entered for the account in flight and its period.
LEMMA MineInv ==
  ASSUME NaiveInductiveInv, Mine
  PROVE  NaiveInductiveInv'
<1> DEFINE new == [task EXCEPT !.pc = "update"]
<1>1. /\ inflight # None /\ inflight' = None
      /\ inflight.period = now
      /\ authorized' = authorized \cup {<<inflight.account, inflight.period>>}
      /\ task' = IF Waits THEN new ELSE task
      /\ UNCHANGED <<rowVars, idpVars, registryVars, crashes>>
  BY DEF Mine, SubmitVotingRight, CanSubmitVotingRight
<1>2. inflight.account \in Accounts /\ inflight.period \in Periods
  BY <1>1 DEF NaiveInductiveInv, NaiveServerTypeOK
<1>3. task \in TaskRecords
  BY DEF NaiveInductiveInv, NaiveServerTypeOK
<1>4. /\ new \in TaskRecords /\ new.pc = "update" /\ new.period = task.period
      /\ new.todo = task.todo /\ new.pubkey = task.pubkey
  BY <1>3 DEF TaskRecords
<1> HIDE DEF new
<1>5. /\ task.pc = "mining" <=> Waits
      /\ Waits => /\ inflight.account = Address[task.pubkey]
                  /\ inflight.period = task.period
  BY DEF NaiveInductiveInv, TaskFits, Waits
<1>6. \A a, p : HasTreeFor(a, p)' <=> HasTreeFor(a, p)
  BY <1>1 DEF HasTreeFor, rowVars, databaseVars
<1>7. NaiveTypeOK'
  BY <1>1, <1>2
  DEF NaiveInductiveInv, NaiveServerTypeOK, NaiveTypeOK, IDPTypeOK, idpVars, registryVars
<1>8. NaiveServerTypeOK'
  BY <1>1, <1>3, <1>4, <1>7
  DEF NaiveInductiveInv, NaiveServerTypeOK, rowVars, databaseVars, Open
<1>9. RowsFit' /\ RequestsFit' /\ TreesFit' /\ ProofsFit'
  BY <1>1, TablesKept DEF rowVars
<1>10. RightsFit'
  <2>1. HasRight(inflight.account, inflight.period)
    BY <1>1 DEF NaiveInductiveInv, RightsFit
  <2>2. \A a, p : HasRight(a, p) => HasRight(a, p)'
    BY <1>6 DEF HasRight
  <2>3. ASSUME NEW right \in authorized' PROVE HasRight(right[1], right[2])
    BY <1>1, <2>1, <2>3 DEF NaiveInductiveInv, RightsFit
  <2> QED
    BY <1>1, <2>2, <2>3 DEF RightsFit
<1>11. TaskFits'
  <2>1. CASE Waits
    <3>1. <<Address[task.pubkey], task.period>> \in authorized'
      BY <1>1, <1>5, <2>1
    <3> QED
      BY <1>1, <1>4, <1>5, <1>6, <2>1, <3>1
      DEF NaiveInductiveInv, TaskFits, ValidateAuthorized
  <2>2. CASE ~ Waits
    BY <1>1, <1>5, <1>6, <2>2 DEF NaiveInductiveInv, TaskFits, ValidateAuthorized
  <2> QED
    BY <2>1, <2>2
<1> QED
  BY <1>8, <1>9, <1>10, <1>11 DEF NaiveInductiveInv

\* Storing an iteration keeps the trees with their periods.
LEMMA UpdateEffect ==
  ASSUME NaiveInductiveInv, NEW hash, UpdateTreeWithIteration(hash, 1)
  PROVE  /\ \A tree \in idp_tree_hashes : \E u \in idp_tree_hashes' :
              /\ u.hash = tree.hash /\ u.period = tree.period
              /\ u.iteration = IF tree.hash = hash THEN 1 ELSE tree.iteration
         /\ \A u \in idp_tree_hashes' : \E tree \in idp_tree_hashes :
              /\ u.hash = tree.hash /\ u.period = tree.period
              /\ u.iteration = IF tree.hash = hash THEN 1 ELSE tree.iteration
         /\ \A u, v \in idp_tree_hashes' : u.hash = v.hash => u = v
         /\ idp_tree_hashes' \subseteq [hash : Keys, iteration : {NULL, 1}, period : Periods]
<1> DEFINE Rows == [hash : Keys, iteration : {NULL, 1}, period : Periods]
           New(tree) == IF tree.hash = hash THEN [tree EXCEPT !.iteration = 1] ELSE tree
<1>1. ASSUME NEW tree \in Rows
      PROVE  /\ New(tree) \in Rows
             /\ New(tree).hash = tree.hash /\ New(tree).period = tree.period
             /\ New(tree).iteration = IF tree.hash = hash THEN 1 ELSE tree.iteration
  OBVIOUS
<1>2. idp_tree_hashes' = {New(tree) : tree \in idp_tree_hashes}
  BY DEF UpdateTreeWithIteration
<1>3. idp_tree_hashes \subseteq Rows
  BY DEF NaiveInductiveInv, NaiveServerTypeOK
<1> HIDE DEF New, Rows
<1>4. \A tree \in idp_tree_hashes : New(tree) \in idp_tree_hashes'
  BY <1>2
<1>5. \A u \in idp_tree_hashes' : \E tree \in idp_tree_hashes : u = New(tree)
  BY <1>2
<1>6. idp_tree_hashes' \subseteq Rows
  BY <1>1, <1>3, <1>5
<1>7. \A u, v \in idp_tree_hashes' : u.hash = v.hash => u = v
  BY <1>1, <1>3, <1>5 DEF NaiveInductiveInv, TreesFit
<1> QED
  BY <1>1, <1>3, <1>4, <1>5, <1>6, <1>7 DEF Rows

LEMMA RecordSubmissionInv ==
  ASSUME NaiveInductiveInv, RecordSubmission
  PROVE  NaiveInductiveInv'
<1> DEFINE k == task.pubkey
<1>1. /\ task.pc = "update" /\ task' = NextAccount(k)
      /\ UpdateTreeWithIteration(k, 1)
      /\ UNCHANGED <<idp_pubkeys, idp_pubkey_in_tree, requests, raced, naiveVars, inflight,
                     crashes>>
  BY DEF RecordSubmission
<1>2. HasTreeFor(k, task.period) /\ ValidateAuthorized(Address[k], task.period)
  BY <1>1 DEF NaiveInductiveInv, TaskFits
<1>3. /\ \A tree \in idp_tree_hashes : \E u \in idp_tree_hashes' :
           /\ u.hash = tree.hash /\ u.period = tree.period
           /\ u.iteration = IF tree.hash = k THEN 1 ELSE tree.iteration
      /\ \A u \in idp_tree_hashes' : \E tree \in idp_tree_hashes :
           /\ u.hash = tree.hash /\ u.period = tree.period
           /\ u.iteration = IF tree.hash = k THEN 1 ELSE tree.iteration
      /\ \A u, v \in idp_tree_hashes' : u.hash = v.hash => u = v
      /\ idp_tree_hashes' \subseteq [hash : Keys, iteration : {NULL, 1}, period : Periods]
  BY <1>1, UpdateEffect
<1> HIDE DEF k
<1>4. \A a, p : HasTreeFor(a, p) <=> HasTreeFor(a, p)'
  BY <1>3 DEF HasTreeFor
<1>5. \A a : (\E u \in idp_tree_hashes' : u.hash = a) <=> HasTree(a)
  BY <1>3 DEF HasTree
<1>6. task' \in TaskRecords /\ TaskFits'
  BY <1>1, <1>4, NextAccountFits
<1>7. NaiveServerTypeOK'
  BY <1>1, <1>3, <1>6, ContractsKept
  DEF NaiveInductiveInv, NaiveServerTypeOK, Open, naiveVars
<1>8. RowsFit' /\ ProofsFit'
  BY <1>1 DEF NaiveInductiveInv, RowsFit, ProofsFit
<1>9. RequestsFit'
  BY <1>1, <1>5
  DEF NaiveInductiveInv, RequestsFit, RequestFits, Open, HasTree, IsRowFor, Excused, SameClaim
<1>10. TreesFit'
  <2>1. \A u \in idp_tree_hashes' :
          u.iteration # NULL => ValidateAuthorized(Address[u.hash], u.period)
    <3> SUFFICES ASSUME NEW u \in idp_tree_hashes', u.iteration # NULL
                 PROVE  ValidateAuthorized(Address[u.hash], u.period)
      OBVIOUS
    <3>1. PICK tree \in idp_tree_hashes :
            /\ u.hash = tree.hash /\ u.period = tree.period
            /\ u.iteration = IF tree.hash = k THEN 1 ELSE tree.iteration
      BY <1>3
    <3>2. CASE tree.hash = k
      BY <1>2, <3>1, <3>2 DEF NaiveInductiveInv, TreesFit, HasTreeFor
    <3>3. CASE tree.hash # k
      BY <3>1, <3>3 DEF NaiveInductiveInv, TreesFit
    <3> QED
      BY <3>2, <3>3
  <2>2. \A row, key, period : /\ IsRowFor(row, key, period)' <=> IsRowFor(row, key, period)
                             /\ IsAhead(row)' <=> IsAhead(row)
    BY <1>1 DEF IsRowFor, Excused, IsAhead
  <2>3. \A u \in idp_tree_hashes' : \E row \in idp_pubkeys : IsRowFor(row, u.hash, u.period)'
    <3>1. \A u \in idp_tree_hashes' : \E row \in idp_pubkeys : IsRowFor(row, u.hash, u.period)
      BY <1>3 DEF NaiveInductiveInv, TreesFit
    <3> QED
      BY <1>1, <3>1 DEF IsRowFor, Excused
  <2>4. crashes = 0 => \A row \in idp_pubkeys :
          (\E u \in idp_tree_hashes' : u.hash = row.pubkey) \/ IsAhead(row)'
    <3>1. crashes = 0 => \A row \in idp_pubkeys :
            (\E u \in idp_tree_hashes' : u.hash = row.pubkey) \/ IsAhead(row)
      BY <1>5 DEF NaiveInductiveInv, TreesFit
    <3> QED
      BY <2>2, <3>1
  <2> QED
    BY <1>1, <1>3, <2>1, <2>2, <2>3, <2>4 DEF TreesFit, HasTree, ValidateAuthorized, naiveVars
<1>11. RightsFit'
  BY <1>1, <1>4 DEF NaiveInductiveInv, RightsFit, HasRight, naiveVars
<1> QED
  BY <1>6, <1>7, <1>8, <1>9, <1>10, <1>11 DEF NaiveInductiveInv

\* A run that is not there knows nothing.
LEMMA IdleFits ==
  ASSUME NaiveInductiveInv, task' = IdleTask
  PROVE  task' \in TaskRecords /\ TaskFits'
BY PeriodAssumption DEF IdleTask, TaskRecords, TaskFits

LEMMA EndTaskInv ==
  ASSUME NaiveInductiveInv, EndTask
  PROVE  NaiveInductiveInv'
<1>1. /\ task' = IdleTask
      /\ UNCHANGED <<rowVars, naiveVars, inflight, crashes>>
  BY DEF EndTask
<1> QED
  BY <1>1, IdleFits, RunKeepsTables, RightsKept DEF NaiveInductiveInv, NaiveServerTypeOK

LEMMA CrashInv ==
  ASSUME NaiveInductiveInv, Crash
  PROVE  NaiveInductiveInv'
<1>1. /\ crashes' = crashes + 1
      /\ requests' = [r \in Tokens |->
           IF r \in Open THEN [state |-> "lost", reg |-> None] ELSE requests[r]]
      /\ task' = IdleTask
      /\ inflight' \in {inflight, None}
      /\ UNCHANGED <<databaseVars, raced, naiveVars>>
  BY DEF Crash, RequestsLost
<1>2. crashes \in Nat /\ crashes' \in Nat /\ crashes' > 0 /\ crashes' >= crashes
  BY <1>1 DEF NaiveInductiveInv, NaiveServerTypeOK
<1>3. /\ requests' \in [Tokens -> RequestRecords]
      /\ \A r \in Tokens : requests'[r] = requests[r] \/ requests'[r].state = "lost"
  BY <1>1 DEF NaiveInductiveInv, NaiveServerTypeOK, RequestRecords
<1>4. Open' = {}
  BY <1>1, <1>3 DEF Open
<1>5. task' \in TaskRecords /\ TaskFits'
  BY <1>1, IdleFits
<1>6. NaiveServerTypeOK'
  BY <1>1, <1>2, <1>3, <1>4, <1>5, ContractsKept
  DEF NaiveInductiveInv, NaiveServerTypeOK, databaseVars, naiveVars, RequestRecords
<1>7. RowsFit' /\ ProofsFit'
  BY <1>1 DEF NaiveInductiveInv, RowsFit, ProofsFit, databaseVars
<1>8. \A key, period : (\E row \in idp_pubkeys : IsRowFor(row, key, period))
                         => \E row \in idp_pubkeys' : IsRowFor(row, key, period)'
  BY <1>1, <1>2, RowsForKept DEF databaseVars
<1>9. TreesFit'
  BY <1>1, <1>2, <1>8
  DEF NaiveInductiveInv, TreesFit, ValidateAuthorized, databaseVars, naiveVars
<1>10. RequestsFit'
  <2> SUFFICES ASSUME NEW r \in Tokens PROVE RequestFits(r)'
    BY <1>4 DEF RequestsFit
  <2>1. RequestFits(r) /\ (requests'[r] = requests[r] \/ requests'[r].state = "lost")
    BY <1>3 DEF NaiveInductiveInv, RequestsFit
  <2>2. requests'[r].state \notin {"check", "pubkey", "tree"}
    BY <1>4 DEF Open
  <2> QED
    BY <1>1, <2>1, <2>2 DEF RequestFits, databaseVars
<1>11. RightsFit'
  BY <1>1 DEF NaiveInductiveInv, RightsFit, HasRight, HasTreeFor, databaseVars, naiveVars
<1> QED
  BY <1>5, <1>6, <1>7, <1>9, <1>10, <1>11 DEF NaiveInductiveInv

-----------------------------------------------------------------------------
(* Steps at the contracts *)

\* A new petition has no signatures and a period that is not over.
LEMMA NaiveCreatePetitionEffect ==
  ASSUME NaiveInductiveInv, NEW name \in Names, NEW p \in 0 .. MaxPeriod,
         NaiveCreatePetition(name, p)
  PROVE  \E q \in PetitionPeriods : \E new \in PetitionRecords(Accounts) :
           /\ q >= now
           /\ new.period = q /\ new.hasSigned = {} /\ new.signers = 0
           /\ petitions' = Append(petitions, new)
           /\ petitionId' \in Nat
           /\ UNCHANGED <<idpVars, authorized>>
<1> DEFINE q == AssignedPeriod(p)
           new == [id |-> InternalId(petitionId + 1, name), period |-> q,
                   hasSigned |-> {}, signers |-> 0]
<1>1. petitionId \in Nat
  BY DEF NaiveInductiveInv, NaiveServerTypeOK, NaiveTypeOK
<1>2. q \in PetitionPeriods /\ q >= now
  BY PeriodAssumption
  DEF NaiveCreatePetition, CreatePetition, PeriodAllowed, AssignedPeriod, PetitionPeriods,
      NaiveInductiveInv, NaiveServerTypeOK, NaiveTypeOK, IDPTypeOK, Periods
<1>3. /\ new \in PetitionRecords(Accounts)
      /\ new.period = q /\ new.hasSigned = {} /\ new.signers = 0
  BY <1>1, <1>2 DEF PetitionRecords, PetitionIds, InternalId
<1>4. /\ petitions' = Append(petitions, new)
      /\ petitionId' \in Nat
      /\ UNCHANGED <<idpVars, authorized>>
  BY <1>1 DEF NaiveCreatePetition, CreatePetition
<1> HIDE DEF new, q
<1> QED
  BY <1>2, <1>3, <1>4

\* A petition record with one more mark.
LEMMA MarkedRecord ==
  ASSUME NEW S, NEW rec \in PetitionRecords(S), NEW marks \in SUBSET S, NEW count \in Nat
  PROVE  [rec EXCEPT !.hasSigned = marks, !.signers = count] \in PetitionRecords(S)
BY DEF PetitionRecords

\* A signature is a new mark of its sender, and is counted.
LEMMA NaiveSignEffect ==
  ASSUME NaiveInductiveInv, NEW sender \in Accounts, NEW i \in DOMAIN petitions,
         NaiveSign(sender, i)
  PROVE  \E signed \in PetitionRecords(Accounts) :
           /\ <<sender, petitions[i].period>> \in authorized
           /\ sender \notin petitions[i].hasSigned
           /\ petitions[i].period = now
           /\ signed.period = petitions[i].period
           /\ signed.hasSigned = petitions[i].hasSigned \cup {sender}
           /\ signed.signers = petitions[i].signers + 1
           /\ petitions' = [petitions EXCEPT ![i] = signed]
           /\ UNCHANGED <<idpVars, petitionId, authorized>>
<1> DEFINE signed == [petitions[i] EXCEPT !.hasSigned = petitions[i].hasSigned \cup {sender},
                                          !.signers = petitions[i].signers + 1]
<1>1. /\ petitions \in Seq(PetitionRecords(Accounts))
      /\ petitions[i] \in PetitionRecords(Accounts)
  BY DEF NaiveInductiveInv, NaiveServerTypeOK, NaiveTypeOK
<1>2. petitions' = [petitions EXCEPT ![i] = signed]
  BY <1>1 DEF NaiveSign, RecordSignature
<1>3. /\ signed \in PetitionRecords(Accounts)
      /\ signed.period = petitions[i].period
      /\ signed.hasSigned = petitions[i].hasSigned \cup {sender}
      /\ signed.signers = petitions[i].signers + 1
  <2>1. /\ petitions[i].hasSigned \cup {sender} \in SUBSET Accounts
        /\ petitions[i].signers + 1 \in Nat
    BY <1>1 DEF PetitionRecords
  <2>2. signed \in PetitionRecords(Accounts)
    BY <1>1, <2>1, MarkedRecord
  <2> QED
    BY <1>1, <2>2 DEF PetitionRecords
<1>4. /\ <<sender, petitions[i].period>> \in authorized
      /\ sender \notin petitions[i].hasSigned
      /\ petitions[i].period = now
      /\ UNCHANGED <<idpVars, petitionId, authorized>>
  BY DEF NaiveSign, NaiveCanSign, NotSignedYet, ValidateAuthorized
<1> HIDE DEF signed
<1> QED
  BY <1>2, <1>3, <1>4

LEMMA AtContractsInv ==
  ASSUME NaiveInductiveInv, AtContracts
  PROVE  NaiveInductiveInv'
<1>1. UNCHANGED <<rowVars, task, inflight, crashes>>
  BY DEF AtContracts
<1>2. NaiveTypeOK' /\ authorized' = authorized
  <2>1. CASE NaiveNewPeriod
    BY <2>1
    DEF NaiveNewPeriod, NewPeriod, registryVars, NaiveInductiveInv, NaiveServerTypeOK,
        NaiveTypeOK, IDPTypeOK
  <2>2. ASSUME NEW newOperator \in Accounts, NaiveChangeOperator(operator, newOperator)
        PROVE  NaiveTypeOK' /\ authorized' = authorized
    BY <2>2
    DEF NaiveChangeOperator, ChangeOperator, registryVars, NaiveInductiveInv,
        NaiveServerTypeOK, NaiveTypeOK, IDPTypeOK
  <2>3. ASSUME NEW name \in Names, NEW p \in 0 .. MaxPeriod, NaiveCreatePetition(name, p)
        PROVE  NaiveTypeOK' /\ authorized' = authorized
    <3>1. PICK q \in PetitionPeriods, new \in PetitionRecords(Accounts) :
            /\ petitions' = Append(petitions, new)
            /\ petitionId' \in Nat
            /\ UNCHANGED <<idpVars, authorized>>
      BY <2>3, NaiveCreatePetitionEffect
    <3>2. petitions' \in Seq(PetitionRecords(Accounts))
      BY <3>1, AppendProperties DEF NaiveInductiveInv, NaiveServerTypeOK, NaiveTypeOK
    <3> QED
      BY <3>1, <3>2
      DEF NaiveInductiveInv, NaiveServerTypeOK, NaiveTypeOK, IDPTypeOK, idpVars
  <2>4. ASSUME NEW sender \in Accounts, NEW i \in DOMAIN petitions, NaiveSign(sender, i)
        PROVE  NaiveTypeOK' /\ authorized' = authorized
    <3>1. PICK signed \in PetitionRecords(Accounts) :
            /\ petitions' = [petitions EXCEPT ![i] = signed]
            /\ UNCHANGED <<idpVars, petitionId, authorized>>
      BY <2>4, NaiveSignEffect
    <3>2. petitions' \in Seq(PetitionRecords(Accounts))
      BY <3>1, ExceptSeq DEF NaiveInductiveInv, NaiveServerTypeOK, NaiveTypeOK
    <3> QED
      BY <3>1, <3>2
      DEF NaiveInductiveInv, NaiveServerTypeOK, NaiveTypeOK, IDPTypeOK, idpVars
  <2> QED
    BY <2>1, <2>2, <2>3, <2>4 DEF AtContracts
<1>3. NaiveServerTypeOK'
  BY <1>1, <1>2 DEF NaiveInductiveInv, NaiveServerTypeOK, rowVars, databaseVars, Open
<1>4. RowsFit' /\ RequestsFit' /\ TreesFit' /\ ProofsFit'
  BY <1>1, <1>2, TablesKept DEF rowVars
<1>5. RightsFit' /\ TaskFits'
  BY <1>1, <1>2, RunKept DEF rowVars, databaseVars, HasTreeFor
<1> QED
  BY <1>3, <1>4, <1>5 DEF NaiveInductiveInv

LEMMA NaiveNextInv ==
  NaiveInductiveInv /\ [NaiveServerNext]_naiveServerVars => NaiveInductiveInv'
<1> SUFFICES ASSUME NaiveInductiveInv, [NaiveServerNext]_naiveServerVars
             PROVE  NaiveInductiveInv'
  OBVIOUS
<1>1. ASSUME NEW r \in Tokens, NaiveRegister(r)
      PROVE  NaiveInductiveInv'
  BY <1>1, NaiveArriveInv, CheckInv, InsertPubkeyInv, InsertTreeRowInv, InsertProofRowInv
  DEF NaiveRegister
<1>2. CASE TaskStep
  BY <1>2, StartTaskInv, SelectAccountsInv, SubmitInv, SubmitFailsInv, RecordSubmissionInv,
     EndTaskInv
  DEF TaskStep
<1>3. CASE Mine \/ Revert
  BY <1>3, MineInv, RevertInv
<1>4. CASE Crash
  BY <1>4, CrashInv
<1>5. CASE AtContracts
  BY <1>5, AtContractsInv
<1>6. CASE UNCHANGED naiveServerVars
  <2>1. UNCHANGED <<rowVars, naiveVars, task, inflight, crashes>>
    BY <1>6 DEF naiveServerVars
  <2>2. task' \in TaskRecords /\ inflight' \in [account : Accounts, period : Periods] \cup {None}
    BY <2>1 DEF NaiveInductiveInv, NaiveServerTypeOK
  <2>3. RightsFit' /\ TaskFits'
    BY <2>1, RunKept DEF rowVars, databaseVars, naiveVars, HasTreeFor
  <2> QED
    BY <2>1, <2>2, <2>3, RunKeepsTables DEF NaiveInductiveInv
<1> QED
  BY <1>1, <1>2, <1>3, <1>4, <1>5, <1>6 DEF NaiveServerNext

\* Tables, rights, the run and its transaction fit together in every
\* reachable state.
THEOREM NaiveInvariance == NaiveServerSpec => []NaiveInductiveInv
  BY NaiveInitInv, NaiveNextInv, PTL DEF NaiveServerSpec

\* The variables have their types in every reachable state.
THEOREM NaiveTypeCorrect == NaiveServerSpec => []NaiveServerTypeOK
<1>1. NaiveInductiveInv => NaiveServerTypeOK
  BY DEF NaiveInductiveInv
<1> QED
  BY <1>1, NaiveInvariance, PTL

\* Who is served has the right to vote for the period of the answer.
THEOREM ServedHaveTheRight == NaiveServerSpec => []ServedAreAuthorized
<1>1. NaiveInductiveInv => ServedAreAuthorized
  <2> SUFFICES ASSUME NaiveInductiveInv, NEW token \in Tokens, NEW info \in ProofInfo(token)
               PROVE  ValidateAuthorized(Address[info.pubkey], info.period)
    BY DEF ServedAreAuthorized
  <2>1. PICK q \in idp_pubkeys \X idp_tree_hashes :
          /\ q[2].iteration # NULL
          /\ [hash |-> q[2].hash, pubkey |-> q[1].pubkey] \in idp_pubkey_in_tree
          /\ info = [pubkey |-> q[1].pubkey, hash |-> q[2].hash,
                     iteration |-> q[2].iteration, period |-> q[2].period]
    BY DEF ProofInfo
  <2>2. q[2] \in idp_tree_hashes
    OBVIOUS
  <2>3. PICK e \in idp_pubkey_in_tree : e.hash = q[2].hash /\ e.pubkey = q[1].pubkey
    BY <2>1
  <2>4. q[1].pubkey = q[2].hash
    BY <2>3 DEF NaiveInductiveInv, ProofsFit
  <2>5. ValidateAuthorized(Address[q[2].hash], q[2].period)
    BY <2>1, <2>2 DEF NaiveInductiveInv, TreesFit
  <2>6. info.pubkey = q[1].pubkey /\ info.period = q[2].period
    BY <2>1
  <2> QED
    BY <2>4, <2>5, <2>6
<1> QED
  BY <1>1, NaiveInvariance, PTL

\* However requests interleave, rights are of registered accounts only, and for
\* the period of their rows unless a race or a kill has mixed two registrations
\* up; two rows of one identity in a period are of requests that raced each other.
THEOREM RightsOfRegistered == NaiveServerSpec => []RightsAreRegistered
<1>1. NaiveInductiveInv => RightsAreRegistered
  <2> SUFFICES ASSUME NaiveInductiveInv PROVE RightsAreRegistered
    OBVIOUS
  <2>1. ASSUME NEW right \in authorized
        PROVE  \E row \in idp_pubkeys :
                 /\ Address[row.pubkey] = right[1]
                 /\ row.period = right[2] \/ Excused(row)
    <3>1. PICK key \in Keys : Address[key] = right[1] /\ HasTreeFor(key, right[2])
      BY DEF NaiveInductiveInv, RightsFit, HasRight
    <3>2. PICK tree \in idp_tree_hashes : tree.hash = key /\ tree.period = right[2]
      BY <3>1 DEF HasTreeFor
    <3>3. PICK row \in idp_pubkeys : IsRowFor(row, tree.hash, tree.period)
      BY DEF NaiveInductiveInv, TreesFit
    <3> QED
      BY <3>1, <3>2, <3>3 DEF IsRowFor
  <2>2. \A p, q \in idp_pubkeys :
          p.identity = q.identity /\ p.period = q.period
            => p = q \/ {p.token, q.token} \in raced
    BY DEF NaiveInductiveInv, RowsFit
  <2> QED
    BY <2>1, <2>2 DEF RightsAreRegistered, Excused
<1> QED
  BY <1>1, NaiveInvariance, PTL

-----------------------------------------------------------------------------
(* The contracts keep the promise of the ballot *)

\* A petition seen as a ballot, and all of them.
BallotOf(petition) ==
  [period |-> petition.period, voted |-> petition.hasSigned, count |-> petition.signers]

Ballots == [period : PetitionPeriods, voted : SUBSET Accounts, count : Nat]

BallotsOf ==
  [i \in 1 .. Len(petitions) |->
     [period |-> petitions[i].period,
      voted  |-> petitions[i].hasSigned,
      count  |-> petitions[i].signers]]

\* Appending an element to a sequence given as a function on 1 .. n.
LEMMA AppendIsExtension ==
  ASSUME NEW S, NEW n \in Nat, NEW s \in [1 .. n -> S], NEW e \in S
  PROVE  Append(s, e) = [i \in 1 .. n + 1 |-> IF i = n + 1 THEN e ELSE s[i]]
<1> DEFINE t == [i \in 1 .. n + 1 |-> IF i = n + 1 THEN e ELSE s[i]]
<1>1. s \in Seq(S) /\ Len(s) = n
  OBVIOUS
<1>2. /\ Append(s, e) \in Seq(S)
      /\ Len(Append(s, e)) = n + 1
      /\ \A i \in 1 .. n : Append(s, e)[i] = s[i]
      /\ Append(s, e)[n + 1] = e
  BY <1>1, AppendProperties
<1>3. t \in Seq(S) /\ Len(t) = n + 1
  OBVIOUS
<1>4. ASSUME NEW i \in 1 .. n + 1
      PROVE  Append(s, e)[i] = t[i]
  BY <1>2
<1> QED
  BY <1>2, <1>3, <1>4, SeqEqual

LEMMA PromiseInit == NaiveServerInit => NaivePromise!BallotInit
BY DEF NaiveServerInit, NaiveInit, IDPInit, RegistryInit, NaivePromise!BallotInit

LEMMA BallotsTypeOK ==
  ASSUME NaiveInductiveInv
  PROVE  /\ petitions \in Seq(PetitionRecords(Accounts))
         /\ Len(petitions) \in Nat /\ DOMAIN petitions = 1 .. Len(petitions)
         /\ BallotsOf = [i \in 1 .. Len(petitions) |-> BallotOf(petitions[i])]
         /\ BallotsOf \in [1 .. Len(petitions) -> Ballots]
<1>1. /\ petitions \in Seq(PetitionRecords(Accounts))
      /\ Len(petitions) \in Nat /\ DOMAIN petitions = 1 .. Len(petitions)
  BY DEF NaiveInductiveInv, NaiveServerTypeOK, NaiveTypeOK
<1>2. BallotsOf = [i \in 1 .. Len(petitions) |-> BallotOf(petitions[i])]
  BY DEF BallotsOf, BallotOf
<1>3. \A i \in 1 .. Len(petitions) : BallotOf(petitions[i]) \in Ballots
  <2>1. ASSUME NEW i \in 1 .. Len(petitions) PROVE petitions[i] \in PetitionRecords(Accounts)
    BY <1>1
  <2> QED
    BY <2>1 DEF BallotOf, Ballots, PetitionRecords
<1> QED
  BY <1>1, <1>2, <1>3

\* A new petition is a ballot without votes.
LEMMA NaiveCreatePetitionOpens ==
  ASSUME NaiveInductiveInv, NEW name \in Names, NEW p \in 0 .. MaxPeriod,
         NaiveCreatePetition(name, p)
  PROVE  \E q \in PetitionPeriods : NaivePromise!Open(q)
<1> DEFINE n == Len(petitions)
<1>1. PICK q \in PetitionPeriods, new \in PetitionRecords(Accounts) :
        /\ q >= now
        /\ new.period = q /\ new.hasSigned = {} /\ new.signers = 0
        /\ petitions' = Append(petitions, new)
        /\ UNCHANGED <<idpVars, authorized>>
  BY NaiveCreatePetitionEffect
<1> DEFINE ballot == [period |-> q, voted |-> {}, count |-> 0]
<1>2. /\ petitions \in Seq(PetitionRecords(Accounts)) /\ n \in Nat
      /\ BallotsOf = [i \in 1 .. n |-> BallotOf(petitions[i])]
      /\ BallotsOf \in [1 .. n -> Ballots]
  BY BallotsTypeOK
<1>3. /\ Len(petitions') = n + 1
      /\ petitions'[n + 1] = new
      /\ \A i \in 1 .. n : petitions'[i] = petitions[i]
  BY <1>1, <1>2, AppendProperties
<1>4. ballot \in Ballots /\ BallotOf(new) = ballot
  BY <1>1 DEF Ballots, BallotOf
<1> HIDE DEF ballot
<1>5. BallotsOf' = [i \in 1 .. n + 1 |-> BallotOf(petitions'[i])]
  BY <1>3 DEF BallotsOf, BallotOf
<1>6. \A i \in 1 .. n + 1 :
        BallotOf(petitions'[i]) = IF i = n + 1 THEN ballot ELSE BallotsOf[i]
  BY <1>2, <1>3, <1>4
<1>7. BallotsOf' = [i \in 1 .. n + 1 |-> IF i = n + 1 THEN ballot ELSE BallotsOf[i]]
  BY <1>5, <1>6
<1>8. BallotsOf' = Append(BallotsOf, ballot)
  BY <1>2, <1>4, <1>7, AppendIsExtension
<1> QED
  BY <1>1, <1>8 DEF NaivePromise!Open, BallotsOf, ballot, idpVars

LEMMA VotedBallot ==
  ASSUME NEW ballot \in Ballots, NEW voter
  PROVE  [ballot EXCEPT !.voted = @ \cup {voter}, !.count = @ + 1]
           = [period |-> ballot.period,
              voted  |-> ballot.voted \cup {voter},
              count  |-> ballot.count + 1]
<1> DEFINE Only == [period : {ballot.period},
                    voted  : {ballot.voted \cup {voter}},
                    count  : {ballot.count + 1}]
           after == [ballot EXCEPT !.voted = @ \cup {voter}, !.count = @ + 1]
           record == [period |-> ballot.period,
                      voted  |-> ballot.voted \cup {voter},
                      count  |-> ballot.count + 1]
<1>1. after \in Only
  BY DEF Ballots
<1>2. record \in Only
  OBVIOUS
<1> HIDE DEF after, record
<1>3. after = record
  BY <1>1, <1>2
<1> QED
  BY <1>3 DEF after, record

\* A signature is a vote of its sender.
LEMMA NaiveSignVotes ==
  ASSUME NaiveInductiveInv, NEW sender \in Accounts, NEW i \in DOMAIN petitions,
         NaiveSign(sender, i)
  PROVE  NaivePromise!Vote(i, sender)
<1> DEFINE n == Len(petitions)
<1>1. PICK signed \in PetitionRecords(Accounts) :
        /\ <<sender, petitions[i].period>> \in authorized
        /\ sender \notin petitions[i].hasSigned
        /\ petitions[i].period = now
        /\ signed.period = petitions[i].period
        /\ signed.hasSigned = petitions[i].hasSigned \cup {sender}
        /\ signed.signers = petitions[i].signers + 1
        /\ petitions' = [petitions EXCEPT ![i] = signed]
        /\ UNCHANGED <<idpVars, petitionId, authorized>>
  BY NaiveSignEffect
<1>2. /\ petitions \in Seq(PetitionRecords(Accounts)) /\ n \in Nat /\ i \in 1 .. n
      /\ BallotsOf = [j \in 1 .. n |-> BallotOf(petitions[j])]
      /\ BallotsOf \in [1 .. n -> Ballots]
  BY BallotsTypeOK
<1>3. /\ Len(petitions') = n
      /\ petitions'[i] = signed
      /\ \A j \in (1 .. n) \ {i} : petitions'[j] = petitions[j]
  BY <1>1, <1>2
<1>4. BallotsOf' = [j \in 1 .. n |-> BallotOf(petitions'[j])]
  BY <1>3 DEF BallotsOf, BallotOf
<1>5. /\ BallotsOf[i].period = petitions[i].period
      /\ BallotsOf[i].voted = petitions[i].hasSigned
      /\ BallotsOf[i].count = petitions[i].signers
  BY <1>2 DEF BallotOf
<1> DEFINE vote == [BallotsOf[i] EXCEPT !.voted = @ \cup {sender}, !.count = @ + 1]
<1>6. BallotOf(signed) = vote
  <2>1. BallotsOf[i] \in Ballots
    BY <1>2
  <2>2. vote = [period |-> petitions[i].period,
                voted  |-> petitions[i].hasSigned \cup {sender},
                count  |-> petitions[i].signers + 1]
    BY <1>5, <2>1, VotedBallot
  <2> QED
    BY <1>1, <2>2 DEF BallotOf
<1>7. BallotsOf' = [BallotsOf EXCEPT ![i] = vote]
  <2> HIDE DEF vote
  <2>1. \A j \in 1 .. n : BallotOf(petitions'[j]) = IF j = i THEN vote ELSE BallotsOf[j]
    BY <1>2, <1>3, <1>6
  <2> QED
    BY <1>2, <1>4, <2>1
<1>8. BallotsOf' = [BallotsOf EXCEPT ![i].voted = @ \cup {sender}, ![i].count = @ + 1]
  BY <1>2, <1>7
<1> QED
  BY <1>1, <1>5, <1>8 DEF NaivePromise!Vote, BallotsOf, idpVars

LEMMA NaiveStepSimulation ==
  ASSUME NaiveInductiveInv, [NaiveServerNext]_naiveServerVars
  PROVE  [NaivePromise!BallotNext]_(NaivePromise!ballotVars)
<1>1. CASE Mine
  <2>1. /\ inflight # None /\ inflight.period = now
        /\ authorized' = authorized \cup {<<inflight.account, inflight.period>>}
        /\ UNCHANGED <<idpVars, registryVars>>
    BY <1>1 DEF Mine, SubmitVotingRight, CanSubmitVotingRight
  <2>2. inflight.account \in Accounts
    BY <2>1 DEF NaiveInductiveInv, NaiveServerTypeOK
  <2>3. authorized' = authorized \cup ({inflight.account} \X {now})
    BY <2>1
  <2>4. NaivePromise!Admit({inflight.account})
    BY <2>1, <2>3 DEF NaivePromise!Admit, idpVars, registryVars
  <2> QED
    BY <2>2, <2>4 DEF NaivePromise!BallotNext
<1>2. CASE NaiveNewPeriod
  <2>1. NaivePromise!NewDay
    BY <1>2 DEF NaiveNewPeriod, NewPeriod, Periods, registryVars, NaivePromise!NewDay
  <2> QED
    BY <2>1 DEF NaivePromise!BallotNext
<1>3. ASSUME NEW name \in Names, NEW p \in 0 .. MaxPeriod, NaiveCreatePetition(name, p)
      PROVE  NaivePromise!BallotNext
  BY <1>3, NaiveCreatePetitionOpens DEF NaivePromise!BallotNext
<1>4. ASSUME NEW sender \in Accounts, NEW i \in DOMAIN petitions, NaiveSign(sender, i)
      PROVE  NaivePromise!BallotNext
  <2>1. NaivePromise!Vote(i, sender)
    BY <1>4, NaiveSignVotes
  <2>2. i \in DOMAIN BallotsOf
    BY BallotsTypeOK
  <2> QED
    BY <2>1, <2>2 DEF NaivePromise!BallotNext, BallotsOf
<1>5. ASSUME UNCHANGED <<now, petitions, authorized>>
      PROVE  UNCHANGED NaivePromise!ballotVars
  BY <1>5 DEF NaivePromise!ballotVars
<1>6. CASE \E newOperator \in Accounts : NaiveChangeOperator(operator, newOperator)
  BY <1>5, <1>6 DEF NaiveChangeOperator, ChangeOperator, registryVars
<1>7. CASE \/ \E r \in Tokens : NaiveRegister(r)
           \/ TaskStep
           \/ Revert
           \/ Crash
           \/ UNCHANGED naiveServerVars
  <2>1. UNCHANGED naiveVars
    BY <1>7
    DEF NaiveRegister, TaskStep, StartTask, SelectAccounts, Submit, SubmitFails,
        RecordSubmission, EndTask, Revert, Crash, naiveServerVars
  <2> QED
    BY <1>5, <2>1 DEF naiveVars, idpVars, registryVars
<1> QED
  BY <1>1, <1>2, <1>3, <1>4, <1>6, <1>7 DEF NaiveServerNext, AtContracts

\* The naive contracts keep the promise of the ballot in its strict form:
\* petitions are signed during their period only.
THEOREM NaiveImplementsTimelyBallot == NaiveServerSpec => ImplementsTimelyBallot
<1>1. NaiveInductiveInv /\ [NaiveServerNext]_naiveServerVars
        => [NaivePromise!BallotNext]_(NaivePromise!ballotVars)
  BY NaiveStepSimulation
<1> QED
  BY <1>1, PromiseInit, NaiveInvariance, PTL
  DEF NaiveServerSpec, ImplementsTimelyBallot, NaivePromise!BallotSpec

=============================================================================
