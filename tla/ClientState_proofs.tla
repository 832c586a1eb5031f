------------------------- MODULE ClientState_proofs -------------------------
(***************************************************************************)
(* Proofs about the main page: about ClientState, that replies, dates,     *)
(* failures, clicks and timers leave what is shown as it should be however *)
(* they interleave, and about ProvingWorker, that the overlay keeps apart  *)
(* the jobs which share the worker.                                        *)
(***************************************************************************)
EXTENDS ClientState, ProvingWorker, FiniteSetTheorems, SequenceTheorems, TLAPS

-----------------------------------------------------------------------------
(* ClientState: the inductive invariant *)

Calling == {"period", "list", "flags", "timers"}

RunRecords ==
  [pc : Calling \cup {"idle", "sign", "create", "failed"}, petition : Nat, listed : Nat]

Answers == [period : Periods, count : Nat, signed : SUBSET Nat]

CallRecords ==
  [run : Runs \cup {0}, pre : Nat, reply : {<< >>} \cup {<<a>> : a \in Answers}]

AppRecords == [period : Periods \cup {Unknown}, customPeriod : BOOLEAN, locked : BOOLEAN]

PageRecords == [list : Seq(BOOLEAN), dates : Periods \cup {Unknown}]

RepositoryRecords == [period : Periods \cup {Unknown}, signable : Seq(BOOLEAN),
                      cached : SUBSET Periods, timers : BOOLEAN]

PastRecords == [told : SUBSET Nat, missed : SUBSET Periods]

PageTypes ==
  /\ now \in Periods /\ onChain \in Seq(Periods) /\ signed \subseteq DOMAIN onChain
  /\ app \in AppRecords /\ page \in PageRecords /\ repository \in RepositoryRecords
  /\ runs \in [Runs -> RunRecords]
  /\ calls \in Seq(CallRecords)
  /\ fetches \subseteq {"widget", "repository"} \X Periods
  /\ failures \in 0 .. MaxFailures
  /\ past \in PastRecords

Replied(c) == c.reply # << >>

\* The signatures a reply knows of.
Known(c) == Head(c.reply).signed

\* A run has one call at a time.
OneCallEach(q) == \A i, j \in DOMAIN q : i < j => q[i].run # q[j].run \/ q[j].run = 0

\* The runs that wait have a call.  Petitions are there when they are listed and
\* when they are signed.
CallsOfRuns ==
  /\ OneCallEach(calls)
  /\ \A r \in Runs : /\ runs[r].pc \in Calling <=> \E c \in ToSet(calls) : c.run = r
                     /\ runs[r].listed <= Len(onChain)
                     /\ runs[r].pc = "sign" => runs[r].petition \in DOMAIN onChain
                     /\ runs[r].pc = "create" => runs[r].petition \in Periods \cup {Unknown}
  /\ \A c \in ToSet(calls) : Replied(c) =>
       Known(c) \subseteq signed /\ Head(c.reply).count <= Len(onChain)

\* The run is going to list the petition, and to read its flag after it was
\* signed.
WillSee(r, i) ==
  \/ runs[r].pc \in {"period", "failed"}
  \/ /\ runs[r].pc = "list"
     /\ \A c \in ToSet(calls) : c.run = r /\ Replied(c) => i <= Head(c.reply).count
  \/ /\ runs[r].pc = "flags" /\ i <= runs[r].listed
     /\ \A c \in ToSet(calls) : c.run = r /\ Replied(c) => i \in Known(c)

\* The signature is known, or about to be.
SignaturesSeen == \A i \in signed : i \in past.told \/ \E r \in Runs : WillSee(r, i)

\* The list shown is that of the repository, or about to be.
ListShown ==
  page.list = repository.signable \/ \E r \in Runs : runs[r].pc \in {"timers", "failed"}

\* Dates that are not shown are awaited.
DatesAwaited ==
  failures = 0 => page.dates = app.period \/ <<"widget", app.period>> \in fetches

PageInductiveInv ==
  /\ PageTypes
  /\ CallsOfRuns
  /\ SignaturesSeen
  /\ ListShown
  /\ DatesAwaited
  /\ OverlayHasReason

-----------------------------------------------------------------------------
(* Calls under way *)

LEMMA RemovalOfOne ==
  ASSUME NEW S, NEW s \in Seq(S), NEW k \in 1 .. Len(s)
  PROVE  /\ RemoveAt(s, k) \in Seq(S)
         /\ Len(RemoveAt(s, k)) = Len(s) - 1
         /\ \A i \in 1 .. Len(s) - 1 :
              RemoveAt(s, k)[i] = IF i < k THEN s[i] ELSE s[i + 1]
<1> DEFINE before == SubSeq(s, 1, k - 1)
           after == SubSeq(s, k + 1, Len(s))
<1>1. Len(s) \in Nat
  BY LenProperties
<1>2. /\ before \in Seq(S) /\ Len(before) = k - 1
      /\ \A i \in 1 .. k - 1 : before[i] = s[i]
  BY <1>1, SubSeqProperties
<1>3. /\ after \in Seq(S) /\ Len(after) = Len(s) - k
      /\ \A i \in 1 .. Len(s) - k : after[i] = s[k + i]
  BY <1>1, SubSeqProperties
<1>4. RemoveAt(s, k) = before \o after
  BY DEF RemoveAt
<1> HIDE DEF before, after
<1>5. /\ before \o after \in Seq(S)
      /\ Len(before \o after) = Len(before) + Len(after)
      /\ \A i \in 1 .. Len(before) + Len(after) :
           (before \o after)[i] = IF i <= Len(before) THEN before[i] ELSE after[i - Len(before)]
  BY <1>2, <1>3, ConcatProperties
<1>6. ASSUME NEW i \in 1 .. Len(s) - 1
      PROVE  (before \o after)[i] = IF i < k THEN s[i] ELSE s[i + 1]
  <2>1. CASE i < k
    BY <1>1, <1>2, <1>3, <1>5, <2>1
  <2>2. CASE i >= k
    <3>1. (before \o after)[i] = after[i - (k - 1)]
      BY <1>1, <1>2, <1>3, <1>5, <2>2
    <3>2. i - (k - 1) \in 1 .. Len(s) - k /\ k + (i - (k - 1)) = i + 1
      BY <1>1, <2>2
    <3>3. after[i - (k - 1)] = s[k + (i - (k - 1))]
      BY <1>3, <3>2
    <3>4. ~ (i < k)
      BY <1>1, <2>2
    <3> QED
      BY <3>1, <3>2, <3>3, <3>4
  <2>3. i < k \/ i >= k
    BY <1>1
  <2> QED
    BY <2>1, <2>2, <2>3, Zenon
<1>7. before \o after \in Seq(S) /\ Len(before \o after) = Len(s) - 1
  BY <1>1, <1>2, <1>3, <1>5
<1> QED
  BY <1>4, <1>6, <1>7, Zenon

\* A call is taken away: the others are left.
LEMMA CallTaken ==
  ASSUME NEW q \in Seq(CallRecords), OneCallEach(q), NEW k \in DOMAIN q
  PROVE  LET rest == RemoveAt(q, k) IN
         /\ rest \in Seq(CallRecords) /\ OneCallEach(rest)
         /\ ToSet(rest) \subseteq ToSet(q)
         /\ \A c \in ToSet(q) : c \in ToSet(rest) \/ c = q[k]
         /\ q[k].run # 0 => \A c \in ToSet(rest) : c.run # q[k].run
<1> DEFINE n == Len(q)
           rest == RemoveAt(q, k)
           old(i) == IF i < k THEN i ELSE i + 1
<1>1. n \in Nat /\ k \in 1 .. n /\ DOMAIN q = 1 .. n
  BY LenProperties
<1>2. /\ rest \in Seq(CallRecords) /\ Len(rest) = n - 1
      /\ \A i \in 1 .. n - 1 : rest[i] = IF i < k THEN q[i] ELSE q[i + 1]
  BY <1>1, RemovalOfOne, Zenon
<1>3. DOMAIN rest = 1 .. n - 1
  BY <1>1, <1>2
<1> HIDE DEF rest, n
<1>4. \A i \in DOMAIN rest : /\ old(i) \in DOMAIN q /\ old(i) # k
                             /\ rest[i] = q[old(i)]
  BY <1>1, <1>2, <1>3
<1>5. \A i, j \in DOMAIN rest : i < j => old(i) < old(j)
  BY <1>1, <1>3
<1>6. \A m \in DOMAIN q : m # k => \E i \in DOMAIN rest : old(i) = m
  <2> SUFFICES ASSUME NEW m \in DOMAIN q, m # k
               PROVE  \E i \in DOMAIN rest : old(i) = m
    OBVIOUS
  <2>1. CASE m < k
    BY <1>1, <1>3, <2>1
  <2>2. CASE m > k
    <3>1. m - 1 \in DOMAIN rest /\ old(m - 1) = m
      BY <1>1, <1>3, <2>2
    <3> QED
      BY <3>1
  <2> QED
    BY <1>1, <2>1, <2>2
<1>7. \A i \in DOMAIN rest : old(i) < k \/ k < old(i)
  BY <1>1, <1>4
<1> HIDE DEF old
<1>8. ToSet(rest) \subseteq ToSet(q)
  BY <1>4 DEF ToSet
<1>9. \A c \in ToSet(q) : c \in ToSet(rest) \/ c = q[k]
  BY <1>4, <1>6 DEF ToSet
<1>10. q[k].run # 0 => \A c \in ToSet(rest) : c.run # q[k].run
  BY <1>4, <1>7 DEF OneCallEach, ToSet
<1>11. OneCallEach(rest)
  BY <1>4, <1>5 DEF OneCallEach
<1> QED
  BY <1>2, <1>8, <1>9, <1>10, <1>11 DEF rest

\* A call is sent.
LEMMA CallSent ==
  ASSUME NEW q \in Seq(CallRecords), OneCallEach(q), NEW new \in CallRecords, ~ Replied(new),
         \A c \in ToSet(q) : c.run # new.run \/ new.run = 0
  PROVE  /\ Append(q, new) \in Seq(CallRecords) /\ OneCallEach(Append(q, new))
         /\ ToSet(Append(q, new)) = ToSet(q) \cup {new}
<1> DEFINE n == Len(q)
           more == Append(q, new)
<1>1. n \in Nat /\ DOMAIN q = 1 .. n
  BY LenProperties
<1>2. /\ more \in Seq(CallRecords) /\ Len(more) = n + 1
      /\ \A i \in 1 .. n : more[i] = q[i]
      /\ more[n + 1] = new
  BY AppendProperties
<1>3. DOMAIN more = 1 .. n + 1
  BY <1>1, <1>2
<1> HIDE DEF n, more
<1>4. \A i \in DOMAIN more :
        \/ i \in DOMAIN q /\ more[i] = q[i]
        \/ i = n + 1 /\ more[i] = new
  BY <1>1, <1>2, <1>3
<1>5. DOMAIN q \subseteq DOMAIN more /\ n + 1 \in DOMAIN more
  BY <1>1, <1>3
<1>6. ToSet(more) = ToSet(q) \cup {new}
  BY <1>1, <1>2, <1>4, <1>5 DEF ToSet
<1>7. ASSUME NEW i \in DOMAIN more, NEW j \in DOMAIN more, i < j
      PROVE  more[i].run # more[j].run \/ more[j].run = 0
  <2>1. i \in DOMAIN q /\ more[i] = q[i]
    BY <1>1, <1>2, <1>3, <1>7
  <2>2. q[i] \in ToSet(q)
    BY <2>1 DEF ToSet
  <2> QED
    BY <1>4, <1>7, <2>1, <2>2 DEF OneCallEach
<1> QED
  BY <1>2, <1>6, <1>7 DEF OneCallEach, more

LEMMA AnswerArrives ==
  ASSUME PageTypes, NEW k \in DOMAIN calls, Arrives(k)
  PROVE  /\ calls \in Seq(CallRecords) /\ calls[k] \in ToSet(calls) /\ Replied(calls[k])
         /\ Answer(k) \in Answers /\ Answer(k).period \in Periods
         /\ Known(calls[k]) = Answer(k).signed
<1>1. calls \in Seq(CallRecords) /\ calls[k] \in ToSet(calls)
  BY DEF PageTypes, ToSet
<1>2. calls[k] \in CallRecords /\ Replied(calls[k])
  BY <1>1, ElementOfSeq DEF Arrives, Replied
<1>3. PICK a \in Answers : calls[k].reply = <<a>>
  BY <1>2 DEF CallRecords, Replied
<1>4. Answer(k) = a
  BY <1>3 DEF Answer
<1> QED
  BY <1>1, <1>2, <1>3, <1>4 DEF Answers, Known, Answer

LEMMA CallTypes ==
  ASSUME PageTypes, NEW r \in Runs \cup {0}
  PROVE  Call(r) \in CallRecords /\ Call(r).run = r /\ ~ Replied(Call(r))
<1>1. repository.period \in Nat
  BY ClientStateAssumption DEF PageTypes, RepositoryRecords, Periods, Unknown
<1> QED
  BY <1>1 DEF Call, CallRecords, Replied

-----------------------------------------------------------------------------
(* The runs *)

\* What the voter started goes on with its next call.
LEMMA RunGoesOn ==
  ASSUME PageTypes, CallsOfRuns, UNCHANGED <<onChain, signed>>,
         NEW r \in Runs, NEW k \in DOMAIN calls, calls[k].run = r,
         NEW run \in RunRecords, run.pc \in Calling, run.listed <= Len(onChain),
         runs' = [runs EXCEPT ![r] = run],
         calls' = Append(RemoveAt(calls, k), Call(r))
  PROVE  /\ runs' \in [Runs -> RunRecords] /\ calls' \in Seq(CallRecords) /\ CallsOfRuns'
         /\ \A q \in Runs : runs'[q] = IF q = r THEN run ELSE runs[q]
         /\ \A c \in ToSet(calls') : \/ c \in ToSet(calls) /\ c.run # r
                                     \/ ~ Replied(c)
<1> DEFINE rest == RemoveAt(calls, k)
<1>1. r # 0 /\ r \in Runs \cup {0}
  BY ClientStateAssumption DEF Runs
<1>2. calls \in Seq(CallRecords) /\ OneCallEach(calls)
  BY DEF PageTypes, CallsOfRuns
<1>3. /\ rest \in Seq(CallRecords) /\ OneCallEach(rest)
      /\ ToSet(rest) \subseteq ToSet(calls)
      /\ \A c \in ToSet(calls) : c \in ToSet(rest) \/ c = calls[k]
      /\ \A c \in ToSet(rest) : c.run # r
  BY <1>1, <1>2, CallTaken
<1> HIDE DEF rest
<1>4. calls' = Append(rest, Call(r))
  BY DEF rest
<1>5. Call(r) \in CallRecords /\ Call(r).run = r /\ ~ Replied(Call(r))
  BY <1>1, CallTypes
<1>6. /\ calls' \in Seq(CallRecords) /\ OneCallEach(calls')
      /\ ToSet(calls') = ToSet(rest) \cup {Call(r)}
  BY <1>3, <1>4, <1>5, CallSent
<1> HIDE DEF Call
<1>7. /\ runs \in [Runs -> RunRecords] /\ runs' \in [Runs -> RunRecords]
      /\ \A q \in Runs : runs'[q] = IF q = r THEN run ELSE runs[q]
  BY DEF PageTypes
<1>8. ASSUME NEW q \in Runs
      PROVE  runs'[q].pc \in Calling <=> \E c \in ToSet(calls') : c.run = q
  <2>1. CASE q = r
    BY <1>5, <1>6, <1>7, <2>1
  <2>2. CASE q # r
    <3>1. (\E c \in ToSet(calls') : c.run = q) <=> \E c \in ToSet(calls) : c.run = q
      BY <1>3, <1>5, <1>6, <2>2
    <3> QED
      BY <1>7, <2>2, <3>1 DEF CallsOfRuns
  <2> QED
    BY <2>1, <2>2
<1>9. ASSUME NEW q \in Runs
      PROVE  /\ runs'[q].listed <= Len(onChain)
             /\ runs'[q].pc = "sign" => runs'[q].petition \in DOMAIN onChain
             /\ runs'[q].pc = "create" => runs'[q].petition \in Periods \cup {Unknown}
  BY <1>7 DEF CallsOfRuns, Calling
<1>10. \A c \in ToSet(calls') : Replied(c) => c \in ToSet(calls)
  BY <1>3, <1>5, <1>6
<1> QED
  BY <1>3, <1>5, <1>6, <1>7, <1>8, <1>9, <1>10 DEF CallsOfRuns

\* init() begins: its call follows those that are under way.
LEMMA RunBegins ==
  ASSUME PageTypes, CallsOfRuns, onChain' \in Seq(Periods),
         DOMAIN onChain \subseteq DOMAIN onChain', Len(onChain) <= Len(onChain'),
         signed \subseteq signed',
         NEW r \in Runs, runs[r].pc \notin Calling,
         runs' = [runs EXCEPT ![r] = [IdleRun EXCEPT !.pc = "period"]],
         calls' = Append(calls, Call(r))
  PROVE  /\ runs' \in [Runs -> RunRecords] /\ calls' \in Seq(CallRecords) /\ CallsOfRuns'
         /\ runs'[r].pc = "period" /\ \A q \in Runs \ {r} : runs'[q] = runs[q]
<1> DEFINE run == [IdleRun EXCEPT !.pc = "period"]
<1>1. /\ runs \in [Runs -> RunRecords] /\ calls \in Seq(CallRecords)
      /\ OneCallEach(calls) /\ onChain \in Seq(Periods)
  BY DEF PageTypes, CallsOfRuns
<1>2. /\ run \in RunRecords /\ run.pc = "period" /\ run.listed = 0
  BY DEF IdleRun, RunRecords, Calling, Unknown
<1> HIDE DEF run
<1>3. runs' \in [Runs -> RunRecords] /\ \A q \in Runs : runs'[q] = IF q = r THEN run ELSE runs[q]
  BY <1>1, <1>2 DEF run
<1>4. Call(r) \in CallRecords /\ Call(r).run = r /\ ~ Replied(Call(r))
  BY CallTypes
<1> HIDE DEF Call
<1>5. \A c \in ToSet(calls) : c.run # r
  BY DEF CallsOfRuns
<1>6. /\ calls' \in Seq(CallRecords) /\ OneCallEach(calls')
      /\ ToSet(calls') = ToSet(calls) \cup {Call(r)}
  BY <1>1, <1>4, <1>5, CallSent
<1>7. Len(onChain) \in Nat /\ Len(onChain') \in Nat
  BY <1>1, LenProperties
<1>8. ASSUME NEW q \in Runs
      PROVE  runs'[q].pc \in Calling <=> \E c \in ToSet(calls') : c.run = q
  BY <1>2, <1>3, <1>4, <1>6 DEF CallsOfRuns, Calling
<1>9. ASSUME NEW q \in Runs
      PROVE  /\ runs'[q].listed <= Len(onChain')
             /\ runs'[q].pc = "sign" => runs'[q].petition \in DOMAIN onChain'
             /\ runs'[q].pc = "create" => runs'[q].petition \in Periods \cup {Unknown}
  <2>1. runs[q].listed \in Nat /\ runs[q].listed <= Len(onChain)
    BY <1>1 DEF CallsOfRuns, RunRecords
  <2>2. /\ runs[q].pc = "sign" => runs[q].petition \in DOMAIN onChain
        /\ runs[q].pc = "create" => runs[q].petition \in Periods \cup {Unknown}
    BY DEF CallsOfRuns
  <2>3. CASE q = r
    <3>1. runs'[q] = run
      BY <1>3, <2>3
    <3>2. 0 <= Len(onChain')
      BY <1>7
    <3> QED
      BY <1>2, <3>1, <3>2
  <2>4. CASE q # r
    <3>1. runs'[q] = runs[q]
      BY <1>3, <2>4
    <3>2. runs[q].listed <= Len(onChain')
      BY <1>7, <2>1
    <3> QED
      BY <2>2, <3>1, <3>2
  <2> QED
    BY <2>3, <2>4
<1>10. ASSUME NEW c \in ToSet(calls'), Replied(c)
       PROVE  Known(c) \subseteq signed' /\ Head(c.reply).count <= Len(onChain')
  <2>1. c \in ToSet(calls)
    BY <1>4, <1>6, <1>10
  <2>2. c \in CallRecords
    BY <1>1, <2>1, ElementOfSeq DEF ToSet
  <2>3. PICK a \in Answers : c.reply = <<a>>
    BY <1>10, <2>2 DEF CallRecords, Replied
  <2>4. Head(c.reply) = a /\ a.count \in Nat
    BY <2>3 DEF Answers
  <2>5. Known(c) \subseteq signed /\ Head(c.reply).count <= Len(onChain)
    BY <1>10, <2>1 DEF CallsOfRuns
  <2> QED
    BY <1>7, <2>4, <2>5
<1> QED
  BY <1>2, <1>3, <1>6, <1>8, <1>9, <1>10 DEF CallsOfRuns

\* A call is over and none follows: that of a timer, or the last one of a run.
LEMMA CallOver ==
  ASSUME PageTypes, CallsOfRuns, UNCHANGED <<onChain, signed>>,
         NEW k \in DOMAIN calls, NEW run \in RunRecords, run.pc \in {"idle", "failed"},
         run.listed = 0, calls' = RemoveAt(calls, k),
         runs' = [r \in Runs |-> IF r = calls[k].run THEN run ELSE runs[r]]
  PROVE  /\ runs' \in [Runs -> RunRecords] /\ calls' \in Seq(CallRecords) /\ CallsOfRuns'
         /\ ToSet(calls') \subseteq ToSet(calls)
<1> DEFINE rest == RemoveAt(calls, k)
<1>1. calls \in Seq(CallRecords) /\ OneCallEach(calls) /\ runs \in [Runs -> RunRecords]
  BY DEF PageTypes, CallsOfRuns
<1>2. /\ rest \in Seq(CallRecords) /\ OneCallEach(rest)
      /\ ToSet(rest) \subseteq ToSet(calls)
      /\ \A c \in ToSet(calls) : c \in ToSet(rest) \/ c = calls[k]
      /\ calls[k].run # 0 => \A c \in ToSet(rest) : c.run # calls[k].run
  BY <1>1, CallTaken
<1> HIDE DEF rest
<1>3. calls' = rest
  BY DEF rest
<1>4. /\ runs' \in [Runs -> RunRecords]
      /\ \A q \in Runs : runs'[q] = IF q = calls[k].run THEN run ELSE runs[q]
  BY <1>1
<1>5. 0 \notin Runs
  BY ClientStateAssumption DEF Runs
<1>6. ASSUME NEW q \in Runs
      PROVE  runs'[q].pc \in Calling <=> \E c \in ToSet(rest) : c.run = q
  <2>1. CASE q = calls[k].run
    BY <1>2, <1>4, <1>5, <2>1 DEF Calling
  <2>2. CASE q # calls[k].run
    <3>1. (\E c \in ToSet(rest) : c.run = q) <=> \E c \in ToSet(calls) : c.run = q
      BY <1>2, <2>2
    <3> QED
      BY <1>4, <2>2, <3>1 DEF CallsOfRuns
  <2> QED
    BY <2>1, <2>2
<1>7. Len(onChain) \in Nat
  BY LenProperties DEF PageTypes
<1>8. ASSUME NEW q \in Runs
      PROVE  /\ runs'[q].listed <= Len(onChain)
             /\ runs'[q].pc = "sign" => runs'[q].petition \in DOMAIN onChain
             /\ runs'[q].pc = "create" => runs'[q].petition \in Periods \cup {Unknown}
  BY <1>4, <1>7 DEF CallsOfRuns
<1> QED
  BY <1>2, <1>3, <1>4, <1>6, <1>8 DEF CallsOfRuns

\* Signatures stay seen as long as the runs that will read the flags do not end.
LEMMA SeenKept ==
  ASSUME SignaturesSeen, signed' = signed, past.told \subseteq past'.told,
         \A c \in ToSet(calls') : c \in ToSet(calls) \/ ~ Replied(c),
         \A r \in Runs :
           \/ runs'[r] = runs[r]
           \/ runs[r].pc \notin {"period", "list", "flags", "failed"}
           \/ runs'[r].pc \in {"period", "failed"}
           \/ /\ runs'[r].pc = "list"
              /\ \A c \in ToSet(calls') : c.run = r => ~ Replied(c)
  PROVE  SignaturesSeen'
<1> SUFFICES ASSUME NEW i \in signed
             PROVE  i \in past'.told \/ \E r \in Runs : WillSee(r, i)'
  BY DEF SignaturesSeen
<1>1. ASSUME NEW r \in Runs, WillSee(r, i)
      PROVE  WillSee(r, i)'
  BY <1>1 DEF WillSee
<1> QED
  BY <1>1 DEF SignaturesSeen

-----------------------------------------------------------------------------
(* What is shown *)

\* Every object is told: the list of the repository is shown, and the dates of
\* the period are shown or asked for.
LEMMA ToldShows ==
  ASSUME PageTypes, NEW state \in AppRecords, NEW cached \in SUBSET Periods,
         Told(state, cached, fetches)
  PROVE  /\ app' = state /\ page' \in PageRecords /\ page'.list = repository.signable
         /\ fetches' \subseteq {"widget", "repository"} \X Periods
         /\ DatesAwaited'
<1>1. page \in PageRecords /\ repository \in RepositoryRecords
      /\ fetches \subseteq {"widget", "repository"} \X Periods
  BY DEF PageTypes
<1>2. state.period \in Periods \cup {Unknown}
  BY DEF AppRecords
<1>3. CASE state.period \in cached \cup {Unknown}
  BY <1>1, <1>2, <1>3 DEF Told, PageRecords, RepositoryRecords, DatesAwaited
<1>4. CASE state.period \notin cached \cup {Unknown}
  BY <1>1, <1>2, <1>4 DEF Told, PageRecords, RepositoryRecords, DatesAwaited
<1> QED
  BY <1>3, <1>4

LEMMA SetStateShows ==
  ASSUME PageTypes, NEW state \in AppRecords, SetState(state)
  PROVE  /\ app' = state /\ page' \in PageRecords /\ page'.list = repository.signable
         /\ fetches' \subseteq {"widget", "repository"} \X Periods
         /\ DatesAwaited'
<1>1. repository.cached \in SUBSET Periods
  BY DEF PageTypes, RepositoryRecords
<1> QED
  BY <1>1, ToldShows DEF SetState

LEMMA MissedOnly ==
  ASSUME PageTypes, NEW pre, NEW period \in Periods, Missed(pre, period)
  PROVE  past' \in PastRecords /\ past'.told = past.told
BY DEF PageTypes, PastRecords, Missed

\* setPeriod leaves the overlay and the flags as they are.
LEMMA SetPeriodShows ==
  ASSUME PageTypes, DatesAwaited, failures' = failures, NEW pre, NEW period \in Periods,
         SetPeriod(pre, period)
  PROVE  /\ app' \in AppRecords /\ app'.locked = app.locked
         /\ page' \in PageRecords /\ page'.list \in {repository.signable, page.list}
         /\ repository' \in RepositoryRecords /\ repository'.signable = repository.signable
         /\ fetches' \subseteq {"widget", "repository"} \X Periods
         /\ past' \in PastRecords /\ past'.told = past.told
         /\ DatesAwaited'
<1> DEFINE state == Notified(pre, period)
<1>0. past' \in PastRecords /\ past'.told = past.told
  BY MissedOnly DEF SetPeriod
<1>1. app \in AppRecords /\ page \in PageRecords /\ repository \in RepositoryRecords
      /\ fetches \subseteq {"widget", "repository"} \X Periods
  BY DEF PageTypes
<1>2. state \in AppRecords /\ state.locked = app.locked
  BY <1>1 DEF Notified, AppRecords
<1> HIDE DEF state
<1>3. repository' \in RepositoryRecords /\ repository'.signable = repository.signable
  BY <1>1 DEF SetPeriod, RepositoryRecords
<1>4. CASE state # app
  <2>1. SetState(state)
    BY <1>4 DEF SetPeriod, state
  <2> QED
    BY <1>0, <1>2, <1>3, <2>1, SetStateShows
<1>5. CASE state = app
  <2>1. /\ UNCHANGED <<app, page>>
        /\ fetches' = fetches \cup {<<"repository", period>> : p \in {period} \ repository.cached}
    BY <1>5 DEF SetPeriod, state
  <2>2. DatesAwaited'
    BY <2>1 DEF DatesAwaited
  <2> QED
    BY <1>0, <1>1, <1>3, <2>1, <2>2
<1> QED
  BY <1>4, <1>5

-----------------------------------------------------------------------------
(* The first state *)

LEMMA PageInit == ClientStateInit => PageInductiveInv
<1> SUFFICES ASSUME ClientStateInit
             PROVE  PageInductiveInv
  OBVIOUS
<1> DEFINE c == [run |-> 1, pre |-> Unknown, reply |-> << >>]
           first == [IdleRun EXCEPT !.pc = "period"]
<1>1. 1 \in Runs /\ 1 \in Periods /\ 0 \in Nat /\ Runs \subseteq Nat /\ 0 \notin Runs
      /\ MaxFailures \in Nat
  BY ClientStateAssumption DEF Runs, Periods
<1>2. /\ first \in RunRecords /\ first.pc = "period" /\ first.listed = 0
      /\ IdleRun \in RunRecords /\ IdleRun.pc = "idle" /\ IdleRun.listed = 0
  BY DEF IdleRun, RunRecords, Calling, Unknown
<1>3. c \in CallRecords /\ c.run = 1 /\ ~ Replied(c)
  BY <1>1 DEF CallRecords, Unknown, Replied
<1> HIDE DEF c, first
<1>4. runs = [r \in Runs |-> IF r = 1 THEN first ELSE IdleRun]
  BY DEF ClientStateInit, first
<1> HIDE DEF IdleRun
<1>5. calls = <<c>>
  BY DEF ClientStateInit, c
<1>6. calls \in Seq(CallRecords) /\ DOMAIN calls = {1} /\ calls[1] = c /\ ToSet(calls) = {c}
  BY <1>3, <1>5 DEF ToSet
<1>7. onChain = << >> /\ onChain \in Seq(Periods) /\ Len(onChain) = 0 /\ signed = {}
  BY DEF ClientStateInit
<1>8. PageTypes
  <2>1. runs \in [Runs -> RunRecords]
    BY <1>2, <1>4
  <2>2. app \in AppRecords /\ page \in PageRecords /\ repository \in RepositoryRecords
    BY DEF ClientStateInit, AppInit, RepositoryInit, AppRecords, PageRecords,
           RepositoryRecords, Unknown
  <2>3. /\ now \in Periods /\ fetches = {} /\ failures \in 0 .. MaxFailures
        /\ past \in PastRecords
    BY <1>1 DEF ClientStateInit, PastRecords
  <2> QED
    BY <1>6, <1>7, <2>1, <2>2, <2>3 DEF PageTypes
<1>9. OneCallEach(calls)
  BY <1>6 DEF OneCallEach
<1>10. ASSUME NEW r \in Runs
       PROVE  /\ runs[r].pc \in Calling <=> \E d \in ToSet(calls) : d.run = r
              /\ runs[r].listed <= 0 /\ runs[r].pc \notin {"sign", "create"}
  BY <1>2, <1>3, <1>4, <1>6 DEF Calling
<1>11. CallsOfRuns
  BY <1>3, <1>6, <1>7, <1>9, <1>10 DEF CallsOfRuns
<1>12. SignaturesSeen
  BY <1>7 DEF SignaturesSeen
<1>13. ListShown /\ DatesAwaited
  BY DEF ClientStateInit, AppInit, RepositoryInit, ListShown, DatesAwaited
<1>14. OverlayHasReason
  BY <1>1, <1>2, <1>4 DEF OverlayHasReason
<1> QED
  BY <1>8, <1>11, <1>12, <1>13, <1>14 DEF PageInductiveInv

-----------------------------------------------------------------------------
(* Calls are sent, executed and answered *)

LEMMA TickKeeps ==
  ASSUME PageInductiveInv, Tick
  PROVE  PageInductiveInv'
<1>1. /\ PageTypes /\ CallsOfRuns /\ calls' = Append(calls, Call(0))
      /\ UNCHANGED <<now, onChain, signed, app, page, repository, runs, fetches, failures, past>>
  BY DEF PageInductiveInv, Tick
<1>2. Call(0) \in CallRecords /\ Call(0).run = 0 /\ ~ Replied(Call(0))
  BY <1>1, CallTypes
<1>3. calls \in Seq(CallRecords) /\ OneCallEach(calls)
  BY <1>1 DEF PageTypes, CallsOfRuns
<1>4. /\ calls' \in Seq(CallRecords) /\ OneCallEach(calls')
      /\ ToSet(calls') = ToSet(calls) \cup {Call(0)}
  BY <1>1, <1>2, <1>3, CallSent
<1>5. 0 \notin Runs
  BY ClientStateAssumption DEF Runs
<1> HIDE DEF Call
<1>6. PageTypes'
  BY <1>1, <1>4 DEF PageTypes
<1>7. CallsOfRuns'
  BY <1>1, <1>2, <1>4, <1>5 DEF CallsOfRuns
<1>8. SignaturesSeen'
  <2>1. \A c \in ToSet(calls') : c \in ToSet(calls) \/ ~ Replied(c)
    BY <1>2, <1>4
  <2> QED
    BY <1>1, <2>1, SeenKept DEF PageInductiveInv
<1>9. ListShown' /\ DatesAwaited' /\ OverlayHasReason'
  BY <1>1 DEF PageInductiveInv, ListShown, DatesAwaited, OverlayHasReason
<1> QED
  BY <1>6, <1>7, <1>8, <1>9 DEF PageInductiveInv

LEMMA ExecuteKeeps ==
  ASSUME PageInductiveInv, Execute
  PROVE  PageInductiveInv'
<1> DEFINE a == [period |-> now, count |-> Len(onChain), signed |-> signed]
<1>1. PageTypes /\ CallsOfRuns
  BY DEF PageInductiveInv
<1>2. PICK k \in DOMAIN calls :
        /\ calls[k].reply = << >>
        /\ calls' = [calls EXCEPT ![k].reply = <<a>>]
        /\ UNCHANGED <<now, onChain, signed, app, page, repository, runs, fetches, failures, past>>
  BY DEF Execute
<1> DEFINE new == [calls[k] EXCEPT !.reply = <<a>>]
<1>3. Len(onChain) \in Nat /\ DOMAIN onChain \subseteq Nat
  BY <1>1, LenProperties DEF PageTypes
<1>4. a \in Answers /\ a.signed = signed /\ a.count = Len(onChain)
  BY <1>1, <1>3 DEF Answers, PageTypes
<1> HIDE DEF a
<1>5. /\ calls \in Seq(CallRecords) /\ calls[k] \in CallRecords /\ OneCallEach(calls)
      /\ DOMAIN calls = 1 .. Len(calls) /\ Len(calls) \in Nat
  BY <1>1, ElementOfSeq, LenProperties DEF PageTypes, CallsOfRuns
<1>6. new \in CallRecords /\ new.run = calls[k].run /\ new.reply = <<a>>
  BY <1>4, <1>5 DEF CallRecords
<1>7. Replied(new) /\ Known(new) = signed /\ Head(new.reply) = a
  BY <1>4, <1>6 DEF Replied, Known
<1>8. calls' = [calls EXCEPT ![k] = new]
  BY <1>2
<1> HIDE DEF new
<1>9. /\ calls' \in Seq(CallRecords) /\ DOMAIN calls' = DOMAIN calls
      /\ \A m \in DOMAIN calls : calls'[m] = IF m = k THEN new ELSE calls[m]
  BY <1>5, <1>6, <1>8, ExceptSeq
<1>10. \A c \in ToSet(calls') : c \in ToSet(calls) \/ c = new
  BY <1>9 DEF ToSet
<1>11. \A m \in DOMAIN calls : calls'[m].run = calls[m].run
  BY <1>6, <1>9
<1>12. \A q : (\E c \in ToSet(calls') : c.run = q) <=> \E c \in ToSet(calls) : c.run = q
  BY <1>9, <1>11 DEF ToSet
<1>13. OneCallEach(calls')
  BY <1>5, <1>9, <1>11 DEF OneCallEach
<1>14. PageTypes'
  BY <1>1, <1>2, <1>9 DEF PageTypes
<1>15. CallsOfRuns'
  <2>1. ASSUME NEW r \in Runs
        PROVE  runs[r].pc \in Calling <=> \E c \in ToSet(calls') : c.run = r
    BY <1>1, <1>12 DEF CallsOfRuns
  <2>2. ASSUME NEW c \in ToSet(calls'), Replied(c)
        PROVE  Known(c) \subseteq signed /\ Head(c.reply).count <= Len(onChain)
    BY <1>1, <1>3, <1>4, <1>7, <1>10, <2>2 DEF CallsOfRuns
  <2> QED
    BY <1>1, <1>2, <1>13, <2>1, <2>2 DEF CallsOfRuns
<1>16. SignaturesSeen'
  <2> SUFFICES ASSUME NEW i \in signed
               PROVE  i \in past.told \/ \E r \in Runs : WillSee(r, i)'
    BY <1>2 DEF SignaturesSeen
  <2>1. i <= Len(onChain)
    BY <1>1, LenProperties DEF PageTypes
  <2>2. ASSUME NEW r \in Runs, WillSee(r, i)
        PROVE  WillSee(r, i)'
    BY <1>2, <1>4, <1>7, <1>10, <2>1, <2>2 DEF WillSee
  <2> QED
    BY <2>2 DEF PageInductiveInv, SignaturesSeen
<1>17. ListShown' /\ DatesAwaited' /\ OverlayHasReason'
  BY <1>2 DEF PageInductiveInv, ListShown, DatesAwaited, OverlayHasReason
<1> QED
  BY <1>14, <1>15, <1>16, <1>17 DEF PageInductiveInv

LEMMA TickAnsweredKeeps ==
  ASSUME PageInductiveInv, NEW k \in DOMAIN calls, TickAnswered(k)
  PROVE  PageInductiveInv'
<1>1. /\ PageTypes /\ CallsOfRuns /\ DatesAwaited
      /\ Arrives(k) /\ calls[k].run = 0 /\ calls' = RemoveAt(calls, k)
      /\ SetPeriod(calls[k].pre, Answer(k).period)
      /\ UNCHANGED <<now, onChain, signed, runs, failures>>
  BY DEF PageInductiveInv, TickAnswered
<1>2. Answer(k).period \in Periods
  BY <1>1, AnswerArrives
<1>3. /\ app' \in AppRecords /\ app'.locked = app.locked
      /\ page' \in PageRecords /\ page'.list \in {repository.signable, page.list}
      /\ repository' \in RepositoryRecords /\ repository'.signable = repository.signable
      /\ fetches' \subseteq {"widget", "repository"} \X Periods
      /\ past' \in PastRecords /\ past'.told = past.told
      /\ DatesAwaited'
  BY <1>1, <1>2, SetPeriodShows, Zenon
<1>4. IdleRun \in RunRecords /\ IdleRun.pc \in {"idle", "failed"} /\ IdleRun.listed = 0
  BY DEF IdleRun, RunRecords, Unknown
<1>5. runs' = [r \in Runs |-> IF r = calls[k].run THEN IdleRun ELSE runs[r]]
  BY <1>1, ClientStateAssumption DEF PageTypes, Runs
<1> HIDE DEF IdleRun
<1>6. /\ runs' \in [Runs -> RunRecords] /\ calls' \in Seq(CallRecords) /\ CallsOfRuns'
      /\ ToSet(calls') \subseteq ToSet(calls)
  BY <1>1, <1>4, <1>5, CallOver
<1>7. PageTypes'
  BY <1>1, <1>3, <1>6 DEF PageTypes
<1>8. SignaturesSeen'
  BY <1>1, <1>3, <1>6, SeenKept DEF PageInductiveInv
<1>9. ListShown' /\ OverlayHasReason'
  BY <1>1, <1>3 DEF PageInductiveInv, ListShown, OverlayHasReason
<1> QED
  BY <1>3, <1>6, <1>7, <1>8, <1>9 DEF PageInductiveInv

\* The first two replies of init(): the period, and the petitions.
LEMMA RunAnsweredKeeps ==
  ASSUME PageInductiveInv, NEW r \in Runs, NEW k \in DOMAIN calls
  PROVE  /\ PeriodAnswered(r, k) => PageInductiveInv'
         /\ PetitionsAnswered(r, k) => PageInductiveInv'
<1>1. PageTypes /\ CallsOfRuns /\ DatesAwaited /\ runs \in [Runs -> RunRecords]
  BY DEF PageInductiveInv, PageTypes
<1>2. Len(onChain) \in Nat /\ runs[r] \in RunRecords /\ runs[r].listed <= Len(onChain)
  BY <1>1, LenProperties DEF PageTypes, CallsOfRuns
<1>3. ASSUME PeriodAnswered(r, k)
      PROVE  PageInductiveInv'
  <2> DEFINE run == [runs[r] EXCEPT !.pc = "list"]
  <2>1. /\ Arrives(k) /\ calls[k].run = r /\ runs[r].pc = "period"
        /\ SetPeriod(calls[k].pre, Answer(k).period)
        /\ runs' = [runs EXCEPT ![r] = run]
        /\ calls' = Append(RemoveAt(calls, k), Call(r))
        /\ UNCHANGED <<now, onChain, signed, failures>>
    BY <1>3 DEF PeriodAnswered, WaitsFor
  <2>2. Answer(k).period \in Periods
    BY <1>1, <2>1, AnswerArrives
  <2>3. /\ app' \in AppRecords /\ app'.locked = app.locked
        /\ page' \in PageRecords /\ page'.list \in {repository.signable, page.list}
        /\ repository' \in RepositoryRecords /\ repository'.signable = repository.signable
        /\ fetches' \subseteq {"widget", "repository"} \X Periods
        /\ past' \in PastRecords /\ past'.told = past.told
        /\ DatesAwaited'
    BY <1>1, <2>1, <2>2, SetPeriodShows, Zenon
  <2>4. run \in RunRecords /\ run.pc = "list" /\ run.listed <= Len(onChain)
    BY <1>2 DEF RunRecords, Calling
  <2> HIDE DEF run, Call
  <2>5. /\ runs' \in [Runs -> RunRecords] /\ calls' \in Seq(CallRecords) /\ CallsOfRuns'
        /\ \A q \in Runs : runs'[q] = IF q = r THEN run ELSE runs[q]
        /\ \A c \in ToSet(calls') : \/ c \in ToSet(calls) /\ c.run # r
                                    \/ ~ Replied(c)
    BY <1>1, <2>1, <2>4, RunGoesOn DEF Calling
  <2>6. PageTypes'
    BY <1>1, <2>1, <2>3, <2>5 DEF PageTypes
  <2>7. SignaturesSeen'
    BY <2>1, <2>3, <2>4, <2>5, SeenKept DEF PageInductiveInv
  <2>8. ListShown' /\ OverlayHasReason'
    BY <2>1, <2>3, <2>4, <2>5 DEF PageInductiveInv, ListShown, OverlayHasReason
  <2> QED
    BY <2>3, <2>5, <2>6, <2>7, <2>8 DEF PageInductiveInv
<1>4. ASSUME PetitionsAnswered(r, k)
      PROVE  PageInductiveInv'
  <2> DEFINE run == [runs[r] EXCEPT !.pc = "flags", !.listed = Answer(k).count]
  <2>1. /\ Arrives(k) /\ calls[k].run = r /\ runs[r].pc = "list"
        /\ runs' = [runs EXCEPT ![r] = run]
        /\ calls' = Append(RemoveAt(calls, k), Call(r))
        /\ UNCHANGED <<now, onChain, signed, app, page, repository, fetches, failures, past>>
    BY <1>4 DEF PetitionsAnswered, WaitsFor
  <2>2. Answer(k).count \in Nat /\ Answer(k).count <= Len(onChain)
    BY <1>1, <2>1, AnswerArrives DEF Answers, CallsOfRuns, Answer
  <2>3. /\ run \in RunRecords /\ run.pc = "flags"
        /\ run.listed = Answer(k).count /\ run.listed <= Len(onChain)
    BY <1>2, <2>2 DEF RunRecords, Calling
  <2> HIDE DEF run, Call
  <2>4. /\ runs' \in [Runs -> RunRecords] /\ calls' \in Seq(CallRecords) /\ CallsOfRuns'
        /\ \A q \in Runs : runs'[q] = IF q = r THEN run ELSE runs[q]
        /\ \A c \in ToSet(calls') : \/ c \in ToSet(calls) /\ c.run # r
                                    \/ ~ Replied(c)
    BY <1>1, <2>1, <2>3, RunGoesOn DEF Calling
  <2>5. PageTypes'
    BY <1>1, <2>1, <2>4 DEF PageTypes
  <2>6. SignaturesSeen'
    <3> SUFFICES ASSUME NEW i \in signed
                 PROVE  i \in past.told \/ \E q \in Runs : WillSee(q, i)'
      BY <2>1 DEF SignaturesSeen
    <3>1. ASSUME WillSee(r, i)
          PROVE  WillSee(r, i)'
      <4>1. i <= Answer(k).count
        BY <1>1, <2>1, <3>1, AnswerArrives DEF WillSee, Answer
      <4> QED
        BY <2>3, <2>4, <4>1 DEF WillSee
    <3>2. ASSUME NEW q \in Runs, q # r, WillSee(q, i)
          PROVE  WillSee(q, i)'
      BY <2>4, <3>2 DEF WillSee
    <3> QED
      BY <3>1, <3>2 DEF PageInductiveInv, SignaturesSeen
  <2>7. ListShown' /\ DatesAwaited' /\ OverlayHasReason'
    BY <2>1, <2>3, <2>4 DEF PageInductiveInv, ListShown, DatesAwaited, OverlayHasReason
  <2> QED
    BY <2>4, <2>5, <2>6, <2>7 DEF PageInductiveInv
<1> QED
  BY <1>3, <1>4

\* The flags are read: a signature was seen before, or is among them, and then no
\* reply under way will take it back.
LEMMA SignableAnsweredKeeps ==
  ASSUME PageInductiveInv, NEW r \in Runs, NEW k \in DOMAIN calls, SignableAnswered(r, k)
  PROVE  PageInductiveInv'
<1> DEFINE run == [runs[r] EXCEPT !.pc = "timers"]
           listed == 1 .. runs[r].listed
           flags == [i \in listed |-> ProviderSignable(i, k)]
           dated == {onChain[i] : i \in listed}
<1>1. /\ PageTypes /\ CallsOfRuns /\ SignaturesSeen
      /\ runs \in [Runs -> RunRecords] /\ repository \in RepositoryRecords
  BY DEF PageInductiveInv, PageTypes
<1>2. /\ Arrives(k) /\ calls[k].run = r /\ runs[r].pc = "flags"
      /\ repository' = [repository EXCEPT !.signable = flags, !.cached = @ \cup dated]
      /\ runs' = [runs EXCEPT ![r] = run]
      /\ calls' = Append(RemoveAt(calls, k), Call(r))
      /\ past' = [past EXCEPT !.told = @ \cup {i \in listed : ~ ProviderSignable(i, k)}]
      /\ UNCHANGED <<now, onChain, signed, app, page, fetches, failures>>
  BY DEF SignableAnswered, WaitsFor
<1>3. /\ onChain \in Seq(Periods) /\ Len(onChain) \in Nat
      /\ DOMAIN onChain = 1 .. Len(onChain)
      /\ runs[r] \in RunRecords /\ runs[r].listed \in Nat /\ runs[r].listed <= Len(onChain)
  BY <1>1, LenProperties DEF PageTypes, CallsOfRuns, RunRecords
<1>4. dated \subseteq Periods
  <2>1. \A i \in listed : onChain[i] \in Periods
    BY <1>3, ElementOfSeq
  <2> QED
    BY <2>1
<1>5. flags \in Seq(BOOLEAN) /\ \A i \in DOMAIN flags : flags[i] = (i \notin Answer(k).signed)
  <2>1. flags \in [listed -> BOOLEAN] /\ \A i \in listed : flags[i] = (i \notin Answer(k).signed)
    BY DEF ProviderSignable
  <2> HIDE DEF flags
  <2> QED
    BY <1>3, <2>1, SeqDef
<1>6. run \in RunRecords /\ run.pc = "timers" /\ run.listed <= Len(onChain)
  BY <1>3 DEF RunRecords, Calling
<1>0. /\ past' \in PastRecords /\ past.told \subseteq past'.told
      /\ \A i \in listed : i \in Answer(k).signed => i \in past'.told
  <2> DEFINE found == {i \in listed : ~ ProviderSignable(i, k)}
  <2>1. past \in PastRecords /\ found \subseteq Nat
    BY <1>1, <1>3 DEF PageTypes
  <2>2. \A i \in listed : i \in Answer(k).signed => i \in found
    BY DEF ProviderSignable
  <2> HIDE DEF found, listed
  <2>3. past' = [past EXCEPT !.told = @ \cup found]
    BY <1>2 DEF found, listed
  <2> QED
    BY <2>1, <2>2, <2>3 DEF PastRecords
<1> HIDE DEF run, flags, dated, Call
<1>7. repository' \in RepositoryRecords /\ repository'.signable = flags
  BY <1>1, <1>2, <1>4, <1>5 DEF RepositoryRecords
<1>8. /\ runs' \in [Runs -> RunRecords] /\ calls' \in Seq(CallRecords) /\ CallsOfRuns'
      /\ \A q \in Runs : runs'[q] = IF q = r THEN run ELSE runs[q]
      /\ \A c \in ToSet(calls') : \/ c \in ToSet(calls) /\ c.run # r
                                  \/ ~ Replied(c)
  BY <1>1, <1>2, <1>6, RunGoesOn DEF Calling
<1>9. /\ calls[k] \in ToSet(calls) /\ Replied(calls[k])
      /\ Known(calls[k]) = Answer(k).signed
  BY <1>1, <1>2, AnswerArrives
<1>10. PageTypes'
  BY <1>0, <1>1, <1>2, <1>7, <1>8 DEF PageTypes
<1>11. SignaturesSeen'
  <2> SUFFICES ASSUME NEW i \in signed
               PROVE  i \in past'.told \/ \E q \in Runs : WillSee(q, i)'
    BY <1>2 DEF SignaturesSeen
  <2>1. ASSUME WillSee(r, i)
        PROVE  i \in past'.told
    <3>1. i \in Answer(k).signed /\ i <= runs[r].listed
      BY <1>2, <1>9, <2>1 DEF WillSee
    <3>2. i \in Nat \ {0}
      BY <1>3 DEF PageInductiveInv, PageTypes
    <3> QED
      BY <1>0, <1>3, <3>1, <3>2
  <2>2. ASSUME NEW q \in Runs, q # r, WillSee(q, i)
        PROVE  WillSee(q, i)'
    BY <1>8, <2>2 DEF WillSee
  <2> QED
    BY <1>0, <1>1, <2>1, <2>2 DEF SignaturesSeen
<1>12. ListShown' /\ DatesAwaited' /\ OverlayHasReason'
  BY <1>2, <1>6, <1>8 DEF PageInductiveInv, ListShown, DatesAwaited, OverlayHasReason
<1> QED
  BY <1>8, <1>10, <1>11, <1>12 DEF PageInductiveInv

LEMMA TimersAnsweredKeeps ==
  ASSUME PageInductiveInv, NEW r \in Runs, NEW k \in DOMAIN calls, TimersAnswered(r, k)
  PROVE  PageInductiveInv'
<1> DEFINE period == Answer(k).period
           cached == repository.cached \cup {period}
           state == LockReleased(Notified(calls[k].pre, period))
<1>1. /\ PageTypes /\ CallsOfRuns /\ runs \in [Runs -> RunRecords]
      /\ repository \in RepositoryRecords /\ app \in AppRecords
  BY DEF PageInductiveInv, PageTypes
<1>2. /\ Arrives(k) /\ calls[k].run = r /\ runs[r].pc = "timers"
      /\ repository' = [repository EXCEPT !.period = period, !.cached = cached, !.timers = TRUE]
      /\ Told(state, cached, fetches) /\ Missed(calls[k].pre, period)
      /\ runs' = [runs EXCEPT ![r] = IdleRun] /\ calls' = RemoveAt(calls, k)
      /\ UNCHANGED <<now, onChain, signed, failures>>
  BY DEF TimersAnswered, WaitsFor
<1>3. period \in Periods
  BY <1>1, <1>2, AnswerArrives
<1>0. past' \in PastRecords /\ past'.told = past.told
  BY <1>1, <1>2, <1>3, MissedOnly
<1> HIDE DEF period
<1>4. cached \in SUBSET Periods
  BY <1>1, <1>3 DEF RepositoryRecords
<1>5. state \in AppRecords /\ state.locked = FALSE
  BY <1>1, <1>3 DEF LockReleased, Notified, AppRecords
<1>6. repository' \in RepositoryRecords /\ repository'.signable = repository.signable
  BY <1>1, <1>2, <1>3, <1>4 DEF RepositoryRecords
<1> HIDE DEF state, cached
<1>7. /\ app' = state /\ page' \in PageRecords /\ page'.list = repository.signable
      /\ fetches' \subseteq {"widget", "repository"} \X Periods
      /\ DatesAwaited'
  BY <1>1, <1>2, <1>4, <1>5, ToldShows
<1>8. IdleRun \in RunRecords /\ IdleRun.pc = "idle" /\ IdleRun.listed = 0
  BY DEF IdleRun, RunRecords, Unknown
<1> HIDE DEF IdleRun
<1>9. /\ runs' = [q \in Runs |-> IF q = calls[k].run THEN IdleRun ELSE runs[q]]
      /\ \A q \in Runs : runs'[q] = IF q = r THEN IdleRun ELSE runs[q]
  BY <1>1, <1>2
<1>10. /\ runs' \in [Runs -> RunRecords] /\ calls' \in Seq(CallRecords) /\ CallsOfRuns'
       /\ ToSet(calls') \subseteq ToSet(calls)
  BY <1>1, <1>2, <1>8, <1>9, CallOver
<1>11. PageTypes'
  BY <1>0, <1>1, <1>2, <1>5, <1>6, <1>7, <1>10 DEF PageTypes
<1>12. SignaturesSeen'
  BY <1>0, <1>2, <1>9, <1>10, SeenKept DEF PageInductiveInv
<1>13. ListShown' /\ OverlayHasReason'
  BY <1>5, <1>6, <1>7 DEF ListShown, OverlayHasReason
<1> QED
  BY <1>7, <1>10, <1>11, <1>12, <1>13 DEF PageInductiveInv

LEMMA FailureKeeps ==
  ASSUME PageInductiveInv
  PROVE  /\ \A k \in DOMAIN calls : CallFails(k) => PageInductiveInv'
         /\ \A f \in fetches : FetchFails(f) => PageInductiveInv'
<1>1. /\ PageTypes /\ CallsOfRuns /\ runs \in [Runs -> RunRecords]
      /\ failures \in 0 .. MaxFailures /\ MaxFailures \in Nat
  BY ClientStateAssumption DEF PageInductiveInv, PageTypes
<1>2. ASSUME NEW k \in DOMAIN calls, CallFails(k)
      PROVE  PageInductiveInv'
  <2> DEFINE run == [IdleRun EXCEPT !.pc = "failed"]
  <2>1. /\ failures < MaxFailures /\ failures' = failures + 1
        /\ calls' = RemoveAt(calls, k)
        /\ runs' = [r \in Runs |-> IF r = calls[k].run THEN run ELSE runs[r]]
        /\ UNCHANGED <<now, onChain, signed, app, page, repository, fetches, past>>
    BY <1>2 DEF CallFails
  <2>2. run \in RunRecords /\ run.pc = "failed" /\ run.listed = 0
    BY DEF IdleRun, RunRecords, Unknown
  <2> HIDE DEF run
  <2>3. /\ runs' \in [Runs -> RunRecords] /\ calls' \in Seq(CallRecords) /\ CallsOfRuns'
        /\ ToSet(calls') \subseteq ToSet(calls)
    BY <1>1, <2>1, <2>2, CallOver
  <2>4. \A r \in Runs : runs'[r] = IF r = calls[k].run THEN run ELSE runs[r]
    BY <2>1
  <2>5. failures' \in 0 .. MaxFailures /\ failures' # 0
    BY <1>1, <2>1
  <2>6. PageTypes'
    BY <1>1, <2>1, <2>3, <2>5 DEF PageTypes
  <2>7. SignaturesSeen'
    BY <2>1, <2>2, <2>3, <2>4, SeenKept DEF PageInductiveInv
  <2>8. ListShown' /\ DatesAwaited' /\ OverlayHasReason'
    BY <2>1, <2>2, <2>4, <2>5 DEF PageInductiveInv, ListShown, DatesAwaited, OverlayHasReason
  <2> QED
    BY <2>3, <2>6, <2>7, <2>8 DEF PageInductiveInv
<1>3. ASSUME NEW f \in fetches, FetchFails(f)
      PROVE  PageInductiveInv'
  <2>1. /\ failures < MaxFailures /\ failures' = failures + 1
        /\ fetches' \subseteq fetches
        /\ UNCHANGED <<now, onChain, signed, app, page, repository, runs, calls, past>>
    BY <1>3 DEF FetchFails
  <2>2. failures' \in 0 .. MaxFailures /\ failures' # 0
    BY <1>1, <2>1
  <2>3. PageTypes' /\ CallsOfRuns'
    BY <1>1, <2>1, <2>2 DEF PageTypes, CallsOfRuns
  <2>4. SignaturesSeen'
    BY <2>1, SeenKept DEF PageInductiveInv
  <2>5. ListShown' /\ DatesAwaited' /\ OverlayHasReason'
    BY <2>1, <2>2 DEF PageInductiveInv, ListShown, DatesAwaited, OverlayHasReason
  <2> QED
    BY <2>3, <2>4, <2>5 DEF PageInductiveInv
<1> QED
  BY <1>2, <1>3

\* Dates arrive: those of the period shown are shown, others leave the request
\* for them as it is.
LEMMA DatesArriveKeeps ==
  ASSUME PageInductiveInv, NEW who, NEW p, DatesArrive(who, p)
  PROVE  PageInductiveInv'
<1> DEFINE cached == repository.cached \cup {p}
<1>1. /\ PageTypes /\ CallsOfRuns /\ page \in PageRecords
      /\ repository \in RepositoryRecords /\ app \in AppRecords
      /\ fetches \subseteq {"widget", "repository"} \X Periods
  BY DEF PageInductiveInv, PageTypes
<1>2. /\ <<who, p>> \in fetches /\ fetches' = fetches \ {<<who, p>>}
      /\ repository' = [repository EXCEPT !.cached = cached]
      /\ page' = IF who = "widget"
                    THEN [page EXCEPT !.dates = DatesShown(p, cached)] ELSE page
      /\ UNCHANGED <<now, onChain, signed, app, runs, calls, failures, past>>
  BY DEF DatesArrive
<1>3. cached \in SUBSET Periods
  BY <1>1, <1>2 DEF RepositoryRecords
<1>4. repository' \in RepositoryRecords /\ repository'.signable = repository.signable
  BY <1>1, <1>2, <1>3 DEF RepositoryRecords
<1>5. /\ page' \in PageRecords /\ page'.list = page.list
      /\ page'.dates = page.dates \/ page'.dates = app.period
  BY <1>1, <1>2 DEF PageRecords, AppRecords, DatesShown
<1>6. DatesAwaited'
  <2>1. CASE <<who, p>> = <<"widget", app.period>>
    <3>1. page'.dates = app.period
      BY <1>1, <1>2, <2>1 DEF PageRecords, DatesShown
    <3> QED
      BY <1>2, <3>1 DEF DatesAwaited
  <2>2. CASE <<who, p>> # <<"widget", app.period>>
    BY <1>2, <1>5, <2>2 DEF PageInductiveInv, DatesAwaited
  <2> QED
    BY <2>1, <2>2
<1>7. PageTypes' /\ CallsOfRuns'
  BY <1>1, <1>2, <1>4, <1>5 DEF PageTypes, CallsOfRuns
<1>8. SignaturesSeen'
  BY <1>2, <1>4, SeenKept DEF PageInductiveInv
<1>9. ListShown' /\ OverlayHasReason'
  BY <1>2, <1>4, <1>5 DEF PageInductiveInv, ListShown, OverlayHasReason
<1> QED
  BY <1>6, <1>7, <1>8, <1>9 DEF PageInductiveInv

-----------------------------------------------------------------------------
(* The voter *)

\* init() begins, after a click or a transaction: the overlay covers the page
\* until the run is over, and the run will see what is signed by now.
LEMMA BeginInitKeeps ==
  ASSUME PageInductiveInv, NEW r \in Runs, runs[r].pc \notin Calling, BeginInit(r),
         UNCHANGED <<now, repository, failures, past>>,
         onChain' \in Seq(Periods), DOMAIN onChain \subseteq DOMAIN onChain',
         Len(onChain) <= Len(onChain'), signed \subseteq signed',
         signed' \subseteq DOMAIN onChain
  PROVE  PageInductiveInv'
<1>1. /\ PageTypes /\ CallsOfRuns
      /\ SetState(Covered)
      /\ runs' = [runs EXCEPT ![r] = [IdleRun EXCEPT !.pc = "period"]]
      /\ calls' = Append(calls, Call(r))
  BY DEF PageInductiveInv, BeginInit
<1>2. Covered \in AppRecords
  BY <1>1 DEF Covered, PageTypes, AppRecords
<1>3. /\ app' = Covered /\ page' \in PageRecords /\ page'.list = repository.signable
      /\ fetches' \subseteq {"widget", "repository"} \X Periods
      /\ DatesAwaited'
  BY <1>1, <1>2, SetStateShows
<1>4. /\ runs' \in [Runs -> RunRecords] /\ calls' \in Seq(CallRecords) /\ CallsOfRuns'
      /\ runs'[r].pc = "period"
  BY <1>1, RunBegins
<1>5. PageTypes'
  BY <1>1, <1>2, <1>3, <1>4 DEF PageTypes
<1>6. SignaturesSeen'
  BY <1>4 DEF SignaturesSeen, WillSee
<1>7. ListShown' /\ OverlayHasReason'
  BY <1>3, <1>4 DEF ListShown, OverlayHasReason
<1> QED
  BY <1>3, <1>4, <1>5, <1>6, <1>7 DEF PageInductiveInv

LEMMA EndKeeps ==
  ASSUME PageInductiveInv, NEW r \in Runs
  PROVE  SignEnds(r) \/ CreateEnds(r) => PageInductiveInv'
<1>1. /\ PageTypes /\ CallsOfRuns /\ onChain \in Seq(Periods) /\ now \in Periods
      /\ Len(onChain) \in Nat /\ DOMAIN onChain = 1 .. Len(onChain)
      /\ signed \subseteq DOMAIN onChain
  BY LenProperties DEF PageInductiveInv, PageTypes
<1>2. ASSUME SignEnds(r)
      PROVE  PageInductiveInv'
  <2>1. /\ runs[r].pc = "sign" /\ BeginInit(r)
        /\ signed' = signed \/ signed' = signed \cup {runs[r].petition}
        /\ UNCHANGED <<now, onChain, repository, failures, past>>
    BY <1>2 DEF SignEnds, AfterSign
  <2>2. runs[r].petition \in DOMAIN onChain
    BY <1>1, <2>1 DEF CallsOfRuns
  <2> QED
    BY <1>1, <2>1, <2>2, BeginInitKeeps DEF Calling
<1>3. ASSUME CreateEnds(r)
      PROVE  PageInductiveInv'
  <2>1. /\ runs[r].pc = "create" /\ BeginInit(r)
        /\ \/ runs[r].petition >= now /\ onChain' = Append(onChain, runs[r].petition)
           \/ onChain' = onChain
        /\ UNCHANGED <<now, signed, repository, failures, past>>
    BY <1>3 DEF CreateEnds
  <2>2. runs[r].petition >= now => runs[r].petition \in Periods
    BY <1>1, <2>1, ClientStateAssumption DEF CallsOfRuns, Periods, Unknown
  <2>3. /\ onChain' \in Seq(Periods) /\ DOMAIN onChain \subseteq DOMAIN onChain'
        /\ Len(onChain) <= Len(onChain')
    BY <1>1, <2>1, <2>2, AppendProperties
  <2> QED
    BY <1>1, <2>1, <2>3, BeginInitKeeps DEF Calling
<1> QED
  BY <1>2, <1>3

\* The voter chooses another period, or goes to a new petition: the page is
\* covered only if a petition is being created.
LEMMA ClickKeeps ==
  ASSUME PageInductiveInv, Clicks
  PROVE  PageInductiveInv'
<1>1. /\ PageTypes /\ CallsOfRuns /\ app \in AppRecords /\ repository \in RepositoryRecords
      /\ runs \in [Runs -> RunRecords] /\ page \in PageRecords
      /\ onChain \in Seq(Periods) /\ Len(onChain) \in Nat /\ DOMAIN onChain = 1 .. Len(onChain)
      /\ signed \subseteq DOMAIN onChain
  BY LenProperties DEF PageInductiveInv, PageTypes
<1>2. Periods \cup {Unknown} \subseteq Nat
  BY ClientStateAssumption DEF Periods, Unknown
<1>3. ASSUME NEW r \in Runs, Free(r), NEW run \in RunRecords, run.pc \in {"sign", "create"},
             run.listed = 0, run.pc = "sign" => run.petition \in DOMAIN onChain,
             run.pc = "create" => run.petition \in Periods \cup {Unknown},
             runs' = [runs EXCEPT ![r] = run],
             UNCHANGED <<onChain, signed, calls, repository, past>>
      PROVE  /\ runs' \in [Runs -> RunRecords] /\ CallsOfRuns' /\ SignaturesSeen'
             /\ \A q \in Runs : runs'[q] = IF q = r THEN run ELSE runs[q]
  <2>1. /\ runs' \in [Runs -> RunRecords] /\ runs[r].pc = "idle"
        /\ \A q \in Runs : runs'[q] = IF q = r THEN run ELSE runs[q]
    BY <1>1, <1>3 DEF Free
  <2>2. ASSUME NEW q \in Runs
        PROVE  /\ runs'[q].pc \in Calling <=> runs[q].pc \in Calling
               /\ runs'[q].listed <= Len(onChain)
               /\ runs'[q].pc = "sign" => runs'[q].petition \in DOMAIN onChain
               /\ runs'[q].pc = "create" => runs'[q].petition \in Periods \cup {Unknown}
    BY <1>1, <1>3, <2>1 DEF CallsOfRuns, Calling
  <2>3. CallsOfRuns'
    BY <1>1, <1>3, <2>2 DEF CallsOfRuns
  <2>4. SignaturesSeen'
    BY <1>3, <2>1, SeenKept DEF PageInductiveInv
  <2> QED
    BY <2>1, <2>3, <2>4
<1>4. ASSUME NEW r \in Runs, RefreshClick(r)
      PROVE  PageInductiveInv'
  BY <1>1, <1>4, BeginInitKeeps DEF RefreshClick, Free, Calling
<1>5. ASSUME NEW r \in Runs, NEW i \in DOMAIN onChain, SignClick(r, i)
      PROVE  PageInductiveInv'
  <2> DEFINE run == [IdleRun EXCEPT !.pc = "sign", !.petition = i]
  <2>1. /\ ~ app.locked /\ Free(r) /\ runs' = [runs EXCEPT ![r] = run]
        /\ UNCHANGED <<now, onChain, signed, app, page, repository, calls, fetches, failures, past>>
    BY <1>5 DEF SignClick, Clickable
  <2>0. i \in Nat
    BY <1>1
  <2>2. run \in RunRecords /\ run.pc = "sign" /\ run.petition = i /\ run.listed = 0
    BY <2>0 DEF IdleRun, RunRecords, Unknown
  <2> HIDE DEF run
  <2>3. /\ runs' \in [Runs -> RunRecords] /\ CallsOfRuns' /\ SignaturesSeen'
        /\ \A q \in Runs : runs'[q] = IF q = r THEN run ELSE runs[q]
    BY <1>3, <2>1, <2>2
  <2>4. PageTypes'
    BY <1>1, <2>1, <2>3 DEF PageTypes
  <2>5. ListShown' /\ DatesAwaited' /\ OverlayHasReason'
    BY <2>1, <2>3 DEF PageInductiveInv, ListShown, DatesAwaited, OverlayHasReason, Free
  <2> QED
    BY <2>3, <2>4, <2>5 DEF PageInductiveInv
<1>6. ASSUME NEW r \in Runs, CreateClick(r)
      PROVE  PageInductiveInv'
  <2> DEFINE run == [IdleRun EXCEPT !.pc = "create", !.petition = app.period]
  <2>1. /\ Free(r) /\ SetState(Covered) /\ runs' = [runs EXCEPT ![r] = run]
        /\ UNCHANGED <<now, onChain, signed, repository, calls, failures, past>>
    BY <1>6 DEF CreateClick
  <2>2. app.period \in Periods \cup {Unknown} /\ Covered \in AppRecords
    BY <1>1 DEF AppRecords, Covered
  <2>3. run \in RunRecords /\ run.pc = "create" /\ run.petition = app.period /\ run.listed = 0
    BY <1>2, <2>2 DEF IdleRun, RunRecords, Unknown
  <2> HIDE DEF run
  <2>4. /\ app' = Covered /\ page' \in PageRecords /\ page'.list = repository.signable
        /\ fetches' \subseteq {"widget", "repository"} \X Periods
        /\ DatesAwaited'
    BY <1>1, <2>1, <2>2, SetStateShows
  <2>5. /\ runs' \in [Runs -> RunRecords] /\ CallsOfRuns' /\ SignaturesSeen'
        /\ \A q \in Runs : runs'[q] = IF q = r THEN run ELSE runs[q]
    BY <1>3, <2>1, <2>2, <2>3
  <2>6. PageTypes'
    BY <1>1, <2>1, <2>2, <2>4, <2>5 DEF PageTypes
  <2>7. ListShown' /\ OverlayHasReason'
    BY <2>1, <2>3, <2>4, <2>5 DEF ListShown, OverlayHasReason
  <2> QED
    BY <2>4, <2>5, <2>6, <2>7 DEF PageInductiveInv
<1>7. ASSUME ChoosePeriod
      PROVE  PageInductiveInv'
  <2>1. PICK state \in AppRecords : SetState(state) /\ state.locked = app.locked
    <3>1. ASSUME NEW p \in Periods \cup {Unknown}, NEW custom \in BOOLEAN
          PROVE  LET state == [app EXCEPT !.period = p, !.customPeriod = custom] IN
                 state \in AppRecords /\ state.locked = app.locked
      BY <1>1 DEF AppRecords
    <3>2. repository.period \in Periods \cup {Unknown}
      BY <1>1 DEF RepositoryRecords
    <3> QED
      BY <1>7, <3>1, <3>2 DEF ChoosePeriod
  <2>2. UNCHANGED <<now, onChain, signed, repository, runs, calls, failures, past>>
    BY <1>7 DEF ChoosePeriod
  <2>3. /\ app' = state /\ page' \in PageRecords /\ page'.list = repository.signable
        /\ fetches' \subseteq {"widget", "repository"} \X Periods
        /\ DatesAwaited'
    BY <1>1, <2>1, SetStateShows
  <2>4. PageTypes' /\ CallsOfRuns'
    BY <1>1, <2>1, <2>2, <2>3 DEF PageTypes, CallsOfRuns
  <2>5. SignaturesSeen'
    BY <2>2, SeenKept DEF PageInductiveInv
  <2>6. ListShown' /\ OverlayHasReason'
    BY <2>1, <2>2, <2>3 DEF PageInductiveInv, ListShown, OverlayHasReason
  <2> QED
    BY <2>3, <2>4, <2>5, <2>6 DEF PageInductiveInv
<1> QED
  BY <1>4, <1>5, <1>6, <1>7 DEF Clicks

-----------------------------------------------------------------------------
(* The invariant, and what it says of the page *)

LEMMA ClockKeeps ==
  ASSUME PageInductiveInv, PeriodEnds \/ UNCHANGED clientVars
  PROVE  PageInductiveInv'
<1>1. /\ UNCHANGED <<onChain, signed, app, page, repository, runs, calls, fetches, failures, past>>
      /\ \/ now' = now
         \/ now < MaxPeriod /\ now' = now + 1
  BY DEF PeriodEnds, clientVars
<1>2. now' \in Periods
  BY <1>1, ClientStateAssumption DEF PageInductiveInv, PageTypes, Periods
<1>3. PageTypes' /\ CallsOfRuns'
  BY <1>1, <1>2 DEF PageInductiveInv, PageTypes, CallsOfRuns
<1>4. SignaturesSeen'
  BY <1>1, SeenKept DEF PageInductiveInv
<1>5. ListShown' /\ DatesAwaited' /\ OverlayHasReason'
  BY <1>1 DEF PageInductiveInv, ListShown, DatesAwaited, OverlayHasReason
<1> QED
  BY <1>3, <1>4, <1>5 DEF PageInductiveInv

\* The inductive invariant of the page holds in every state the client reaches,
\* however the voter's clicks, the timers, the replies and the failures
\* interleave (client/src/state.ts, web3repository.ts).
THEOREM PageInvariance == ClientStateSpec => []PageInductiveInv
<1>1. ClientStateInit => PageInductiveInv
  BY PageInit
<1>2. PageInductiveInv /\ [ClientStateNext]_clientVars => PageInductiveInv'
  <2> SUFFICES ASSUME PageInductiveInv, [ClientStateNext]_clientVars
               PROVE  PageInductiveInv'
    OBVIOUS
  <2>1. ASSUME Answered
        PROVE  PageInductiveInv'
    BY <2>1, TickAnsweredKeeps, RunAnsweredKeeps, SignableAnsweredKeeps,
       TimersAnsweredKeeps DEF Answered, RunAnswered
  <2>2. ASSUME Fetched
        PROVE  PageInductiveInv'
    BY <2>2, DatesArriveKeeps DEF Fetched
  <2>3. ASSUME Fails
        PROVE  PageInductiveInv'
    BY <2>3, FailureKeeps DEF Fails
  <2> QED
    BY <2>1, <2>2, <2>3, TickKeeps, ExecuteKeeps, ClickKeeps, EndKeeps, ClockKeeps
       DEF ClientStateNext
<1> QED
  BY <1>1, <1>2, PTL DEF ClientStateSpec

\* Every variable keeps its type, and every run that waits has a call under way.
THEOREM PageTypeCorrect == ClientStateSpec => []ClientStateTypeOK
<1>1. PageInductiveInv => ClientStateTypeOK
  <2> SUFFICES ASSUME PageInductiveInv
               PROVE  ClientStateTypeOK
    OBVIOUS
  <2>1. /\ PageTypes
        /\ \A r \in Runs : runs[r].pc \in Calling <=> \E c \in ToSet(calls) : c.run = r
    BY DEF PageInductiveInv, CallsOfRuns
  <2>2. ASSUME NEW r \in Runs
        PROVE  /\ runs[r].pc \in {"idle", "sign", "create", "period", "list", "flags",
                                  "timers", "failed"}
               /\ runs[r].pc \in {"period", "list", "flags", "timers"}
                    <=> \E k \in DOMAIN calls : calls[k].run = r
    <3>1. runs[r].pc \in Calling \cup {"idle", "sign", "create", "failed"}
      BY <2>1 DEF PageTypes, RunRecords
    <3>2. (\E c \in ToSet(calls) : c.run = r) <=> \E k \in DOMAIN calls : calls[k].run = r
      BY DEF ToSet
    <3> QED
      BY <2>1, <3>1, <3>2 DEF Calling
  <2> QED
    BY <2>1, <2>2 DEF ClientStateTypeOK, PageTypes, AppRecords, PageRecords, RepositoryRecords
<1> QED
  BY <1>1, PageInvariance, PTL

\* The overlay never stays without a reason: as long as it covers the page a run
\* is under way that takes it away, or one failed (init, verifyClick).
THEOREM OverlayExplained == ClientStateSpec => []OverlayHasReason
<1>1. PageInductiveInv => OverlayHasReason
  BY DEF PageInductiveInv
<1> QED
  BY <1>1, PageInvariance, PTL

\* When no dates are awaited and no call failed, the dates shown are those of the
\* period shown, in whatever order they arrived (PeriodWidget.stateChanged).
THEOREM DatesOfPeriodShown == ClientStateSpec => []DatesFitPeriod
<1>1. PageInductiveInv => DatesFitPeriod
  BY DEF PageInductiveInv, DatesAwaited, DatesFitPeriod
<1> QED
  BY <1>1, PageInvariance, PTL

\* However replies overtake each other: once all is quiet the page shows the list
\* obtained last, and what the voter has signed was found to be signed after the
\* signature, so that only an older answer can offer it again (signPetition,
\* refresh).
THEOREM NotOfferedTwice == ClientStateSpec => []SignedNotOffered
<1>1. PageInductiveInv => SignedNotOffered
  <2> SUFFICES ASSUME PageInductiveInv, \A r \in Runs : runs[r].pc = "idle"
               PROVE  /\ page.list = repository.signable
                      /\ \A i \in signed : i \in past.told
    BY DEF SignedNotOffered
  <2>1. page.list = repository.signable
    BY DEF PageInductiveInv, ListShown
  <2>2. \A i : \A r \in Runs : ~ WillSee(r, i)
    BY DEF WillSee
  <2> QED
    BY <2>1, <2>2 DEF PageInductiveInv, SignaturesSeen
<1> QED
  BY <1>1, PageInvariance, PTL

-----------------------------------------------------------------------------
(* ProvingWorker: the inductive invariant *)

HasWorker == Waiting \cup {"loading", "download"}

JobRecords ==
  [kind     : {"none", "sign", "perf", "refresh"},
   pc       : HasWorker \cup {"idle", "digest", "transaction", "refresh", "failed"},
   petition : Petitions \cup {None},
   proof    : [verb : Verbs \cup {"none"}, petition : Petitions \cup {None}]]

HelperRecords == [made : BOOLEAN, artifacts : BOOLEAN, key : BOOLEAN]

WorkerRequest(r) ==
  /\ r.by \in Jobs /\ r.verb \in Verbs /\ r.petition \in Petitions \cup {None}
  /\ r.complete \in BOOLEAN

WorkerTypes ==
  /\ jobs \in [Jobs -> JobRecords]
  /\ helper \in HelperRecords
  /\ handler \in Jobs \cup {None}
  /\ \A r \in requests : WorkerRequest(r)
  /\ requests # {} => handler \in Jobs
  /\ overlay \in BOOLEAN /\ disturbed \subseteq Jobs /\ errors \in 0 .. MaxErrors

\* From the click to the proof.
Engaged(j) == Busy(j) \/ jobs[j].pc = "digest"

\* The request is the one the job j waits for.
Awaited(r, j) ==
  /\ jobs[j].pc \in Waiting
  /\ r.by = j /\ r.verb = Awaits[jobs[j].pc]
  /\ jobs[j].pc # "compile" => r.petition = jobs[j].petition

AtMostOne(S) == \A r, q \in S : r = q

\* A job nobody got in the way of.
Alone(j) ==
  /\ Engaged(j) => /\ \A k \in Jobs \ {j} : ~ Engaged(k)
                   /\ AtMostOne(requests)
                   /\ \A r \in requests : Awaited(r, j)
  /\ Busy(j) => overlay
  /\ jobs[j].pc \in Waiting => handler = j
  /\ jobs[j].proof # Nothing => jobs[j].proof.petition = jobs[j].petition

JobsKeptApart == \A j \in Jobs \ disturbed : Alone(j)

\* The job waits for the helper's init().
Loads(j) == jobs[j].pc \in {"loading", "compile", "download"}

\* Until the first sign() the list is refreshed, if anything.
Unused ==
  /\ requests = {}
  /\ \A j \in Jobs :
       /\ jobs[j].pc \in {"idle", "refresh"}
       /\ jobs[j].pc = "refresh" => overlay /\ \A k \in Jobs \ {j} : jobs[k].pc = "idle"

\* The first sign() has the worker and the page for itself.
Initialising(j) ==
  /\ overlay /\ helper.made
  /\ \A k \in Jobs \ {j} : jobs[k].pc \in {"idle", "failed"}
  /\ jobs[j].pc = "compile" => handler = j
  /\ AtMostOne(requests)
  /\ \A r \in requests : jobs[j].pc = "compile" /\ r.verb = "compileSource"

HelperReady == helper.artifacts /\ helper.key

HelperFits ==
  /\ ~ helper.made => Unused
  /\ \A j \in Jobs : Loads(j) => Initialising(j)
  /\ \A r \in requests : r.verb = "jsProof" /\ r.complete => HelperReady
  /\ \A j \in Jobs : jobs[j].pc = "transaction" => HelperReady

WorkerInductiveInv == WorkerTypes /\ JobsKeptApart /\ HelperFits

-----------------------------------------------------------------------------
(* What the parts of a step do *)

LEMMA WorkerInitInv == WorkerInit => WorkerInductiveInv
<1> SUFFICES ASSUME WorkerInit PROVE WorkerInductiveInv
  OBVIOUS
<1>1. Idle \in JobRecords /\ Idle.pc = "idle" /\ Idle.proof = Nothing
  BY DEF Idle, Nothing, JobRecords
<1>2. \A j \in Jobs : jobs[j] = Idle
  BY DEF WorkerInit
<1>3. WorkerTypes
  <2>1. 0 \in 0 .. MaxErrors
    BY WorkerAssumption
  <2> QED
    BY <1>1, <2>1 DEF WorkerInit, WorkerTypes, HelperRecords
<1>4. \A j \in Jobs : /\ ~ Engaged(j) /\ jobs[j].pc = "idle" /\ jobs[j].proof = Nothing
                      /\ jobs[j].pc \notin Waiting /\ ~ Busy(j)
  BY <1>1, <1>2 DEF Engaged, Busy, Waiting, Awaits
<1>5. JobsKeptApart
  BY <1>4 DEF JobsKeptApart, Alone
<1>6. HelperFits
  BY <1>4 DEF HelperFits, WorkerInit, Unused, Loads
<1> QED
  BY <1>3, <1>5, <1>6 DEF WorkerInductiveInv

LEMMA WaitingValues == Waiting = {"compile", "witness", "proof"}
BY DEF Waiting, Awaits

\* The states in which a job has nothing to do with the worker.
Aside == {"idle", "failed", "refresh", "transaction"}

LEMMA SignOverEffect ==
  ASSUME WorkerTypes, NEW j \in Jobs, SignOver(j)
  PROVE  \E new \in JobRecords :
           /\ jobs' = [jobs EXCEPT ![j] = new]
           /\ new.pc \in Aside \ {"transaction"} /\ new.proof = Nothing
           /\ overlay' \in BOOLEAN /\ (overlay => overlay') /\ disturbed' = disturbed
BY DEF SignOver, Refreshing, Idle, Nothing, JobRecords, Cover, Aside, WorkerTypes

LEMMA FailEffect ==
  ASSUME WorkerTypes, NEW j \in Jobs, Fail(j)
  PROVE  \E new \in JobRecords :
           /\ jobs' = [jobs EXCEPT ![j] = new]
           /\ new.pc \in Aside \ {"transaction"} /\ new.proof = Nothing
           /\ overlay' \in BOOLEAN /\ (overlay => overlay') /\ disturbed' = disturbed
<1>1. CASE jobs[j].kind = "perf"
  BY <1>1 DEF Fail, PerfFails, Idle, Nothing, JobRecords, Aside, WorkerTypes
<1>2. CASE jobs[j].kind # "perf"
  BY <1>2, SignOverEffect DEF Fail, SignFails
<1> QED
  BY <1>1, <1>2

\* A job that does more than to refresh the list comes after the first sign(), and
\* nobody but the first waits for the helper's init().
LEMMA OtherJobs ==
  ASSUME WorkerInductiveInv, NEW j \in Jobs
  PROVE  /\ jobs[j].pc \notin {"idle", "refresh"} => helper.made
         /\ jobs[j].pc \notin {"idle", "failed"} => \A k \in Jobs \ {j} : ~ Loads(k)
         /\ ~ overlay => ~ Loads(j)
BY DEF WorkerInductiveInv, HelperFits, Unused, Initialising

\* A job leaves; whom it gets in the way of by uncovering the page is noted.
LEMMA JobLeaves ==
  ASSUME WorkerInductiveInv, NEW j \in Jobs, jobs[j].pc \notin {"idle", "failed"},
         NEW new \in JobRecords, jobs' = [jobs EXCEPT ![j] = new], new.pc \in Aside,
         new.proof = Nothing \/ (j \notin disturbed => new.proof.petition = new.petition),
         overlay' \in BOOLEAN, errors' \in 0 .. MaxErrors,
         disturbed' \subseteq Jobs, disturbed \subseteq disturbed',
         \A k \in Jobs \ {j} : Busy(k) => (overlay => overlay') \/ k \in disturbed',
         UNCHANGED <<helper, handler>>, requests' \subseteq requests,
         helper.made \/ new.pc = "idle",
         new.pc = "transaction" => HelperReady
  PROVE  WorkerInductiveInv'
<1>1. WorkerTypes'
  BY DEF WorkerInductiveInv, WorkerTypes, WorkerRequest
<1>2. /\ \A k \in Jobs : jobs'[k] = IF k = j THEN new ELSE jobs[k]
      /\ \A k \in Jobs : Busy(k)' => Busy(k) /\ k # j
      /\ \A k \in Jobs : Engaged(k)' => Engaged(k) /\ k # j
      /\ new.pc \notin Waiting
  BY WaitingValues DEF WorkerInductiveInv, WorkerTypes, Busy, Engaged, Aside
<1>3. JobsKeptApart'
  <2> SUFFICES ASSUME NEW l \in Jobs, l \notin disturbed'
               PROVE  Alone(l)'
    BY DEF JobsKeptApart
  <2>1. Alone(l)
    BY DEF WorkerInductiveInv, JobsKeptApart
  <2>2. ASSUME NEW r \in requests, Awaited(r, l), l # j
        PROVE  Awaited(r, l)'
    BY <1>2, <2>2 DEF Awaited
  <2>3. Engaged(l)' => /\ \A k \in Jobs \ {l} : ~ Engaged(k)'
                       /\ AtMostOne(requests')
                       /\ \A r \in requests' : Awaited(r, l)'
    BY <1>2, <2>1, <2>2 DEF Alone, AtMostOne
  <2>4. Busy(l)' => overlay'
    BY <1>2, <2>1 DEF Alone
  <2>5. jobs'[l].pc \in Waiting => handler' = l
    BY <1>2, <2>1 DEF Alone
  <2>6. jobs'[l].proof # Nothing => jobs'[l].proof.petition = jobs'[l].petition
    BY <1>2, <2>1 DEF Alone
  <2> QED
    BY <2>3, <2>4, <2>5, <2>6 DEF Alone
<1>4. HelperFits'
  <2>1. \A k \in Jobs : ~ Loads(k)'
    BY <1>2, OtherJobs DEF Loads, Aside
  <2>2. ~ helper.made => Unused'
    BY <1>2 DEF WorkerInductiveInv, HelperFits, Unused
  <2>3. \A k \in Jobs : jobs'[k].pc = "transaction" => HelperReady'
    BY <1>2 DEF WorkerInductiveInv, HelperFits, HelperReady
  <2> QED
    BY <2>1, <2>2, <2>3 DEF WorkerInductiveInv, HelperFits, HelperReady
<1> QED
  BY <1>1, <1>3, <1>4 DEF WorkerInductiveInv

\* The first sign() makes the helper and is alone; a later one may join others,
\* which is noted.
LEMMA BeginSignInv ==
  ASSUME WorkerInductiveInv, NEW j \in Jobs, CanClick(j), NEW kind \in {"sign", "perf"},
         NEW petition \in Petitions \cup {None}, BeginSign(j, kind, petition)
  PROVE  WorkerInductiveInv'
<1> DEFINE new == [kind |-> kind, pc |-> IF helper.made THEN "digest" ELSE "loading",
                   petition |-> petition, proof |-> Nothing]
           digesting == {k \in Jobs : jobs[k].pc = "digest"}
<1>1. /\ new \in JobRecords /\ new.proof = Nothing
      /\ new.pc = IF helper.made THEN "digest" ELSE "loading"
  BY DEF JobRecords, Nothing, HasWorker
<1>2. /\ jobs' = [jobs EXCEPT ![j] = new]
      /\ helper' = [helper EXCEPT !.made = TRUE]
      /\ overlay' = (overlay \/ ~ helper.made) /\ Joins(j)
      /\ UNCHANGED <<errors, handler, requests>>
      /\ ~ overlay /\ jobs[j].pc = "idle"
  BY DEF BeginSign, CanClick
<1> HIDE DEF new
<1>3. /\ helper \in HelperRecords /\ helper' \in HelperRecords
      /\ helper'.made /\ helper'.artifacts = helper.artifacts /\ helper'.key = helper.key
  BY <1>2 DEF WorkerInductiveInv, WorkerTypes, HelperRecords
<1>4. /\ \A k \in Jobs : jobs'[k] = IF k = j THEN new ELSE jobs[k]
      /\ \A k \in Jobs \ {j} : Busy(k)' <=> Busy(k)
      /\ \A k \in Jobs \ {j} : Engaged(k)' <=> Engaged(k)
      /\ Busy(j)' => new.pc = "loading"
      /\ new.pc \notin Waiting
  BY <1>1, <1>2, WaitingValues DEF WorkerInductiveInv, WorkerTypes, Busy, Engaged
<1>5. \/ /\ disturbed' = disturbed \ {j} /\ requests = {}
         /\ \A k \in Jobs : ~ Engaged(k)
      \/ disturbed' = disturbed \cup digesting \cup {j}
  BY <1>2 DEF Joins, Engaged
<1>6. WorkerTypes'
  BY <1>1, <1>2, <1>3, <1>5 DEF WorkerInductiveInv, WorkerTypes, HelperRecords
<1>7. JobsKeptApart'
  <2> SUFFICES ASSUME NEW l \in Jobs, l \notin disturbed'
               PROVE  Alone(l)'
    BY DEF JobsKeptApart
  <2>1. CASE l = j
    <3>1. requests = {} /\ \A k \in Jobs : ~ Engaged(k)
      BY <1>5, <2>1
    <3>2. AtMostOne(requests')
      BY <1>2, <3>1 DEF AtMostOne
    <3> QED
      BY <1>1, <1>2, <1>4, <2>1, <3>1, <3>2 DEF Alone
  <2>2. CASE l # j
    <3>1. l \notin disturbed /\ Alone(l)
      BY <1>5, <2>2 DEF WorkerInductiveInv, JobsKeptApart
    <3>2. ~ Engaged(l)
      BY <1>2, <1>5, <3>1 DEF Alone, Engaged
    <3>3. ~ Busy(l) /\ jobs[l].pc \notin Waiting
      BY <3>2 DEF Engaged, Busy
    <3> QED
      BY <1>4, <2>2, <3>1, <3>2, <3>3 DEF Alone
  <2> QED
    BY <2>1, <2>2
<1>8. HelperFits'
  <2>1. \A k \in Jobs : ~ Loads(k)
    BY <1>2, OtherJobs
  <2>2. \A k \in Jobs \ {j} : ~ Loads(k)'
    BY <1>4, <2>1 DEF Loads
  <2>3. Loads(j)' => Initialising(j)'
    <3> SUFFICES ASSUME Loads(j)' PROVE Initialising(j)'
      OBVIOUS
    <3>1. ~ helper.made /\ new.pc = "loading"
      BY <1>1, <1>4 DEF Loads
    <3>2. requests = {} /\ \A k \in Jobs : jobs[k].pc = "idle"
      BY <1>2, <3>1 DEF WorkerInductiveInv, HelperFits, Unused
    <3>3. AtMostOne(requests')
      BY <1>2, <3>2 DEF AtMostOne
    <3> QED
      BY <1>2, <1>3, <1>4, <3>1, <3>2, <3>3 DEF Initialising
  <2>4. HelperReady' <=> HelperReady
    BY <1>3 DEF HelperReady
  <2>5. \A k \in Jobs : jobs'[k].pc = "transaction" => HelperReady'
    BY <1>1, <1>4, <2>4 DEF WorkerInductiveInv, HelperFits
  <2> QED
    BY <1>2, <1>3, <2>2, <2>3, <2>4, <2>5 DEF WorkerInductiveInv, HelperFits
<1> QED
  BY <1>6, <1>7, <1>8 DEF WorkerInductiveInv

LEMMA ClickRefreshInv ==
  ASSUME WorkerInductiveInv, NEW j \in Jobs, ClickRefresh(j)
  PROVE  WorkerInductiveInv'
<1>1. /\ Refreshing \in JobRecords /\ Refreshing.proof = Nothing /\ Refreshing.pc = "refresh"
      /\ ~ overlay /\ jobs[j].pc = "idle" /\ jobs' = [jobs EXCEPT ![j] = Refreshing]
      /\ overlay' = TRUE /\ UNCHANGED <<disturbed, helper, handler, requests, errors>>
  BY DEF ClickRefresh, CanClick, Refreshing, Idle, JobRecords, Nothing, Cover
<1> HIDE DEF Refreshing
<1>2. /\ \A k \in Jobs : jobs'[k] = IF k = j THEN Refreshing ELSE jobs[k]
      /\ \A k \in Jobs : Busy(k)' => Busy(k) /\ k # j
      /\ \A k \in Jobs : Engaged(k)' => Engaged(k) /\ k # j
      /\ Refreshing.pc \notin Waiting
  BY <1>1, WaitingValues DEF WorkerInductiveInv, WorkerTypes, Busy, Engaged
<1>3. WorkerTypes'
  BY <1>1 DEF WorkerInductiveInv, WorkerTypes, WorkerRequest
<1>4. JobsKeptApart'
  <2> SUFFICES ASSUME NEW l \in Jobs, l \notin disturbed
               PROVE  Alone(l)'
    BY <1>1 DEF JobsKeptApart
  <2>1. Alone(l)
    BY DEF WorkerInductiveInv, JobsKeptApart
  <2>2. l # j => \A r \in requests : Awaited(r, l) => Awaited(r, l)'
    BY <1>2 DEF Awaited
  <2> QED
    BY <1>1, <1>2, <2>1, <2>2 DEF Alone
<1>5. HelperFits'
  <2>1. \A k \in Jobs : ~ Loads(k)'
    BY <1>1, <1>2, OtherJobs DEF Loads
  <2>2. ~ helper.made => Unused'
    BY <1>1, <1>2 DEF WorkerInductiveInv, HelperFits, Unused
  <2> QED
    BY <1>1, <1>2, <2>1, <2>2 DEF WorkerInductiveInv, HelperFits, HelperReady
<1> QED
  BY <1>3, <1>4, <1>5 DEF WorkerInductiveInv

\* A job that is no longer alone is not alone any more for the others either.
LEMMA OthersAside ==
  ASSUME WorkerInductiveInv, NEW j \in Jobs, Engaged(j), NEW l \in Jobs \ {j},
         l \notin disturbed
  PROVE  /\ ~ Engaged(l) /\ ~ Busy(l) /\ jobs[l].pc \notin Waiting
         /\ jobs[l].proof # Nothing => jobs[l].proof.petition = jobs[l].petition
BY DEF WorkerInductiveInv, JobsKeptApart, Alone, Engaged, Busy

\* A job asks the worker.
LEMMA JobAsks ==
  ASSUME WorkerInductiveInv, NEW j \in Jobs, NEW pc \in Waiting,
         Engaged(j), jobs[j].pc \notin Waiting, Goto(j, pc), Progress,
         NEW petition \in Petitions \cup {None}, NEW complete \in BOOLEAN,
         Post(j, Awaits[pc], petition, complete), UNCHANGED <<helper, errors>>,
         pc # "compile" => petition = jobs[j].petition,
         pc # "proof", pc = "compile" <=> jobs[j].pc = "loading",
         jobs[j].pc # "download"
  PROVE  WorkerInductiveInv'
<1> DEFINE new == Request(j, Awaits[pc], petition, complete, requests)
<1>1. /\ WorkerRequest(new) /\ handler' = j /\ requests' = requests \cup {new}
      /\ new.by = j /\ new.verb = Awaits[pc] /\ new.petition = petition
      /\ new.verb # "jsProof" /\ (pc = "compile" => new.verb = "compileSource")
  BY WaitingValues DEF Post, Request, WorkerRequest, Awaits, Verbs
<1> HIDE DEF new
<1>2. /\ jobs' = [jobs EXCEPT ![j].pc = pc] /\ overlay' = TRUE /\ disturbed' = disturbed
      /\ pc \in HasWorker
  BY DEF Goto, Progress, Cover, HasWorker
<1>3. [jobs[j] EXCEPT !.pc = pc] \in JobRecords
  BY <1>2 DEF WorkerInductiveInv, WorkerTypes, JobRecords
<1>4. WorkerTypes'
  BY <1>1, <1>2, <1>3 DEF WorkerInductiveInv, WorkerTypes, WorkerRequest
<1>5. /\ \A k \in Jobs \ {j} : jobs'[k] = jobs[k]
      /\ jobs'[j].pc = pc /\ jobs'[j].petition = jobs[j].petition /\ jobs'[j].proof = jobs[j].proof
      /\ \A k \in Jobs \ {j} : Busy(k)' <=> Busy(k)
      /\ \A k \in Jobs \ {j} : Engaged(k)' <=> Engaged(k)
  BY <1>2 DEF WorkerInductiveInv, WorkerTypes, JobRecords, Busy, Engaged
<1>6. JobsKeptApart'
  <2> SUFFICES ASSUME NEW l \in Jobs, l \notin disturbed
               PROVE  Alone(l)'
    BY <1>2 DEF JobsKeptApart
  <2>1. CASE l = j
    <3>1. /\ Alone(j) /\ requests = {} /\ \A k \in Jobs \ {j} : ~ Engaged(k)
      BY <2>1 DEF WorkerInductiveInv, JobsKeptApart, Alone, Awaited
    <3>2. AtMostOne(requests') /\ \A r \in requests' : Awaited(r, j)'
      BY <1>1, <1>5, <3>1 DEF AtMostOne, Awaited
    <3> QED
      BY <1>1, <1>2, <1>5, <2>1, <3>1, <3>2 DEF Alone
  <2>2. CASE l # j
    BY <1>5, <2>2, OthersAside DEF Alone
  <2> QED
    BY <2>1, <2>2
<1>7. HelperFits'
  <2>1. helper.made /\ \A k \in Jobs \ {j} : ~ Loads(k)
    BY OtherJobs, WaitingValues DEF Engaged, Busy
  <2>2. \A k \in Jobs \ {j} : ~ Loads(k)'
    BY <1>5, <2>1 DEF Loads
  <2>3. Loads(j)' => Initialising(j)'
    <3> SUFFICES ASSUME Loads(j)' PROVE Initialising(j)'
      OBVIOUS
    <3>1. pc = "compile" /\ jobs[j].pc = "loading"
      BY <1>5, WaitingValues DEF Loads
    <3>2. Initialising(j) /\ requests = {}
      BY <3>1 DEF WorkerInductiveInv, HelperFits, Loads, Initialising
    <3>3. AtMostOne(requests') /\ \A r \in requests' : r.verb = "compileSource"
      BY <1>1, <3>1, <3>2 DEF AtMostOne
    <3> QED
      BY <1>1, <1>2, <1>5, <2>1, <3>1, <3>2, <3>3 DEF Initialising
  <2>4. \A k \in Jobs : jobs'[k].pc = "transaction" => HelperReady'
    BY <1>5, WaitingValues DEF WorkerInductiveInv, HelperFits, HelperReady
  <2> QED
    BY <1>1, <2>1, <2>2, <2>3, <2>4 DEF WorkerInductiveInv, HelperFits, HelperReady
<1> QED
  BY <1>4, <1>6, <1>7 DEF WorkerInductiveInv

LEMMA LoadInv ==
  ASSUME WorkerInductiveInv, NEW j \in Jobs, Load(j)
  PROVE  WorkerInductiveInv'
<1>1. "compile" \in Waiting /\ Awaits["compile"] = "compileSource"
  BY DEF Waiting, Awaits
<1>2. Engaged(j) /\ jobs[j].pc \notin Waiting
  BY WaitingValues DEF Load, Engaged, Busy
<1> QED
  BY <1>1, <1>2, JobAsks DEF Load

LEMMA DigestInv ==
  ASSUME WorkerInductiveInv, NEW j \in Jobs, Digest(j)
  PROVE  WorkerInductiveInv'
<1>1. Engaged(j) /\ jobs[j].pc \notin Waiting /\ jobs[j].pc = "digest" /\ helper.made
  BY WaitingValues, OtherJobs DEF Digest, Engaged
<1>2. CASE Goto(j, "witness") /\ Progress
           /\ Post(j, "computeWitness", jobs[j].petition, helper.artifacts)
  <2>1. "witness" \in Waiting /\ Awaits["witness"] = "computeWitness"
    BY DEF Waiting, Awaits
  <2>2. jobs[j].petition \in Petitions \cup {None} /\ helper.artifacts \in BOOLEAN
    BY DEF WorkerInductiveInv, WorkerTypes, JobRecords, HelperRecords
  <2> QED
    BY <1>1, <1>2, <2>1, <2>2, JobAsks DEF Digest
<1>3. CASE Fail(j) /\ UNCHANGED <<handler, requests>>
  BY <1>1, <1>3, FailEffect, JobLeaves DEF Digest, WorkerInductiveInv, WorkerTypes
<1> QED
  BY <1>2, <1>3 DEF Digest

LEMMA DownloadInv ==
  ASSUME WorkerInductiveInv, NEW j \in Jobs, Download(j)
  PROVE  WorkerInductiveInv'
<1>1. Engaged(j) /\ jobs[j].pc \notin Waiting /\ jobs[j].pc = "download" /\ helper.made
  BY WaitingValues, OtherJobs DEF Download, Engaged, Busy
<1>2. CASE /\ helper' = [helper EXCEPT !.key = TRUE]
           /\ Goto(j, "digest") /\ Uncover(j)
           /\ UNCHANGED errors
  <2>1. /\ jobs' = [jobs EXCEPT ![j].pc = "digest"] /\ UNCHANGED <<handler, requests>>
        /\ overlay' = FALSE /\ disturbed \subseteq disturbed' /\ disturbed' \subseteq Jobs
    BY <1>2 DEF Goto, Download, Uncover, WorkerInductiveInv, WorkerTypes
  <2>2. [jobs[j] EXCEPT !.pc = "digest"] \in JobRecords
    BY DEF WorkerInductiveInv, WorkerTypes, JobRecords
  <2>3. /\ helper' \in HelperRecords /\ helper'.made = helper.made
        /\ helper'.artifacts = helper.artifacts /\ helper'.key
    BY <1>2 DEF WorkerInductiveInv, WorkerTypes, HelperRecords
  <2>4. WorkerTypes'
    BY <1>2, <2>1, <2>2, <2>3 DEF WorkerInductiveInv, WorkerTypes, WorkerRequest
  <2>5. /\ \A k \in Jobs \ {j} : jobs'[k] = jobs[k]
        /\ jobs'[j].pc = "digest" /\ jobs'[j].petition = jobs[j].petition
        /\ jobs'[j].proof = jobs[j].proof
        /\ \A k \in Jobs \ {j} : Busy(k)' <=> Busy(k)
        /\ \A k \in Jobs \ {j} : Engaged(k)' <=> Engaged(k)
        /\ ~ Busy(j)'
    BY <2>1, WaitingValues DEF WorkerInductiveInv, WorkerTypes, JobRecords, Busy, Engaged
  <2>6. JobsKeptApart'
    <3> SUFFICES ASSUME NEW l \in Jobs, l \notin disturbed
                 PROVE  Alone(l)'
      BY <2>1 DEF JobsKeptApart
    <3>1. CASE l = j
      <4>1. /\ Alone(j) /\ requests = {} /\ \A k \in Jobs \ {j} : ~ Engaged(k)
        BY <1>1, <3>1 DEF WorkerInductiveInv, JobsKeptApart, Alone, Awaited
      <4>2. AtMostOne(requests')
        BY <2>1, <4>1 DEF AtMostOne
      <4> QED
        BY <2>1, <2>5, <3>1, <4>1, <4>2, WaitingValues DEF Alone
    <3>2. CASE l # j
      BY <1>1, <2>5, <3>2, OthersAside DEF Alone
    <3> QED
      BY <3>1, <3>2
  <2>7. HelperFits'
    <3>1. \A k \in Jobs : ~ Loads(k)'
      BY <1>1, <2>5, OtherJobs DEF Loads
    <3>2. HelperReady => HelperReady'
      BY <2>3 DEF HelperReady
    <3>3. \A k \in Jobs : jobs'[k].pc = "transaction" => jobs[k].pc = "transaction"
      BY <2>5
    <3> QED
      BY <1>1, <2>1, <2>3, <3>1, <3>2, <3>3 DEF WorkerInductiveInv, HelperFits
  <2> QED
    BY <2>4, <2>6, <2>7 DEF WorkerInductiveInv
<1>3. CASE errors < MaxErrors /\ errors' = errors + 1 /\ Fail(j) /\ UNCHANGED helper
  <2>1. errors' \in 0 .. MaxErrors
    BY <1>3, WorkerAssumption DEF WorkerInductiveInv, WorkerTypes
  <2> QED
    BY <1>1, <1>3, <2>1, FailEffect, JobLeaves DEF Download, WorkerInductiveInv, WorkerTypes
<1> QED
  BY <1>2, <1>3 DEF Download

LEMMA RefreshedInv ==
  ASSUME WorkerInductiveInv, NEW j \in Jobs, Refreshed(j)
  PROVE  WorkerInductiveInv'
<1>1. Idle \in JobRecords /\ Idle.pc = "idle" /\ Idle.pc \in Aside /\ Idle.proof = Nothing
  BY DEF Idle, Nothing, JobRecords, Aside
<1>2. /\ jobs[j].pc = "refresh" /\ jobs' = [jobs EXCEPT ![j] = Idle]
      /\ UNCHANGED <<helper, handler, requests, errors>>
      /\ overlay' = FALSE /\ disturbed \subseteq disturbed' /\ disturbed' \subseteq Jobs
      /\ \A k \in Jobs \ {j} : Busy(k) => k \in disturbed'
  BY DEF Refreshed, Uncover, WorkerInductiveInv, WorkerTypes
<1> HIDE DEF Idle
<1> QED
  BY <1>1, <1>2, JobLeaves DEF WorkerInductiveInv, WorkerTypes

LEMMA TransactionEndsInv ==
  ASSUME WorkerInductiveInv, NEW j \in Jobs, TransactionEnds(j)
  PROVE  WorkerInductiveInv'
<1>1. jobs[j].pc = "transaction" /\ helper.made
  BY OtherJobs DEF TransactionEnds
<1> QED
  BY <1>1, SignOverEffect, JobLeaves DEF TransactionEnds, WorkerInductiveInv, WorkerTypes

-----------------------------------------------------------------------------
(* The worker's answers *)

\* An answer goes to the one who asked last: if nobody got in its way, it is the
\* one that is waited for, and there is no other request.
LEMMA AnswersFit ==
  ASSUME WorkerInductiveInv, NEW request \in requests
  PROVE  /\ handler \in Jobs /\ WorkerRequest(request)
         /\ jobs[handler].pc \in Waiting =>
              /\ Engaged(handler) /\ helper.made
              /\ handler \notin disturbed => requests = {request} /\ Awaited(request, handler)
<1>1. handler \in Jobs /\ WorkerRequest(request)
  BY DEF WorkerInductiveInv, WorkerTypes
<1>2. ASSUME jobs[handler].pc \in Waiting
      PROVE  Engaged(handler) /\ helper.made
  BY <1>1, <1>2, OtherJobs, WaitingValues DEF Engaged, Busy
<1>3. ASSUME jobs[handler].pc \in Waiting, handler \notin disturbed
      PROVE  requests = {request} /\ Awaited(request, handler)
  BY <1>1, <1>2, <1>3 DEF WorkerInductiveInv, JobsKeptApart, Alone, AtMostOne
<1> QED
  BY <1>1, <1>2, <1>3

\* A job goes on with what was answered; the worker may have been asked again.
LEMMA JobProceeds ==
  ASSUME WorkerInductiveInv, NEW request \in requests, jobs[handler].pc \in Waiting,
         NEW new \in JobRecords, new.petition = jobs[handler].petition,
         \/ jobs[handler].pc = "compile" /\ new.pc = "download"
         \/ jobs[handler].pc = "witness" /\ new.pc = "proof",
         jobs' = [jobs EXCEPT ![handler] = new], overlay' = TRUE, disturbed' = disturbed,
         UNCHANGED <<handler, errors>>,
         NEW more, \A r \in more : WorkerRequest(r), AtMostOne(more),
         requests' = (requests \ {request}) \cup more,
         helper' \in HelperRecords, helper'.made = helper.made, HelperReady => HelperReady',
         new.pc = "download" => more = {} /\ new.proof = jobs[handler].proof,
         handler \notin disturbed /\ new.pc = "proof" =>
           /\ new.proof.petition = new.petition
           /\ \A r \in more : Awaited(r, handler)',
         \A r \in more : r.complete => HelperReady
  PROVE  WorkerInductiveInv'
<1> DEFINE j == handler
<1>1. handler \in Jobs /\ Engaged(handler) /\ helper.made
  BY AnswersFit
<1>2. WorkerTypes'
  BY <1>1 DEF WorkerInductiveInv, WorkerTypes, WorkerRequest
<1>3. /\ \A k \in Jobs \ {j} : jobs'[k] = jobs[k]
      /\ jobs'[j] = new
      /\ \A k \in Jobs \ {j} : Busy(k)' <=> Busy(k)
      /\ \A k \in Jobs \ {j} : Engaged(k)' <=> Engaged(k)
  BY <1>1 DEF WorkerInductiveInv, WorkerTypes, Busy, Engaged
<1>4. JobsKeptApart'
  <2> SUFFICES ASSUME NEW l \in Jobs, l \notin disturbed
               PROVE  Alone(l)'
    BY DEF JobsKeptApart
  <2>1. CASE l = j
    <3>1. /\ Alone(j) /\ requests = {request} /\ \A k \in Jobs \ {j} : ~ Engaged(k)
      BY <1>1, <2>1, AnswersFit DEF WorkerInductiveInv, JobsKeptApart, Alone
    <3>2. requests' = more
      BY <3>1
    <3>3. AtMostOne(requests') /\ \A r \in requests' : Awaited(r, j)'
      BY <2>1, <3>2
    <3>4. new.proof # Nothing => new.proof.petition = new.petition
      BY <2>1, <3>1 DEF Alone
    <3> QED
      BY <1>3, <2>1, <3>1, <3>3, <3>4 DEF Alone
  <2>2. CASE l # j
    BY <1>1, <1>3, <2>2, OthersAside DEF Alone
  <2> QED
    BY <2>1, <2>2
<1>5. HelperFits'
  <2>1. \A k \in Jobs \ {j} : ~ Loads(k)'
    BY <1>1, <1>3, OtherJobs, WaitingValues DEF Loads
  <2>2. Loads(j)' => Initialising(j)'
    <3> SUFFICES ASSUME Loads(j)' PROVE Initialising(j)'
      OBVIOUS
    <3>1. jobs[j].pc = "compile" /\ new.pc = "download" /\ more = {}
      BY <1>3 DEF Loads
    <3>2. Initialising(j)
      BY <1>1, <3>1 DEF WorkerInductiveInv, HelperFits, Loads
    <3>3. requests' = {}
      BY <3>1, <3>2 DEF Initialising, AtMostOne
    <3>4. AtMostOne(requests')
      BY <3>3 DEF AtMostOne
    <3> QED
      BY <1>1, <1>3, <3>1, <3>2, <3>3, <3>4 DEF Initialising
  <2>3. \A k \in Jobs : jobs'[k].pc = "transaction" => jobs[k].pc = "transaction"
    BY <1>3
  <2> QED
    BY <1>1, <2>1, <2>2, <2>3 DEF WorkerInductiveInv, HelperFits
<1> QED
  BY <1>2, <1>4, <1>5 DEF WorkerInductiveInv

\* An answer nobody waits for is dropped.
LEMMA DroppedInv ==
  ASSUME WorkerInductiveInv, NEW request \in requests, requests' = requests \ {request},
         UNCHANGED <<jobs, helper, handler, overlay, disturbed, errors>>
  PROVE  WorkerInductiveInv'
<1>1. requests' \subseteq requests /\ (AtMostOne(requests) => AtMostOne(requests'))
  BY DEF AtMostOne
<1>2. WorkerTypes'
  BY <1>1 DEF WorkerInductiveInv, WorkerTypes, WorkerRequest
<1>3. JobsKeptApart'
  <2>1. \A r, j : Awaited(r, j)' <=> Awaited(r, j)
    BY DEF Awaited
  <2> QED
    BY <1>1, <2>1 DEF WorkerInductiveInv, JobsKeptApart, Alone, Engaged, Busy
<1>4. HelperFits'
  BY <1>1 DEF WorkerInductiveInv, HelperFits, HelperReady, Unused, Loads, Initialising
<1> QED
  BY <1>2, <1>3, <1>4 DEF WorkerInductiveInv

LEMMA CompiledInv ==
  ASSUME WorkerInductiveInv, NEW request \in requests, jobs[handler].pc = "compile",
         Compiled(handler, request), UNCHANGED errors,
         requests' = (requests \ {request}) \cup ProofRequest(handler, request)
  PROVE  WorkerInductiveInv'
<1> DEFINE new == [jobs[handler] EXCEPT !.pc = "download"]
<1>1. handler \in Jobs
  BY AnswersFit
<1>2. /\ new \in JobRecords /\ new.pc = "download"
      /\ new.petition = jobs[handler].petition /\ new.proof = jobs[handler].proof
  BY <1>1 DEF WorkerInductiveInv, WorkerTypes, JobRecords, HasWorker
<1>3. ProofRequest(handler, request) = {}
  BY DEF ProofRequest
<1>4. request.verb = "compileSource"
  BY <1>1 DEF WorkerInductiveInv, HelperFits, Loads, Initialising
<1>5. /\ helper' \in HelperRecords
      /\ helper'.made = helper.made /\ helper'.key = helper.key /\ helper'.artifacts
  BY <1>4 DEF Compiled, WorkerInductiveInv, WorkerTypes, HelperRecords
<1>6. jobs' = [jobs EXCEPT ![handler] = new] /\ overlay' = TRUE /\ disturbed' = disturbed
  BY <1>1 DEF Compiled, Goto, Progress, Cover, WorkerInductiveInv, WorkerTypes
<1>7. jobs[handler].pc \in Waiting /\ UNCHANGED <<handler, errors>> /\ AtMostOne({})
  BY WaitingValues DEF Compiled, AtMostOne
<1>8. HelperReady => HelperReady'
  BY <1>5 DEF HelperReady
<1> HIDE DEF new
<1> QED
  BY <1>2, <1>3, <1>5, <1>6, <1>7, <1>8, JobProceeds

LEMMA WitnessComputedInv ==
  ASSUME WorkerInductiveInv, NEW request \in requests, jobs[handler].pc = "witness",
         WitnessComputed(handler, request), UNCHANGED errors,
         requests' = (requests \ {request}) \cup ProofRequest(handler, request)
  PROVE  WorkerInductiveInv'
<1> DEFINE got == [verb |-> request.verb, petition |-> request.petition]
<1> PICK new : new = [jobs[handler] EXCEPT !.pc = "proof", !.proof = got]
  OBVIOUS
<1> PICK ask : ask = Request(handler, "jsProof", request.petition,
                             helper.artifacts /\ helper.key /\ request.verb = "computeWitness",
                             requests \ {request})
  OBVIOUS
<1>1. handler \in Jobs /\ WorkerRequest(request)
  BY AnswersFit
<1>2. got \in [verb : Verbs \cup {"none"}, petition : Petitions \cup {None}]
  BY <1>1 DEF WorkerRequest
<1>3. /\ new \in JobRecords /\ new.pc = "proof"
      /\ new.petition = jobs[handler].petition /\ new.proof = got
  BY <1>1, <1>2, WaitingValues DEF WorkerInductiveInv, WorkerTypes, JobRecords, HasWorker
<1>4. ProofRequest(handler, request) = {ask}
  BY DEF ProofRequest
<1>5. /\ WorkerRequest(ask) /\ ask.by = handler
      /\ ask.verb = "jsProof" /\ ask.petition = request.petition
      /\ ask.complete => HelperReady
  BY <1>1 DEF Request, WorkerRequest, Verbs, HelperReady, WorkerInductiveInv, WorkerTypes,
              HelperRecords
<1>6. jobs' = [jobs EXCEPT ![handler] = new] /\ overlay' = TRUE /\ disturbed' = disturbed
  BY <1>1 DEF WitnessComputed, Progress, Cover, WorkerInductiveInv, WorkerTypes
<1>7. jobs[handler].pc \in Waiting /\ UNCHANGED <<handler, errors, helper>>
  BY WaitingValues DEF WitnessComputed
<1>8. handler \notin disturbed => request.petition = jobs[handler].petition
  BY <1>7, AnswersFit DEF Awaited
<1>10. helper' \in HelperRecords /\ (HelperReady => HelperReady')
  BY <1>7 DEF WorkerInductiveInv, WorkerTypes, HelperReady
<1>11. jobs'[handler] = new
  BY <1>1, <1>6 DEF WorkerInductiveInv, WorkerTypes
<1>12. handler \notin disturbed =>
         new.proof.petition = new.petition /\ Awaited(ask, handler)'
  BY <1>3, <1>5, <1>7, <1>8, <1>11, WaitingValues DEF Awaited, Awaits
<1>13. AtMostOne({ask})
  BY DEF AtMostOne
<1> QED
  BY <1>3, <1>4, <1>5, <1>6, <1>7, <1>10, <1>12, <1>13, JobProceeds

LEMMA ProofGeneratedInv ==
  ASSUME WorkerInductiveInv, NEW request \in requests, request.complete,
         jobs[handler].pc = "proof", ProofGenerated(handler, request), UNCHANGED errors,
         requests' = (requests \ {request}) \cup ProofRequest(handler, request)
  PROVE  WorkerInductiveInv'
<1>1. /\ handler \in Jobs /\ WorkerRequest(request) /\ helper.made
      /\ requests' \subseteq requests
      /\ UNCHANGED <<handler, helper, errors>> /\ errors' \in 0 .. MaxErrors
      /\ jobs[handler].pc \in Waiting /\ disturbed \subseteq Jobs
  BY AnswersFit, WaitingValues
  DEF ProofRequest, ProofGenerated, WorkerInductiveInv, WorkerTypes
<1>2. CASE request.verb = "jsProof"
  <2> DEFINE got == [verb |-> "jsProof", petition |-> request.petition]
             new == [jobs[handler] EXCEPT !.pc = "transaction", !.proof = got]
  <2>1. got \in [verb : Verbs \cup {"none"}, petition : Petitions \cup {None}]
    BY <1>1 DEF WorkerRequest, Verbs
  <2>2. /\ new \in JobRecords /\ new.pc = "transaction"
        /\ new.petition = jobs[handler].petition /\ new.proof = got
    <3>1. jobs[handler] \in JobRecords
      BY <1>1 DEF WorkerInductiveInv, WorkerTypes
    <3> QED
      BY <2>1, <3>1 DEF JobRecords
  <2>3. got.petition = request.petition
    OBVIOUS
  <2>4. /\ jobs' = [jobs EXCEPT ![handler] = new] /\ overlay' = FALSE
        /\ disturbed' = disturbed \cup {k \in Jobs \ {handler} : Busy(k)}
    BY <1>1, <1>2 DEF ProofGenerated, Uncover, WorkerInductiveInv, WorkerTypes
  <2> HIDE DEF new, got
  <2>5. handler \notin disturbed => new.proof.petition = new.petition
    BY <1>1, <2>2, <2>3, AnswersFit DEF Awaited
  <2>6. HelperReady
    BY <1>2 DEF WorkerInductiveInv, HelperFits
  <2>7. /\ disturbed \subseteq disturbed' /\ disturbed' \subseteq Jobs
        /\ \A k \in Jobs \ {handler} : Busy(k) => k \in disturbed'
    BY <1>1, <2>4
  <2> QED
    BY <1>1, <2>2, <2>4, <2>5, <2>6, <2>7, JobLeaves DEF Aside
<1>3. CASE request.verb # "jsProof"
  BY <1>1, <1>3, SignOverEffect, JobLeaves DEF ProofGenerated, WorkerInductiveInv
<1> QED
  BY <1>2, <1>3

LEMMA WorkerAnswersInv ==
  ASSUME WorkerInductiveInv, NEW request \in requests, WorkerAnswers(request)
  PROVE  WorkerInductiveInv'
<1>1. handler \in Jobs
  BY AnswersFit
<1>2. CASE jobs[handler].pc \notin Waiting
  BY <1>2, DroppedInv DEF WorkerAnswers
<1>3. CASE /\ jobs[handler].pc \in Waiting /\ request.complete
           /\ Resolve(handler, request)
           /\ requests' = (requests \ {request}) \cup ProofRequest(handler, request)
           /\ UNCHANGED errors
  BY <1>3, CompiledInv, WitnessComputedInv, ProofGeneratedInv DEF Resolve
<1>4. CASE /\ jobs[handler].pc \in Waiting
           /\ \/ ~ request.complete /\ UNCHANGED errors
              \/ request.complete /\ errors < MaxErrors /\ errors' = errors + 1
           /\ Fail(handler)
           /\ requests' = requests \ {request}
           /\ UNCHANGED <<helper, handler>>
  <2>1. errors' \in 0 .. MaxErrors /\ requests' \subseteq requests
    BY <1>4, WorkerAssumption DEF WorkerInductiveInv, WorkerTypes
  <2>2. helper.made /\ jobs[handler].pc \notin {"idle", "failed"}
    BY <1>4, AnswersFit, WaitingValues
  <2> QED
    BY <1>1, <1>4, <2>1, <2>2, FailEffect, JobLeaves
    DEF WorkerInductiveInv, WorkerTypes
<1> QED
  BY <1>2, <1>3, <1>4 DEF WorkerAnswers

LEMMA WorkerNextInv == WorkerInductiveInv /\ [WorkerNext]_workerVars => WorkerInductiveInv'
<1> SUFFICES ASSUME WorkerInductiveInv, [WorkerNext]_workerVars
             PROVE  WorkerInductiveInv'
  OBVIOUS
<1>1. ASSUME NEW j \in Jobs, ClickSign(j) PROVE WorkerInductiveInv'
  BY <1>1, BeginSignInv DEF ClickSign
<1>2. ASSUME NEW j \in Jobs, ClickPerf(j) PROVE WorkerInductiveInv'
  BY <1>2, BeginSignInv DEF ClickPerf
<1>3. ASSUME NEW j \in Jobs, ClickRefresh(j) PROVE WorkerInductiveInv'
  BY <1>3, ClickRefreshInv
<1>4. ASSUME NEW j \in Jobs, Proceed(j) PROVE WorkerInductiveInv'
  BY <1>4, LoadInv, DownloadInv, DigestInv, TransactionEndsInv, RefreshedInv DEF Proceed
<1>5. ASSUME NEW request \in requests, WorkerAnswers(request) PROVE WorkerInductiveInv'
  BY <1>5, WorkerAnswersInv
<1>6. CASE UNCHANGED workerVars
  BY <1>6
  DEF workerVars, WorkerInductiveInv, WorkerTypes, WorkerRequest, JobsKeptApart, Alone,
      Engaged, Busy, Awaited, HelperFits, HelperReady, Unused, Loads, Initialising
<1> QED
  BY <1>1, <1>2, <1>3, <1>4, <1>5, <1>6 DEF WorkerNext

-----------------------------------------------------------------------------
(* ProvingWorker: what follows *)

\* The jobs, the worker's requests and the helper fit together, except for the
\* jobs that others got in the way of, by a second click or by uncovering the
\* page.
THEOREM WorkerInvariance == WorkerSpec => []WorkerInductiveInv
  BY WorkerInitInv, WorkerNextInv, PTL DEF WorkerSpec

\* Whatever is clicked within a digest and whoever uncovers the page: a job that
\* nobody got in the way of is alone, gets the answer to its own request, and its
\* proof is for the petition that was clicked on.
THEOREM ProofsOneAtATime == WorkerSpec => []OneProofAtATime
<1>1. WorkerInductiveInv => OneProofAtATime
  <2> SUFFICES ASSUME WorkerInductiveInv, NEW j \in Jobs \ disturbed
               PROVE  /\ Busy(j) => \A k \in Jobs \ {j} : ~ Busy(k)
                      /\ jobs[j].pc \in Waiting =>
                           /\ handler = j
                           /\ \A r \in requests : r.by = j /\ r.verb = Awaits[jobs[j].pc]
                      /\ jobs[j].proof # Nothing =>
                           jobs[j].proof.petition = jobs[j].petition
    BY DEF OneProofAtATime
  <2>1. Alone(j)
    BY DEF WorkerInductiveInv, JobsKeptApart
  <2> QED
    BY <2>1 DEF Alone, Engaged, Busy, Awaited
<1> QED
  BY <1>1, WorkerInvariance, PTL

\* Whatever fails and whatever is clicked: the first sign() is alone until the
\* helper's init() is over, and a signature is sent only if it succeeded.
THEOREM HelperUsedInitialised == WorkerSpec => []HelperInitialised
<1>1. WorkerInductiveInv => HelperInitialised
  BY DEF WorkerInductiveInv, HelperFits, HelperReady, HelperInitialised, Loads, Initialising
<1> QED
  BY <1>1, WorkerInvariance, PTL

=============================================================================
