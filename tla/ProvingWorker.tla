--------------------------- MODULE ProvingWorker ---------------------------
(***************************************************************************)
(* Proofs of zero-knowledge signatures are made in a web worker            *)
(* (client/src/compileZokratesWorker.js), which all calls of sign() share  *)
(* through one helper (client/src/zokrates.ts, ZKClientProvider).  A       *)
(* request replaces the handler of the worker's answers, so an answer goes *)
(* to whoever asked last.  What keeps two calls apart is the overlay: a    *)
(* page that is covered cannot be clicked on.  But the overlay is one text *)
(* for the whole page, and whoever is done takes it away: a signature that *)
(* is mined while the next one is being proved does.                       *)
(*                                                                         *)
(* A witness or proof is known by the petition it is for.                  *)
(***************************************************************************)
EXTENDS Naturals, FiniteSets

CONSTANTS
  Jobs,       \* click handlers that may run at a time
  Petitions,
  MaxErrors,  \* bound on failures of the worker and of the download
  None

ASSUME WorkerAssumption ==
  None \notin Jobs \cup Petitions /\ MaxErrors \in Nat

VARIABLES
  jobs,      \* what each click handler does: [kind, pc, petition, proof]
  helper,    \* the ZokratesHelper: made, and what its init() got so far
  handler,   \* the job that worker.onmessage belongs to
  requests,  \* requests the worker has not answered: [by, verb, petition, complete]
  overlay,   \* whether the page is covered
  disturbed, \* what the program does not keep: the jobs another one got in the way
             \* of, by uncovering the page or by a second click
  errors     \* failures so far

workerVars == <<jobs, helper, handler, requests, overlay, disturbed, errors>>

Verbs == {"compileSource", "computeWitness", "jsProof"}

\* The page waits for the answer to a request of each kind.
Awaits == [compile |-> "compileSource", witness |-> "computeWitness", proof |-> "jsProof"]

Waiting == DOMAIN Awaits

\* What a job has of the worker's, and whom it is about.
Nothing == [verb |-> "none", petition |-> None]

Idle == [kind |-> "none", pc |-> "idle", petition |-> None, proof |-> Nothing]

WorkerInit ==
  /\ jobs = [j \in Jobs |-> Idle]
  /\ helper = [made |-> FALSE, artifacts |-> FALSE, key |-> FALSE]
  /\ handler = None
  /\ requests = {}
  /\ overlay = FALSE
  /\ disturbed = {}
  /\ errors = 0

Refreshing == [Idle EXCEPT !.kind = "refresh", !.pc = "refresh"]

Goto(j, pc) == jobs' = [jobs EXCEPT ![j].pc = pc]

\* The job needs the worker or the helper's init().
Busy(j) == jobs[j].pc \in Waiting \cup {"loading", "download"}

Cover == overlay' = TRUE /\ UNCHANGED disturbed

\* Faulty variant: the text is replaced by none.
NotCovered == overlay' = FALSE /\ UNCHANGED disturbed

\* initProgress with a text.
Progress == Cover

\* The one who takes the overlay away does not look who else is busy.
Uncover(j) ==
  /\ overlay' = FALSE
  /\ disturbed' = disturbed \cup {k \in Jobs \ {j} : Busy(k)}

\* Requests that are otherwise the same are told apart by a number.
Request(j, verb, petition, complete, others) ==
  [by |-> j, verb |-> verb, petition |-> petition, complete |-> complete,
   number |-> CHOOSE n \in 0 .. Cardinality(others) : \A r \in others : r.number # n]

\* Faulty variant: only the first request sets the handler.
HandlerKept(j, verb, petition, complete) ==
  /\ handler' = IF handler = None THEN j ELSE handler
  /\ requests' = requests \cup {Request(j, verb, petition, complete, requests)}

\* onmessage is replaced, and the request posted.
Post(j, verb, petition, complete) ==
  /\ handler' = j
  /\ requests' = requests \cup {Request(j, verb, petition, complete, requests)}

-----------------------------------------------------------------------------
(* What the voter does *)

CanClick(j) == ~ overlay /\ jobs[j].pc = "idle"

\* A click finds jobs that are computing a digest, when the page is not covered,
\* or a worker that is busy.
Joins(j) ==
  LET digesting == {k \in Jobs : jobs[k].pc = "digest"} IN
    disturbed' = IF digesting = {} /\ requests = {} /\ \A k \in Jobs : ~ Busy(k)
                 THEN disturbed \ {j} ELSE disturbed \cup digesting \cup {j}

\* The first sign() makes the helper, and only the first waits for its init().
BeginSign(j, kind, petition) ==
  LET pc == IF helper.made THEN "digest" ELSE "loading" IN
  /\ jobs' = [jobs EXCEPT ![j] = [kind |-> kind, pc |-> pc, petition |-> petition,
                                  proof |-> Nothing]]
  /\ helper' = [helper EXCEPT !.made = TRUE]
  /\ overlay' = (overlay \/ ~ helper.made)
  /\ Joins(j)
  /\ UNCHANGED <<handler, requests, errors>>

ClickSign(j) == CanClick(j) /\ \E p \in Petitions : BeginSign(j, "sign", p)

\* A measurement calls sign() with a petition that is made up.
ClickPerf(j) == CanClick(j) /\ BeginSign(j, "perf", None)

ClickRefresh(j) ==
  /\ CanClick(j)
  /\ jobs' = [jobs EXCEPT ![j] = Refreshing]
  /\ Cover
  /\ UNCHANGED <<helper, handler, requests, errors>>

-----------------------------------------------------------------------------
(* How a call of sign() ends *)

\* The rejected promise of a measurement is caught by nobody: if it was about
\* the helper's init(), the overlay stays.
PerfFails(j) ==
  /\ jobs' = [jobs EXCEPT ![j] =
       IF jobs[j].pc \in {"compile", "download"} THEN [Idle EXCEPT !.pc = "failed"] ELSE Idle]
  /\ UNCHANGED <<overlay, disturbed>>

\* signPetition shows the error, if any, and calls init() of the repository.
SignOver(j) ==
  /\ jobs' = [jobs EXCEPT ![j] = Refreshing]
  /\ Cover

\* Faulty variant: what fails is shown, and that is all.
ErrorShown(j) == jobs' = [jobs EXCEPT ![j] = Idle] /\ UNCHANGED <<overlay, disturbed>>

SignFails(j) == SignOver(j)

Fail(j) == IF jobs[j].kind = "perf" THEN PerfFails(j) ELSE SignFails(j)

\* init() of the repository ends.
Refreshed(j) ==
  /\ jobs[j].pc = "refresh"
  /\ jobs' = [jobs EXCEPT ![j] = Idle]
  /\ Uncover(j)
  /\ UNCHANGED <<helper, handler, requests, errors>>

\* The transaction is mined, reverts, or is refused in the wallet.
TransactionEnds(j) ==
  /\ jobs[j].pc = "transaction"
  /\ SignOver(j)
  /\ UNCHANGED <<helper, handler, requests, errors>>

-----------------------------------------------------------------------------
(* The helper *)

\* initialize() of the library is done, and compile() is called.
Load(j) ==
  /\ jobs[j].pc = "loading"
  /\ Goto(j, "compile")
  /\ Progress
  /\ Post(j, "compileSource", None, TRUE)
  /\ UNCHANGED <<helper, errors>>

\* download_pk: init() is done when the key is there.
Download(j) ==
  /\ jobs[j].pc = "download"
  /\ \/ /\ helper' = [helper EXCEPT !.key = TRUE]
        /\ Goto(j, "digest") /\ Uncover(j)
        /\ UNCHANGED errors
     \/ /\ errors < MaxErrors /\ errors' = errors + 1
        /\ Fail(j)
        /\ UNCHANGED helper
  /\ UNCHANGED <<handler, requests>>

\* _hpers, get_key and get_proof.  The petition of a measurement has no
\* period, so get_key throws; it does too for a period without credentials.
Digest(j) ==
  /\ jobs[j].pc = "digest"
  /\ \/ /\ jobs[j].kind = "sign"
        /\ Goto(j, "witness")
        /\ Progress
        /\ Post(j, "computeWitness", jobs[j].petition, helper.artifacts)
     \/ Fail(j) /\ UNCHANGED <<handler, requests>>
  /\ UNCHANGED <<helper, errors>>

\* compile() returns; the proving key is downloaded.
Compiled(j, answer) ==
  /\ Goto(j, "download")
  /\ helper' = [helper EXCEPT !.artifacts = answer.verb = "compileSource"]
  /\ Progress
  /\ UNCHANGED handler

\* computeWitness() returns; generateProof is called with what it returned.
WitnessComputed(j, answer) ==
  /\ jobs' = [jobs EXCEPT ![j].pc = "proof",
                          ![j].proof = [verb |-> answer.verb, petition |-> answer.petition]]
  /\ Progress
  /\ handler' = j
  /\ UNCHANGED helper

\* generateProof() returns: the signature is sent, unless it has no points.
ProofGenerated(j, answer) ==
  /\ IF answer.verb = "jsProof"
     THEN /\ jobs' = [jobs EXCEPT ![j].pc = "transaction",
                ![j].proof = [verb |-> "jsProof", petition |-> answer.petition]]
          /\ Uncover(j)
     ELSE SignOver(j)
  /\ UNCHANGED <<handler, helper>>

Resolve(j, answer) ==
  \/ jobs[j].pc = "compile" /\ Compiled(j, answer)
  \/ jobs[j].pc = "witness" /\ WitnessComputed(j, answer)
  \/ jobs[j].pc = "proof" /\ ProofGenerated(j, answer)

\* The request of a job that has its witness.
ProofRequest(j, answer) ==
  IF jobs[j].pc = "witness"
  THEN {Request(j, "jsProof", answer.petition,
                helper.artifacts /\ helper.key /\ answer.verb = "computeWitness",
                requests \ {answer})}
  ELSE {}

\* An answer settles the promise of the last request; one that is settled
\* already stays as it is.  A request that lacks an input is answered by an
\* error.
WorkerAnswers(request) ==
  LET j == handler
      rest == requests \ {request}
  IN
  /\ \/ /\ jobs[j].pc \notin Waiting
        /\ requests' = rest
        /\ UNCHANGED <<jobs, helper, handler, overlay, disturbed, errors>>
     \/ /\ jobs[j].pc \in Waiting /\ request.complete
        /\ Resolve(j, request)
        /\ requests' = rest \cup ProofRequest(j, request)
        /\ UNCHANGED errors
     \/ /\ jobs[j].pc \in Waiting
        /\ \/ ~ request.complete /\ UNCHANGED errors
           \/ request.complete /\ errors < MaxErrors /\ errors' = errors + 1
        /\ Fail(j)
        /\ requests' = rest
        /\ UNCHANGED <<helper, handler>>

-----------------------------------------------------------------------------

Proceed(j) == Load(j) \/ Download(j) \/ Digest(j) \/ TransactionEnds(j) \/ Refreshed(j)

WorkerNext ==
  \/ \E j \in Jobs : ClickSign(j) \/ ClickPerf(j) \/ ClickRefresh(j) \/ Proceed(j)
  \/ \E request \in requests : WorkerAnswers(request)

WorkerSpec == WorkerInit /\ [][WorkerNext]_workerVars

\* The worker answers, and whatever else is awaited comes.
WorkerFairSpec ==
  /\ WorkerSpec
  /\ WF_workerVars(\E request \in requests : WorkerAnswers(request))
  /\ \A j \in Jobs : WF_workerVars(Proceed(j))

-----------------------------------------------------------------------------
(* Properties *)

\* The types of the variables.
WorkerTypeOK ==
  /\ handler \in Jobs \cup {None}
  /\ helper \in [made : BOOLEAN, artifacts : BOOLEAN, key : BOOLEAN]
  /\ overlay \in BOOLEAN /\ disturbed \subseteq Jobs /\ errors \in 0 .. MaxErrors
  /\ \A j \in Jobs : jobs[j].kind \in {"none", "sign", "perf", "refresh"}
  /\ \A r \in requests : r.by \in Jobs /\ r.verb \in Verbs /\ r.complete \in BOOLEAN

\* Two jobs are under way with the worker only if one of them got in the way of
\* the other: it uncovered the page while the other was busy, or clicked before
\* the other covered it.  Otherwise a job is alone, the answer it waits for is
\* that to its own request, and its proof is for the petition that was clicked
\* on, whatever the jobs before it left unanswered (the onmessage of compile,
\* computeWitness and generateProof, initProgress).
OneProofAtATime ==
  \A j \in Jobs \ disturbed :
    /\ Busy(j) => \A k \in Jobs \ {j} : ~ Busy(k)
    /\ jobs[j].pc \in Waiting =>
         /\ handler = j
         /\ \A r \in requests : r.by = j /\ r.verb = Awaits[jobs[j].pc]
    /\ jobs[j].proof # Nothing => jobs[j].proof.petition = jobs[j].petition

\* The first sign() is alone until the helper's init() is over, though the
\* others only look whether the helper was made; and if init() failed, nobody
\* sends a signature, whoever gets whose answer (_init, jsProof).
HelperInitialised ==
  /\ \A j \in Jobs : jobs[j].pc \in {"loading", "compile", "download"} =>
       \A k \in Jobs \ {j} : jobs[k].pc \in {"idle", "failed"}
  /\ \A j \in Jobs : jobs[j].pc = "transaction" => helper.artifacts /\ helper.key

\* The page does not stay covered, not even if jobs take each other's answers,
\* as the last to ask always gets one; only a measurement whose init() failed
\* leaves the overlay for good (initProgress, signPetition, measurePerformance).
PageReturns == overlay ~> (~ overlay \/ \E j \in Jobs : jobs[j].pc = "failed")

=============================================================================
