--------------------------- MODULE ProviderFeeds ---------------------------
(***************************************************************************)
(* What a provider tells the treasury and how it is reconciled: statements *)
(* (services/reconciliation-service/src/statements.mjs) and settlement     *)
(* webhooks (services/api-gateway/src/webhooks.mjs), each followed by a    *)
(* job (services/job-worker/src/handlers/webhooks.mjs) that asks           *)
(* reconciliation-service to match statement lines to payments.            *)
(*                                                                         *)
(* A matching run reads the statement's lines and then, over HTTP, the     *)
(* payments; only the writes are one transaction.  The worker waits 2.5 s  *)
(* for a run and then fails the job, and the run goes on: several runs of  *)
(* one statement, or of statements that share a transfer, overlap.  The    *)
(* queue is the one of SettlementSaga, where its crashes are modelled.     *)
(***************************************************************************)
EXTENDS Integers, FiniteSets

CONSTANTS
  Payments,        \* payments sent through the provider; a payment's provider
                   \* reference is modelled by the payment itself
  Statements,      \* provider statements
  Lines,           \* statement lines
  Events,          \* settlement webhooks, by the provider's event id
  Runs,            \* matching runs reconciliation-service serves at a time
  None,
  StatementOf,     \* the statement a line is on
  RefOf,           \* the line's provider_ref: a payment's, or one of its own
                   \* (the line itself) that no payment has
  Order,           \* position of a line in the order of provider_ref
  Differs,         \* a line's amount against its payment's: "no", "fee", "amount"
  Twins,           \* payments of the same asset, amount and day as a line
  Period,          \* payments whose settlement falls in a statement's period
  EventRef,        \* the transfer a webhook confirms
  InFlight,        \* payments still executing when the feeds start; the others
                   \* have settled
  MaxAttempts,     \* max_attempts of each job (3 for both kinds)
  MaxResolves      \* bound: exception rows the treasury resolves by hand

ASSUME FeedConstants ==
  /\ StatementOf \in [Lines -> Statements]
  /\ RefOf \in [Lines -> Payments \union Lines]
  /\ Payments \intersect Lines = {}
  /\ Order \in [Lines -> Nat]
  /\ Differs \in [Lines -> {"no", "fee", "amount"}]
  /\ Twins \in [Lines -> SUBSET Payments]
  /\ Period \in [Statements -> SUBSET Payments]
  /\ EventRef \in [Events -> Payments]
  /\ InFlight \subseteq Payments
  /\ MaxAttempts \in [Statements \union Events -> Nat \ {0}]
  /\ MaxResolves \in Nat
  /\ None \notin Payments \union Statements \union Lines \union Runs
  /\ None \notin {"matched", "exception"}

(* One job per ingested statement and one per stored settlement webhook.    *)
Jobs == Statements \union Events

(* reconciliation_rows other than Matched: what they are about, and the issue. *)
Exceptions ==
  (Lines \X {"duplicate", "missing_ours"})
    \union (Payments \X {"fee", "amount", "missing_theirs"})

VARIABLES
  paid,            \* payment-service's row of each payment
  line,            \* match_status of each line
  claim,           \* the payment a matched line was matched to
  matchedRows,     \* number of Matched rows of each payment
  open,            \* Open exception rows
  explained,       \* exception rows, Open or Resolved
  event,           \* webhook_events row: status, or absent
  ingress,         \* events the gateway stored and has not yet queued
  acked,           \* events the provider was told are processed
  job,             \* platform.jobs row of each job
  waits,           \* the run a job's worker is waiting for
  run              \* the matching runs

feedVars == <<paid, line, claim, matchedRows, open, explained>>
queueVars == <<event, ingress, acked, job, waits>>
vars == <<feedVars, queueVars, run>>

PaidStates == {"executing", "referenced", "recorded", "settled"}
LineStates == {"absent", "pending", "matched", "exception"}

Verdict ==
  [line : Lines, kind : {"exact", "twin", "duplicate", "fee", "amount", "missing_ours"},
   payment : Payments \union {None}, confirmed : BOOLEAN]

(* A run: its place in the code, its statement, the lines and payments it
   read, the references it claimed, and what its transaction wrote so far.  *)
Run ==
  [at : {"idle", "lines", "payments", "decide", "write"},
   statement : Statements \union {None}, todo : SUBSET Lines,
   seen : [Payments -> PaidStates], refs : SUBSET Payments,
   verdict : Verdict \union {None},
   wrote : [Lines -> {"matched", "exception", None}],
   claims : [Lines -> Payments \union {None}],
   inserted : SUBSET Payments, opened : SUBSET Exceptions]

FeedsType ==
  /\ paid \in [Payments -> PaidStates]
  /\ line \in [Lines -> LineStates]
  /\ claim \in [Lines -> Payments \union {None}]
  /\ matchedRows \in [Payments -> Nat]
  /\ open \subseteq explained
  /\ explained \subseteq Exceptions
  /\ event \in [Events -> {"absent", "received", "processed"}]
  /\ ingress \subseteq Events
  /\ acked \subseteq Events
  /\ job \in [Jobs -> [status : {"absent", "pending", "listing", "running", "failed",
                                 "completed", "dead_lettered"},
                       attempts : Nat, todo : SUBSET Statements]]
  /\ waits \in [Jobs -> Runs \union {None}]
  /\ run \in [Runs -> Run]

Idle ==
  [at |-> "idle", statement |-> None, todo |-> {}, refs |-> {}, verdict |-> None,
   seen |-> [p \in Payments |-> "executing"], wrote |-> [l \in Lines |-> None],
   claims |-> [l \in Lines |-> None], inserted |-> {}, opened |-> {}]

FeedsInit ==
  /\ paid = [p \in Payments |-> IF p \in InFlight THEN "executing" ELSE "settled"]
  /\ line = [l \in Lines |-> "absent"]
  /\ claim = [l \in Lines |-> None]
  /\ matchedRows = [p \in Payments |-> IF p \in InFlight THEN 0 ELSE 1]
  /\ open = {} /\ explained = {}
  /\ event = [e \in Events |-> "absent"]
  /\ ingress = {} /\ acked = {}
  /\ job = [j \in Jobs |-> [status |-> "absent", attempts |-> 0, todo |-> {}]]
  /\ waits = [j \in Jobs |-> None]
  /\ run = [m \in Runs |-> Idle]

LinesOf(s) == {l \in Lines : StatementOf[l] = s}
Ingested == {s \in Statements : job[s].status # "absent"}
Queued(t) == [status |-> "pending", attempts |-> 0, todo |-> t]

----------------------------------------------------------------------------
(* The payments, as their saga advances them                               *)

(* The transfer was submitted and its reference stored.                    *)
SaveRef(p) ==
  /\ paid[p] = "executing"
  /\ paid' = [paid EXCEPT ![p] = "referenced"]
  /\ UNCHANGED <<line, claim, matchedRows, open, explained, queueVars, run>>

(* Mutant: without the unique index and the lookup before the insert.       *)
RecordMatchedAgain(p) ==
  /\ paid[p] = "referenced"
  /\ paid' = [paid EXCEPT ![p] = "recorded"]
  /\ matchedRows' = [matchedRows EXCEPT ![p] = @ + 1]
  /\ UNCHANGED <<line, claim, open, explained, queueVars, run>>

(* POST /reconciliation/matched: the unique index makes it wait for a run
   that is inserting the same row, and 23505 is answered with that row.    *)
RecordMatched(p) ==
  /\ paid[p] = "referenced"
  /\ \A m \in Runs : p \notin run[m].inserted
  /\ paid' = [paid EXCEPT ![p] = "recorded"]
  /\ matchedRows' = [matchedRows EXCEPT ![p] = IF @ > 0 THEN @ ELSE 1]
  /\ UNCHANGED <<line, claim, open, explained, queueVars, run>>

Settle(p) ==
  /\ paid[p] = "recorded"
  /\ paid' = [paid EXCEPT ![p] = "settled"]
  /\ UNCHANGED <<line, claim, matchedRows, open, explained, queueVars, run>>

----------------------------------------------------------------------------
(* Statements and webhooks come in                                         *)

(* ingestStatement: the statement, its lines and the match job commit as one;
   a statement that is there already answers "duplicate".                  *)
Ingest(s) ==
  /\ job[s].status = "absent"
  /\ line' = [l \in Lines |-> IF l \in LinesOf(s) THEN "pending" ELSE line[l]]
  /\ job' = [job EXCEPT ![s] = Queued({s})]
  /\ UNCHANGED <<paid, claim, matchedRows, open, explained, event, ingress, acked, waits, run>>

(* Mutant: the provider is answered before the job is queued.               *)
StoreAndAnswer(e) ==
  /\ event[e] = "absent"
  /\ event' = [event EXCEPT ![e] = "received"]
  /\ ingress' = ingress \union {e}
  /\ acked' = acked \union {e}
  /\ UNCHANGED <<feedVars, job, waits, run>>

(* processWebhook: the event row is inserted in a transaction of its own.   *)
StoreEvent(e) ==
  /\ event[e] = "absent"
  /\ event' = [event EXCEPT ![e] = "received"]
  /\ ingress' = ingress \union {e}
  /\ UNCHANGED <<feedVars, acked, job, waits, run>>

(* enqueueJob, in another one; then the provider is answered.               *)
EnqueueEvent(e) ==
  /\ e \in ingress
  /\ ingress' = ingress \ {e}
  /\ job' = [job EXCEPT ![e] = Queued({})]
  /\ acked' = acked \union {e}
  /\ UNCHANGED <<feedVars, event, waits, run>>

(* The gateway dies, or the insert of the job fails, in between.  The provider
   delivers again and the stored row makes that a duplicate: nothing queues. *)
LoseEnqueue(e) ==
  /\ e \in ingress
  /\ ingress' = ingress \ {e}
  /\ UNCHANGED <<feedVars, event, acked, job, waits, run>>

----------------------------------------------------------------------------
(* The job worker                                                          *)

SetJob(j, status) == job' = [job EXCEPT ![j].status = status]

ClaimJob(j) ==
  /\ job[j].status \in {"pending", "failed"}
  /\ job' = [job EXCEPT ![j].status = IF j \in Events THEN "listing" ELSE "running",
                        ![j].attempts = @ + 1,
                        ![j].todo = IF j \in Events THEN {} ELSE {j}]
  /\ UNCHANGED <<feedVars, event, ingress, acked, waits, run>>

(* Mutant: a status the table's CHECK does not know.                        *)
FailedOrExhausted(j) == IF job[j].attempts >= MaxAttempts[j] THEN "exhausted" ELSE "failed"

(* failJob: the last attempt is dead-lettered.                              *)
FailedStatus(j) == IF job[j].attempts >= MaxAttempts[j] THEN "dead_lettered" ELSE "failed"

(* processSettlementWebhook marks the event and asks which statements refer to
   the transfer.                                                           *)
ListStatements(e) ==
  /\ job[e].status = "listing"
  /\ event' = [event EXCEPT ![e] = "processed"]
  /\ job' = [job EXCEPT ![e].status = "running",
       ![e].todo = {s \in Ingested : \E l \in LinesOf(s) : RefOf[l] = EventRef[e]}]
  /\ UNCHANGED <<feedVars, ingress, acked, waits, run>>

(* The listing fails or times out, after the event was marked.             *)
ListError(e) ==
  /\ job[e].status = "listing"
  /\ event' = [event EXCEPT ![e] = "processed"]
  /\ SetJob(e, FailedStatus(e))
  /\ UNCHANGED <<feedVars, ingress, acked, waits, run>>

(* POST /statements/:id/match starts a run and the worker waits for it.     *)
CallMatch(j, m) ==
  /\ job[j].status = "running" /\ waits[j] = None
  /\ run[m].at = "idle"
  /\ \E s \in job[j].todo :
       run' = [run EXCEPT ![m] = [Idle EXCEPT !.at = "lines", !.statement = s]]
  /\ waits' = [waits EXCEPT ![j] = m]
  /\ UNCHANGED <<feedVars, event, ingress, acked, job>>

CompleteJob(j) ==
  /\ job[j].status = "running" /\ job[j].todo = {} /\ waits[j] = None
  /\ SetJob(j, "completed")
  /\ UNCHANGED <<feedVars, event, ingress, acked, waits, run>>

(* SERVICE_TIMEOUT_MS: the worker fails the job, the run continues.         *)
TimeoutCall(j) ==
  /\ waits[j] # None
  /\ waits' = [waits EXCEPT ![j] = None]
  /\ SetJob(j, FailedStatus(j))
  /\ UNCHANGED <<feedVars, event, ingress, acked, run>>

(* The run answers: the worker that still waits for it goes on, or fails.   *)
Answer(m, succeeded) ==
  /\ run' = [run EXCEPT ![m] = Idle]
  /\ waits' = [j \in Jobs |-> IF waits[j] = m THEN None ELSE waits[j]]
  /\ job' = [j \in Jobs |->
       IF waits[j] # m THEN job[j]
       ELSE IF succeeded THEN [job[j] EXCEPT !.todo = @ \ {run[m].statement}]
       ELSE [job[j] EXCEPT !.status = FailedStatus(j)]]
  /\ UNCHANGED <<event, ingress, acked>>

----------------------------------------------------------------------------
(* matchStatement                                                          *)

(* Pending and exception lines are read before the transaction, and so are the
   payments.                                                               *)
ReadLines(m) ==
  /\ run[m].at = "lines"
  /\ run' = [run EXCEPT ![m].at = "payments",
       ![m].todo = {l \in LinesOf(run[m].statement) : line[l] \in {"pending", "exception"}}]
  /\ UNCHANGED <<feedVars, queueVars>>

ReadPayments(m) ==
  /\ run[m].at = "payments"
  /\ run' = [run EXCEPT ![m].at = "decide", ![m].seen = paid]
  /\ UNCHANGED <<feedVars, queueVars>>

(* What a run's own transaction sees of a line.                            *)
LineIn(m, l) == IF run[m].wrote[l] # None THEN run[m].wrote[l] ELSE line[l]

(* ORDER BY provider_ref: lines with equal references come in any order.    *)
NextLines(m) == {l \in run[m].todo : \A k \in run[m].todo : Order[l] <= Order[k]}

(* The reference is on a matched line already, committed or of this run, or
   this run gave the payment to another line.                              *)
IsDuplicate(m, l) ==
  \/ \E k \in Lines : RefOf[k] = RefOf[l] /\ LineIn(m, k) = "matched"
  \/ RefOf[l] \in run[m].refs

(* Settled payments that look like the line and that this run has not used. *)
Candidates(m, l) == {p \in Twins[l] : run[m].seen[p] = "settled" /\ p \notin run[m].refs}

(* The verdict on a line about a payment: a run also looks whether the payment
   has its Matched row.                                                    *)
Say(m, l, kind, p) ==
  run' = [run EXCEPT ![m].at = "write", ![m].verdict =
            [line |-> l, kind |-> kind, payment |-> p,
             confirmed |-> p # None /\ (matchedRows[p] > 0 \/ p \in run[m].inserted)]]

(* The categories, in the order the code tries them.                       *)
Judge(m, l) ==
  LET p == RefOf[l]
      known == p \in Payments /\ run[m].seen[p] # "executing"
  IN \/ IsDuplicate(m, l) /\ Say(m, l, "duplicate", None)
     \/ /\ ~IsDuplicate(m, l) /\ known
        /\ Say(m, l, IF Differs[l] = "no" THEN "exact" ELSE Differs[l], p)
     \/ /\ ~IsDuplicate(m, l) /\ ~known
        /\ \E q \in Candidates(m, l) : Say(m, l, "twin", q)
     \/ /\ ~IsDuplicate(m, l) /\ ~known /\ Candidates(m, l) = {}
        /\ Say(m, l, "missing_ours", None)

Decide(m) ==
  /\ run[m].at = "decide"
  /\ \E l \in NextLines(m) : Judge(m, l)
  /\ UNCHANGED <<feedVars, queueVars>>

Matches(m) == run[m].verdict.kind \in {"exact", "twin"}
Inserts(m) == Matches(m) /\ ~run[m].verdict.confirmed

(* The write waits for another run's uncommitted write of the same line, or of
   the same payment's Matched row.                                         *)
Blocked(m) ==
  /\ run[m].at = "write"
  /\ \E n \in Runs \ {m} :
       \/ run[n].wrote[run[m].verdict.line] # None
       \/ Inserts(m) /\ run[m].verdict.payment \in run[n].inserted

(* openException keeps one Open row per subject and issue.                  *)
Opens(m, x) == run[m].opened \union ({x} \ open)

(* Mutant: the payment's Matched row is taken to be there already.          *)
WriteLineOnly(m) ==
  LET l == run[m].verdict.line  p == run[m].verdict.payment
  IN /\ run[m].at = "write" /\ ~Blocked(m) /\ Matches(m)
     /\ run' = [run EXCEPT ![m].at = "decide", ![m].todo = @ \ {l}, ![m].verdict = None,
          ![m].wrote[l] = "matched", ![m].claims[l] = p, ![m].refs = @ \union {p}]
     /\ UNCHANGED <<feedVars, queueVars>>

(* markMatched.  The lookup of the Matched row may also come just before the
   write, and find a row that was not there when the line was judged.      *)
Marked(m) ==
  LET l == run[m].verdict.line  p == run[m].verdict.payment
  IN [run[m] EXCEPT
        !.at = "decide", !.todo = @ \ {l}, !.verdict = None,
        !.wrote[l] = "matched", !.claims[l] = p, !.refs = @ \union {p},
        !.inserted = IF Inserts(m) /\ matchedRows[p] = 0 THEN @ \union {p} ELSE @]

WriteMatched(m) ==
  /\ run[m].at = "write" /\ ~Blocked(m) /\ Matches(m)
  /\ run' = [run EXCEPT ![m] = Marked(m)]
  /\ UNCHANGED <<feedVars, queueVars>>

(* Mutant: only exceptions about a payment open a row.                      *)
WriteUnexplained(m) ==
  LET v == run[m].verdict  l == v.line
  IN /\ run[m].at = "write" /\ ~Blocked(m) /\ ~Matches(m)
     /\ run' = [run EXCEPT ![m].at = "decide", ![m].todo = @ \ {l}, ![m].verdict = None,
          ![m].wrote[l] = "exception",
          ![m].opened = IF v.payment = None THEN @ ELSE Opens(m, <<v.payment, v.kind>>)]
     /\ UNCHANGED <<feedVars, queueVars>>

(* The exception categories: the line is set and its row opened, about the
   payment when there is one.                                              *)
Subject(v) == IF v.payment = None THEN v.line ELSE v.payment

Excepted(m) ==
  LET v == run[m].verdict
  IN [run[m] EXCEPT
        !.at = "decide", !.todo = @ \ {v.line}, !.verdict = None,
        !.wrote[v.line] = "exception", !.opened = Opens(m, <<Subject(v), v.kind>>)]

WriteException(m) ==
  /\ run[m].at = "write" /\ ~Blocked(m) /\ ~Matches(m)
  /\ run' = [run EXCEPT ![m] = Excepted(m)]
  /\ UNCHANGED <<feedVars, queueVars>>

(* The Matched row was inserted since it was looked up: 23505 ends the
   transaction, and the run.                                               *)
UniqueViolation(m) ==
  /\ run[m].at = "write" /\ ~Blocked(m)
  /\ Inserts(m) /\ matchedRows[run[m].verdict.payment] > 0
  /\ Answer(m, FALSE)
  /\ UNCHANGED feedVars

(* Settled payments of the statement's period that are on none of its lines. *)
MissingTheirs(m) ==
  LET s == run[m].statement
  IN {<<p, "missing_theirs">> :
        p \in {q \in Payments : /\ q \in Period[s]
                              /\ run[m].seen[q] = "settled"
                              /\ \A l \in LinesOf(s) : RefOf[l] # q}}

Commit(m) ==
  LET r == run[m]
      rows == r.opened \union (MissingTheirs(m) \ open)
  IN /\ r.at = "decide" /\ r.todo = {}
     /\ line' = [l \in Lines |-> LineIn(m, l)]
     /\ claim' = [l \in Lines |-> IF r.wrote[l] = "matched" THEN r.claims[l]
                                  ELSE IF r.wrote[l] = "exception" THEN None ELSE claim[l]]
     /\ matchedRows' = [p \in Payments |-> matchedRows[p] + (IF p \in r.inserted THEN 1 ELSE 0)]
     /\ open' = open \union rows
     /\ explained' = explained \union rows
     /\ Answer(m, TRUE)
     /\ UNCHANGED paid

(* The transaction waits too long or in a circle, or the service dies.      *)
CancelRun(m) ==
  /\ Blocked(m)
  /\ Answer(m, FALSE)
  /\ UNCHANGED feedVars

CrashRun(m) ==
  /\ run[m].at # "idle"
  /\ Answer(m, FALSE)
  /\ UNCHANGED feedVars

(* POST /reconciliation/:id/resolve                                        *)
Resolve(x) ==
  /\ x \in open
  /\ Cardinality(explained \ open) < MaxResolves
  /\ open' = open \ {x}
  /\ UNCHANGED <<paid, line, claim, matchedRows, explained, queueVars, run>>

RunStep(m) ==
  \/ ReadLines(m)
  \/ ReadPayments(m)
  \/ Decide(m)
  \/ WriteMatched(m)
  \/ WriteException(m)
  \/ UniqueViolation(m)
  \/ Commit(m)

Next ==
  \/ \E p \in Payments : SaveRef(p) \/ RecordMatched(p) \/ Settle(p)
  \/ \E s \in Statements : Ingest(s)
  \/ \E e \in Events : StoreEvent(e) \/ EnqueueEvent(e) \/ LoseEnqueue(e)
  \/ \E e \in Events : ListStatements(e) \/ ListError(e)
  \/ \E j \in Jobs : ClaimJob(j) \/ CompleteJob(j) \/ TimeoutCall(j)
  \/ \E j \in Jobs, m \in Runs : CallMatch(j, m)
  \/ \E m \in Runs : RunStep(m) \/ CancelRun(m) \/ CrashRun(m)
  \/ \E x \in Exceptions : Resolve(x)

FeedsSpec == FeedsInit /\ [][Next]_vars

----------------------------------------------------------------------------
(* Properties                                                              *)

(* A payment is recorded as matched once, by its saga or by one of the runs. *)
MatchedRowOnce == \A p \in Payments : matchedRows[p] <= 1

(* A matched line's payment has its Matched row: the two tables agree.       *)
MatchedLineHasRow ==
  \A l \in Lines : line[l] = "matched" => claim[l] # None /\ matchedRows[claim[l]] = 1

(* Nobody has to guess why a line is an exception: a row, open or resolved,
   says so, about the line or about its payment.                           *)
Explains(x, l) == x[1] = l \/ (x[1] = RefOf[l] /\ x[2] # "missing_theirs")

ExceptionExplained ==
  \A l \in Lines : line[l] = "exception" => \E x \in explained : Explains(x, l)

(* A webhook the provider was told is processed has its job, whatever crashes. *)
ProcessedIsQueued == \A e \in acked : job[e].status # "absent"
============================================================================
