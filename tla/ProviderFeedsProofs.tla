------------------------ MODULE ProviderFeedsProofs ------------------------
(***************************************************************************)
(* Statement lines and reconciliation rows agree, for any number of        *)
(* statements, payments, webhooks and overlapping matching runs.  A run    *)
(* reads first and writes later, so the argument is about what it holds in *)
(* between: the unique index keeps the Matched row it inserted its own     *)
(* until it commits, and whatever it marked matched or exception is backed *)
(* by a row that is already there or that it is about to commit.           *)
(***************************************************************************)
EXTENDS ProviderFeeds, TLAPS

(* Types: the reconciliation tables, and the queue.                        *)
TablesType ==
  /\ paid \in [Payments -> PaidStates]
  /\ line \in [Lines -> LineStates]
  /\ claim \in [Lines -> Payments \union {None}]
  /\ matchedRows \in [Payments -> Nat]
  /\ open \subseteq explained
  /\ explained \subseteq Exceptions

JobRow ==
  [status : {"absent", "pending", "listing", "running", "failed",
             "completed", "dead_lettered"},
   attempts : Nat, todo : SUBSET Statements]

QueueInv ==
  /\ event \in [Events -> {"absent", "received", "processed"}]
  /\ ingress \subseteq Events
  /\ acked \subseteq Events
  /\ job \in [Jobs -> JobRow]
  /\ waits \in [Jobs -> Runs \union {None}]
  /\ ProcessedIsQueued

(* A run about to write knows what about: its verdict names a payment exactly
   when the category does, and a row it saw is still there.                *)
Judged(m) ==
  run[m].at = "write" =>
    /\ run[m].verdict \in Verdict
    /\ run[m].verdict.payment = None
         <=> run[m].verdict.kind \in {"duplicate", "missing_ours"}
    /\ run[m].verdict.kind \in {"fee", "amount"}
         => run[m].verdict.payment = RefOf[run[m].verdict.line]
    /\ run[m].verdict.confirmed =>
         /\ run[m].verdict.payment \in Payments
         /\ \/ matchedRows[run[m].verdict.payment] > 0
            \/ run[m].verdict.payment \in run[m].inserted

(* A Matched row a run has inserted is the payment's only one.             *)
Insertions(m) ==
  \A p \in run[m].inserted :
    matchedRows[p] = 0 /\ \A n \in Runs \ {m} : p \notin run[n].inserted

(* What a run wrote on a line is backed by a row, committed or its own.    *)
Written(m) ==
  \A l \in Lines :
    /\ run[m].wrote[l] = "matched" =>
         /\ run[m].claims[l] \in Payments
         /\ matchedRows[run[m].claims[l]] = 1 \/ run[m].claims[l] \in run[m].inserted
    /\ run[m].wrote[l] = "exception" =>
         \E x \in explained \union run[m].opened : Explains(x, l)

RunsInv ==
  /\ run \in [Runs -> Run]
  /\ \A m \in Runs : Judged(m) /\ Insertions(m) /\ Written(m)

TablesInv ==
  /\ TablesType
  /\ MatchedRowOnce
  /\ MatchedLineHasRow
  /\ ExceptionExplained

FeedsInv == TablesInv /\ QueueInv /\ RunsInv

----------------------------------------------------------------------------
(* Initially *)

LEMMA IdleRun ==
  /\ Idle \in Run
  /\ Idle.at = "idle" /\ Idle.inserted = {} /\ Idle.opened = {}
  /\ \A l \in Lines : Idle.wrote[l] = None
  BY FeedConstants DEF Idle, Run, PaidStates

LEMMA InitFeeds == FeedsInit => FeedsInv
<1> SUFFICES ASSUME FeedsInit PROVE FeedsInv
  OBVIOUS
<1> USE FeedConstants DEF FeedsInit
<1>1. TablesInv
  BY DEF TablesInv, TablesType, MatchedRowOnce, MatchedLineHasRow, ExceptionExplained,
         PaidStates, LineStates
<1>2. QueueInv
  BY DEF QueueInv, ProcessedIsQueued, JobRow, Jobs
<1>3. RunsInv
  BY IdleRun DEF RunsInv, Judged, Insertions, Written
<1>4. QED BY <1>1, <1>2, <1>3 DEF FeedsInv

----------------------------------------------------------------------------
(* Runs that a step leaves alone *)

(* What the invariant says of the tables depends on the tables only, and what
   it says of the runs on the runs, the Matched rows and the exception rows. *)
LEMMA TablesSame ==
  ASSUME TablesInv, UNCHANGED feedVars
  PROVE  TablesInv'
  BY DEF TablesInv, TablesType, MatchedRowOnce, MatchedLineHasRow, ExceptionExplained,
         Explains, feedVars

LEMMA RunsSame ==
  ASSUME RunsInv, UNCHANGED <<matchedRows, explained, run>>
  PROVE  RunsInv'
  BY DEF RunsInv, Judged, Insertions, Written, Explains

(* A step of run m that leaves the tables alone disturbs the other runs only
   by the Matched rows m inserts, which are no other run's.                *)
LEMMA OtherRuns ==
  ASSUME RunsInv, NEW m \in Runs, NEW r \in Run,
         UNCHANGED <<matchedRows, explained>>,
         run' = [run EXCEPT ![m] = r],
         Judged(m)', Insertions(m)', Written(m)'
  PROVE  RunsInv'
<1>1. run' \in [Runs -> Run]
  BY DEF RunsInv
<1>2. ASSUME NEW n \in Runs, n # m
      PROVE  Judged(n)' /\ Insertions(n)' /\ Written(n)'
  <2>1. run'[n] = run[n]
    BY <1>2 DEF RunsInv
  <2>2. Judged(n)' /\ Written(n)'
    BY <2>1 DEF RunsInv, Judged, Written, Explains
  <2>3. \A p \in run'[n].inserted : matchedRows'[p] = 0
    BY <2>1 DEF RunsInv, Insertions
  <2>4. \A p \in run'[n].inserted : p \notin run'[m].inserted
    BY <1>2, <2>1 DEF Insertions
  <2>5. \A p \in run'[n].inserted : \A k \in Runs \ {n, m} : p \notin run'[k].inserted
    BY <2>1 DEF RunsInv, Insertions
  <2>6. QED BY <2>2, <2>3, <2>4, <2>5 DEF Insertions
<1>3. QED BY <1>1, <1>2 DEF RunsInv

(* A run that starts afresh.                                               *)
LEMMA FreshRun ==
  ASSUME RunsInv, NEW m \in Runs, NEW r \in Run,
         r.at # "write", r.inserted = {}, \A l \in Lines : r.wrote[l] = None,
         UNCHANGED <<matchedRows, explained>>,
         run' = [run EXCEPT ![m] = r]
  PROVE  RunsInv'
<1>1. run'[m] = r
  BY DEF RunsInv
<1>2. Judged(m)' /\ Insertions(m)' /\ Written(m)'
  BY <1>1, FeedConstants DEF Judged, Insertions, Written
<1>3. QED BY <1>2, OtherRuns

----------------------------------------------------------------------------
(* The queue *)

(* The job that comes of a failed attempt is still a row of the queue.     *)
LEMMA JobStatusChange ==
  ASSUME QueueInv, NEW j \in Jobs,
         NEW status \in {"pending", "listing", "running", "failed", "completed", "dead_lettered"},
         SetJob(j, status)
  PROVE  /\ job' \in [Jobs -> JobRow]
         /\ \A k \in Jobs : job[k].status # "absent" => job'[k].status # "absent"
  BY DEF QueueInv, SetJob, JobRow

LEMMA FailedStatusIsOne ==
  ASSUME NEW j \in Jobs
  PROVE  FailedStatus(j) \in {"failed", "dead_lettered"}
  BY DEF FailedStatus

LEMMA AnswerKeepsQueue ==
  ASSUME QueueInv, NEW m \in Runs, NEW succeeded \in BOOLEAN, Answer(m, succeeded)
  PROVE  QueueInv'
<1>1. waits' \in [Jobs -> Runs \union {None}]
  BY DEF QueueInv, Answer
<1>2. ASSUME NEW j \in Jobs
      PROVE  job'[j] \in JobRow /\ (job[j].status # "absent" => job'[j].status # "absent")
  <2>1. job[j] \in JobRow
    BY DEF QueueInv
  <2>2. CASE waits[j] # m
    BY <2>1, <2>2 DEF Answer
  <2>3. CASE waits[j] = m /\ succeeded
    <3>1. job'[j] = [job[j] EXCEPT !.todo = @ \ {run[m].statement}]
      BY <2>3 DEF Answer
    <3>2. QED BY <2>1, <3>1 DEF JobRow
  <2>4. CASE waits[j] = m /\ ~succeeded
    <3>1. job'[j] = [job[j] EXCEPT !.status = FailedStatus(j)]
      BY <2>4 DEF Answer
    <3>2. QED BY <2>1, <3>1, FailedStatusIsOne DEF JobRow
  <2>5. QED BY <2>2, <2>3, <2>4
<1>3. job' \in [Jobs -> JobRow]
  <2>1. job' = [j \in Jobs |-> job'[j]]
    BY DEF Answer
  <2>2. QED BY <1>2, <2>1
<1>4. ProcessedIsQueued'
  BY <1>2 DEF QueueInv, ProcessedIsQueued, Answer, Jobs
<1>5. QED BY <1>1, <1>3, <1>4 DEF QueueInv, Answer

LEMMA QueueSame ==
  ASSUME QueueInv, UNCHANGED queueVars
  PROVE  QueueInv'
  BY DEF QueueInv, ProcessedIsQueued, queueVars

(* The queue actions that concern a statement, an event or a job.          *)
LEMMA IngestStep ==
  ASSUME FeedsInv, NEW s \in Statements, Ingest(s)
  PROVE  FeedsInv'
<1>1. QueueInv'
  BY FeedConstants DEF FeedsInv, Ingest, Queued, QueueInv, ProcessedIsQueued, JobRow, Jobs
<1>2. TablesInv'
  BY DEF FeedsInv, Ingest, TablesInv, TablesType, MatchedRowOnce, MatchedLineHasRow,
         ExceptionExplained, Explains, LineStates, LinesOf
<1>3. RunsInv'
  BY RunsSame DEF FeedsInv, Ingest
<1>4. QED BY <1>1, <1>2, <1>3 DEF FeedsInv

LEMMA EventSteps ==
  ASSUME FeedsInv, NEW e \in Events,
         StoreEvent(e) \/ EnqueueEvent(e) \/ LoseEnqueue(e) \/ ListStatements(e) \/ ListError(e)
  PROVE  FeedsInv'
<1> USE DEF FeedsInv
<1>1. UNCHANGED <<feedVars, run>>
  BY DEF StoreEvent, EnqueueEvent, LoseEnqueue, ListStatements, ListError
<1>2. TablesInv' /\ RunsInv'
  BY <1>1, TablesSame, RunsSame DEF feedVars
<1>3. CASE StoreEvent(e)
  <2>1. QueueInv'
    BY <1>3 DEF StoreEvent, QueueInv, ProcessedIsQueued
  <2>2. QED BY <1>2, <2>1
<1>4. CASE EnqueueEvent(e)
  <2>1. QueueInv'
    BY <1>4 DEF EnqueueEvent, Queued, QueueInv, ProcessedIsQueued, JobRow, Jobs
  <2>2. QED BY <1>2, <2>1
<1>5. CASE LoseEnqueue(e)
  <2>1. QueueInv'
    BY <1>5 DEF LoseEnqueue, QueueInv, ProcessedIsQueued
  <2>2. QED BY <1>2, <2>1
<1>6. CASE ListStatements(e)
  <2>1. job' \in [Jobs -> JobRow] /\ \A k \in Jobs : job[k].status # "absent" => job'[k].status # "absent"
    BY <1>6 DEF ListStatements, QueueInv, JobRow, Ingested, Jobs
  <2>2. QueueInv'
    BY <1>6, <2>1 DEF ListStatements, QueueInv, ProcessedIsQueued, Jobs
  <2>3. QED BY <1>2, <2>2
<1>7. CASE ListError(e)
  <2>1. job' \in [Jobs -> JobRow] /\ \A k \in Jobs : job[k].status # "absent" => job'[k].status # "absent"
    BY <1>7, JobStatusChange, FailedStatusIsOne DEF ListError, Jobs
  <2>2. QueueInv'
    BY <1>7, <2>1 DEF ListError, QueueInv, ProcessedIsQueued, Jobs
  <2>3. QED BY <1>2, <2>2
<1>8. QED BY <1>3, <1>4, <1>5, <1>6, <1>7

LEMMA JobSteps ==
  ASSUME FeedsInv, NEW j \in Jobs, ClaimJob(j) \/ CompleteJob(j) \/ TimeoutCall(j)
  PROVE  FeedsInv'
<1> USE DEF FeedsInv
<1>1. UNCHANGED <<feedVars, run>>
  BY DEF ClaimJob, CompleteJob, TimeoutCall
<1>2. TablesInv' /\ RunsInv'
  BY <1>1, TablesSame, RunsSame DEF feedVars
<1>3. /\ job' \in [Jobs -> JobRow]
      /\ \A k \in Jobs : job[k].status # "absent" => job'[k].status # "absent"
  <2>1. CASE ClaimJob(j)
    BY <2>1 DEF ClaimJob, QueueInv, JobRow, Jobs
  <2>2. CASE CompleteJob(j)
    BY <2>2, JobStatusChange DEF CompleteJob
  <2>3. CASE TimeoutCall(j)
    BY <2>3, JobStatusChange, FailedStatusIsOne DEF TimeoutCall
  <2>4. QED BY <2>1, <2>2, <2>3
<1>4. waits' \in [Jobs -> Runs \union {None}]
  BY DEF ClaimJob, CompleteJob, TimeoutCall, QueueInv
<1>5. QueueInv'
  BY <1>3, <1>4 DEF ClaimJob, CompleteJob, TimeoutCall, QueueInv, ProcessedIsQueued, Jobs
<1>6. QED BY <1>2, <1>5

LEMMA CallStep ==
  ASSUME FeedsInv, NEW j \in Jobs, NEW m \in Runs, CallMatch(j, m)
  PROVE  FeedsInv'
<1> USE DEF FeedsInv
<1>1. TablesInv'
  BY TablesSame DEF CallMatch
<1>2. QueueInv'
  BY DEF CallMatch, QueueInv, ProcessedIsQueued
<1>3. PICK s \in job[j].todo :
        run' = [run EXCEPT ![m] = [Idle EXCEPT !.at = "lines", !.statement = s]]
  BY DEF CallMatch
<1>4. s \in Statements
  BY DEF QueueInv, JobRow
<1>5. RunsInv'
  <2> DEFINE r == [Idle EXCEPT !.at = "lines", !.statement = s]
  <2>1. r \in Run /\ r.at = "lines" /\ r.inserted = {} /\ \A l \in Lines : r.wrote[l] = None
    BY <1>4, IdleRun DEF Run
  <2> HIDE DEF r
  <2>2. run' = [run EXCEPT ![m] = r]
    BY <1>3 DEF r
  <2>3. UNCHANGED <<matchedRows, explained>>
    BY DEF CallMatch, feedVars
  <2>4. QED BY <2>1, <2>2, <2>3, FreshRun
<1>6. QED BY <1>1, <1>2, <1>5

----------------------------------------------------------------------------
(* The saga and the treasury *)

(* The saga adds a payment's Matched row only where there is none and no run
   is inserting one.                                                       *)
LEMMA SagaSteps ==
  ASSUME FeedsInv, NEW p \in Payments, SaveRef(p) \/ RecordMatched(p) \/ Settle(p)
  PROVE  FeedsInv'
<1> USE DEF FeedsInv
<1>1. QueueInv'
  BY QueueSame DEF SaveRef, RecordMatched, Settle
<1>2. CASE SaveRef(p) \/ Settle(p)
  <2>1. TablesInv'
    BY <1>2 DEF SaveRef, Settle, TablesInv, TablesType, PaidStates, MatchedRowOnce,
                MatchedLineHasRow, ExceptionExplained, Explains
  <2>2. RunsInv'
    BY <1>2, RunsSame DEF SaveRef, Settle
  <2>3. QED BY <1>1, <2>1, <2>2
<1>3. CASE RecordMatched(p)
  <2> USE <1>3 DEF RecordMatched
  <2>1. /\ matchedRows' \in [Payments -> Nat]
        /\ \A q \in Payments : q # p => matchedRows'[q] = matchedRows[q]
        /\ matchedRows[p] = 0 => matchedRows'[p] = 1
        /\ matchedRows[p] = 1 => matchedRows'[p] = 1
        /\ matchedRows[p] \in {0, 1}
    BY DEF TablesInv, TablesType, MatchedRowOnce
  <2>2. TablesInv'
    <3>1. TablesType'
      BY <2>1 DEF TablesInv, TablesType, PaidStates
    <3>2. MatchedRowOnce'
      BY <2>1 DEF TablesInv, MatchedRowOnce
    <3>3. MatchedLineHasRow'
      BY <2>1 DEF TablesInv, TablesType, MatchedLineHasRow
    <3>4. ExceptionExplained'
      BY DEF TablesInv, ExceptionExplained, Explains
    <3>5. QED BY <3>1, <3>2, <3>3, <3>4 DEF TablesInv
  <2>3. ASSUME NEW m \in Runs
        PROVE  Judged(m)' /\ Insertions(m)' /\ Written(m)'
    <3>1. Judged(m) /\ Insertions(m) /\ Written(m) /\ run[m].inserted \subseteq Payments
      BY DEF RunsInv, Run
    <3>2. Judged(m)'
      <4>1. CASE run[m].at = "write" /\ run[m].verdict.confirmed
        BY <2>1, <3>1, <4>1 DEF Judged
      <4>2. CASE ~(run[m].at = "write" /\ run[m].verdict.confirmed)
        BY <3>1, <4>2 DEF Judged
      <4>3. QED BY <4>1, <4>2
    <3>3. Insertions(m)'
      BY <2>1, <3>1 DEF Insertions
    <3>4. Written(m)'
      BY <2>1, <3>1 DEF Written, Explains
    <3>5. QED BY <3>2, <3>3, <3>4
  <2>4. RunsInv'
    BY <2>3 DEF RunsInv
  <2>5. QED BY <1>1, <2>2, <2>4
<1>4. QED BY <1>2, <1>3

LEMMA ResolveStep ==
  ASSUME FeedsInv, NEW x \in Exceptions, Resolve(x)
  PROVE  FeedsInv'
<1>1. TablesInv'
  BY DEF FeedsInv, Resolve, TablesInv, TablesType, MatchedRowOnce, MatchedLineHasRow,
         ExceptionExplained, Explains
<1>2. QueueInv'
  BY QueueSame DEF FeedsInv, Resolve
<1>3. RunsInv'
  BY RunsSame DEF FeedsInv, Resolve
<1>4. QED BY <1>1, <1>2, <1>3 DEF FeedsInv

----------------------------------------------------------------------------
(* The matching runs *)

(* A run that ends without its transaction leaves nothing behind.          *)
LEMMA AbortedRun ==
  ASSUME FeedsInv, NEW m \in Runs, Answer(m, FALSE), UNCHANGED feedVars
  PROVE  FeedsInv'
<1> USE DEF FeedsInv
<1>1. TablesInv'
  BY TablesSame
<1>2. QueueInv'
  BY AnswerKeepsQueue
<1>3. run' = [run EXCEPT ![m] = Idle] /\ UNCHANGED <<matchedRows, explained>>
  BY DEF Answer, feedVars
<1>4. RunsInv'
  BY <1>3, IdleRun, FreshRun
<1>5. QED BY <1>1, <1>2, <1>4

(* Before a run's transaction: it has written nothing yet.  Nothing of what the
   invariant says of it is disturbed by what it reads.                     *)
LEMMA ReadSteps ==
  ASSUME FeedsInv, NEW m \in Runs, ReadLines(m) \/ ReadPayments(m)
  PROVE  FeedsInv'
<1> USE DEF FeedsInv
<1>1. TablesInv' /\ QueueInv'
  BY TablesSame, QueueSame DEF ReadLines, ReadPayments
<1>2. run[m] \in Run /\ run[m].at # "write" /\ Insertions(m) /\ Written(m)
  BY DEF RunsInv, ReadLines, ReadPayments
<1>3. paid \in [Payments -> PaidStates]
  BY DEF TablesInv, TablesType
<1>4. /\ run'[m] \in Run
      /\ run'[m].at # "write"
      /\ run'[m].inserted = run[m].inserted
      /\ run'[m].wrote = run[m].wrote
      /\ run'[m].claims = run[m].claims
      /\ run'[m].opened = run[m].opened
      /\ run' = [run EXCEPT ![m] = run'[m]]
  <2>1. CASE ReadLines(m)
    <3> DEFINE todo == {l \in LinesOf(run[m].statement) : line[l] \in {"pending", "exception"}}
    <3>1. todo \subseteq Lines
      BY DEF LinesOf
    <3> HIDE DEF todo
    <3>2. run' = [run EXCEPT ![m].at = "payments", ![m].todo = todo]
      BY <2>1 DEF ReadLines, todo
    <3>3. QED BY <1>2, <3>1, <3>2 DEF RunsInv, Run
  <2>2. CASE ReadPayments(m)
    BY <1>2, <1>3, <2>2 DEF ReadPayments, RunsInv, Run
  <2>3. QED BY <2>1, <2>2
<1>5. Judged(m)' /\ Insertions(m)' /\ Written(m)'
  <2>1. UNCHANGED <<matchedRows, explained>>
    BY DEF ReadLines, ReadPayments, feedVars
  <2>2. \A n \in Runs \ {m} : run'[n] = run[n]
    BY <1>4 DEF RunsInv
  <2>3. QED BY <1>2, <1>4, <2>1, <2>2 DEF Judged, Insertions, Written, Explains
<1>6. RunsInv'
  <2>1. UNCHANGED <<matchedRows, explained>>
    BY DEF ReadLines, ReadPayments, feedVars
  <2>2. QED BY <1>4, <1>5, <2>1, OtherRuns
<1>7. QED BY <1>1, <1>6

(* What a run says of a line, of which it has written nothing yet.         *)
LEMMA SaidStep ==
  ASSUME FeedsInv, NEW m \in Runs, NEW l \in Lines,
         NEW kind \in {"exact", "twin", "duplicate", "fee", "amount", "missing_ours"},
         NEW p \in Payments \union {None},
         p = None <=> kind \in {"duplicate", "missing_ours"},
         kind \in {"fee", "amount"} => p = RefOf[l],
         Say(m, l, kind, p), UNCHANGED <<feedVars, queueVars>>
  PROVE  FeedsInv'
<1> USE DEF FeedsInv
<1>1. TablesInv' /\ QueueInv'
  BY TablesSame, QueueSame
<1>2. run[m] \in Run /\ Insertions(m) /\ Written(m)
  BY DEF RunsInv
<1> DEFINE v == [line |-> l, kind |-> kind, payment |-> p,
                 confirmed |-> p # None /\ (matchedRows[p] > 0 \/ p \in run[m].inserted)]
<1>3. v \in Verdict
  BY DEF Verdict
<1>4. /\ v.line = l /\ v.kind = kind /\ v.payment = p
      /\ v.confirmed => p \in Payments /\ (matchedRows[p] > 0 \/ p \in run[m].inserted)
  OBVIOUS
<1> HIDE DEF v
<1>5. run' = [run EXCEPT ![m].at = "write", ![m].verdict = v]
  BY DEF Say, v
<1>6. /\ run'[m] \in Run
      /\ run'[m].verdict = v
      /\ run'[m].inserted = run[m].inserted
      /\ run'[m].wrote = run[m].wrote
      /\ run'[m].claims = run[m].claims
      /\ run'[m].opened = run[m].opened
      /\ run' = [run EXCEPT ![m] = run'[m]]
  BY <1>2, <1>3, <1>5 DEF RunsInv, Run
<1>7. UNCHANGED <<matchedRows, explained>>
  BY DEF feedVars
<1>8. Judged(m)'
  BY <1>3, <1>4, <1>6, <1>7 DEF Judged
<1>9. Insertions(m)' /\ Written(m)'
  <2>1. \A n \in Runs \ {m} : run'[n] = run[n]
    BY <1>5 DEF RunsInv
  <2>2. QED BY <1>2, <1>6, <1>7, <2>1 DEF Insertions, Written, Explains
<1>10. RunsInv'
  BY <1>6, <1>7, <1>8, <1>9, OtherRuns
<1>11. QED BY <1>1, <1>10

LEMMA DecideStep ==
  ASSUME FeedsInv, NEW m \in Runs, Decide(m)
  PROVE  FeedsInv'
<1>1. PICK l \in NextLines(m) : Judge(m, l)
  BY DEF Decide
<1>2. l \in Lines
  BY <1>1 DEF NextLines, FeedsInv, RunsInv, Run
<1>3. UNCHANGED <<feedVars, queueVars>>
  BY DEF Decide
<1>4. CASE Say(m, l, "duplicate", None)
  BY <1>2, <1>3, <1>4, SaidStep
<1>5. CASE Say(m, l, "missing_ours", None)
  BY <1>2, <1>3, <1>5, SaidStep
<1>6. CASE \E q \in Candidates(m, l) : Say(m, l, "twin", q)
  <2>1. PICK q \in Candidates(m, l) : Say(m, l, "twin", q)
    BY <1>6
  <2>2. q \in Payments /\ q # None
    BY <1>2, <2>1, FeedConstants DEF Candidates
  <2>3. QED BY <1>2, <1>3, <2>1, <2>2, SaidStep
<1>7. CASE /\ RefOf[l] \in Payments
           /\ Say(m, l, IF Differs[l] = "no" THEN "exact" ELSE Differs[l], RefOf[l])
  <2> DEFINE kind == IF Differs[l] = "no" THEN "exact" ELSE Differs[l]
  <2>1. kind \in {"exact", "fee", "amount"} /\ RefOf[l] # None
    BY <1>2, <1>7, FeedConstants
  <2>2. Say(m, l, kind, RefOf[l])
    BY <1>7
  <2> HIDE DEF kind
  <2>3. QED BY <1>2, <1>3, <1>7, <2>1, <2>2, SaidStep
<1>8. QED BY <1>1, <1>4, <1>5, <1>6, <1>7 DEF Judge

(* The run marks its line matched: the Matched row is there, or it is the one
   the run inserts, which nobody else is inserting.                        *)
LEMMA WriteMatchedStep ==
  ASSUME FeedsInv, NEW m \in Runs, WriteMatched(m)
  PROVE  FeedsInv'
<1> USE DEF FeedsInv
<1> DEFINE l == run[m].verdict.line
           p == run[m].verdict.payment
           mine == IF Inserts(m) /\ matchedRows[p] = 0
                   THEN run[m].inserted \union {p} ELSE run[m].inserted
<1>1. TablesInv' /\ QueueInv'
  BY TablesSame, QueueSame DEF WriteMatched
<1>2. /\ run[m] \in Run /\ Judged(m) /\ Insertions(m) /\ Written(m)
      /\ run[m].at = "write" /\ ~Blocked(m) /\ Matches(m)
  BY DEF RunsInv, WriteMatched
<1>3. l \in Lines /\ p \in Payments
  BY <1>2 DEF Judged, Matches, Verdict
<1>4. mine \subseteq Payments /\ run[m].inserted \subseteq mine
  BY <1>2, <1>3 DEF Run
<1>5. matchedRows[p] = 1 \/ p \in mine
  <2>1. matchedRows[p] \in {0, 1}
    BY <1>3 DEF TablesInv, TablesType, MatchedRowOnce
  <2>2. CASE Inserts(m)
    BY <2>1, <2>2
  <2>3. CASE ~Inserts(m)
    BY <1>2, <1>4, <2>1, <2>3 DEF Inserts, Judged
  <2>4. QED BY <2>2, <2>3
<1>6. \A q \in mine : matchedRows[q] = 0 /\ \A n \in Runs \ {m} : q \notin run[n].inserted
  BY <1>2 DEF Insertions, Blocked
<1>7. run' = [run EXCEPT ![m] = Marked(m)] /\ UNCHANGED <<matchedRows, explained>>
  BY DEF WriteMatched, feedVars
<1>8. /\ run'[m] \in Run
      /\ run'[m].at = "decide"
      /\ run'[m].inserted = mine
      /\ run'[m].wrote = [run[m].wrote EXCEPT ![l] = "matched"]
      /\ run'[m].claims = [run[m].claims EXCEPT ![l] = p]
      /\ run'[m].opened = run[m].opened
      /\ run' = [run EXCEPT ![m] = run'[m]]
  <2>1. run[m] \in Run /\ run'[m] = Marked(m)
    BY <1>2, <1>7 DEF RunsInv
  <2>2. Marked(m) = [run[m] EXCEPT !.at = "decide", !.todo = run[m].todo \ {l}, !.verdict = None,
                       !.wrote = [run[m].wrote EXCEPT ![l] = "matched"],
                       !.claims = [run[m].claims EXCEPT ![l] = p],
                       !.refs = run[m].refs \union {p}, !.inserted = mine]
    BY <2>1 DEF Marked, Run
  <2> HIDE DEF l, p, mine
  <2>3. /\ Marked(m).at = "decide" /\ Marked(m).inserted = mine
        /\ Marked(m).opened = run[m].opened
        /\ Marked(m).wrote = [run[m].wrote EXCEPT ![l] = "matched"]
        /\ Marked(m).claims = [run[m].claims EXCEPT ![l] = p]
    BY <2>1, <2>2 DEF Run
  <2>4. /\ run[m].todo \ {l} \in SUBSET Lines
        /\ run[m].refs \union {p} \in SUBSET Payments
        /\ mine \in SUBSET Payments
        /\ [run[m].wrote EXCEPT ![l] = "matched"] \in [Lines -> {"matched", "exception", None}]
        /\ [run[m].claims EXCEPT ![l] = p] \in [Lines -> Payments \union {None}]
    BY <1>2, <1>3, <1>4 DEF Run
  <2>5. Marked(m) \in Run
    BY <2>1, <2>2, <2>4 DEF Run
  <2>6. QED BY <1>7, <2>1, <2>3, <2>5
<1> HIDE DEF l, p, mine
<1>10. Judged(m)'
  BY <1>8 DEF Judged
<1>11. Insertions(m)'
  <2>1. \A n \in Runs \ {m} : run'[n] = run[n]
    BY <1>7 DEF RunsInv
  <2>2. QED BY <1>6, <1>7, <1>8, <2>1 DEF Insertions
<1>12. Written(m)'
  <2> SUFFICES ASSUME NEW k \in Lines
               PROVE  /\ run'[m].wrote[k] = "matched" =>
                           /\ run'[m].claims[k] \in Payments
                           /\ matchedRows[run'[m].claims[k]] = 1 \/ run'[m].claims[k] \in mine
                      /\ run'[m].wrote[k] = "exception" =>
                           \E x \in explained \union run[m].opened : Explains(x, k)
    BY <1>7, <1>8 DEF Written, Explains
  <2>1. run[m].wrote \in [Lines -> {"matched", "exception", None}]
          /\ run[m].claims \in [Lines -> Payments \union {None}]
    BY <1>2 DEF Run
  <2>2. CASE k = l
    BY <1>3, <1>5, <1>8, <2>1, <2>2
  <2>3. CASE k # l
    BY <1>2, <1>4, <1>8, <2>1, <2>3 DEF Written
  <2>4. QED BY <2>2, <2>3
<1>13. RunsInv'
  BY <1>7, <1>8, <1>10, <1>11, <1>12, OtherRuns
<1>14. QED BY <1>1, <1>13

(* The run marks its line an exception: the row that says why is open already,
   or is one of those the run opens.                                       *)
LEMMA WriteExceptionStep ==
  ASSUME FeedsInv, NEW m \in Runs, WriteException(m)
  PROVE  FeedsInv'
<1> USE DEF FeedsInv
<1> DEFINE v == run[m].verdict
           l == v.line
           x == <<Subject(v), v.kind>>
           rows == Opens(m, x)
<1>1. TablesInv' /\ QueueInv'
  BY TablesSame, QueueSame DEF WriteException
<1>2. /\ run[m] \in Run /\ Judged(m) /\ Insertions(m) /\ Written(m)
      /\ run[m].at = "write" /\ ~Matches(m)
  BY DEF RunsInv, WriteException
<1>3. /\ v \in Verdict /\ l \in Lines
      /\ \/ v.kind \in {"duplicate", "missing_ours"} /\ v.payment = None
         \/ v.kind \in {"fee", "amount"} /\ v.payment = RefOf[l] /\ v.payment \in Payments
  BY <1>2 DEF Judged, Matches, Verdict
<1>4. x \in Exceptions /\ Explains(x, l)
  <2>1. CASE v.payment = None
    <3>1. x = <<l, v.kind>> /\ v.kind \in {"duplicate", "missing_ours"}
      BY <1>3, <2>1, FeedConstants DEF Subject
    <3>2. QED BY <1>3, <3>1 DEF Exceptions, Explains
  <2>2. CASE v.payment # None
    <3>1. x = <<v.payment, v.kind>> /\ v.kind \in {"fee", "amount"} /\ v.payment = RefOf[l]
      BY <1>3, <2>2 DEF Subject
    <3>2. QED BY <1>3, <2>2, <3>1 DEF Exceptions, Explains
  <2>3. QED BY <2>1, <2>2
<1>5. rows \subseteq Exceptions /\ run[m].opened \subseteq rows /\ x \in explained \union rows
  BY <1>2, <1>4 DEF Opens, Run, TablesInv, TablesType
<1>6. run' = [run EXCEPT ![m] = Excepted(m)] /\ UNCHANGED <<matchedRows, explained>>
  BY DEF WriteException, feedVars
<1>7. /\ run'[m] \in Run
      /\ run'[m].at = "decide"
      /\ run'[m].inserted = run[m].inserted
      /\ run'[m].wrote = [run[m].wrote EXCEPT ![l] = "exception"]
      /\ run'[m].claims = run[m].claims
      /\ run'[m].opened = rows
      /\ run' = [run EXCEPT ![m] = run'[m]]
  <2>1. run[m] \in Run /\ run'[m] = Excepted(m)
    BY <1>2, <1>6 DEF RunsInv
  <2>2. Excepted(m) = [run[m] EXCEPT !.at = "decide", !.todo = run[m].todo \ {l}, !.verdict = None,
                         !.wrote = [run[m].wrote EXCEPT ![l] = "exception"], !.opened = rows]
    BY <2>1 DEF Excepted, Run
  <2> HIDE DEF l, rows, x
  <2>3. /\ Excepted(m).at = "decide" /\ Excepted(m).inserted = run[m].inserted
        /\ Excepted(m).claims = run[m].claims
        /\ Excepted(m).wrote = [run[m].wrote EXCEPT ![l] = "exception"]
        /\ Excepted(m).opened = rows
    BY <2>1, <2>2 DEF Run
  <2>4. /\ run[m].todo \ {l} \in SUBSET Lines
        /\ [run[m].wrote EXCEPT ![l] = "exception"] \in [Lines -> {"matched", "exception", None}]
    BY <1>2, <1>3 DEF Run
  <2>5. Excepted(m) \in Run
    BY <1>5, <2>1, <2>2, <2>4 DEF Run
  <2>6. QED BY <1>6, <2>1, <2>3, <2>5
<1> HIDE DEF v, l, x, rows
<1>8. Judged(m)'
  BY <1>7 DEF Judged
<1>9. Insertions(m)'
  <2>1. \A n \in Runs \ {m} : run'[n] = run[n]
    BY <1>6 DEF RunsInv
  <2>2. QED BY <1>2, <1>6, <1>7, <2>1 DEF Insertions
<1>10. Written(m)'
  <2> SUFFICES ASSUME NEW k \in Lines
               PROVE  /\ run'[m].wrote[k] = "matched" =>
                           /\ run[m].claims[k] \in Payments
                           /\ matchedRows[run[m].claims[k]] = 1
                              \/ run[m].claims[k] \in run[m].inserted
                      /\ run'[m].wrote[k] = "exception" =>
                           \E y \in explained \union rows : Explains(y, k)
    BY <1>6, <1>7 DEF Written, Explains
  <2>1. run[m].wrote \in [Lines -> {"matched", "exception", None}]
    BY <1>2 DEF Run
  <2>2. CASE k = l
    BY <1>3, <1>4, <1>5, <1>7, <2>1, <2>2
  <2>3. CASE k # l
    BY <1>2, <1>5, <1>7, <2>1, <2>3 DEF Written
  <2>4. QED BY <2>2, <2>3
<1>11. RunsInv'
  BY <1>6, <1>7, <1>8, <1>9, <1>10, OtherRuns
<1>12. QED BY <1>1, <1>11

(* The run commits: what it wrote becomes what the tables say, backed by the
   rows it commits with it; its Matched rows touch no other run's payments. *)
LEMMA CommitStep ==
  ASSUME FeedsInv, NEW m \in Runs, Commit(m)
  PROVE  FeedsInv'
<1> USE DEF FeedsInv
<1> DEFINE r == run[m]
           rows == r.opened \union (MissingTheirs(m) \ open)
<1>1. QueueInv'
  BY AnswerKeepsQueue DEF Commit
<1>2. r \in Run /\ Insertions(m) /\ Written(m)
  BY DEF RunsInv
<1>3. rows \subseteq Exceptions
  <2>1. r.statement \in Statements \union {None} /\ r.opened \subseteq Exceptions
    BY <1>2 DEF Run
  <2>2. MissingTheirs(m) \subseteq Exceptions
    BY DEF MissingTheirs, Exceptions
  <2>3. QED BY <2>1, <2>2
<1>4. /\ explained' = explained \union rows
      /\ open' = open \union rows
      /\ r.opened \subseteq rows
      /\ UNCHANGED paid
  BY DEF Commit
<1>5. /\ matchedRows' \in [Payments -> Nat]
      /\ \A p \in r.inserted : matchedRows[p] = 0 /\ matchedRows'[p] = 1
      /\ \A p \in Payments \ r.inserted : matchedRows'[p] = matchedRows[p]
  BY <1>2 DEF Commit, Insertions, TablesInv, TablesType, Run
<1>6. \A l \in Lines :
        /\ line'[l] = LineIn(m, l)
        /\ claim'[l] = IF r.wrote[l] = "matched" THEN r.claims[l]
                       ELSE IF r.wrote[l] = "exception" THEN None ELSE claim[l]
  BY DEF Commit
<1>7. TablesInv'
  <2> HIDE DEF rows
  <2>1. TablesType'
    <3>1. line' \in [Lines -> LineStates]
      BY <1>2 DEF Commit, LineIn, Run, LineStates, TablesInv, TablesType
    <3>2. claim' \in [Lines -> Payments \union {None}]
      BY <1>2 DEF Commit, Run, TablesInv, TablesType
    <3>3. QED BY <1>3, <1>4, <1>5, <3>1, <3>2 DEF TablesInv, TablesType
  <2>2. MatchedRowOnce'
    BY <1>5 DEF MatchedRowOnce, TablesInv
  <2>3. MatchedLineHasRow'
    <3> SUFFICES ASSUME NEW l \in Lines, line'[l] = "matched"
                 PROVE  claim'[l] # None /\ matchedRows'[claim'[l]] = 1
      BY DEF MatchedLineHasRow
    <3>1. CASE r.wrote[l] = "matched"
      BY <1>2, <1>5, <1>6, <3>1, FeedConstants DEF Written
    <3>2. CASE r.wrote[l] = None
      <4>1. line[l] = "matched" /\ claim'[l] = claim[l]
        BY <1>6, <3>2, FeedConstants DEF LineIn
      <4>2. claim[l] # None /\ claim[l] \in Payments /\ matchedRows[claim[l]] = 1
        BY <4>1 DEF TablesInv, MatchedLineHasRow, TablesType
      <4>3. QED BY <1>5, <4>1, <4>2
    <3>3. r.wrote[l] # "exception"
      BY <1>6, FeedConstants DEF LineIn
    <3>4. QED BY <1>2, <3>1, <3>2, <3>3 DEF Run
  <2>4. ExceptionExplained'
    <3> SUFFICES ASSUME NEW l \in Lines, line'[l] = "exception"
                 PROVE  \E x \in explained' : Explains(x, l)
      BY DEF ExceptionExplained, Explains
    <3>1. CASE r.wrote[l] = "exception"
      BY <1>2, <1>4, <3>1 DEF Written
    <3>2. CASE r.wrote[l] # "exception"
      <4>1. line[l] = "exception"
        BY <1>6, <3>2 DEF LineIn
      <4>2. QED BY <1>4, <4>1 DEF TablesInv, ExceptionExplained
    <3>3. QED BY <3>1, <3>2
  <2>5. QED BY <2>1, <2>2, <2>3, <2>4 DEF TablesInv
<1>8. run' = [run EXCEPT ![m] = Idle]
  BY DEF Commit, Answer
<1>9. ASSUME NEW n \in Runs
      PROVE  Judged(n)' /\ Insertions(n)' /\ Written(n)'
  <2> HIDE DEF rows
  <2>1. CASE n = m
    <3>1. run'[n] = Idle
      BY <1>8, <2>1 DEF RunsInv
    <3>2. QED BY <3>1, IdleRun, FeedConstants DEF Judged, Insertions, Written
  <2>2. CASE n # m
    <3>1. /\ run'[n] = run[n] /\ run[n] \in Run
          /\ Judged(n) /\ Insertions(n) /\ Written(n)
      BY <1>8, <2>2 DEF RunsInv
    <3>2. \A p \in Payments : matchedRows[p] > 0 => matchedRows'[p] = matchedRows[p]
      BY <1>5
    <3>3. \A p \in run[n].inserted : matchedRows'[p] = 0
      BY <1>2, <1>5, <2>2, <3>1 DEF Insertions, Run
    <3>4. Judged(n)'
      <4>1. CASE run[n].at = "write" /\ run[n].verdict.confirmed
        BY <3>1, <3>2, <4>1 DEF Judged
      <4>2. CASE ~(run[n].at = "write" /\ run[n].verdict.confirmed)
        BY <3>1, <4>2 DEF Judged
      <4>3. QED BY <4>1, <4>2
    <3>5. Insertions(n)'
      <4>1. \A k \in Runs \ {n} : run'[k] = run[k] \/ run'[k].inserted = {}
        BY <1>8, IdleRun DEF RunsInv
      <4>2. QED BY <3>1, <3>3, <4>1 DEF Insertions
    <3>6. Written(n)'
      BY <1>4, <3>1, <3>2 DEF Written, Explains
    <3>7. QED BY <3>4, <3>5, <3>6
  <2>3. QED BY <2>1, <2>2
<1>10. RunsInv'
  <2>1. run' \in [Runs -> Run]
    BY <1>8, IdleRun DEF RunsInv
  <2>2. QED BY <1>9, <2>1 DEF RunsInv
<1>11. QED BY <1>1, <1>7, <1>10

----------------------------------------------------------------------------
(* The theorems *)

LEMMA FeedsStep == FeedsInv /\ [Next]_vars => FeedsInv'
<1> SUFFICES ASSUME FeedsInv, [Next]_vars PROVE FeedsInv'
  OBVIOUS
<1>1. CASE UNCHANGED vars
  <2>1. UNCHANGED <<feedVars, queueVars, run>>
    BY <1>1 DEF vars
  <2>2. TablesInv' /\ QueueInv' /\ RunsInv'
    BY <2>1, TablesSame, QueueSame, RunsSame DEF FeedsInv, feedVars
  <2>3. QED BY <2>2 DEF FeedsInv
<1>2. ASSUME NEW p \in Payments, SaveRef(p) \/ RecordMatched(p) \/ Settle(p) PROVE FeedsInv'
  BY <1>2, SagaSteps
<1>3. ASSUME NEW s \in Statements, Ingest(s) PROVE FeedsInv'
  BY <1>3, IngestStep
<1>4. ASSUME NEW e \in Events,
             StoreEvent(e) \/ EnqueueEvent(e) \/ LoseEnqueue(e)
               \/ ListStatements(e) \/ ListError(e)
      PROVE  FeedsInv'
  BY <1>4, EventSteps
<1>5. ASSUME NEW j \in Jobs, ClaimJob(j) \/ CompleteJob(j) \/ TimeoutCall(j) PROVE FeedsInv'
  BY <1>5, JobSteps
<1>6. ASSUME NEW j \in Jobs, NEW m \in Runs, CallMatch(j, m) PROVE FeedsInv'
  BY <1>6, CallStep
<1>7. ASSUME NEW m \in Runs, RunStep(m) \/ CancelRun(m) \/ CrashRun(m) PROVE FeedsInv'
  <2>1. CASE ReadLines(m) \/ ReadPayments(m)
    BY <2>1, ReadSteps
  <2>2. CASE Decide(m)
    BY <2>2, DecideStep
  <2>3. CASE WriteMatched(m)
    BY <2>3, WriteMatchedStep
  <2>4. CASE WriteException(m)
    BY <2>4, WriteExceptionStep
  <2>5. CASE Commit(m)
    BY <2>5, CommitStep
  <2>6. CASE UniqueViolation(m) \/ CancelRun(m) \/ CrashRun(m)
    BY <2>6, AbortedRun DEF UniqueViolation, CancelRun, CrashRun
  <2>7. QED BY <1>7, <2>1, <2>2, <2>3, <2>4, <2>5, <2>6 DEF RunStep
<1>8. ASSUME NEW x \in Exceptions, Resolve(x) PROVE FeedsInv'
  BY <1>8, ResolveStep
<1>9. QED BY <1>1, <1>2, <1>3, <1>4, <1>5, <1>6, <1>7, <1>8 DEF Next

(* The invariant holds in every state of every behaviour.                  *)
THEOREM FeedsInvariant == FeedsSpec => []FeedsInv
  BY InitFeeds, FeedsStep, PTL DEF FeedsSpec

(* Every variable keeps its type.                                          *)
THEOREM FeedsTypes == FeedsSpec => []FeedsType
<1>1. FeedsInv => FeedsType
  BY DEF FeedsInv, FeedsType, TablesInv, TablesType, QueueInv, JobRow, RunsInv
<1>2. QED BY <1>1, FeedsInvariant, PTL

(* A payment has one Matched row, whoever records it and however their calls
   overlap (the unique index of 0009, and 23505 as the replay).            *)
THEOREM FeedsMatchedOnce == FeedsSpec => []MatchedRowOnce
<1>1. FeedsInv => MatchedRowOnce
  BY DEF FeedsInv, TablesInv
<1>2. QED BY <1>1, FeedsInvariant, PTL

(* A matched line's payment has its Matched row (markMatched).             *)
THEOREM FeedsMatchedBacked == FeedsSpec => []MatchedLineHasRow
<1>1. FeedsInv => MatchedLineHasRow
  BY DEF FeedsInv, TablesInv
<1>2. QED BY <1>1, FeedsInvariant, PTL

(* An exception line has a row that explains it (openException).           *)
THEOREM FeedsExplained == FeedsSpec => []ExceptionExplained
<1>1. FeedsInv => ExceptionExplained
  BY DEF FeedsInv, TablesInv
<1>2. QED BY <1>1, FeedsInvariant, PTL

(* A webhook answered as processed has its job (processWebhook).           *)
THEOREM FeedsQueued == FeedsSpec => []ProcessedIsQueued
<1>1. FeedsInv => ProcessedIsQueued
  BY DEF FeedsInv, QueueInv
<1>2. QED BY <1>1, FeedsInvariant, PTL

=============================================================================
