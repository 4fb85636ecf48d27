---------------------------- MODULE OutboxRelay -----------------------------
(***************************************************************************)
(* relay-worker (services/relay-worker/src/index.mjs) delivers the rows of *)
(* platform.outbox_events to the consumers they are routed to, which apply *)
(* them behind the inbox guard (packages/shared/outbox.mjs).  An audit     *)
(* event is appended to the hash chain of operations-service, an alert or  *)
(* an exception is a plain insert there or in reconciliation-service.      *)
(*                                                                         *)
(* Several relay processes may poll; the row locks of a poll end with its  *)
(* transaction, so they do not keep two relays from the same event.  A     *)
(* delivery is one POST, never repeated by the client.  The consumer's     *)
(* transaction runs on when the relay gives up on its answer.              *)
(***************************************************************************)
EXTENDS FiniteSets, AuditChain

CONSTANTS
  Events,     \* outbox rows; a smaller number was created earlier
  Inserts,    \* the events whose consumer inserts an alert or an exception
  Unrouted,   \* the events whose type EVENT_ROUTES does not know
  Direct,     \* audit appends asked for without an event, e.g. by a failed login
  Relays,     \* relay-worker processes
  Handlers,   \* requests the consumers serve at a time
  BatchSize,  \* BATCH_SIZE
  MaxRetries, \* MAX_RETRIES
  RelayFaults,\* what may go wrong, see RelayAssumption
  Nobody      \* null

ASSUME RelayAssumption ==
  /\ Events \subseteq Nat
  /\ Inserts \subseteq Events /\ Unrouted \subseteq Events
  /\ Direct \cap Events = {}
  /\ BatchSize \in Nat \ {0} /\ MaxRetries \in Nat \ {0}
  /\ Nobody \notin Events \cup Direct \cup Relays
  /\ RelayFaults \subseteq
       {"timeout",   \* the relay stops waiting for an answer
        "consumer",  \* the consumer's transaction rolls back
        "commit",    \* it commits and answers with an error all the same
        "mark",      \* markPublished throws
        "cycle",     \* recordDeliveryAttempt, or the mark of an unrouted event, throws
        "crash",     \* a relay process dies and is restarted
        "operator"}  \* dead-lettered rows are re-queued as RUNBOOKS.md says

VARIABLES
  published,  \* events with published_at
  dead,       \* events with dead_lettered_at
  tries,      \* outbox_events.attempts
  todo,       \* what is left of a relay's batch
  at,         \* where a relay is
  serving,    \* the event, or the direct append, a handler works for
  caller,     \* the relay that waits for its answer
  phase,      \* where a handler's transaction is
  draft,      \* the audit row it has inserted and not committed
  inbox,      \* committed inbox_events
  inserted,   \* alerts and exceptions inserted for an event
  chain,      \* operations.audit_events
  asked       \* direct appends that were made

outboxVars  == <<published, dead, tries>>
relayVars   == <<todo, at>>
handlerVars == <<serving, caller, phase, draft>>
effectVars  == <<inbox, inserted, chain>>
vars == <<outboxVars, relayVars, handlerVars, effectVars, asked>>

RelayTypeOK ==
  /\ published \subseteq Events
  /\ dead \subseteq Events
  /\ tries \in [Events -> Nat]
  /\ todo \in [Relays -> SUBSET Events]
  /\ at \in [Relays -> {"poll", "deliver", "await", "mark", "record"}]
  /\ serving \in [Handlers -> Events \cup Direct \cup {Nobody}]
  /\ caller \in [Handlers -> Relays \cup {Nobody}]
  /\ phase \in [Handlers -> {"free", "claim", "lock", "append", "commit", "ok", "error"}]
  /\ inbox \subseteq Events
  /\ inserted \in [Inserts -> Nat]
  /\ asked \subseteq Direct

-----------------------------------------------------------------------------
(* The relay *)

Waiting == Events \ (published \cup dead)

(* The oldest event of a batch is delivered first *)
Current(r) == CHOOSE e \in todo[r] : \A f \in todo[r] : e <= f

Go(r, s) == at' = [at EXCEPT ![r] = s] /\ UNCHANGED todo
Advance(r) ==
  /\ todo' = [todo EXCEPT ![r] = @ \ {Current(r)}]
  /\ at' = [at EXCEPT ![r] = IF todo[r] = {Current(r)} THEN "poll" ELSE "deliver"]

(* getUnpublishedEvents: which waiting events are due and not locked by    *)
(* another relay's poll is left open                                       *)
Poll(r, batch) ==
  /\ at[r] = "poll"
  /\ batch # {} /\ batch \subseteq Waiting /\ Cardinality(batch) <= BatchSize
  /\ todo' = [todo EXCEPT ![r] = batch]
  /\ at' = [at EXCEPT ![r] = "deliver"]
  /\ UNCHANGED <<outboxVars, handlerVars, effectVars, asked>>

(* An event without a route is marked without being delivered *)
SkipUnrouted(r) ==
  /\ at[r] = "deliver" /\ Current(r) \in Unrouted
  /\ published' = published \cup {Current(r)}
  /\ Advance(r)
  /\ UNCHANGED <<dead, tries, handlerVars, effectVars, asked>>

Deliver(r, h) ==
  /\ at[r] = "deliver" /\ Current(r) \notin Unrouted
  /\ phase[h] = "free"
  /\ serving' = [serving EXCEPT ![h] = Current(r)]
  /\ caller'  = [caller EXCEPT ![h] = r]
  /\ phase'   = [phase EXCEPT ![h] = "claim"]
  /\ Go(r, "await")
  /\ UNCHANGED <<outboxVars, draft, effectVars, asked>>

Forgotten(r) == [h \in Handlers |-> IF caller[h] = r THEN Nobody ELSE caller[h]]

(* Mutant: an answer that does not come is taken for a success *)
TimeoutAccepted(r) ==
  /\ "timeout" \in RelayFaults
  /\ at[r] = "await"
  /\ Go(r, "mark")
  /\ caller' = Forgotten(r)
  /\ UNCHANGED <<outboxVars, serving, phase, draft, effectVars, asked>>

Timeout(r) ==
  /\ "timeout" \in RelayFaults
  /\ at[r] = "await"
  /\ Go(r, "record")
  /\ caller' = Forgotten(r)
  /\ UNCHANGED <<outboxVars, serving, phase, draft, effectVars, asked>>

(* markPublished; inside the try, so its own failure counts as a failed delivery *)
MarkPublished(r) ==
  /\ at[r] = "mark"
  /\ \/ published' = published \cup {Current(r)} /\ Advance(r)
     \/ "mark" \in RelayFaults /\ Go(r, "record") /\ UNCHANGED published
  /\ UNCHANGED <<dead, tries, handlerVars, effectVars, asked>>

(* Mutant: the attempt that fails last is scheduled again *)
RecordWithoutEnd(r) ==
  /\ at[r] = "record"
  /\ tries' = [tries EXCEPT ![Current(r)] = IF @ + 1 >= MaxRetries THEN @ ELSE @ + 1]
  /\ Advance(r)
  /\ UNCHANGED <<published, dead, handlerVars, effectVars, asked>>

(* recordDeliveryAttempt: back off, or dead-letter *)
RecordAttempt(r) ==
  /\ at[r] = "record"
  /\ tries' = [tries EXCEPT ![Current(r)] = @ + 1]
  /\ dead' = IF tries[Current(r)] + 1 >= MaxRetries THEN dead \cup {Current(r)} ELSE dead
  /\ Advance(r)
  /\ UNCHANGED <<published, handlerVars, effectVars, asked>>

Restart(r) ==
  /\ todo' = [todo EXCEPT ![r] = {}]
  /\ at' = [at EXCEPT ![r] = "poll"]

(* An error outside the try ends the cycle; the rest of the batch waits for another poll *)
CycleError(r) ==
  /\ "cycle" \in RelayFaults
  /\ \/ at[r] = "record"
     \/ at[r] = "deliver" /\ Current(r) \in Unrouted
  /\ Restart(r)
  /\ UNCHANGED <<outboxVars, handlerVars, effectVars, asked>>

Crash(r) ==
  /\ "crash" \in RelayFaults
  /\ at[r] # "poll"
  /\ Restart(r)
  /\ caller' = Forgotten(r)
  /\ UNCHANGED <<outboxVars, serving, phase, draft, effectVars, asked>>

(* An operator clears dead_lettered_at and sets attempts to 0 *)
Requeue(e) ==
  /\ "operator" \in RelayFaults
  /\ e \in dead
  /\ dead' = dead \ {e}
  /\ tries' = [tries EXCEPT ![e] = 0]
  /\ UNCHANGED <<published, relayVars, handlerVars, effectVars, asked>>

-----------------------------------------------------------------------------
(* The consumer: one transaction for the inbox claim and the effect *)

InPhase(h, s) == phase' = [phase EXCEPT ![h] = s]
Audits(h) == serving[h] \notin Inserts

(* A request that is not relayed appends in a transaction of its own *)
AskDirectly(h, d) ==
  /\ phase[h] = "free" /\ d \notin asked
  /\ asked' = asked \cup {d}
  /\ serving' = [serving EXCEPT ![h] = d]
  /\ InPhase(h, "lock")
  /\ UNCHANGED <<outboxVars, relayVars, caller, draft, effectVars>>

(* Mutant: the claim is made after the work, with the commit *)
ClaimLate(h) ==
  /\ phase[h] = "claim"
  /\ InPhase(h, CASE serving[h] \in inbox -> "ok"
                  [] serving[h] \notin inbox /\ Audits(h) -> "lock"
                  [] OTHER -> "append")
  /\ UNCHANGED <<outboxVars, relayVars, serving, caller, draft, effectVars, asked>>

(* claimInboxEvent: INSERT ... ON CONFLICT DO NOTHING waits for a rival's  *)
(* uncommitted row, then finds it or takes its place                       *)
ClaimInbox(h) ==
  /\ phase[h] = "claim"
  /\ \A g \in Handlers : serving[g] = serving[h] => phase[g] \notin {"lock", "append", "commit"}
  /\ InPhase(h, CASE serving[h] \in inbox -> "ok"
                  [] serving[h] \notin inbox /\ Audits(h) -> "lock"
                  [] OTHER -> "append")
  /\ UNCHANGED <<outboxVars, relayVars, serving, caller, draft, effectVars, asked>>

(* Mutant: no advisory lock *)
NoChainLock(h) ==
  /\ phase[h] = "lock"
  /\ InPhase(h, "append")
  /\ UNCHANGED <<outboxVars, relayVars, serving, caller, draft, effectVars, asked>>

(* pg_advisory_xact_lock, held to the end of the transaction *)
LockChain(h) ==
  /\ phase[h] = "lock"
  /\ \A g \in Handlers : Audits(g) => phase[g] \notin {"append", "commit"}
  /\ InPhase(h, "append")
  /\ UNCHANGED <<outboxVars, relayVars, serving, caller, draft, effectVars, asked>>

(* The INSERT.  The audit row follows the head the statement finds. *)
Insert(h) ==
  /\ phase[h] = "append"
  /\ draft' = [draft EXCEPT ![h] = IF Audits(h) THEN NextRow(chain, serving[h]) ELSE @]
  /\ InPhase(h, "commit")
  /\ UNCHANGED <<outboxVars, relayVars, serving, caller, effectVars, asked>>

Taken(h) == Audits(h) /\ \E row \in chain : row.seq = draft[h].seq

(* The claim and the effect become visible together *)
Commit(h) ==
  /\ phase[h] = "commit" /\ ~Taken(h)
  /\ inbox' = inbox \cup ({serving[h]} \cap Events)
  /\ IF Audits(h)
       THEN chain' = chain \cup {draft[h]} /\ UNCHANGED inserted
       ELSE inserted' = [inserted EXCEPT ![serving[h]] = @ + 1] /\ UNCHANGED chain
  /\ draft' = [draft EXCEPT ![h] = Nobody]
  /\ \/ InPhase(h, "ok")
     \/ "commit" \in RelayFaults /\ InPhase(h, "error")
  /\ UNCHANGED <<outboxVars, relayVars, serving, caller, asked>>

(* The transaction fails and leaves nothing: any error, or the unique      *)
(* index on chain_seq                                                      *)
Rollback(h) ==
  /\ phase[h] \in {"claim", "lock", "append", "commit"}
  /\ "consumer" \in RelayFaults \/ (phase[h] = "commit" /\ Taken(h))
  /\ draft' = [draft EXCEPT ![h] = Nobody]
  /\ InPhase(h, "error")
  /\ UNCHANGED <<outboxVars, relayVars, serving, caller, effectVars, asked>>

(* The answer reaches the relay that still waits for it *)
Reply(h) ==
  /\ phase[h] \in {"ok", "error"}
  /\ InPhase(h, "free")
  /\ serving' = [serving EXCEPT ![h] = Nobody]
  /\ caller'  = [caller EXCEPT ![h] = Nobody]
  /\ IF caller[h] = Nobody
       THEN UNCHANGED relayVars
       ELSE Go(caller[h], IF phase[h] = "ok" THEN "mark" ELSE "record")
  /\ UNCHANGED <<outboxVars, draft, effectVars, asked>>

-----------------------------------------------------------------------------
Init ==
  /\ published = {} /\ dead = {}
  /\ tries    = [e \in Events |-> 0]
  /\ todo     = [r \in Relays |-> {}]
  /\ at       = [r \in Relays |-> "poll"]
  /\ serving  = [h \in Handlers |-> Nobody]
  /\ caller   = [h \in Handlers |-> Nobody]
  /\ phase    = [h \in Handlers |-> "free"]
  /\ draft    = [h \in Handlers |-> Nobody]
  /\ inbox = {}
  /\ inserted = [e \in Inserts |-> 0]
  /\ chain = {}
  /\ asked = {}

(* What a relay and a handler do when nothing goes wrong *)
Relay(r) ==
  \/ \E batch \in SUBSET Events : Poll(r, batch)
  \/ SkipUnrouted(r)
  \/ \E h \in Handlers : Deliver(r, h)
  \/ MarkPublished(r)
  \/ RecordAttempt(r)

Handle(h) ==
  \/ ClaimInbox(h)
  \/ LockChain(h)
  \/ Insert(h)
  \/ Commit(h)
  \/ Rollback(h)
  \/ Reply(h)

Next ==
  \/ \E r \in Relays : Relay(r)
  \/ \E r \in Relays : Timeout(r)
  \/ \E r \in Relays : CycleError(r)
  \/ \E r \in Relays : Crash(r)
  \/ \E h \in Handlers : Handle(h)
  \/ \E h \in Handlers, d \in Direct : AskDirectly(h, d)
  \/ \E e \in Events : Requeue(e)

RelaySpec == Init /\ [][Next]_vars

-----------------------------------------------------------------------------
(* How often the effect of an event was applied *)
Applied(e) == IF e \in Inserts THEN inserted[e]
              ELSE Cardinality({row \in chain : row.entry = e})

(* "consumer inbox rows make duplicate delivery exactly-once at the effect *)
(* level" (relay-worker): two relays, abandoned calls, crashes and         *)
(* operators never apply an event twice.                                   *)
AppliedOnce == \A e \in Events : Applied(e) <= 1

(* "the relay only marks an event published after the consumer accepts     *)
(* it" (relay-worker): no routed event is published unapplied.             *)
PublishedIsApplied == \A e \in published \ Unrouted : Applied(e) = 1

(* "Appends serialize per tenant" (audit.mjs): an uncommitted audit row    *)
(* still follows the head of the chain, so no append is lost to a conflict *)
(* with another writer.                                                    *)
AppendsSerialize ==
  \A h \in Handlers : phase[h] = "commit" /\ Audits(h) =>
    draft[h] = NextRow(chain, serving[h])

(* The verifier raises no false alarm over a table the service wrote, and  *)
(* detects what audit.mjs says it detects.                                 *)
ChainVerifies == Intact(chain) /\ Detects(chain, Events \cup Direct)

(* "poison events dead-letter": every waiting event is published or        *)
(* dead-lettered, whatever its consumer and the network do, as long as     *)
(* relays live to finish their batches.                                    *)
EventsEnd == \A e \in Events : e \in Waiting ~> e \notin Waiting

(* A live relay keeps going and its client never waits for ever; a         *)
(* transaction ends; backoff ends, so an event is due again and again, and *)
(* the older events ahead of it leave the queue.                           *)
Due(e) == \E r \in Relays, batch \in SUBSET Events : e \in batch /\ Poll(r, batch)
RelayFairness ==
  /\ \A r \in Relays : WF_vars(Relay(r))
  /\ \A h \in Handlers : WF_vars(Handle(h))
  /\ \A e \in Events : SF_vars(Due(e))
FairRelaySpec == RelaySpec /\ RelayFairness
=============================================================================
