------------------------- MODULE OutboxRelayProofs -------------------------
(***************************************************************************)
(* What the relays and the consumers guarantee for any number of events,   *)
(* relay processes and consumer handlers, under every fault.               *)
(***************************************************************************)
EXTENDS OutboxRelay, FiniteSetTheorems, WellFoundedInduction, TLAPS

-----------------------------------------------------------------------------
(* The inductive invariant                                                 *)

Working == {"lock", "append", "commit"}

Oldest(S) == CHOOSE e \in S : \A f \in S : e <= f

(* Types, with what a relay and a handler need at each step.               *)
TypeInv ==
  /\ RelayTypeOK
  /\ draft = [h \in Handlers |-> draft[h]]
  /\ \A r \in Relays : at[r] # "poll" => todo[r] # {}
  /\ \A h \in Handlers :
       /\ phase[h] = "claim" => serving[h] \in Events \ Unrouted
       /\ phase[h] \in Working => serving[h] \in Events \cup Direct

(* A handler somebody waits for works for the event its caller is at, and  *)
(* nobody waits for two.                                                   *)
CallInv ==
  /\ \A h \in Handlers : caller[h] # Nobody =>
       /\ phase[h] # "free"
       /\ at[caller[h]] = "await"
       /\ serving[h] = Oldest(todo[caller[h]])
       /\ serving[h] \in Events \ Unrouted
  /\ \A g, h \in Handlers : caller[g] # Nobody /\ caller[g] = caller[h] => g = h

(* Who works on an event has claimed it: nobody else has, now or before.   *)
ClaimInv ==
  /\ \A h \in Handlers : phase[h] \in Working /\ serving[h] \in Events => serving[h] \notin inbox
  /\ \A g, h \in Handlers :
       phase[g] \in Working /\ phase[h] \in Working /\ serving[g] = serving[h]
         /\ serving[h] \in Events => g = h
  /\ \A h \in Handlers : phase[h] = "ok" /\ serving[h] \in Events => serving[h] \in inbox
  /\ \A r \in Relays : at[r] = "mark" => Oldest(todo[r]) \in inbox
  /\ published \ Unrouted \subseteq inbox

(* A table the verifier accepts, with a newest row unless it is empty.     *)
Sound(table) ==
  /\ \A row \in table : row.seq \in Nat
  /\ table # {} => Newest(table) # {}
  /\ Intact(table)

ChainInv ==
  /\ Sound(chain)
  /\ AppendsSerialize
  /\ \A g, h \in Handlers :
       Audits(g) /\ Audits(h) /\ phase[g] \in {"append", "commit"}
         /\ phase[h] \in {"append", "commit"} => g = h

(* The inbox says what was applied.                                        *)
Rows(e) == {row \in chain : row.entry = e}

EffectInv ==
  /\ \A e \in Inserts : inserted[e] = IF e \in inbox THEN 1 ELSE 0
  /\ \A e \in Events \ Inserts :
       IF e \in inbox THEN \E row : Rows(e) = {row} ELSE Rows(e) = {}

RelayInv == TypeInv /\ CallInv /\ ClaimInv /\ ChainInv /\ EffectInv

-----------------------------------------------------------------------------
(* Lemmas about the operators                                              *)

LEMMA Smallest ==
  ASSUME NEW S \in SUBSET Nat, S # {}
  PROVE  \E m \in S : \A k \in S : m <= k
<1>1. PICK m \in S : \A k \in S : ~(<<k, m>> \in OpToRel(<, Nat))
  BY NatLessThanWellFounded, WFMin
<1>2. \A k \in S : ~(k < m)
  BY <1>1 DEF OpToRel
<1>3. QED BY <1>2

LEMMA CurrentIsOldest == \A r : Current(r) = Oldest(todo[r])
  BY DEF Current, Oldest

(* A batch's oldest event is one of the batch.                             *)
LEMMA OldestInBatch ==
  ASSUME NEW S \in SUBSET Events, S # {}
  PROVE  Oldest(S) \in S
<1>1. S \in SUBSET Nat
  BY RelayAssumption
<1>2. \E m \in S : \A k \in S : m <= k
  BY <1>1, Smallest
<1>3. QED BY <1>2 DEF Oldest

(* The head of a table is its newest row.                                  *)
LEMMA HeadIsNewest ==
  ASSUME NEW table, Sound(table)
  PROVE  HeadSeq(table) \in Nat /\ \A row \in table : row.seq <= HeadSeq(table)
<1>1. CASE table = {}
  BY <1>1 DEF HeadSeq
<1>2. CASE table # {}
  <2>. DEFINE top == CHOOSE r \in Newest(table) : TRUE
  <2>1. top \in Newest(table)
    BY <1>2 DEF Sound
  <2>2. top \in table /\ \A q \in table : q.seq <= top.seq
    BY <2>1 DEF Newest
  <2>3. HeadSeq(table) = top.seq
    BY <1>2 DEF HeadSeq
  <2>4. QED BY <2>2, <2>3 DEF Sound
<1>3. QED BY <1>1, <1>2

LEMMA NextRowFields ==
  ASSUME NEW table, NEW entry
  PROVE  /\ NextRow(table, entry).seq = HeadSeq(table) + 1
         /\ NextRow(table, entry).entry = entry
         /\ NextRow(table, entry).prev = HeadHash(table)
         /\ NextRow(table, entry).hash = Hash(entry, HeadHash(table))
  BY DEF NextRow

(* Appending the row that follows the head keeps a table sound: the new    *)
(* row is the newest, and no row before it sees it.                        *)
LEMMA AppendKeepsSound ==
  ASSUME NEW table, NEW entry, Sound(table)
  PROVE  Sound(table \cup {NextRow(table, entry)})
<1>. DEFINE new == NextRow(table, entry)
            longer == table \cup {new}
            before(r, rows) == {q \in rows : q.seq < r.seq}
<1>1. /\ HeadSeq(table) \in Nat /\ new.seq = HeadSeq(table) + 1
      /\ \A row \in table : row.seq \in Nat /\ row.seq < new.seq
  BY HeadIsNewest, NextRowFields DEF Sound
<1>2. new \in Newest(longer)
  <2>. HIDE DEF new
  <2>1. new.seq \in Nat
    BY <1>1
  <2>2. \A q \in longer : q.seq <= new.seq
    BY <1>1, <2>1
  <2>3. QED BY <2>2 DEF Newest
<1>3. ~Broken(longer, new)
  <2>1. before(new, longer) = table
    <3>. HIDE DEF new
    <3>1. QED BY <1>1
  <2>2. QED BY <2>1, NextRowFields DEF Broken
<1>4. ASSUME NEW r \in table PROVE ~Broken(longer, r)
  <2>1. before(r, longer) = before(r, table)
    <3>. HIDE DEF new
    <3>1. QED BY <1>1
  <2>2. ~Broken(table, r)
    BY DEF Sound, Intact
  <2>. HIDE DEF longer
  <2>3. QED BY <2>1, <2>2 DEF Broken
<1>. HIDE DEF new
<1>5. \A row \in longer : row.seq \in Nat
  BY <1>1
<1>6. \A r \in longer : ~Broken(longer, r)
  BY <1>3, <1>4
<1>7. Sound(longer)
  <2>. HIDE DEF longer
  <2>1. QED BY <1>2, <1>5, <1>6 DEF Sound, Intact
<1>8. QED BY <1>7 DEF new

-----------------------------------------------------------------------------
(* Types                                                                   *)

LEMMA CurrentType ==
  ASSUME TypeInv, NEW r \in Relays, at[r] # "poll"
  PROVE  Current(r) \in todo[r] /\ Current(r) \in Events
  BY CurrentIsOldest, OldestInBatch DEF TypeInv, RelayTypeOK

(* A relay's own steps leave the handlers what they were, but for the one  *)
(* it calls.                                                               *)
LEMMA TypeRelay ==
  ASSUME TypeInv, NEW r \in Relays,
         Relay(r) \/ Timeout(r) \/ CycleError(r) \/ Crash(r)
  PROVE  TypeInv'
<1>. USE DEF TypeInv, RelayTypeOK
<1>1. CASE \E batch \in SUBSET Events : Poll(r, batch)
  BY <1>1 DEF Poll, outboxVars, handlerVars, effectVars
<1>2. CASE SkipUnrouted(r)
  BY <1>2, CurrentType DEF SkipUnrouted, Advance, handlerVars, effectVars
<1>3. CASE \E h \in Handlers : Deliver(r, h)
  BY <1>3, CurrentType DEF Deliver, Go, outboxVars, effectVars, Working
<1>4. CASE MarkPublished(r)
  BY <1>4, CurrentType DEF MarkPublished, Advance, Go, handlerVars, effectVars
<1>5. CASE RecordAttempt(r)
  BY <1>5, CurrentType DEF RecordAttempt, Advance, handlerVars, effectVars
<1>6. CASE Timeout(r)
  BY <1>6 DEF Timeout, Go, Forgotten, outboxVars, effectVars
<1>7. CASE CycleError(r)
  BY <1>7 DEF CycleError, Restart, outboxVars, handlerVars, effectVars
<1>8. CASE Crash(r)
  BY <1>8 DEF Crash, Restart, Forgotten, outboxVars, effectVars
<1>9. QED BY <1>1, <1>2, <1>3, <1>4, <1>5, <1>6, <1>7, <1>8 DEF Relay

LEMMA TypeHandle ==
  ASSUME TypeInv, CallInv, NEW h \in Handlers,
         Handle(h) \/ \E d \in Direct : AskDirectly(h, d)
  PROVE  TypeInv'
<1>. USE DEF TypeInv, RelayTypeOK, Working
<1>1. CASE ClaimInbox(h)
  BY <1>1 DEF ClaimInbox, InPhase, outboxVars, relayVars, effectVars
<1>2. CASE LockChain(h)
  BY <1>2 DEF LockChain, InPhase, outboxVars, relayVars, effectVars
<1>3. CASE Insert(h)
  BY <1>3 DEF Insert, InPhase, outboxVars, relayVars, effectVars
<1>4. CASE Commit(h)
  <2>1. inserted' \in [Inserts -> Nat]
    BY <1>4 DEF Commit, Audits
  <2>2. inbox' \subseteq Events
    BY <1>4 DEF Commit
  <2>3. QED BY <1>4, <2>1, <2>2 DEF Commit, InPhase, outboxVars, relayVars
<1>5. CASE Rollback(h)
  BY <1>5 DEF Rollback, InPhase, outboxVars, relayVars, effectVars
<1>6. CASE Reply(h)
  BY <1>6, RelayAssumption DEF Reply, InPhase, Go, CallInv, outboxVars, relayVars, effectVars
<1>7. CASE \E d \in Direct : AskDirectly(h, d)
  BY <1>7 DEF AskDirectly, InPhase, outboxVars, relayVars, effectVars
<1>8. QED BY <1>1, <1>2, <1>3, <1>4, <1>5, <1>6, <1>7 DEF Handle

LEMMA TypeStep ==
  ASSUME TypeInv, CallInv, [Next]_vars
  PROVE  TypeInv'
<1>1. CASE \E e \in Events : Requeue(e)
  BY <1>1 DEF Requeue, relayVars, handlerVars, effectVars, TypeInv, RelayTypeOK
<1>2. CASE UNCHANGED vars
  BY <1>2 DEF vars, outboxVars, relayVars, handlerVars, effectVars, TypeInv, RelayTypeOK
<1>3. QED BY <1>1, <1>2, TypeRelay, TypeHandle DEF Next

-----------------------------------------------------------------------------
(* Calls                                                                   *)

(* No step of a relay but its call touches a handler somebody waits for.   *)
LEMMA CallRelay ==
  ASSUME TypeInv, CallInv, NEW r \in Relays,
         Relay(r) \/ Timeout(r) \/ CycleError(r) \/ Crash(r)
  PROVE  CallInv'
<1>. USE DEF CallInv
<1>0. /\ Nobody \notin Relays
      /\ caller \in [Handlers -> Relays \cup {Nobody}] /\ at \in [Relays -> {"poll", "deliver", "await", "mark", "record"}]
      /\ todo \in [Relays -> SUBSET Events] /\ serving \in [Handlers -> Events \cup Direct \cup {Nobody}]
      /\ phase \in [Handlers -> {"free", "claim", "lock", "append", "commit", "ok", "error"}]
  BY RelayAssumption DEF TypeInv, RelayTypeOK
<1>1. CASE \E batch \in SUBSET Events : Poll(r, batch)
  BY <1>0, <1>1 DEF Poll, handlerVars
<1>2. CASE SkipUnrouted(r)
  BY <1>0, <1>2 DEF SkipUnrouted, Advance, handlerVars
<1>3. CASE \E h \in Handlers : Deliver(r, h)
  <2>1. PICK h \in Handlers : Deliver(r, h)
    BY <1>3
  <2>2. Current(r) = Oldest(todo[r]) /\ Current(r) \in Events \ Unrouted
    BY <2>1, CurrentIsOldest, CurrentType DEF Deliver
  <2>3. \A g \in Handlers : caller[g] # r
    BY <1>0, <2>1 DEF Deliver
  <2>4. QED BY <1>0, <2>1, <2>2, <2>3 DEF Deliver, Go
<1>4. CASE MarkPublished(r)
  BY <1>0, <1>4 DEF MarkPublished, Advance, Go, handlerVars
<1>5. CASE RecordAttempt(r)
  BY <1>0, <1>5 DEF RecordAttempt, Advance, handlerVars
<1>6. CASE Timeout(r)
  BY <1>0, <1>6 DEF Timeout, Go, Forgotten
<1>7. CASE CycleError(r)
  BY <1>0, <1>7 DEF CycleError, Restart, handlerVars
<1>8. CASE Crash(r)
  BY <1>0, <1>8 DEF Crash, Restart, Forgotten
<1>9. QED BY <1>1, <1>2, <1>3, <1>4, <1>5, <1>6, <1>7, <1>8 DEF Relay

LEMMA CallHandle ==
  ASSUME TypeInv, CallInv, NEW h \in Handlers,
         Handle(h) \/ \E d \in Direct : AskDirectly(h, d)
  PROVE  CallInv'
<1>. USE DEF CallInv, InPhase
<1>0. /\ Nobody \notin Relays
      /\ caller \in [Handlers -> Relays \cup {Nobody}] /\ at \in [Relays -> {"poll", "deliver", "await", "mark", "record"}]
      /\ serving \in [Handlers -> Events \cup Direct \cup {Nobody}]
      /\ phase \in [Handlers -> {"free", "claim", "lock", "append", "commit", "ok", "error"}]
  BY RelayAssumption DEF TypeInv, RelayTypeOK
<1>1. CASE ClaimInbox(h)
  BY <1>0, <1>1 DEF ClaimInbox, relayVars
<1>2. CASE LockChain(h)
  BY <1>0, <1>2 DEF LockChain, relayVars
<1>3. CASE Insert(h)
  BY <1>0, <1>3 DEF Insert, relayVars
<1>4. CASE Commit(h)
  BY <1>0, <1>4 DEF Commit, relayVars
<1>5. CASE Rollback(h)
  BY <1>0, <1>5 DEF Rollback, relayVars
<1>6. CASE Reply(h)
  BY <1>0, <1>6 DEF Reply, Go, relayVars
<1>7. CASE \E d \in Direct : AskDirectly(h, d)
  BY <1>0, <1>7 DEF AskDirectly, relayVars
<1>8. QED BY <1>1, <1>2, <1>3, <1>4, <1>5, <1>6, <1>7 DEF Handle

LEMMA CallStep ==
  ASSUME TypeInv, CallInv, [Next]_vars
  PROVE  CallInv'
<1>1. CASE \E e \in Events : Requeue(e)
  BY <1>1 DEF Requeue, relayVars, handlerVars, CallInv
<1>2. CASE UNCHANGED vars
  BY <1>2 DEF vars, relayVars, handlerVars, CallInv
<1>3. QED BY <1>1, <1>2, CallRelay, CallHandle DEF Next

-----------------------------------------------------------------------------
(* Claims                                                                  *)

LEMMA ClaimRelay ==
  ASSUME TypeInv, TypeInv', CallInv, ClaimInv, NEW r \in Relays,
         Relay(r) \/ Timeout(r) \/ CycleError(r) \/ Crash(r)
  PROVE  ClaimInv'
<1>. USE DEF ClaimInv, Working
<1>0. /\ at \in [Relays -> {"poll", "deliver", "await", "mark", "record"}]
      /\ todo \in [Relays -> SUBSET Events] /\ serving \in [Handlers -> Events \cup Direct \cup {Nobody}]
      /\ phase \in [Handlers -> {"free", "claim", "lock", "append", "commit", "ok", "error"}]
  BY RelayAssumption DEF TypeInv, RelayTypeOK
<1>1. CASE \E batch \in SUBSET Events : Poll(r, batch)
  BY <1>0, <1>1 DEF Poll, outboxVars, handlerVars, effectVars
<1>2. CASE SkipUnrouted(r)
  BY <1>0, <1>2 DEF SkipUnrouted, Advance, handlerVars, effectVars
<1>3. CASE \E h \in Handlers : Deliver(r, h)
  BY <1>0, <1>3 DEF Deliver, Go, outboxVars, effectVars
<1>4. CASE MarkPublished(r)
  BY <1>0, <1>4, CurrentIsOldest DEF MarkPublished, Advance, Go, handlerVars, effectVars
<1>5. CASE RecordAttempt(r)
  BY <1>0, <1>5 DEF RecordAttempt, Advance, handlerVars, effectVars
<1>6. CASE Timeout(r)
  BY <1>0, <1>6 DEF Timeout, Go, outboxVars, effectVars
<1>7. CASE CycleError(r)
  BY <1>0, <1>7 DEF CycleError, Restart, outboxVars, handlerVars, effectVars
<1>8. CASE Crash(r)
  BY <1>0, <1>8 DEF Crash, Restart, outboxVars, effectVars
<1>9. QED BY <1>1, <1>2, <1>3, <1>4, <1>5, <1>6, <1>7, <1>8 DEF Relay

LEMMA ClaimHandle ==
  ASSUME TypeInv, CallInv, ClaimInv, NEW h \in Handlers,
         Handle(h) \/ \E d \in Direct : AskDirectly(h, d)
  PROVE  ClaimInv'
<1>. USE DEF ClaimInv, Working, InPhase
<1>0. /\ at \in [Relays -> {"poll", "deliver", "await", "mark", "record"}]
      /\ serving \in [Handlers -> Events \cup Direct \cup {Nobody}]
      /\ phase \in [Handlers -> {"free", "claim", "lock", "append", "commit", "ok", "error"}]
      /\ Direct \cap Events = {} /\ Nobody \notin Events
  BY RelayAssumption DEF TypeInv, RelayTypeOK
<1>1. CASE ClaimInbox(h)
  BY <1>0, <1>1 DEF ClaimInbox, outboxVars, relayVars, effectVars
<1>2. CASE LockChain(h)
  BY <1>0, <1>2 DEF LockChain, outboxVars, relayVars, effectVars
<1>3. CASE Insert(h)
  BY <1>0, <1>3 DEF Insert, outboxVars, relayVars, effectVars
<1>4. CASE Commit(h)
  <2>1. /\ inbox' = inbox \cup ({serving[h]} \cap Events) /\ serving' = serving
        /\ published' = published /\ at' = at /\ todo' = todo
        /\ phase[h] = "commit" /\ (phase' = [phase EXCEPT ![h] = "ok"] \/ phase' = [phase EXCEPT ![h] = "error"])
    BY <1>4 DEF Commit, outboxVars, relayVars
  <2>2. QED BY <1>0, <2>1
<1>5. CASE Rollback(h)
  BY <1>0, <1>5 DEF Rollback, outboxVars, relayVars, effectVars
<1>6. CASE Reply(h)
  BY <1>0, <1>6 DEF Reply, Go, CallInv, outboxVars, relayVars, effectVars
<1>7. CASE \E d \in Direct : AskDirectly(h, d)
  BY <1>0, <1>7 DEF AskDirectly, outboxVars, relayVars, effectVars
<1>8. QED BY <1>1, <1>2, <1>3, <1>4, <1>5, <1>6, <1>7 DEF Handle

LEMMA ClaimStep ==
  ASSUME TypeInv, TypeInv', CallInv, ClaimInv, [Next]_vars
  PROVE  ClaimInv'
<1>1. CASE \E e \in Events : Requeue(e)
  BY <1>1 DEF Requeue, relayVars, handlerVars, effectVars, ClaimInv
<1>2. CASE UNCHANGED vars
  BY <1>2 DEF vars, outboxVars, relayVars, handlerVars, effectVars, ClaimInv
<1>3. QED BY <1>1, <1>2, ClaimRelay, ClaimHandle DEF Next

-----------------------------------------------------------------------------
(* The chain                                                               *)

Appending(h) == Audits(h) /\ phase[h] \in {"append", "commit"}

(* What leaves the table alone, and every handler that holds the lock as   *)
(* it was, keeps the chain.                                                *)
LEMMA ChainQuiet ==
  ASSUME ChainInv, chain' = chain,
         \A g \in Handlers : Appending(g)' =>
           /\ Appending(g)
           /\ phase'[g] = phase[g] /\ serving'[g] = serving[g] /\ draft'[g] = draft[g]
  PROVE  ChainInv'
  BY DEF ChainInv, AppendsSerialize, Appending, Audits, Sound

LEMMA ChainRelay ==
  ASSUME TypeInv, ChainInv, NEW r \in Relays,
         Relay(r) \/ Timeout(r) \/ CycleError(r) \/ Crash(r)
  PROVE  ChainInv'
<1>1. CASE \E h \in Handlers : Deliver(r, h)
  <2>1. PICK h \in Handlers : Deliver(r, h)
    BY <1>1
  <2>2. /\ chain' = chain /\ draft' = draft /\ phase'[h] = "claim"
        /\ \A g \in Handlers \ {h} : phase'[g] = phase[g] /\ serving'[g] = serving[g]
    BY <2>1 DEF Deliver, effectVars, TypeInv, RelayTypeOK
  <2>3. QED BY <2>2, ChainQuiet DEF Appending, Audits
<1>2. CASE ~\E h \in Handlers : Deliver(r, h)
  <2>1. chain' = chain /\ draft' = draft /\ phase' = phase /\ serving' = serving
    BY <1>2 DEF Relay, Poll, SkipUnrouted, MarkPublished, RecordAttempt, Timeout, CycleError,
                Crash, handlerVars, effectVars
  <2>2. QED BY <2>1, ChainQuiet DEF Appending, Audits
<1>3. QED BY <1>1, <1>2

LEMMA ChainHandle ==
  ASSUME TypeInv, ChainInv, NEW h \in Handlers,
         Handle(h) \/ \E d \in Direct : AskDirectly(h, d)
  PROVE  ChainInv'
<1>0. /\ serving \in [Handlers -> Events \cup Direct \cup {Nobody}]
      /\ phase \in [Handlers -> {"free", "claim", "lock", "append", "commit", "ok", "error"}]
      /\ draft = [g \in Handlers |-> draft[g]]
  BY DEF TypeInv, RelayTypeOK
<1>1. CASE ClaimInbox(h)
  <2>1. /\ chain' = chain /\ draft' = draft /\ serving' = serving
        /\ \A g \in Handlers \ {h} : phase'[g] = phase[g]
        /\ Audits(h) => phase'[h] \notin {"append", "commit"}
    BY <1>0, <1>1 DEF ClaimInbox, InPhase, effectVars
  <2>2. QED BY <2>1, ChainQuiet DEF Appending, Audits
<1>2. CASE LockChain(h)
  <2>1. /\ chain' = chain /\ draft' = draft /\ serving' = serving
        /\ phase' = [phase EXCEPT ![h] = "append"]
        /\ \A g \in Handlers : Audits(g) => phase[g] \notin {"append", "commit"}
    BY <1>2 DEF LockChain, InPhase, effectVars
  <2>2. Sound(chain)'
    BY <2>1 DEF ChainInv, Sound
  <2>3. QED BY <1>0, <2>1, <2>2 DEF ChainInv, AppendsSerialize, Audits
<1>3. CASE Insert(h)
  <2>1. /\ chain' = chain /\ serving' = serving
        /\ phase[h] = "append" /\ phase' = [phase EXCEPT ![h] = "commit"]
        /\ draft' = [draft EXCEPT ![h] = IF Audits(h) THEN NextRow(chain, serving[h]) ELSE @]
    BY <1>3 DEF Insert, InPhase, effectVars
  <2>2. Sound(chain)'
    BY <2>1 DEF ChainInv, Sound
  <2>3. AppendsSerialize'
    BY <1>0, <2>1 DEF ChainInv, AppendsSerialize, Audits
  <2>4. QED BY <1>0, <2>1, <2>2, <2>3 DEF ChainInv, Audits
<1>4. CASE Commit(h)
  <2>1. /\ serving' = serving /\ phase[h] = "commit"
        /\ \A g \in Handlers \ {h} : phase'[g] = phase[g] /\ draft'[g] = draft[g]
        /\ phase'[h] \notin {"append", "commit"}
        /\ chain' = IF Audits(h) THEN chain \cup {draft[h]} ELSE chain
    BY <1>0, <1>4 DEF Commit, InPhase
  <2>2. CASE Audits(h)
    <3>1. draft[h] = NextRow(chain, serving[h])
      BY <2>1, <2>2 DEF ChainInv, AppendsSerialize
    <3>2. Sound(chain')
      BY <2>1, <2>2, <3>1, AppendKeepsSound DEF ChainInv
    <3>3. \A g \in Handlers : Audits(g)' => phase'[g] \notin {"append", "commit"}
      BY <2>1, <2>2 DEF ChainInv, Audits
    <3>4. QED BY <3>2, <3>3 DEF ChainInv, AppendsSerialize, Sound
  <2>3. CASE ~Audits(h)
    BY <2>1, <2>3, ChainQuiet DEF Appending, Audits
  <2>4. QED BY <2>2, <2>3
<1>5. CASE Rollback(h)
  <2>1. /\ chain' = chain /\ serving' = serving
        /\ \A g \in Handlers \ {h} : phase'[g] = phase[g] /\ draft'[g] = draft[g]
        /\ phase'[h] = "error"
    BY <1>0, <1>5 DEF Rollback, InPhase, effectVars
  <2>2. QED BY <2>1, ChainQuiet DEF Appending, Audits
<1>6. CASE Reply(h) \/ \E d \in Direct : AskDirectly(h, d)
  <2>1. /\ chain' = chain /\ draft' = draft
        /\ \A g \in Handlers \ {h} : phase'[g] = phase[g] /\ serving'[g] = serving[g]
        /\ phase'[h] \in {"free", "lock"}
    BY <1>0, <1>6 DEF Reply, AskDirectly, InPhase, effectVars
  <2>2. QED BY <2>1, ChainQuiet DEF Appending, Audits
<1>7. QED BY <1>1, <1>2, <1>3, <1>4, <1>5, <1>6 DEF Handle

LEMMA ChainStep ==
  ASSUME TypeInv, ChainInv, [Next]_vars
  PROVE  ChainInv'
<1>1. CASE (\E e \in Events : Requeue(e)) \/ UNCHANGED vars
  <2>1. chain' = chain /\ draft' = draft /\ phase' = phase /\ serving' = serving
    BY <1>1 DEF Requeue, vars, handlerVars, effectVars
  <2>2. QED BY <2>1, ChainQuiet DEF Appending, Audits
<1>2. QED BY <1>1, ChainRelay, ChainHandle DEF Next

-----------------------------------------------------------------------------
(* The effects                                                             *)

(* Only a commit touches what was applied.                                 *)
LEMMA EffectCommit ==
  ASSUME TypeInv, ClaimInv, ChainInv, EffectInv, NEW h \in Handlers, Commit(h)
  PROVE  EffectInv'
<1>0. /\ inserted \in [Inserts -> Nat] /\ Inserts \subseteq Events
      /\ serving[h] \in Events \cup Direct /\ Direct \cap Events = {}
      /\ phase[h] = "commit" /\ inbox' = inbox \cup ({serving[h]} \cap Events)
      /\ serving[h] \in Events => serving[h] \notin inbox
  BY RelayAssumption DEF TypeInv, RelayTypeOK, ClaimInv, Working, Commit
<1>1. CASE Audits(h)
  <2>1. draft[h] = NextRow(chain, serving[h])
    BY <1>0, <1>1 DEF ChainInv, AppendsSerialize
  <2>2. /\ chain' = chain \cup {draft[h]} /\ inserted' = inserted
        /\ draft[h].entry = serving[h] /\ serving[h] \notin Inserts
    BY <1>1, <2>1, NextRowFields DEF Commit, Audits
  <2>3. \A e : Rows(e)' = IF e = serving[h] THEN Rows(e) \cup {draft[h]} ELSE Rows(e)
    BY <2>2 DEF Rows
  <2>4. \A e \in Events \ Inserts :
          (IF e \in inbox THEN \E row : Rows(e) = {row} ELSE Rows(e) = {})'
    BY <1>0, <2>3 DEF EffectInv
  <2>5. QED BY <1>0, <2>2, <2>4 DEF EffectInv
<1>2. CASE ~Audits(h)
  <2>1. /\ chain' = chain /\ inserted' = [inserted EXCEPT ![serving[h]] = @ + 1]
        /\ serving[h] \in Inserts
    BY <1>2 DEF Commit, Audits
  <2>2. \A e \in Inserts : inserted'[e] = IF e \in inbox' THEN 1 ELSE 0
    BY <1>0, <2>1 DEF EffectInv
  <2>3. \A e \in Events \ Inserts : Rows(e)' = Rows(e) /\ (e \in inbox' <=> e \in inbox)
    BY <1>0, <2>1 DEF Rows
  <2>4. QED BY <2>2, <2>3 DEF EffectInv
<1>3. QED BY <1>1, <1>2

LEMMA EffectStep ==
  ASSUME TypeInv, ClaimInv, ChainInv, EffectInv, [Next]_vars
  PROVE  EffectInv'
<1>1. CASE UNCHANGED effectVars
  BY <1>1 DEF effectVars, EffectInv, Rows
<1>2. CASE ~UNCHANGED effectVars
  <2>1. \E h \in Handlers : Commit(h)
    BY <1>2 DEF Next, Relay, Handle, Poll, SkipUnrouted, Deliver, MarkPublished, RecordAttempt,
                Timeout, CycleError, Crash, Requeue, AskDirectly, ClaimInbox, LockChain, Insert,
                Rollback, Reply, vars
  <2>2. QED BY <2>1, EffectCommit
<1>3. QED BY <1>1, <1>2

-----------------------------------------------------------------------------
(* The invariant holds, and what follows from it                           *)

LEMMA RelayStart == Init => RelayInv
<1>. SUFFICES ASSUME Init PROVE RelayInv
  OBVIOUS
<1>. USE DEF Init
<1>1. TypeInv
  BY RelayAssumption DEF TypeInv, RelayTypeOK, Working
<1>2. CallInv /\ ClaimInv
  BY DEF CallInv, ClaimInv, Working
<1>3. ChainInv
  BY DEF ChainInv, Sound, Intact, AppendsSerialize
<1>4. EffectInv
  BY DEF EffectInv, Rows
<1>5. QED BY <1>1, <1>2, <1>3, <1>4 DEF RelayInv

LEMMA RelayStep == RelayInv /\ [Next]_vars => RelayInv'
<1>. SUFFICES ASSUME RelayInv, [Next]_vars PROVE RelayInv'
  OBVIOUS
<1>1. TypeInv' /\ CallInv'
  BY TypeStep, CallStep DEF RelayInv
<1>2. ClaimInv' /\ ChainInv' /\ EffectInv'
  BY <1>1, ClaimStep, ChainStep, EffectStep DEF RelayInv
<1>3. QED BY <1>1, <1>2 DEF RelayInv

LEMMA RelayAlways == RelaySpec => []RelayInv
  BY RelayStart, RelayStep, PTL DEF RelaySpec

(* What the inbox says is how often an event was applied.                  *)
LEMMA InboxCounts ==
  ASSUME EffectInv, NEW e \in Events
  PROVE  Applied(e) = IF e \in inbox THEN 1 ELSE 0
<1>1. CASE e \in Inserts
  BY <1>1 DEF EffectInv, Applied
<1>2. CASE e \notin Inserts
  <2>1. Applied(e) = Cardinality(Rows(e))
    BY <1>2 DEF Applied, Rows
  <2>2. IF e \in inbox THEN \E row : Rows(e) = {row} ELSE Rows(e) = {}
    BY <1>2 DEF EffectInv
  <2>3. QED BY <2>1, <2>2, FS_EmptySet, FS_Singleton
<1>3. QED BY <1>1, <1>2

(* Each table, relay and handler stays in its domain under every fault.    *)
THEOREM RelayTypes == RelaySpec => []RelayTypeOK
<1>1. RelayInv => RelayTypeOK
  BY DEF RelayInv, TypeInv
<1>2. QED BY <1>1, RelayAlways, PTL

(* Redelivery, abandoned calls, crashes and operators never make a consumer
   apply an event twice: the inbox row is claimed in its transaction.      *)
THEOREM RelayAppliedOnce == RelaySpec => []AppliedOnce
<1>1. RelayInv => AppliedOnce
  <2>. SUFFICES ASSUME RelayInv, NEW e \in Events PROVE Applied(e) <= 1
    BY DEF AppliedOnce
  <2>1. QED BY InboxCounts DEF RelayInv
<1>2. QED BY <1>1, RelayAlways, PTL

(* A relay marks a routed event published only when its effect is there.   *)
THEOREM RelayPublishedIsApplied == RelaySpec => []PublishedIsApplied
<1>1. RelayInv => PublishedIsApplied
  <2>. SUFFICES ASSUME RelayInv, NEW e \in published \ Unrouted PROVE Applied(e) = 1
    BY DEF PublishedIsApplied
  <2>1. e \in Events /\ e \in inbox
    BY DEF RelayInv, TypeInv, RelayTypeOK, ClaimInv
  <2>2. QED BY <2>1, InboxCounts DEF RelayInv
<1>2. QED BY <1>1, RelayAlways, PTL

(* The advisory lock lets no writer read a head that another is replacing. *)
THEOREM RelayAppendsSerialize == RelaySpec => []AppendsSerialize
<1>1. RelayInv => AppendsSerialize
  BY DEF RelayInv, ChainInv
<1>2. QED BY <1>1, RelayAlways, PTL

-----------------------------------------------------------------------------
(* What the verifier detects in a table the service wrote                  *)

(* The unique index on chain_seq; and a row has the four columns.          *)
Keyed(table) ==
  /\ \A r \in table : r = [seq |-> r.seq, entry |-> r.entry, prev |-> r.prev, hash |-> r.hash]
  /\ \A r, q \in table : r.seq = q.seq => r = q

Written(table) == Sound(table) /\ Keyed(table)

Before(table, r) == {q \in table : q.seq < r.seq}

LEMMA BrokenBefore == \A table, r : Broken(table, r) <=>
                        \/ r.hash # Hash(r.entry, r.prev)
                        \/ r.seq # HeadSeq(Before(table, r)) + 1
                        \/ r.prev # HeadHash(Before(table, r))
  BY DEF Broken, Before

(* Some rows of a written table have a newest one among them.              *)
LEMMA NewestOfPart ==
  ASSUME NEW table, Sound(table), NEW part \in SUBSET table, part # {}
  PROVE  \E r \in part : \A q \in part : q.seq <= r.seq
<1>. DEFINE top == HeadSeq(table)
            gaps == {top - r.seq : r \in part}
<1>1. top \in Nat /\ \A r \in part : r.seq \in Nat /\ r.seq <= top
  BY HeadIsNewest DEF Sound
<1>. HIDE DEF top
<1>2. gaps \in SUBSET Nat /\ gaps # {}
  BY <1>1
<1>3. PICK m \in gaps : \A k \in gaps : m <= k
  <2>. HIDE DEF gaps
  <2>1. QED BY <1>2, Smallest
<1>4. PICK r \in part : m = top - r.seq
  OBVIOUS
<1>5. \A q \in part : q.seq <= r.seq
  <2>. SUFFICES ASSUME NEW q \in part PROVE q.seq <= r.seq
    OBVIOUS
  <2>1. top - q.seq \in gaps
    OBVIOUS
  <2>2. top - r.seq <= top - q.seq
    BY <1>3, <1>4, <2>1
  <2>3. QED BY <1>1, <2>2
<1>6. QED BY <1>5

(* The head of some rows is their newest row.                              *)
LEMMA HeadOfPart ==
  ASSUME NEW part, NEW r \in part,
         \A q \in part : q.seq \in Nat /\ q.seq <= r.seq /\ (q.seq = r.seq => q = r)
  PROVE  Newest(part) = {r} /\ HeadSeq(part) = r.seq /\ HeadHash(part) = r.hash
<1>1. Newest(part) = {r}
  BY DEF Newest
<1>2. QED BY <1>1 DEF HeadSeq, HeadHash

(* The first row has no predecessor, every other row names its own.        *)
LEMMA RowIsFirst ==
  ASSUME NEW table, Written(table), NEW r \in table, Before(table, r) = {}
  PROVE  r.seq = 1 /\ r.prev = Genesis
<1>1. ~Broken(table, r)
  BY DEF Written, Sound, Intact
<1>2. HeadSeq({}) = 0 /\ HeadHash({}) = Genesis
  BY DEF HeadSeq, HeadHash
<1>3. r.seq = HeadSeq({}) + 1 /\ r.prev = HeadHash({})
  BY <1>1, BrokenBefore
<1>4. QED BY <1>2, <1>3

LEMMA RowFollows ==
  ASSUME NEW table, Written(table), NEW r \in table, Before(table, r) # {}
  PROVE  \E s \in table : r.seq = s.seq + 1 /\ r.prev = s.hash
<1>1. ~Broken(table, r)
  BY DEF Written, Sound, Intact
<1>2. PICK s \in Before(table, r) : \A q \in Before(table, r) : q.seq <= s.seq
  BY NewestOfPart DEF Before, Written
<1>3. \A q \in Before(table, r) : q.seq \in Nat /\ q.seq <= s.seq /\ (q.seq = s.seq => q = s)
  BY <1>2 DEF Before, Written, Sound, Keyed
<1>4. HeadSeq(Before(table, r)) = s.seq /\ HeadHash(Before(table, r)) = s.hash
  BY <1>3, HeadOfPart
<1>5. r.seq = s.seq + 1 /\ r.prev = s.hash
  BY <1>1, <1>4, BrokenBefore
<1>6. QED BY <1>5 DEF Before

LEMMA RowFields ==
  ASSUME NEW table, Written(table), NEW r \in table
  PROVE  r.hash = <<r.entry, r.prev>> /\ r.seq \in Nat /\ r.seq >= 1
<1>1. r.hash = <<r.entry, r.prev>> /\ r.seq \in Nat
  BY BrokenBefore DEF Written, Sound, Intact, Hash
<1>2. CASE Before(table, r) = {}
  BY <1>1, <1>2, RowIsFirst
<1>3. CASE Before(table, r) # {}
  <2>1. PICK s \in table : r.seq = s.seq + 1
    BY <1>3, RowFollows
  <2>2. QED BY <1>1, <2>1 DEF Written, Sound
<1>4. QED BY <1>2, <1>3

(* No two rows have the same predecessor: otherwise their predecessors     *)
(* would, and so on down to the first row, which has none.                 *)
LEMMA PrevsDiffer ==
  ASSUME NEW table, Written(table), NEW a \in table, NEW b \in table, a.seq < b.seq
  PROVE  a.prev # b.prev
<1>. DEFINE Twins(r, q) == r.seq < q.seq /\ r.prev = q.prev
            places == {k \in Nat : \E r, q \in table : r.seq = k /\ Twins(r, q)}
<1>. SUFFICES ASSUME a.prev = b.prev PROVE FALSE
  OBVIOUS
<1>1. a.seq \in places
  BY RowFields
<1>2. PICK m \in places : \A k \in places : m <= k
  <2>1. places \in SUBSET Nat /\ places # {}
    BY <1>1
  <2>. HIDE DEF places
  <2>2. QED BY <2>1, Smallest
<1>3. PICK r \in table, q \in table : r.seq = m /\ Twins(r, q)
  OBVIOUS
<1>4. PICK t \in table : q.seq = t.seq + 1 /\ q.prev = t.hash
  <2>1. r \in Before(table, q)
    BY <1>3 DEF Before
  <2>2. QED BY <2>1, RowFollows
<1>5. r.prev = <<t.entry, t.prev>>
  BY <1>3, <1>4, RowFields
<1>6. Before(table, r) # {}
  <2>1. r.prev # <<>>
    BY <1>5
  <2>2. QED BY <2>1, RowIsFirst DEF Genesis
<1>7. PICK s \in table : r.seq = s.seq + 1 /\ r.prev = s.hash
  BY <1>6, RowFollows
<1>8. s.prev = t.prev
  <2>1. <<s.entry, s.prev>> = <<t.entry, t.prev>>
    BY <1>5, <1>7, RowFields
  <2>2. QED BY <2>1
<1>9. s.seq \in Nat /\ t.seq \in Nat /\ r.seq \in Nat /\ q.seq \in Nat
  BY RowFields
<1>10. s.seq < t.seq /\ s.seq < m
  BY <1>3, <1>4, <1>7, <1>9
<1>11. s.seq \in places
  BY <1>8, <1>9, <1>10
<1>12. QED BY <1>2, <1>9, <1>10, <1>11

(* The rows that are left verify exactly when they are a prefix.           *)
LEMMA PrefixVerifies ==
  ASSUME NEW table, Written(table), NEW part \in SUBSET table, IsPrefix(part, table)
  PROVE  Intact(part)
<1>. SUFFICES ASSUME NEW r \in part PROVE ~Broken(part, r)
  BY DEF Intact
<1>1. Before(part, r) = Before(table, r)
  BY DEF Before, IsPrefix
<1>2. ~Broken(table, r)
  BY DEF Written, Sound, Intact
<1>3. QED BY <1>1, <1>2, BrokenBefore

LEMMA VerifiedIsPrefix ==
  ASSUME NEW table, Written(table), NEW part \in SUBSET table, Intact(part)
  PROVE  IsPrefix(part, table)
<1>. DEFINE Gap(r, q) == q.seq < r.seq /\ q \notin part
            places == {k \in Nat : \E r \in part, q \in table : r.seq = k /\ Gap(r, q)}
<1>. SUFFICES ASSUME NEW a \in part, NEW b \in table, Gap(a, b) PROVE FALSE
  BY DEF IsPrefix
<1>0. \A r \in table : r.seq \in Nat /\ r.seq >= 1
  BY RowFields
<1>1. a.seq \in places
  BY <1>0
<1>2. PICK m \in places : \A k \in places : m <= k
  <2>1. places \in SUBSET Nat /\ places # {}
    BY <1>1
  <2>. HIDE DEF places
  <2>2. QED BY <2>1, Smallest
<1>3. PICK r \in part, q \in table : r.seq = m /\ Gap(r, q)
  OBVIOUS
<1>4. r.seq = HeadSeq(Before(part, r)) + 1
  BY BrokenBefore DEF Intact
<1>5. Before(part, r) # {}
  <2>1. r.seq # 1
    BY <1>0, <1>3
  <2>2. QED BY <1>4, <2>1 DEF HeadSeq
<1>6. PICK s \in Before(part, r) : \A p \in Before(part, r) : p.seq <= s.seq
  BY <1>5, NewestOfPart DEF Before, Written
<1>7. r.seq = s.seq + 1
  <2>1. \A p \in Before(part, r) : p.seq \in Nat /\ p.seq <= s.seq /\ (p.seq = s.seq => p = s)
    BY <1>0, <1>6 DEF Before, Written, Keyed
  <2>2. QED BY <1>4, <2>1, HeadOfPart
<1>8. s \in part /\ s.seq < m
  BY <1>3 DEF Before
<1>9. q.seq # s.seq
  BY <1>3, <1>8 DEF Written, Keyed
<1>10. q.seq < s.seq
  BY <1>0, <1>3, <1>7, <1>8, <1>9
<1>11. s.seq \in places
  BY <1>0, <1>3, <1>8, <1>10
<1>12. QED BY <1>0, <1>2, <1>8, <1>11

(* An edited row no longer fits its hash.                                  *)
LEMMA EditDetected ==
  ASSUME NEW table, Written(table), NEW r \in table, NEW entry, entry # r.entry
  PROVE  ~Intact(Edited(table, r, entry))
<1>. DEFINE new == [r EXCEPT !.entry = entry]
<1>1. new.entry = entry /\ new.prev = r.prev /\ new.hash = <<r.entry, r.prev>>
  <2>1. r = [seq |-> r.seq, entry |-> r.entry, prev |-> r.prev, hash |-> r.hash]
    BY DEF Written, Keyed
  <2>2. new.entry = entry /\ new.prev = r.prev /\ new.hash = r.hash
    BY <2>1
  <2>. HIDE DEF new
  <2>3. QED BY <2>2, RowFields
<1>2. new \in Edited(table, r, entry)
  BY DEF Edited
<1>. HIDE DEF new
<1>3. new.hash # <<new.entry, new.prev>>
  BY <1>1
<1>4. QED BY <1>2, <1>3, BrokenBefore DEF Intact, Hash

(* Its hash recomputed, it no longer fits the row after it.                *)
LEMMA RewriteDetected ==
  ASSUME NEW table, Written(table), NEW r \in table, NEW entry, entry # r.entry,
         Intact(Rewritten(table, r, entry))
  PROVE  r \in Newest(table)
<1>. DEFINE new == [r EXCEPT !.entry = entry, !.hash = Hash(entry, r.prev)]
            changed == (table \ {r}) \cup {new}
            places == {q.seq : q \in {p \in table : p.seq > r.seq}}
<1>0. \A q \in table : q.seq \in Nat /\ (q.seq = r.seq => q = r)
  BY DEF Written, Sound, Keyed
<1>. SUFFICES ASSUME NEW later \in table, later.seq > r.seq PROVE FALSE
  BY <1>0 DEF Newest
<1>1. new.seq = r.seq /\ new.hash = <<entry, r.prev>>
  <2>1. r = [seq |-> r.seq, entry |-> r.entry, prev |-> r.prev, hash |-> r.hash]
    BY DEF Written, Keyed
  <2>2. QED BY <2>1 DEF Hash
<1>. HIDE DEF new
<1>2. PICK m \in places : \A k \in places : m <= k
  <2>1. places \in SUBSET Nat /\ places # {}
    BY <1>0
  <2>. HIDE DEF places
  <2>2. QED BY <2>1, Smallest
<1>3. PICK s \in table : s.seq > r.seq /\ \A q \in table : q.seq > r.seq => s.seq <= q.seq
  BY <1>2
<1>4. s \in changed /\ ~Broken(changed, s) /\ ~Broken(table, s)
  <2>1. s \in changed /\ Rewritten(table, r, entry) = changed
    BY <1>0, <1>3 DEF Rewritten, new
  <2>2. QED BY <2>1 DEF Intact, Written, Sound
<1>5. s.prev = r.hash
  <2>1. r \in Before(table, s)
    BY <1>3 DEF Before
  <2>2. \A q \in Before(table, s) : q.seq \in Nat /\ q.seq <= r.seq /\ (q.seq = r.seq => q = r)
    BY <1>0, <1>3 DEF Before
  <2>3. QED BY <1>4, <2>1, <2>2, HeadOfPart, BrokenBefore
<1>6. s.prev = new.hash
  <2>1. new \in Before(changed, s)
    BY <1>1, <1>3 DEF Before
  <2>2. \A q \in Before(changed, s) :
          q.seq \in Nat /\ q.seq <= new.seq /\ (q.seq = new.seq => q = new)
    BY <1>0, <1>1, <1>3 DEF Before
  <2>3. QED BY <1>4, <2>1, <2>2, HeadOfPart, BrokenBefore
<1>7. <<entry, r.prev>> = <<r.entry, r.prev>>
  BY <1>1, <1>5, <1>6, RowFields
<1>8. QED BY <1>7

(* Two rows that change places bring the later one's predecessor forward.  *)
LEMMA SwapOrdered ==
  ASSUME NEW table, Written(table), NEW r \in table, NEW q \in table, r.seq < q.seq
  PROVE  ~Intact(Swapped(table, r, q))
<1>. DEFINE up   == [r EXCEPT !.seq = q.seq]
            down == [q EXCEPT !.seq = r.seq]
            changed == (table \ {r, q}) \cup {up, down}
<1>1. \A p \in table : p.seq \in Nat
  BY DEF Written, Sound
<1>2. up.seq = q.seq /\ down.seq = r.seq /\ down.prev = q.prev
  <2>1. /\ r = [seq |-> r.seq, entry |-> r.entry, prev |-> r.prev, hash |-> r.hash]
        /\ q = [seq |-> q.seq, entry |-> q.entry, prev |-> q.prev, hash |-> q.hash]
    BY DEF Written, Keyed
  <2>2. QED BY <2>1
<1>3. Swapped(table, r, q) = changed /\ down \in changed
  BY DEF Swapped
<1>. HIDE DEF up, down
<1>4. Before(changed, down) = Before(table, r)
  BY <1>1, <1>2 DEF Before
<1>5. ~Broken(table, r)
  BY DEF Written, Sound, Intact
<1>. HIDE DEF changed
<1>6. ~Broken(changed, down) => q.prev = r.prev
  BY <1>2, <1>4, <1>5, BrokenBefore
<1>7. Broken(changed, down)
  BY <1>6, PrevsDiffer
<1>8. QED BY <1>3, <1>7 DEF Intact

LEMMA SwapDetected ==
  ASSUME NEW table, Written(table), NEW r \in table, NEW q \in table \ {r}
  PROVE  ~Intact(Swapped(table, r, q))
<1>1. r.seq \in Nat /\ q.seq \in Nat /\ r.seq # q.seq
  BY DEF Written, Sound, Keyed
<1>2. CASE r.seq < q.seq
  BY <1>2, SwapOrdered
<1>3. CASE q.seq < r.seq
  <2>1. Swapped(table, r, q) = Swapped(table, q, r)
    BY DEF Swapped
  <2>2. QED BY <1>3, <2>1, SwapOrdered
<1>4. QED BY <1>1, <1>2, <1>3

LEMMA WrittenDetects ==
  ASSUME NEW table, Written(table), NEW Entries
  PROVE  Detects(table, Entries)
  BY PrefixVerifies, VerifiedIsPrefix, EditDetected, RewriteDetected, SwapDetected DEF Detects

(* A row that follows the head takes a number no row has.                  *)
LEMMA AppendKeepsKeyed ==
  ASSUME NEW table, NEW entry, Written(table)
  PROVE  Keyed(table \cup {NextRow(table, entry)})
<1>. DEFINE new == NextRow(table, entry)
<1>1. new = [seq |-> new.seq, entry |-> new.entry, prev |-> new.prev, hash |-> new.hash]
  BY DEF NextRow
<1>2. \A r \in table : r.seq # new.seq
  BY HeadIsNewest, NextRowFields DEF Written, Sound
<1>. HIDE DEF new
<1>3. Keyed(table \cup {new})
  BY <1>1, <1>2 DEF Written, Keyed
<1>4. QED BY <1>3 DEF new

LEMMA KeyedStep == RelayInv /\ Keyed(chain) /\ [Next]_vars => Keyed(chain)'
<1>. SUFFICES ASSUME RelayInv, Keyed(chain), [Next]_vars PROVE Keyed(chain)'
  OBVIOUS
<1>1. CASE \E h \in Handlers : Commit(h)
  <2>1. PICK h \in Handlers : Commit(h)
    BY <1>1
  <2>2. chain' = chain \/ (phase[h] = "commit" /\ Audits(h) /\ chain' = chain \cup {draft[h]})
    BY <2>1 DEF Commit
  <2>3. QED BY <2>2, AppendKeepsKeyed DEF RelayInv, ChainInv, AppendsSerialize, Written
<1>2. CASE ~\E h \in Handlers : Commit(h)
  <2>1. chain' = chain
    BY <1>2 DEF Next, Relay, Handle, Poll, SkipUnrouted, Deliver, MarkPublished, RecordAttempt, Timeout,
                CycleError, Crash, ClaimInbox, LockChain, Insert, Rollback, Reply, AskDirectly, Requeue,
                effectVars, vars
  <2>2. QED BY <2>1
<1>3. QED BY <1>1, <1>2

(* However many writers append, the verifier accepts the table they wrote, *)
(* and of any such table it detects an edited row, a deleted one that is   *)
(* not the newest, a rewritten one before the newest, and two that changed *)
(* places (VERIFY_SQL).                                                    *)
THEOREM RelayChainVerifies == RelaySpec => []ChainVerifies
<1>1. Init => Keyed(chain)
  BY DEF Init, Keyed
<1>2. RelayInv /\ Keyed(chain) => ChainVerifies
  BY WrittenDetects DEF RelayInv, ChainInv, Written, Sound, ChainVerifies
<1>3. QED BY <1>1, <1>2, KeyedStep, RelayAlways, PTL DEF RelaySpec
=============================================================================
