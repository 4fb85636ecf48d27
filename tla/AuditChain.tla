----------------------------- MODULE AuditChain -----------------------------
(***************************************************************************)
(* The tamper-evident audit table of operations-service                    *)
(* (packages/shared/audit.mjs, migration 0032): how a row commits to its   *)
(* predecessor and how the nightly verifier walks the table.  One tenant.  *)
(* A table is a set of rows; SHA-256 is an injective constructor, so a     *)
(* hash is the pair it was computed from.                                  *)
(***************************************************************************)
EXTENDS Naturals

Genesis == <<>>   \* '', prev_hash of the first row

Hash(entry, prev) == <<entry, prev>>

Newest(table) == {r \in table : \A q \in table : q.seq <= r.seq}

HeadSeq(table)  == IF table = {} THEN 0 ELSE (CHOOSE r \in Newest(table) : TRUE).seq
HeadHash(table) == IF table = {} THEN Genesis ELSE (CHOOSE r \in Newest(table) : TRUE).hash

(* CHAINED_INSERT_SQL: the row that follows the head of a table *)
NextRow(table, entry) ==
  [seq   |-> HeadSeq(table) + 1,
   entry |-> entry,
   prev  |-> HeadHash(table),
   hash  |-> Hash(entry, HeadHash(table))]

(* Mutant: the verifier trusts the stored hash *)
BrokenTrusting(table, r) ==
  LET before == {q \in table : q.seq < r.seq}
  IN \/ r.seq # HeadSeq(before) + 1
     \/ r.prev # HeadHash(before)

(* VERIFY_SQL, the disjuncts of its WHERE clause: LAG(...) over the rows   *)
(* ordered by chain_seq is the head of the rows before this one            *)
Broken(table, r) ==
  LET before == {q \in table : q.seq < r.seq}
  IN \/ r.hash # Hash(r.entry, r.prev)
     \/ r.seq # HeadSeq(before) + 1
     \/ r.prev # HeadHash(before)

(* verifyAuditChain returns ok *)
Intact(table) == \A r \in table : ~Broken(table, r)

-----------------------------------------------------------------------------
(* What may happen to a table behind the service's back *)

Edited(table, r, entry)    == (table \ {r}) \cup {[r EXCEPT !.entry = entry]}
Rewritten(table, r, entry) ==
  (table \ {r}) \cup {[r EXCEPT !.entry = entry, !.hash = Hash(entry, r.prev)]}
Swapped(table, r, q)       ==
  (table \ {r, q}) \cup {[r EXCEPT !.seq = q.seq], [q EXCEPT !.seq = r.seq]}

IsPrefix(part, table) == \A r \in part, q \in table : q.seq < r.seq => q \in part

(* verifyAuditChain: "Detects: field tampering (row_hash_mismatch),        *)
(* relinking (prev_hash_mismatch), interior deletions (sequence_gap), and  *)
(* deleted genesis (missing_genesis). NOT detectable: deleting the newest  *)
(* rows of a tenant's chain": the rows that are left verify exactly when   *)
(* they are a prefix; an edited row never does, with its hash recomputed   *)
(* only if it is the newest; and no two rows can change places.            *)
Detects(table, Entries) ==
  /\ \A part \in SUBSET table : Intact(part) <=> IsPrefix(part, table)
  /\ \A r \in table : \A entry \in Entries \ {r.entry} :
       /\ ~Intact(Edited(table, r, entry))
       /\ Intact(Rewritten(table, r, entry)) => r \in Newest(table)
  /\ \A r \in table : \A q \in table \ {r} : ~Intact(Swapped(table, r, q))
=============================================================================
