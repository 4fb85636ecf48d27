------------------------------ MODULE Watchdog ------------------------------
(***************************************************************************)
(* What tells the operators that something is stuck: the periodic jobs of  *)
(* services/job-worker/src/scheduler.mjs, the watchdog that compares each  *)
(* monitored value with its threshold (handlers/watchdog.mjs) and the      *)
(* verifier of the audit chains (handlers/audit-chain.mjs), which open and *)
(* close rows of operations.alerts.                                        *)
(*                                                                         *)
(* Every job worker schedules and runs these jobs.  A run reads the value, *)
(* then the alert, then writes, in statements of their own, so runs of two *)
(* workers overlap; a run that throws dead-letters its job, which is one   *)
(* of the things the watchdog monitors.                                    *)
(***************************************************************************)
EXTENDS Integers, FiniteSets, Sequences

CONSTANTS
  Workers,         \* job-worker processes
  Tenants,         \* active tenants, as numbers in the order of their ids
  CheckTenant,     \* the (tenant, check) pairs of a watchdog run in the order
                   \* of its loops: the tenant of each
  DeadLetterChecks,\* the pairs whose check is dead_letter_queue
  None,
  MaxPending,      \* bound: periodic jobs of a kind waiting at a time
  MaxFaults        \* bound: runs that throw and workers that die

ASSUME WatchdogConstants ==
  /\ Tenants \subseteq Nat \ {0}
  /\ Tenants # {} /\ IsFiniteSet(Tenants)
  /\ CheckTenant \in Seq(Tenants) /\ CheckTenant # <<>>
  /\ DeadLetterChecks \subseteq DOMAIN CheckTenant
  /\ IsFiniteSet(Workers)
  /\ None \notin Tenants
  /\ MaxPending \in Nat \ {0} /\ MaxFaults \in Nat

Checks == DOMAIN CheckTenant
Kinds == {"ops-watchdog", "audit-chain-verify"}

VARIABLES
  exceeded,        \* whether the value of each check is above its threshold
  broken,          \* tenants whose audit chain does not verify
  latest,          \* whether the newest alert of each check is Open
  opened,          \* number of Open alerts of each check
  chainAlerts,     \* number of Open chain alerts of each tenant
  pending,         \* jobs of each kind waiting in platform.jobs
  worker,          \* what each worker is at
  faults           \* bound

alertVars == <<latest, opened, chainAlerts>>
vars == <<exceeded, broken, alertVars, pending, worker, faults>>

(* A worker in a run: the next check and what it read of it, or the tenant
   whose chain it found broken.                                            *)
Worker ==
  [at : {"idle", "value", "alert", "write", "verify", "found", "insert", "intact"},
   check : Nat, high : BOOLEAN, tenant : Tenants \union {None}]

MonitorType ==
  /\ exceeded \in [Checks -> BOOLEAN]
  /\ broken \subseteq Tenants
  /\ latest \in [Checks -> BOOLEAN]
  /\ opened \in [Checks -> Nat]
  /\ chainAlerts \in [Tenants -> Nat]
  /\ pending \in [Kinds -> 0 .. MaxPending]
  /\ worker \in [Workers -> Worker]
  /\ faults \in 0 .. MaxFaults

Run(step, c, t) == [at |-> step, check |-> c, high |-> FALSE, tenant |-> t]
Idle == Run("idle", 0, None)

MonitorInit ==
  /\ exceeded = [c \in Checks |-> FALSE]
  /\ broken = {}
  /\ latest = [c \in Checks |-> FALSE]
  /\ opened = [c \in Checks |-> 0]
  /\ chainAlerts = [t \in Tenants |-> 0]
  /\ pending = [k \in Kinds |-> 0]
  /\ worker = [w \in Workers |-> Idle]
  /\ faults = 0

At(w, step) == worker[w].at = step
Finish(w) == worker' = [worker EXCEPT ![w] = Idle]

----------------------------------------------------------------------------
(* Jobs                                                                    *)

(* A worker's interval timer enqueues a job of one attempt.                *)
Schedule(k) ==
  /\ pending[k] < MaxPending
  /\ pending' = [pending EXCEPT ![k] = @ + 1]
  /\ UNCHANGED <<exceeded, broken, alertVars, worker, faults>>

Claim(w, k) ==
  /\ At(w, "idle")
  /\ pending[k] > 0
  /\ pending' = [pending EXCEPT ![k] = @ - 1]
  /\ worker' = [worker EXCEPT ![w] =
       CASE k = "ops-watchdog" -> Run("value", 1, None)
         [] k = "audit-chain-verify" -> Run("verify", 0, None)]
  /\ UNCHANGED <<exceeded, broken, alertVars, faults>>

(* The handler throws, for instance on the id of an alert another worker
   inserted in the same millisecond: the only attempt failed.              *)
Throw(w) ==
  /\ ~At(w, "idle")
  /\ faults < MaxFaults
  /\ faults' = faults + 1
  /\ exceeded' = [c \in Checks |-> exceeded[c] \/ c \in DeadLetterChecks]
  /\ Finish(w)
  /\ UNCHANGED <<broken, alertVars, pending>>

(* The process dies; its job stays running, which no check looks at.       *)
Die(w) ==
  /\ ~At(w, "idle")
  /\ faults < MaxFaults
  /\ faults' = faults + 1
  /\ Finish(w)
  /\ UNCHANGED <<exceeded, broken, alertVars, pending>>

----------------------------------------------------------------------------
(* The watchdog                                                            *)

(* The next pair of the loops, or the end of the run.                      *)
NextCheck(w) ==
  worker' = [worker EXCEPT ![w] =
    IF @.check < Len(CheckTenant) THEN Run("value", @.check + 1, None) ELSE Idle]

ReadValue(w) ==
  /\ At(w, "value")
  /\ worker' = [worker EXCEPT ![w].at = "alert",
                              ![w].high = exceeded[worker[w].check]]
  /\ UNCHANGED <<exceeded, broken, alertVars, pending, faults>>

(* Mutant: an Open alert is taken as the end of it.                        *)
ReadAlertNeverCloses(w) ==
  LET c == worker[w].check IN
  /\ At(w, "alert")
  /\ \/ (latest[c] \/ ~worker[w].high) /\ NextCheck(w)
     \/ ~latest[c] /\ worker[w].high
        /\ worker' = [worker EXCEPT ![w].at = "write"]
  /\ UNCHANGED <<exceeded, broken, alertVars, pending, faults>>

(* The newest alert of this title: nothing to do when it already says what
   the value says.                                                         *)
ReadAlert(w) ==
  LET c == worker[w].check IN
  /\ At(w, "alert")
  /\ \/ latest[c] = worker[w].high /\ NextCheck(w)
     \/ latest[c] # worker[w].high
        /\ worker' = [worker EXCEPT ![w].at = "write"]
  /\ UNCHANGED <<exceeded, broken, alertVars, pending, faults>>

OpenAlert(w) ==
  LET c == worker[w].check IN
  /\ At(w, "write")
  /\ worker[w].high
  /\ opened' = [opened EXCEPT ![c] = @ + 1]
  /\ latest' = [latest EXCEPT ![c] = TRUE]
  /\ NextCheck(w)
  /\ UNCHANGED <<exceeded, broken, chainAlerts, pending, faults>>

(* Mutant: only the newest alert is closed.                                *)
CloseNewestAlert(w) ==
  LET c == worker[w].check IN
  /\ At(w, "write")
  /\ ~worker[w].high
  /\ opened' = [opened EXCEPT ![c] = IF latest[c] THEN @ - 1 ELSE @]
  /\ latest' = [latest EXCEPT ![c] = FALSE]
  /\ NextCheck(w)
  /\ UNCHANGED <<exceeded, broken, chainAlerts, pending, faults>>

(* The UPDATE closes every Open alert of the title.                        *)
CloseAlerts(w) ==
  LET c == worker[w].check IN
  /\ At(w, "write")
  /\ ~worker[w].high
  /\ opened' = [opened EXCEPT ![c] = 0]
  /\ latest' = [latest EXCEPT ![c] = FALSE]
  /\ NextCheck(w)
  /\ UNCHANGED <<exceeded, broken, chainAlerts, pending, faults>>

----------------------------------------------------------------------------
(* The chain verifier                                                      *)

(* verifyAuditChain reports the first break in the order of tenants.       *)
FirstBroken == CHOOSE t \in broken : \A u \in broken : t <= u

VerifyChains(w) ==
  /\ At(w, "verify")
  /\ worker' = [worker EXCEPT ![w] =
       IF broken = {} THEN Run("intact", 0, None) ELSE Run("found", 0, FirstBroken)]
  /\ UNCHANGED <<exceeded, broken, alertVars, pending, faults>>

(* Mutant: an intact chain closes the alerts of one tenant.                *)
CloseOneChainAlert(w) ==
  /\ At(w, "intact")
  /\ chainAlerts' = [chainAlerts EXCEPT ![CheckTenant[1]] = 0]
  /\ Finish(w)
  /\ UNCHANGED <<exceeded, broken, latest, opened, pending, faults>>

(* Every chain verifies: the Open chain alerts of all tenants are closed.  *)
CloseChainAlerts(w) ==
  /\ At(w, "intact")
  /\ chainAlerts' = [t \in Tenants |-> 0]
  /\ Finish(w)
  /\ UNCHANGED <<exceeded, broken, latest, opened, pending, faults>>

ReadChainAlert(w) ==
  /\ At(w, "found")
  /\ \/ chainAlerts[worker[w].tenant] > 0 /\ Finish(w)
     \/ chainAlerts[worker[w].tenant] = 0
        /\ worker' = [worker EXCEPT ![w].at = "insert"]
  /\ UNCHANGED <<exceeded, broken, alertVars, pending, faults>>

OpenChainAlert(w) ==
  /\ At(w, "insert")
  /\ chainAlerts' = [chainAlerts EXCEPT ![worker[w].tenant] = @ + 1]
  /\ Finish(w)
  /\ UNCHANGED <<exceeded, broken, latest, opened, pending, faults>>

----------------------------------------------------------------------------
(* What is monitored                                                       *)

(* A payment gets stuck or moves on, events pile up or are delivered, ...  *)
Change(c) ==
  /\ exceeded' = [exceeded EXCEPT ![c] = ~@]
  /\ UNCHANGED <<broken, alertVars, pending, worker, faults>>

BreakChain(t) ==
  /\ broken' = broken \union {t}
  /\ UNCHANGED <<exceeded, alertVars, pending, worker, faults>>

(* A demo reset deletes a tenant's alerts and starts its chain again.      *)
ResetTenant(t) ==
  /\ broken' = broken \ {t}
  /\ latest' = [c \in Checks |-> latest[c] /\ CheckTenant[c] # t]
  /\ opened' = [c \in Checks |-> IF CheckTenant[c] = t THEN 0 ELSE opened[c]]
  /\ chainAlerts' = [chainAlerts EXCEPT ![t] = 0]
  /\ UNCHANGED <<exceeded, pending, worker, faults>>

Step(w) ==
  \/ ReadValue(w) \/ ReadAlert(w) \/ OpenAlert(w) \/ CloseAlerts(w)
  \/ VerifyChains(w) \/ CloseChainAlerts(w) \/ ReadChainAlert(w) \/ OpenChainAlert(w)

MonitorNext ==
  \/ \E k \in Kinds : Schedule(k)
  \/ \E w \in Workers :
       Step(w) \/ Throw(w) \/ Die(w) \/ \E k \in Kinds : Claim(w, k)
  \/ \E c \in Checks : Change(c)
  \/ \E t \in Tenants : BreakChain(t) \/ ResetTenant(t)

MonitorSpec == MonitorInit /\ [][MonitorNext]_vars

(* The timers fire for ever, and some worker keeps claiming and running.   *)
MonitorFairness ==
  /\ \A k \in Kinds : WF_vars(Schedule(k))
  /\ \A w \in Workers : WF_vars(Step(w))
  /\ \A k \in Kinds : SF_vars(\E w \in Workers : Claim(w, k))

FairMonitorSpec == MonitorSpec /\ MonitorFairness

----------------------------------------------------------------------------
(* Properties                                                              *)

(* The watchdog decides on the newest alert alone: that alert is Open
   exactly when any is, so no Open alert is ever left behind a Closed one,
   and overlapping runs leave at most one Open alert for each worker.      *)
NewestTellsOpen ==
  \A c \in Checks :
    /\ latest[c] <=> opened[c] > 0
    /\ opened[c] <= Cardinality(Workers)

(* A condition that persists is alerted however often workers die, runs
   fail or alerts are deleted; once it has cleared for good, no alert of it
   stays Open.                                                             *)
AlertsFollow ==
  \A c \in Checks :
    /\ <>[]exceeded[c] => []<>(opened[c] > 0)
    /\ <>[]~exceeded[c] => <>[](opened[c] = 0)

(* The first broken chain is alerted, and the alerts go when every chain
   verifies again.                                                         *)
ChainAlertsFollow ==
  /\ \A t \in Tenants :
       <>[](broken # {} /\ FirstBroken = t) => []<>(chainAlerts[t] > 0)
  /\ <>[](broken = {}) => <>[](\A t \in Tenants : chainAlerts[t] = 0)
=============================================================================
