--------------------------- MODULE WatchdogProofs ---------------------------
(***************************************************************************)
(* What overlapping watchdog runs leave behind, for any number of workers, *)
(* tenants and checks.                                                     *)
(*                                                                         *)
(* A run that is about to insert an alert read that the newest one was not *)
(* Open.  That may be stale when it writes; what is certain is that every  *)
(* run that read it so inserts at most once, so an Open alert more is a    *)
(* run about to insert less.                                               *)
(***************************************************************************)
EXTENDS Watchdog, FiniteSetTheorems, WellFoundedInduction, TLAPS

(* Runs about to open an alert of check c.                                 *)
Opening(c) == {w \in Workers :
  worker[w].at = "write" /\ worker[w].high /\ worker[w].check = c}

TypeInv ==
  /\ MonitorType
  /\ \A w \in Workers :
       /\ worker[w].at \in {"value", "alert", "write"} => worker[w].check \in Checks
       /\ worker[w].at \in {"found", "insert"} => worker[w].tenant \in Tenants

OpenInv ==
  \A c \in Checks :
    /\ latest[c] <=> opened[c] > 0
    /\ opened[c] + Cardinality(Opening(c)) <= Cardinality(Workers)

----------------------------------------------------------------------------
(* Types                                                                   *)

LEMMA ChecksRange == Checks = 1 .. Len(CheckTenant) /\ Len(CheckTenant) \in Nat /\ 1 \in Checks
<1>1. CheckTenant \in Seq(Tenants) /\ CheckTenant # <<>>
  BY WatchdogConstants
<1>2. Len(CheckTenant) \in Nat /\ DOMAIN CheckTenant = 1 .. Len(CheckTenant)
  BY <1>1
<1>3. Len(CheckTenant) # 0
  BY <1>1
<1>4. QED BY <1>2, <1>3 DEF Checks

LEMMA RunType ==
  /\ Idle \in Worker /\ Idle.at = "idle"
  /\ \A step \in {"value", "verify", "found", "intact"}, c \in Nat, t \in Tenants \union {None} :
       /\ Run(step, c, t) \in Worker /\ Run(step, c, t).at = step
       /\ Run(step, c, t).check = c /\ Run(step, c, t).tenant = t
  BY DEF Idle, Run, Worker

LEMMA TypeStart == MonitorInit => TypeInv
  BY RunType, WatchdogConstants
     DEF MonitorInit, TypeInv, MonitorType, Kinds

(* Where a run goes after a check: to the next one, or home.               *)
LEMMA NextCheckType ==
  ASSUME TypeInv, NEW w \in Workers, worker[w].check \in Checks, NextCheck(w)
  PROVE  /\ worker' \in [Workers -> Worker]
         /\ \A v \in Workers \ {w} : worker'[v] = worker[v]
         /\ \/ worker'[w] = Idle
            \/ worker'[w].at = "value" /\ worker'[w].check \in Checks
<1>1. worker \in [Workers -> Worker]
  BY DEF TypeInv, MonitorType
<1>. DEFINE n == worker[w].check + 1
<1>2. worker' = [worker EXCEPT ![w] =
                   IF worker[w].check < Len(CheckTenant) THEN Run("value", n, None) ELSE Idle]
  BY <1>1 DEF NextCheck
<1>3. worker[w].check < Len(CheckTenant) => n \in Checks /\ n \in Nat
  BY ChecksRange
<1>4. n \in Nat => /\ Run("value", n, None) \in Worker
                   /\ Run("value", n, None).at = "value" /\ Run("value", n, None).check = n
  BY RunType
<1>. HIDE DEF n
<1>5. worker' \in [Workers -> Worker]
  BY <1>1, <1>2, <1>3, <1>4, RunType
<1>6. \A v \in Workers \ {w} : worker'[v] = worker[v]
  BY <1>1, <1>2
<1>7. worker'[w] = IF worker[w].check < Len(CheckTenant) THEN Run("value", n, None) ELSE Idle
  BY <1>1, <1>2
<1>8. QED BY <1>3, <1>4, <1>5, <1>6, <1>7

LEMMA FirstBrokenType ==
  ASSUME TypeInv, broken # {}
  PROVE  FirstBroken \in Tenants
<1>1. broken \subseteq Nat /\ broken \subseteq Tenants
  BY WatchdogConstants DEF TypeInv, MonitorType
<1>. DEFINE less == {ss \in Nat \X Nat : ss[1] < ss[2]}
<1>2. IsWellFoundedOn(less, Nat)
  BY NatLessThanWellFounded DEF OpToRel
<1>. HIDE DEF less
<1>3. \E t \in broken : \A u \in broken : ~ (<<u, t>> \in less)
  BY <1>1, <1>2, WFMin
<1>. USE DEF less
<1>4. \A t, u \in broken : ~ (<<u, t>> \in less) => t <= u
  BY <1>1
<1>. HIDE DEF less
<1>5. \E t \in broken : \A u \in broken : t <= u
  BY <1>3, <1>4
<1>6. QED BY <1>1, <1>5 DEF FirstBroken

LEMMA Typed ==
  ASSUME TypeInv
  PROVE  /\ exceeded \in [Checks -> BOOLEAN] /\ broken \subseteq Tenants
         /\ latest \in [Checks -> BOOLEAN] /\ opened \in [Checks -> Nat]
         /\ chainAlerts \in [Tenants -> Nat] /\ pending \in [Kinds -> 0 .. MaxPending]
         /\ worker \in [Workers -> Worker] /\ faults \in 0 .. MaxFaults
  BY DEF TypeInv, MonitorType

(* A run that has gone to w's next step, whatever else has changed.        *)
LEMMA TypeMoved ==
  ASSUME TypeInv, NEW w \in Workers,
         worker' \in [Workers -> Worker], \A v \in Workers \ {w} : worker'[v] = worker[v],
         worker'[w].at \in {"value", "alert", "write"} => worker'[w].check \in Checks,
         worker'[w].at \in {"found", "insert"} => worker'[w].tenant \in Tenants,
         exceeded' \in [Checks -> BOOLEAN], broken' \subseteq Tenants,
         latest' \in [Checks -> BOOLEAN], opened' \in [Checks -> Nat],
         chainAlerts' \in [Tenants -> Nat], pending' \in [Kinds -> 0 .. MaxPending],
         faults' \in 0 .. MaxFaults
  PROVE  TypeInv'
  BY DEF TypeInv, MonitorType

LEMMA TypeNext ==
  ASSUME TypeInv, NEW w \in Workers,
         worker[w].at \in {"value", "alert", "write"}, NextCheck(w),
         exceeded' = exceeded, broken' = broken, pending' = pending, faults' = faults,
         chainAlerts' = chainAlerts, latest' \in [Checks -> BOOLEAN], opened' \in [Checks -> Nat]
  PROVE  TypeInv'
<1>1. worker[w].check \in Checks
  BY DEF TypeInv
<1>2. /\ worker' \in [Workers -> Worker]
      /\ \A v \in Workers \ {w} : worker'[v] = worker[v]
      /\ worker'[w].at \in {"value", "alert", "write"} => worker'[w].check \in Checks
      /\ worker'[w].at \notin {"found", "insert"}
  BY <1>1, NextCheckType, RunType
<1>3. QED BY <1>2, Typed, TypeMoved

LEMMA TypeFinish ==
  ASSUME TypeInv, NEW w \in Workers, Finish(w),
         exceeded' \in [Checks -> BOOLEAN], broken' = broken, pending' = pending,
         faults' \in 0 .. MaxFaults,
         chainAlerts' \in [Tenants -> Nat], latest' = latest, opened' = opened
  PROVE  TypeInv'
<1>1. /\ worker' \in [Workers -> Worker] /\ worker'[w].at = "idle"
      /\ \A v \in Workers \ {w} : worker'[v] = worker[v]
  BY Typed, RunType DEF Finish
<1>2. QED BY <1>1, Typed, TypeMoved

LEMMA TypeRun ==
  ASSUME TypeInv, NEW w \in Workers, Step(w)
  PROVE  TypeInv'
<1>1. CASE ReadValue(w)
  <2>1. /\ worker' \in [Workers -> Worker] /\ worker'[w].check = worker[w].check
        /\ worker'[w].at = "alert" /\ \A v \in Workers \ {w} : worker'[v] = worker[v]
    BY <1>1, Typed DEF ReadValue, Worker, TypeInv, At
  <2>2. QED BY <1>1, <2>1, Typed, TypeMoved DEF ReadValue, TypeInv, At, alertVars
<1>2. CASE ReadAlert(w)
  <2>1. CASE NextCheck(w)
    BY <1>2, <2>1, TypeNext, Typed DEF ReadAlert, At, alertVars
  <2>2. CASE worker' = [worker EXCEPT ![w].at = "write"]
    <3>1. /\ worker' \in [Workers -> Worker] /\ worker'[w].check = worker[w].check
          /\ worker'[w].at = "write" /\ \A v \in Workers \ {w} : worker'[v] = worker[v]
      BY <2>2, Typed DEF Worker
    <3>2. QED BY <1>2, <3>1, Typed, TypeMoved DEF ReadAlert, TypeInv, At, alertVars
  <2>3. QED BY <1>2, <2>1, <2>2 DEF ReadAlert
<1>3. CASE OpenAlert(w)
  <2>1. latest' \in [Checks -> BOOLEAN]
    BY <1>3, Typed DEF OpenAlert
  <2>2. opened' \in [Checks -> Nat]
    <3>1. worker[w].check \in Checks /\ opened[worker[w].check] + 1 \in Nat
      BY <1>3, Typed DEF OpenAlert, At, TypeInv
    <3>2. QED BY <1>3, <3>1, Typed DEF OpenAlert
  <2>3. QED BY <1>3, <2>1, <2>2, TypeNext DEF OpenAlert, At
<1>4. CASE CloseAlerts(w)
  <2>1. latest' \in [Checks -> BOOLEAN] /\ opened' \in [Checks -> Nat]
    BY <1>4, Typed DEF CloseAlerts
  <2>2. QED BY <1>4, <2>1, TypeNext DEF CloseAlerts, At
<1>5. CASE VerifyChains(w)
  <2>1. PICK step \in {"intact", "found"}, t \in Tenants \union {None} :
          /\ worker' = [worker EXCEPT ![w] = Run(step, 0, t)]
          /\ step = "found" => t \in Tenants
    <3>1. CASE broken = {}
      BY <1>5, <3>1 DEF VerifyChains
    <3>2. CASE broken # {}
      BY <1>5, <3>2, FirstBrokenType DEF VerifyChains
    <3>3. QED BY <3>1, <3>2
  <2>2. /\ worker' \in [Workers -> Worker] /\ worker'[w].at = step /\ worker'[w].tenant = t
        /\ \A v \in Workers \ {w} : worker'[v] = worker[v]
    BY <2>1, Typed, RunType
  <2>3. QED BY <1>5, <2>1, <2>2, Typed, TypeMoved DEF VerifyChains, alertVars
<1>6. CASE CloseChainAlerts(w)
  <2>1. chainAlerts' \in [Tenants -> Nat]
    BY <1>6 DEF CloseChainAlerts
  <2>2. QED BY <1>6, <2>1, Typed, TypeFinish DEF CloseChainAlerts
<1>7. CASE ReadChainAlert(w)
  <2>1. CASE Finish(w)
    BY <1>7, <2>1, Typed, TypeFinish DEF ReadChainAlert, alertVars
  <2>2. CASE worker' = [worker EXCEPT ![w].at = "insert"]
    <3>1. /\ worker' \in [Workers -> Worker] /\ worker'[w].tenant = worker[w].tenant
          /\ worker'[w].at = "insert" /\ \A v \in Workers \ {w} : worker'[v] = worker[v]
      BY <2>2, Typed DEF Worker
    <3>2. QED BY <1>7, <3>1, Typed, TypeMoved DEF ReadChainAlert, TypeInv, At, alertVars
  <2>3. QED BY <1>7, <2>1, <2>2 DEF ReadChainAlert
<1>8. CASE OpenChainAlert(w)
  <2>1. worker[w].tenant \in Tenants
    BY <1>8 DEF OpenChainAlert, At, TypeInv
  <2>2. chainAlerts' \in [Tenants -> Nat]
    BY <1>8, <2>1, Typed DEF OpenChainAlert
  <2>3. QED BY <1>8, <2>2, Typed, TypeFinish DEF OpenChainAlert
<1>9. QED BY <1>1, <1>2, <1>3, <1>4, <1>5, <1>6, <1>7, <1>8 DEF Step

LEMMA TypeStep ==
  ASSUME TypeInv, [MonitorNext]_vars
  PROVE  TypeInv'
<1>1. CASE \E k \in Kinds : Schedule(k)
  BY <1>1, WatchdogConstants DEF Schedule, alertVars, TypeInv, MonitorType
<1>2. CASE \E w \in Workers : Step(w)
  BY <1>2, TypeRun
<1>3. CASE \E w \in Workers : Throw(w) \/ Die(w)
  <2>1. PICK w \in Workers : Throw(w) \/ Die(w)
    BY <1>3
  <2>2. faults' \in 0 .. MaxFaults
    BY <2>1, Typed, WatchdogConstants DEF Throw, Die
  <2>3. exceeded' \in [Checks -> BOOLEAN]
    <3>1. CASE Throw(w)
      <4>1. exceeded' = [c \in Checks |-> exceeded[c] \/ c \in DeadLetterChecks]
        BY <3>1 DEF Throw
      <4>2. \A c \in Checks : (exceeded[c] \/ c \in DeadLetterChecks) \in BOOLEAN
        OBVIOUS
      <4>3. QED BY <4>1, <4>2, Zenon
    <3>2. CASE Die(w)
      BY <3>2, Typed DEF Die
    <3>3. QED BY <2>1, <3>1, <3>2
  <2>4. QED BY <2>1, <2>2, <2>3, Typed, TypeFinish DEF Throw, Die, alertVars
<1>4. CASE \E w \in Workers : \E k \in Kinds : Claim(w, k)
  <2>1. PICK w \in Workers, k \in Kinds : Claim(w, k)
    BY <1>4
  <2>2. PICK step \in {"value", "verify"}, c \in Nat :
          /\ worker' = [worker EXCEPT ![w] = Run(step, c, None)]
          /\ step = "value" => c = 1
    BY <2>1 DEF Claim, Kinds
  <2>3. pending' \in [Kinds -> 0 .. MaxPending]
    BY <2>1, Typed, WatchdogConstants DEF Claim
  <2>4. /\ worker' \in [Workers -> Worker] /\ worker'[w].at = step /\ worker'[w].check = c
        /\ \A v \in Workers \ {w} : worker'[v] = worker[v]
    BY <2>2, Typed, RunType
  <2>5. QED BY <2>1, <2>2, <2>3, <2>4, Typed, TypeMoved, ChecksRange DEF Claim, alertVars
<1>5. CASE \E c \in Checks : Change(c)
  BY <1>5 DEF Change, alertVars, TypeInv, MonitorType
<1>6. CASE \E t \in Tenants : BreakChain(t)
  BY <1>6 DEF BreakChain, alertVars, TypeInv, MonitorType
<1>7. CASE \E t \in Tenants : ResetTenant(t)
  <2>1. PICK t \in Tenants : ResetTenant(t)
    BY <1>7
  <2>2. latest' \in [Checks -> BOOLEAN] /\ opened' \in [Checks -> Nat]
    BY <2>1, Typed DEF ResetTenant
  <2>3. chainAlerts' \in [Tenants -> Nat] /\ broken' \subseteq Tenants
    BY <2>1, Typed DEF ResetTenant
  <2>4. QED BY <2>1, <2>2, <2>3 DEF ResetTenant, TypeInv, MonitorType
<1>8. CASE UNCHANGED vars
  BY <1>8 DEF vars, alertVars, TypeInv, MonitorType
<1>9. QED BY <1>1, <1>2, <1>3, <1>4, <1>5, <1>6, <1>7, <1>8 DEF MonitorNext

(* Every variable keeps its type, for any number of workers and tenants.   *)
THEOREM MonitorTypes == MonitorSpec => []MonitorType
<1>1. TypeInv => MonitorType
  BY DEF TypeInv
<1>2. QED BY <1>1, TypeStart, TypeStep, PTL DEF MonitorSpec

----------------------------------------------------------------------------
(* Open alerts                                                             *)

LEMMA OpeningFinite ==
  ASSUME NEW c
  PROVE  /\ IsFiniteSet(Opening(c)) /\ Cardinality(Opening(c)) \in Nat
         /\ Cardinality(Opening(c)) <= Cardinality(Workers)
         /\ Cardinality(Workers) \in Nat
<1>1. Opening(c) \subseteq Workers
  BY DEF Opening
<1>2. QED BY <1>1, WatchdogConstants, FS_Subset, FS_CardinalityType

(* A check none of whose alerts are written, while no run comes to open one. *)
LEMMA CheckKept ==
  ASSUME TypeInv, OpenInv, NEW c \in Checks,
         latest'[c] = latest[c], opened'[c] = opened[c],
         Opening(c)' \subseteq Opening(c)
  PROVE  /\ latest'[c] <=> opened'[c] > 0
         /\ opened'[c] + Cardinality(Opening(c)') <= Cardinality(Workers)
<1>1. opened[c] \in Nat
  BY DEF TypeInv, MonitorType
<1>2. Cardinality(Opening(c)') <= Cardinality(Opening(c)) /\ Cardinality(Opening(c)') \in Nat
  BY OpeningFinite, FS_Subset, FS_CardinalityType
<1>3. QED BY <1>1, <1>2, OpeningFinite DEF OpenInv

(* A check without an Open alert.                                          *)
LEMMA CheckClosed ==
  ASSUME NEW c \in Checks, latest'[c] = FALSE, opened'[c] = 0
  PROVE  /\ latest'[c] <=> opened'[c] > 0
         /\ opened'[c] + Cardinality(Opening(c)') <= Cardinality(Workers)
<1>1. Cardinality(Opening(c)') <= Cardinality(Workers) /\ Cardinality(Opening(c)') \in Nat
  <2>1. Opening(c)' \subseteq Workers
    BY DEF Opening
  <2>2. QED BY <2>1, WatchdogConstants, FS_Subset, FS_CardinalityType
<1>2. QED BY <1>1

LEMMA OpenRead ==
  ASSUME TypeInv, OpenInv, NEW w \in Workers, ReadAlert(w)
  PROVE  OpenInv'
<1>. SUFFICES ASSUME NEW c \in Checks
              PROVE  /\ latest'[c] <=> opened'[c] > 0
                     /\ opened'[c] + Cardinality(Opening(c)') <= Cardinality(Workers)
  BY DEF OpenInv
<1>0. /\ worker \in [Workers -> Worker] /\ worker[w].check \in Checks
      /\ latest' = latest /\ opened' = opened
  BY DEF TypeInv, MonitorType, ReadAlert, At, alertVars
<1>1. CASE NextCheck(w)
  <2>1. Opening(c)' \subseteq Opening(c)
    BY <1>0, <1>1, NextCheckType, RunType DEF Opening
  <2>2. QED BY <1>0, <2>1, CheckKept
<1>2. CASE /\ latest[worker[w].check] # worker[w].high
           /\ worker' = [worker EXCEPT ![w].at = "write"]
  <2>1. \A v \in Workers \ {w} : worker'[v] = worker[v]
    BY <1>0, <1>2
  <2>2. worker'[w].high = worker[w].high /\ worker'[w].check = worker[w].check
    BY <1>0, <1>2 DEF Worker
  <2>3. CASE worker[w].high /\ worker[w].check = c
    <3>1. ~latest[c]
      BY <1>2, <2>3 DEF TypeInv, MonitorType
    <3>2. latest[c] = FALSE /\ opened[c] = 0
      BY <3>1 DEF TypeInv, MonitorType, OpenInv
    <3>3. QED BY <1>0, <3>2, CheckClosed
  <2>4. CASE ~(worker[w].high /\ worker[w].check = c)
    <3>1. Opening(c)' \subseteq Opening(c)
      BY <2>1, <2>2, <2>4 DEF Opening
    <3>2. QED BY <1>0, <3>1, CheckKept
  <2>5. QED BY <2>3, <2>4
<1>3. QED BY <1>1, <1>2 DEF ReadAlert

LEMMA OpenOpen ==
  ASSUME TypeInv, OpenInv, NEW w \in Workers, OpenAlert(w)
  PROVE  OpenInv'
<1>. DEFINE d == worker[w].check
<1>. SUFFICES ASSUME NEW c \in Checks
              PROVE  /\ latest'[c] <=> opened'[c] > 0
                     /\ opened'[c] + Cardinality(Opening(c)') <= Cardinality(Workers)
  BY DEF OpenInv
<1>1. /\ worker \in [Workers -> Worker] /\ d \in Checks /\ worker[w].high
      /\ worker[w].at = "write"
      /\ opened \in [Checks -> Nat] /\ latest \in [Checks -> BOOLEAN]
  BY DEF TypeInv, MonitorType, OpenAlert, At
<1>2. /\ opened' = [opened EXCEPT ![d] = @ + 1] /\ latest' = [latest EXCEPT ![d] = TRUE]
  BY DEF OpenAlert
<1>3. /\ \A v \in Workers \ {w} : worker'[v] = worker[v]
      /\ worker'[w].at # "write"
  BY <1>1, NextCheckType, RunType DEF OpenAlert
<1>4. CASE c = d
  <2>1. w \in Opening(c) /\ Opening(c)' = Opening(c) \ {w}
    BY <1>1, <1>3, <1>4 DEF Opening
  <2>2. Cardinality(Opening(c)') = Cardinality(Opening(c)) - 1
    BY <2>1, OpeningFinite, FS_RemoveElement
  <2>3. opened'[c] = opened[c] + 1 /\ latest'[c] = TRUE /\ opened[c] \in Nat
    BY <1>1, <1>2, <1>4
  <2>4. opened[c] + Cardinality(Opening(c)) <= Cardinality(Workers)
    BY DEF OpenInv
  <2>5. QED BY <2>2, <2>3, <2>4, OpeningFinite
<1>5. CASE c # d
  <2>1. opened'[c] = opened[c] /\ latest'[c] = latest[c]
    BY <1>1, <1>2, <1>5
  <2>2. Opening(c)' \subseteq Opening(c)
    BY <1>3 DEF Opening
  <2>3. QED BY <2>1, <2>2, CheckKept
<1>6. QED BY <1>4, <1>5

LEMMA OpenClose ==
  ASSUME TypeInv, OpenInv, NEW w \in Workers, CloseAlerts(w)
  PROVE  OpenInv'
<1>. DEFINE d == worker[w].check
<1>. SUFFICES ASSUME NEW c \in Checks
              PROVE  /\ latest'[c] <=> opened'[c] > 0
                     /\ opened'[c] + Cardinality(Opening(c)') <= Cardinality(Workers)
  BY DEF OpenInv
<1>1. /\ d \in Checks
      /\ opened \in [Checks -> Nat] /\ latest \in [Checks -> BOOLEAN]
  BY DEF TypeInv, MonitorType, CloseAlerts, At
<1>2. /\ opened' = [opened EXCEPT ![d] = 0] /\ latest' = [latest EXCEPT ![d] = FALSE]
  BY DEF CloseAlerts
<1>3. /\ \A v \in Workers \ {w} : worker'[v] = worker[v]
      /\ worker'[w].at # "write"
  BY <1>1, NextCheckType, RunType DEF CloseAlerts
<1>4. CASE c = d
  BY <1>1, <1>2, <1>4, CheckClosed
<1>5. CASE c # d
  <2>1. opened'[c] = opened[c] /\ latest'[c] = latest[c]
    BY <1>1, <1>2, <1>5
  <2>2. Opening(c)' \subseteq Opening(c)
    BY <1>3 DEF Opening
  <2>3. QED BY <2>1, <2>2, CheckKept
<1>6. QED BY <1>4, <1>5

(* A demo reset deletes the alerts of one tenant's checks.                 *)
LEMMA OpenReset ==
  ASSUME TypeInv, OpenInv, NEW t \in Tenants, ResetTenant(t)
  PROVE  OpenInv'
<1>. SUFFICES ASSUME NEW c \in Checks
              PROVE  /\ latest'[c] <=> opened'[c] > 0
                     /\ opened'[c] + Cardinality(Opening(c)') <= Cardinality(Workers)
  BY DEF OpenInv
<1>1. worker' = worker
  BY DEF ResetTenant
<1>2. CASE CheckTenant[c] = t
  <2>1. latest'[c] = FALSE /\ opened'[c] = 0
    BY <1>2 DEF ResetTenant
  <2>2. QED BY <2>1, CheckClosed
<1>3. CASE CheckTenant[c] # t
  <2>1. latest'[c] = latest[c]
    BY <1>3 DEF ResetTenant, TypeInv, MonitorType
  <2>2. opened'[c] = opened[c]
    BY <1>3 DEF ResetTenant
  <2>3. Opening(c)' \subseteq Opening(c)
    BY <1>1 DEF Opening
  <2>4. QED BY <2>1, <2>2, <2>3, CheckKept
<1>4. QED BY <1>2, <1>3

(* Nobody else writes a check's alerts or comes to open one.               *)
LEMMA OpenOthers ==
  ASSUME TypeInv, OpenInv, latest' = latest, opened' = opened,
         \A w \in Workers : worker'[w] = worker[w] \/ worker'[w].at # "write"
  PROVE  OpenInv'
<1>1. \A c \in Checks : Opening(c)' \subseteq Opening(c)
  BY DEF Opening
<1>2. QED BY <1>1, CheckKept DEF OpenInv

LEMMA OpenStep ==
  ASSUME TypeInv, OpenInv, [MonitorNext]_vars
  PROVE  OpenInv'
<1>0. worker \in [Workers -> Worker]
  BY DEF TypeInv, MonitorType
<1>1. CASE \E w \in Workers : ReadAlert(w)
  BY <1>1, OpenRead
<1>2. CASE \E w \in Workers : OpenAlert(w)
  BY <1>2, OpenOpen
<1>3. CASE \E w \in Workers : CloseAlerts(w)
  BY <1>3, OpenClose
<1>4. CASE \E t \in Tenants : ResetTenant(t)
  BY <1>4, OpenReset
<1>5. CASE \E w \in Workers : ReadValue(w) \/ ReadChainAlert(w)
  BY <1>0, <1>5, RunType, OpenOthers DEF ReadValue, ReadChainAlert, Finish, alertVars, Worker
<1>6. CASE \E w \in Workers : \/ CloseChainAlerts(w) \/ OpenChainAlert(w)
                              \/ Throw(w) \/ Die(w)
  BY <1>0, <1>6, RunType, OpenOthers
     DEF CloseChainAlerts, OpenChainAlert, Throw, Die, Finish, alertVars
<1>7. CASE \E w \in Workers : VerifyChains(w)
  <2>1. PICK w \in Workers : VerifyChains(w)
    BY <1>7
  <2>2. \/ worker' = [worker EXCEPT ![w] = Run("intact", 0, None)]
        \/ worker' = [worker EXCEPT ![w] = Run("found", 0, FirstBroken)] /\ FirstBroken \in Tenants
    BY <2>1, FirstBrokenType DEF VerifyChains
  <2>3. QED BY <1>0, <2>1, <2>2, RunType, OpenOthers DEF VerifyChains, alertVars
<1>8. CASE \E w \in Workers : \E k \in Kinds : Claim(w, k)
  <2>1. PICK w \in Workers, k \in Kinds : Claim(w, k)
    BY <1>8
  <2>2. PICK step \in {"value", "verify"}, c \in Nat :
          worker' = [worker EXCEPT ![w] = Run(step, c, None)]
    BY <2>1 DEF Claim, Kinds
  <2>3. worker'[w].at = step /\ \A v \in Workers \ {w} : worker'[v] = worker[v]
    BY <1>0, <2>2, RunType
  <2>4. QED BY <2>1, <2>3, OpenOthers DEF Claim, alertVars
<1>9. CASE \/ \E k \in Kinds : Schedule(k)
           \/ \E c \in Checks : Change(c)
           \/ \E t \in Tenants : BreakChain(t)
           \/ UNCHANGED vars
  BY <1>9, OpenOthers DEF Schedule, Change, BreakChain, vars, alertVars
<1>10. QED BY <1>1, <1>2, <1>3, <1>4, <1>5, <1>6, <1>7, <1>8, <1>9 DEF MonitorNext, Step

LEMMA OpenStart == MonitorInit => OpenInv
<1>. SUFFICES ASSUME MonitorInit, NEW c \in Checks
              PROVE  /\ latest[c] <=> opened[c] > 0
                     /\ opened[c] + Cardinality(Opening(c)) <= Cardinality(Workers)
  BY DEF OpenInv
<1>1. latest[c] = FALSE /\ opened[c] = 0
  BY DEF MonitorInit
<1>2. QED BY <1>1, OpeningFinite

(* The newest alert tells the watchdog the truth about all of them, and
   overlapping runs open at most one for each worker.                      *)
THEOREM MonitorNewestTells == MonitorSpec => []NewestTellsOpen
<1>1. TypeInv /\ OpenInv => NewestTellsOpen
  <2>. SUFFICES ASSUME TypeInv, OpenInv, NEW c \in Checks
                PROVE  opened[c] <= Cardinality(Workers)
    BY DEF OpenInv, NewestTellsOpen
  <2>1. opened[c] \in Nat
    BY DEF TypeInv, MonitorType
  <2>2. QED BY <2>1, OpeningFinite DEF OpenInv
<1>2. MonitorInit => TypeInv /\ OpenInv
  BY TypeStart, OpenStart
<1>3. TypeInv /\ OpenInv /\ [MonitorNext]_vars => (TypeInv /\ OpenInv)'
  BY TypeStep, OpenStep
<1>4. QED BY <1>1, <1>2, <1>3, PTL DEF MonitorSpec
=============================================================================
