----------------------- MODULE GatewaySessionsProofs -----------------------
(***************************************************************************)
(* What the limiter and the sessions guarantee for any number of users,    *)
(* tokens and requests in flight.                                          *)
(*                                                                         *)
(* Everything a request holds across an await was read before it, so the   *)
(* invariant says what is still true of it when it is used: a failure is   *)
(* recorded for a login the limiter admitted while the key was below its   *)
(* limit, and an expiry was computed from a creation time that never       *)
(* changes and a use that has been noted.                                  *)
(***************************************************************************)
EXTENDS GatewaySessions, FiniteSetTheorems, TLAPS

SignInSteps == {"check", "verify", "rotate", "create", "insert"}
UseSteps == {"validate", "bump", "extend", "authorize", "destroy"}

Carries(s) ==
  /\ request[s].token \in issued \union {None}
  /\ request[s].at \in SignInSteps => request[s].user \in Users
  /\ request[s].at \in UseSteps \union {"rotate"} => request[s].token \in issued
  /\ request[s].at = "bump" => request[s].row \in Session /\ IdleTtl > 0
  /\ request[s].at = "extend" => IdleTtl > 0

TypeInv == SessionType /\ \A s \in Slots : Carries(s)

(* Requests whose password is being verified: each may add one failure.    *)
Verifying(u) == {s \in Slots : request[s].at = "verify" /\ request[s].user = u}

(* A key at its limit is locked for as long as its window lasts.           *)
LimiterInv ==
  \A u \in Users : bucket[u] # None =>
    /\ bucket[u].windowStart <= now
    /\ bucket[u].count >= LoginMaxFailures =>
         bucket[u].lockedUntil >= bucket[u].windowStart + LoginWindow
    /\ bucket[u].count + Cardinality(Verifying(u))
         <= LoginMaxFailures - 1 + Cardinality(Slots)

(* What is true of the rows a request in flight is about to write.         *)
Holds(s) ==
  LET r == request[s] IN
  /\ r.at = "insert" =>
       r.expires <= now + AbsoluteTtl /\ (IdleTtl > 0 => r.expires <= now + IdleTtl)
  /\ r.at \in {"create", "insert"} /\ r.token # None => session[r.token] = None
  /\ r.at = "bump" /\ session[r.token] # None =>
       r.row.createdAt = session[r.token].createdAt
  /\ r.at = "extend" =>
       /\ r.expires <= seen[r.token] + IdleTtl
       /\ session[r.token] # None =>
            r.expires <= session[r.token].createdAt + AbsoluteTtl

RowsInv ==
  /\ \A t \in Tokens : session[t] # None => t \in issued /\ session[t].createdAt <= now
  /\ \A t \in Tokens : seen[t] <= now
  /\ \A s \in Slots : Holds(s)

SessionInv ==
  TypeInv /\ LimiterInv /\ RowsInv /\ AbsoluteCap /\ IdleCap /\ RetiredStaysRetired

----------------------------------------------------------------------------
(* Types                                                                   *)

LEMMA BucketType ==
  ASSUME TypeInv, NEW u \in Users
  PROVE  LoginBucket(u) \in Bucket
  BY SessionConstants DEF TypeInv, SessionType, LoginBucket, Bucket

LEMMA FailedBucketType ==
  ASSUME NEW b \in Bucket, NEW n \in Nat, NEW l \in Nat
  PROVE  [b EXCEPT !.count = n, !.lockedUntil = l] \in Bucket
  BY DEF Bucket

LEMMA NewRequestType ==
  /\ Idle \in Request /\ Idle.at = "idle" /\ Idle.token = None
  /\ \A u \in Users, t \in Tokens \union {None} :
       /\ Fresh("check", "login", u, t) \in Request
       /\ Fresh("check", "login", u, t).at = "check"
       /\ Fresh("check", "login", u, t).user = u
       /\ Fresh("check", "login", u, t).token = t
  /\ \A op \in {"command", "logout"}, t \in Tokens :
       /\ Fresh("validate", op, None, t) \in Request
       /\ Fresh("validate", op, None, t).at = "validate"
       /\ Fresh("validate", op, None, t).token = t
  BY DEF Idle, Fresh, Request

(* Every action leaves each request one its fields' types allow.           *)
LEMMA TypeSignIn ==
  ASSUME TypeInv, NEW s \in Slots, SignIn(s)
  PROVE  TypeInv'
<1>0. request[s] \in Request /\ Carries(s) /\ Idle \in Request /\ Idle.at = "idle" /\ Idle.token = None
  BY NewRequestType DEF TypeInv, SessionType
<1>. USE <1>0 DEF TypeInv, SessionType, Carries, SignInSteps, UseSteps, At
<1>1. CASE CheckLoginRateLimit(s)
  <2>1. request[s].user \in Users
    BY <1>1 DEF CheckLoginRateLimit
  <2>2. bucket' \in [Users -> Bucket \union {None}]
    BY <1>1, <2>1, BucketType DEF CheckLoginRateLimit
  <2>3. request' \in [Slots -> Request] /\ \A r \in Slots : Carries(r)'
    BY <1>1 DEF CheckLoginRateLimit, Goto, Respond, Request
  <2>4. QED BY <1>1, <2>2, <2>3 DEF CheckLoginRateLimit
<1>2. CASE RecordLoginFailure(s)
  <2>1. request[s].user \in Users
    BY <1>2 DEF RecordLoginFailure
  <2>2. bucket' \in [Users -> Bucket \union {None}]
    <3>1. LoginBucket(request[s].user) \in Bucket
      BY <2>1, BucketType
    <3>. DEFINE b == LoginBucket(request[s].user)
                n == b.count + 1
                l == IF n >= LoginMaxFailures THEN now + LoginLockout ELSE b.lockedUntil
    <3>2. n \in Nat /\ b.lockedUntil \in Nat
      BY <3>1 DEF Bucket
    <3>3. l \in Nat
      BY <3>2, SessionConstants
    <3>4. [b EXCEPT !.count = n, !.lockedUntil = l] \in Bucket
      BY <3>1, <3>2, <3>3, FailedBucketType
    <3>5. bucket' = [bucket EXCEPT ![request[s].user] =
                       [b EXCEPT !.count = n, !.lockedUntil = l]]
      BY <1>2 DEF RecordLoginFailure
    <3>6. QED BY <3>4, <3>5
  <2>3. request' \in [Slots -> Request] /\ \A r \in Slots : Carries(r)'
    BY <1>2 DEF RecordLoginFailure, Respond, Request
  <2>4. QED BY <1>2, <2>2, <2>3 DEF RecordLoginFailure
<1>3. CASE ClearLoginFailures(s)
  BY <1>3 DEF ClearLoginFailures, Goto, Request
<1>4. CASE RotateSession(s)
  BY <1>4 DEF RotateSession, Goto, Request
<1>5. CASE CreateSession(s)
  <2>1. PICK e \in Nat : request' = [request EXCEPT ![s].at = "insert", ![s].expires = e]
    <3>1. now + Earlier(IdleTtl, AbsoluteTtl) \in Nat /\ now + AbsoluteTtl \in Nat
      BY SessionConstants DEF Earlier
    <3>2. QED BY <1>5, <3>1 DEF CreateSession
  <2>2. request' \in [Slots -> Request]
    BY <2>1 DEF Request
  <2>3. \A r \in Slots : Carries(r)'
    BY <1>5, <2>1 DEF CreateSession, Request
  <2>4. QED BY <1>5, <2>2, <2>3 DEF CreateSession
<1>6. CASE InsertSession(s)
  <2>1. PICK t \in Tokens \ issued :
          /\ session' = [session EXCEPT ![t] =
               [user |-> request[s].user, createdAt |-> now,
                expiresAt |-> request[s].expires]]
          /\ issued' = issued \union {t}
          /\ seen' = [seen EXCEPT ![t] = now]
    BY <1>6 DEF InsertSession
  <2>2. [user |-> request[s].user, createdAt |-> now, expiresAt |-> request[s].expires] \in Session
    BY <1>6, SessionConstants DEF InsertSession, Session, Request
  <2>3. session' \in [Tokens -> Session \union {None}] /\ seen' \in [Tokens -> Nat]
    BY <2>1, <2>2, SessionConstants
  <2>4. request' \in [Slots -> Request] /\ \A r \in Slots : Carries(r)'
    BY <1>6, <2>1 DEF InsertSession, Respond, Request
  <2>5. retired' \subseteq issued' /\ issued' \subseteq Tokens
    BY <1>6, <2>1 DEF InsertSession
  <2>6. QED BY <1>6, <2>3, <2>4, <2>5 DEF InsertSession
<1>7. QED BY <1>1, <1>2, <1>3, <1>4, <1>5, <1>6 DEF SignIn

LEMMA TypeUse ==
  ASSUME TypeInv, NEW s \in Slots, UseSession(s)
  PROVE  TypeInv'
<1>0. request[s] \in Request /\ Carries(s) /\ Idle \in Request /\ Idle.at = "idle" /\ Idle.token = None
  BY NewRequestType DEF TypeInv, SessionType
<1>. USE <1>0 DEF TypeInv, SessionType, Carries, SignInSteps, UseSteps, At
<1>1. CASE ValidateSession(s)
  <2>1. request[s].token \in Tokens
    BY <1>1 DEF ValidateSession
  <2>2. session[request[s].token] \in Session \union {None}
    BY <2>1
  <2>3. request' \in [Slots -> Request] /\ \A r \in Slots : Carries(r)'
    BY <1>1, <2>2, SessionConstants DEF ValidateSession, Goto, Respond, Request
  <2>4. QED BY <1>1, <2>3 DEF ValidateSession
<1>2. CASE DecideBump(s)
  <2>1. NewExpiry(request[s].row) \in Nat
    BY <1>2, SessionConstants DEF DecideBump, NewExpiry, Earlier, Session
  <2>2. request' \in [Slots -> Request] /\ \A r \in Slots : Carries(r)'
    BY <1>2, <2>1 DEF DecideBump, Request
  <2>3. seen' \in [Tokens -> Nat]
    BY <1>2, SessionConstants DEF DecideBump
  <2>4. QED BY <1>2, <2>2, <2>3 DEF DecideBump
<1>3. CASE ExtendSession(s)
  <2>1. request[s].token \in Tokens /\ request[s].expires \in Nat
    BY <1>3 DEF ExtendSession, Request
  <2>2. session' \in [Tokens -> Session \union {None}]
    BY <1>3, <2>1 DEF ExtendSession, Session
  <2>3. request' \in [Slots -> Request] /\ \A r \in Slots : Carries(r)'
    BY <1>3 DEF ExtendSession, Request
  <2>4. QED BY <1>3, <2>2, <2>3 DEF ExtendSession
<1>4. CASE Authorize(s)
  BY <1>4 DEF Authorize, Goto, Respond, Request
<1>5. CASE DestroySession(s)
  BY <1>5 DEF DestroySession, Respond, Request
<1>6. QED BY <1>1, <1>2, <1>3, <1>4, <1>5 DEF UseSession

LEMMA TypeArrive ==
  ASSUME TypeInv, NEW s \in Slots, Arrive(s)
  PROVE  TypeInv'
<1>. USE DEF TypeInv, SessionType, Carries, SignInSteps, UseSteps
<1>1. CASE \E u \in Users, old \in issued \union {None} : Login(s, u, old)
  <2>1. PICK u \in Users, old \in issued \union {None} : Login(s, u, old)
    BY <1>1
  <2>2. request' = [request EXCEPT ![s] = Fresh("check", "login", u, old)]
    BY <2>1 DEF Login
  <2>3. request' \in [Slots -> Request] /\ \A r \in Slots : Carries(r)'
    BY <2>1, <2>2, NewRequestType DEF Login
  <2>4. QED BY <2>1, <2>3 DEF Login
<1>2. CASE \E op \in {"command", "logout"}, t \in issued : Present(s, op, t)
  <2>1. PICK op \in {"command", "logout"}, t \in issued : Present(s, op, t)
    BY <1>2
  <2>2. request' = [request EXCEPT ![s] = Fresh("validate", op, None, t)]
    BY <2>1 DEF Present
  <2>3. request' \in [Slots -> Request] /\ \A r \in Slots : Carries(r)'
    BY <2>1, <2>2, NewRequestType DEF Present
  <2>4. QED BY <2>1, <2>3 DEF Present
<1>3. QED BY <1>1, <1>2 DEF Arrive

LEMMA TypeOther ==
  ASSUME TypeInv, (\E s \in Slots : Fail(s)) \/ Restart \/ Tick \/ UNCHANGED vars
  PROVE  TypeInv'
<1>. USE DEF TypeInv, SessionType, Carries, SignInSteps, UseSteps
<1>1. CASE \E s \in Slots : Fail(s)
  BY <1>1, NewRequestType DEF Fail, Respond
<1>2. CASE Restart
  BY <1>2, NewRequestType DEF Restart
<1>3. CASE Tick
  BY <1>3, SessionConstants DEF Tick
<1>4. CASE UNCHANGED vars
  BY <1>4 DEF vars
<1>5. QED BY <1>1, <1>2, <1>3, <1>4

LEMMA TypeStep ==
  ASSUME TypeInv, [SessionNext]_vars
  PROVE  TypeInv'
<1>1. CASE \E s \in Slots : Arrive(s)
  BY <1>1, TypeArrive
<1>2. CASE \E s \in Slots : SignIn(s)
  BY <1>2, TypeSignIn
<1>3. CASE \E s \in Slots : UseSession(s)
  BY <1>3, TypeUse
<1>4. CASE (\E s \in Slots : Fail(s)) \/ Restart \/ Tick \/ UNCHANGED vars
  BY <1>4, TypeOther
<1>5. QED BY <1>1, <1>2, <1>3, <1>4 DEF SessionNext

LEMMA TypeStart == SessionInit => TypeInv
  BY SessionConstants, NewRequestType
     DEF SessionInit, TypeInv, SessionType, Carries, SignInSteps, UseSteps

(* Every variable keeps its type, for any number of users, tokens and
   requests in flight.                                                     *)
THEOREM SessionTypes == SessionSpec => []SessionType
<1>1. TypeInv => SessionType
  BY DEF TypeInv
<1>2. QED BY <1>1, TypeStart, TypeStep, PTL DEF SessionSpec

----------------------------------------------------------------------------
(* The limiter                                                             *)

LEMMA VerifyingFinite ==
  ASSUME NEW u
  PROVE  /\ IsFiniteSet(Verifying(u)) /\ Cardinality(Verifying(u)) \in Nat
         /\ Cardinality(Verifying(u)) <= Cardinality(Slots)
         /\ Cardinality(Slots) \in Nat
<1>1. Verifying(u) \subseteq Slots
  BY DEF Verifying
<1>2. QED BY <1>1, SessionConstants, FS_Subset, FS_CardinalityType

(* The limiter's promise survives when nobody starts verifying.            *)
LEMMA LimiterKept ==
  ASSUME TypeInv, TypeInv', LimiterInv, bucket' = bucket, now' >= now,
         \A u \in Users : Verifying(u)' \subseteq Verifying(u)
  PROVE  LimiterInv'
<1>. SUFFICES ASSUME NEW u \in Users, bucket[u] # None
              PROVE  /\ bucket[u].windowStart <= now'
                     /\ bucket[u].count >= LoginMaxFailures =>
                          bucket[u].lockedUntil >= bucket[u].windowStart + LoginWindow
                     /\ bucket[u].count + Cardinality(Verifying(u)')
                          <= LoginMaxFailures - 1 + Cardinality(Slots)
  BY DEF LimiterInv
<1>1. bucket[u] \in Bucket /\ now \in Nat /\ now' \in Nat
  BY SessionConstants DEF TypeInv, SessionType
<1>2. /\ IsFiniteSet(Verifying(u)') /\ Cardinality(Verifying(u)') \in Nat
      /\ Cardinality(Verifying(u)') <= Cardinality(Verifying(u))
  BY VerifyingFinite, FS_Subset, FS_CardinalityType
<1>3. /\ bucket[u].count \in Nat /\ bucket[u].windowStart \in Nat
      /\ bucket[u].windowStart <= now
  BY <1>1 DEF Bucket, LimiterInv
<1>4. now' >= bucket[u].windowStart
  BY <1>1, <1>3
<1>5. bucket[u].count + Cardinality(Verifying(u)) <= LoginMaxFailures - 1 + Cardinality(Slots)
  BY DEF LimiterInv
<1>6. bucket[u].count + Cardinality(Verifying(u)') <= LoginMaxFailures - 1 + Cardinality(Slots)
  BY <1>2, <1>3, <1>5, VerifyingFinite, SessionConstants
<1>7. QED BY <1>4, <1>6 DEF LimiterInv

(* Only the limiter's check lets a request start verifying.                *)
LEMMA LimiterOthers ==
  ASSUME TypeInv, TypeInv', LimiterInv, NEW s \in Slots,
         \/ Arrive(s) \/ UseSession(s) \/ Fail(s) \/ Tick \/ UNCHANGED vars
         \/ RotateSession(s) \/ CreateSession(s) \/ InsertSession(s)
  PROVE  LimiterInv'
<1>1. bucket' = bucket
  BY DEF Arrive, Login, Present, UseSession, ValidateSession, DecideBump, ExtendSession,
         Authorize, DestroySession, Fail, Tick, vars, RotateSession, CreateSession, InsertSession
<1>2. now' >= now
  BY SessionConstants
     DEF TypeInv, SessionType, Arrive, Login, Present, UseSession, ValidateSession, DecideBump,
         ExtendSession, Authorize, DestroySession, Fail, Tick, vars, RotateSession,
         CreateSession, InsertSession
<1>3. \A r \in Slots : (request'[r].at = "verify") => request'[r] = request[r]
  <2>1. request \in [Slots -> Request]
    BY DEF TypeInv, SessionType
  <2>2. CASE Arrive(s)
    BY <2>1, <2>2 DEF Arrive, Login, Present, Fresh
  <2>3. CASE UseSession(s)
    BY <2>1, <2>3, NewRequestType
       DEF UseSession, ValidateSession, DecideBump, ExtendSession, Authorize,
           DestroySession, Goto, Respond, Request
  <2>4. CASE Fail(s) \/ Tick \/ UNCHANGED vars
    BY <2>1, <2>4, NewRequestType DEF Fail, Tick, vars, Respond
  <2>5. CASE RotateSession(s) \/ CreateSession(s) \/ InsertSession(s)
    BY <2>1, <2>5, NewRequestType
       DEF RotateSession, CreateSession, InsertSession, Goto, Respond, Request
  <2>6. QED BY <2>2, <2>3, <2>4, <2>5
<1>4. \A u \in Users : Verifying(u)' \subseteq Verifying(u)
  BY <1>3 DEF Verifying
<1>5. QED BY <1>1, <1>2, <1>4, LimiterKept

(* What the check finds of a key, or makes of it.                          *)
LEMMA FoundBucket ==
  ASSUME TypeInv, LimiterInv, NEW u \in Users
  PROVE  LET b == LoginBucket(u) IN
         /\ b.count \in Nat /\ b.windowStart \in Nat /\ b.lockedUntil \in Nat
         /\ b.windowStart <= now
         /\ b.count >= LoginMaxFailures =>
              b.lockedUntil >= b.windowStart + LoginWindow /\ b.lockedUntil > now
         /\ b.count + Cardinality(Verifying(u)) <= LoginMaxFailures - 1 + Cardinality(Slots)
<1>1. now \in Nat
  BY SessionConstants DEF TypeInv, SessionType
<1>2. CASE bucket[u] # None /\ bucket[u].windowStart + LoginWindow > now
  <2>1. bucket[u] \in Bucket
    BY <1>2 DEF TypeInv, SessionType
  <2>2. bucket[u].count \in Nat /\ bucket[u].windowStart \in Nat /\ bucket[u].lockedUntil \in Nat
    BY <2>1 DEF Bucket
  <2>3. LoginBucket(u) = bucket[u]
    BY <1>2 DEF LoginBucket
  <2>4. bucket[u].count >= LoginMaxFailures => bucket[u].lockedUntil > now
    BY <1>1, <1>2, <2>2, SessionConstants DEF LimiterInv
  <2>5. QED BY <1>2, <2>2, <2>3, <2>4 DEF LimiterInv
<1>3. CASE ~(bucket[u] # None /\ bucket[u].windowStart + LoginWindow > now)
  <2>1. LoginBucket(u) = [count |-> 0, windowStart |-> now, lockedUntil |-> 0]
    BY <1>3 DEF LoginBucket
  <2>2. ~(0 >= LoginMaxFailures)
    BY SessionConstants
  <2>3. 0 + Cardinality(Verifying(u)) <= LoginMaxFailures - 1 + Cardinality(Slots)
    BY VerifyingFinite, SessionConstants
  <2>4. QED BY <1>1, <2>1, <2>2, <2>3
<1>4. QED BY <1>2, <1>3

(* A step that touches one key, and leaves it a bucket that keeps the
   promise, keeps the promise of all.                                      *)
LEMMA OneBucketMoves ==
  ASSUME LimiterInv, NEW u \in Users, now' = now,
         \A v \in Users \ {u} : bucket'[v] = bucket[v] /\ Verifying(v)' = Verifying(v),
         bucket'[u].windowStart <= now,
         bucket'[u].count >= LoginMaxFailures =>
           bucket'[u].lockedUntil >= bucket'[u].windowStart + LoginWindow,
         bucket'[u].count + Cardinality(Verifying(u)') <= LoginMaxFailures - 1 + Cardinality(Slots)
  PROVE  LimiterInv'
<1>. SUFFICES ASSUME NEW v \in Users, bucket'[v] # None
              PROVE  /\ bucket'[v].windowStart <= now'
                     /\ bucket'[v].count >= LoginMaxFailures =>
                          bucket'[v].lockedUntil >= bucket'[v].windowStart + LoginWindow
                     /\ bucket'[v].count + Cardinality(Verifying(v)')
                          <= LoginMaxFailures - 1 + Cardinality(Slots)
  BY DEF LimiterInv
<1>1. CASE v = u
  BY <1>1
<1>2. CASE v # u
  BY <1>2 DEF LimiterInv
<1>3. QED BY <1>1, <1>2

(* The check and the failure change one key's bucket and one request.      *)
LEMMA LimiterCheck ==
  ASSUME TypeInv, TypeInv', LimiterInv, NEW s \in Slots, CheckLoginRateLimit(s)
  PROVE  LimiterInv'
<1>1. PICK u \in Users : u = request[s].user
  BY DEF TypeInv, Carries, CheckLoginRateLimit, At, SignInSteps
<1>2. now' = now /\ request \in [Slots -> Request] /\ bucket \in [Users -> Bucket \union {None}]
  BY DEF TypeInv, SessionType, CheckLoginRateLimit
<1>. DEFINE b == LoginBucket(u)
<1>3. /\ bucket' = [bucket EXCEPT ![u] = b]
      /\ \/ b.lockedUntil > now /\ Respond(s)
         \/ b.lockedUntil <= now /\ Goto(s, "verify")
      /\ request[s].at = "check"
  BY <1>1 DEF CheckLoginRateLimit, At
<1>4. /\ b.count \in Nat /\ b.windowStart \in Nat /\ b.lockedUntil \in Nat
      /\ b.windowStart <= now /\ now \in Nat
      /\ b.count >= LoginMaxFailures =>
           b.lockedUntil >= b.windowStart + LoginWindow /\ b.lockedUntil > now
      /\ b.count + Cardinality(Verifying(u)) <= LoginMaxFailures - 1 + Cardinality(Slots)
  BY FoundBucket, SessionConstants DEF TypeInv, SessionType
<1>. HIDE DEF b
<1>5. b.count + Cardinality(Verifying(u)') <= LoginMaxFailures - 1 + Cardinality(Slots)
  <2>1. CASE Respond(s)
    <3>1. Verifying(u)' = Verifying(u)
      BY <1>2, <1>3, <2>1, NewRequestType DEF Verifying, Respond
    <3>2. QED BY <1>4, <3>1
  <2>2. CASE b.lockedUntil <= now
    <3>1. ~(b.count >= LoginMaxFailures)
      BY <1>4, <2>2
    <3>2. /\ Verifying(u)' \subseteq Slots
          /\ Cardinality(Verifying(u)') \in Nat /\ Cardinality(Slots) \in Nat
          /\ Cardinality(Verifying(u)') <= Cardinality(Slots)
      <4>1. Verifying(u)' \subseteq Slots
        BY DEF Verifying
      <4>2. QED BY <4>1, SessionConstants, FS_Subset, FS_CardinalityType
    <3>3. QED BY <1>4, <3>1, <3>2, SessionConstants
  <2>3. QED BY <1>3, <2>1, <2>2
<1>6. \A v \in Users \ {u} : bucket'[v] = bucket[v] /\ Verifying(v)' = Verifying(v)
  BY <1>1, <1>2, <1>3, NewRequestType DEF Verifying, Goto, Respond, Request
<1>7. bucket'[u] = b
  BY <1>2, <1>3
<1>8. QED BY <1>2, <1>4, <1>5, <1>6, <1>7, OneBucketMoves

LEMMA LimiterRecord ==
  ASSUME TypeInv, TypeInv', LimiterInv, NEW s \in Slots, RecordLoginFailure(s)
  PROVE  LimiterInv'
<1>1. PICK u \in Users : u = request[s].user
  BY DEF TypeInv, Carries, RecordLoginFailure, At, SignInSteps
<1>2. now' = now /\ request \in [Slots -> Request] /\ bucket \in [Users -> Bucket \union {None}]
  BY DEF TypeInv, SessionType, RecordLoginFailure
<1>. DEFINE b == LoginBucket(u)
            n == b.count + 1
            l == IF n >= LoginMaxFailures THEN now + LoginLockout ELSE b.lockedUntil
            new == [b EXCEPT !.count = n, !.lockedUntil = l]
<1>3. bucket' = [bucket EXCEPT ![u] = new] /\ Respond(s) /\ request[s].at = "verify"
  BY <1>1 DEF RecordLoginFailure, At
<1>4. b \in Bucket
  BY BucketType
<1>5. new.count = n /\ new.lockedUntil = l /\ new.windowStart = b.windowStart
  BY <1>4 DEF Bucket
<1>6. /\ b.count \in Nat /\ b.windowStart \in Nat /\ b.windowStart <= now /\ now \in Nat
      /\ b.count + Cardinality(Verifying(u)) <= LoginMaxFailures - 1 + Cardinality(Slots)
  BY FoundBucket, SessionConstants DEF TypeInv, SessionType
<1>7. s \in Verifying(u) /\ Verifying(u)' = Verifying(u) \ {s}
  BY <1>1, <1>2, <1>3, NewRequestType DEF Verifying, Respond
<1>8. Cardinality(Verifying(u)') = Cardinality(Verifying(u)) - 1
  BY <1>7, VerifyingFinite, FS_RemoveElement
<1>9. n + Cardinality(Verifying(u)') <= LoginMaxFailures - 1 + Cardinality(Slots)
  BY <1>6, <1>8, VerifyingFinite, SessionConstants
<1>10. n >= LoginMaxFailures => l >= b.windowStart + LoginWindow
  BY <1>6, SessionConstants
<1>11. \A v \in Users \ {u} : bucket'[v] = bucket[v] /\ Verifying(v)' = Verifying(v)
  BY <1>1, <1>2, <1>3, NewRequestType DEF Verifying, Respond
<1>12. bucket'[u] = new
  BY <1>2, <1>3
<1>. HIDE DEF new, n, l, b
<1>13. QED BY <1>2, <1>5, <1>6, <1>9, <1>10, <1>11, <1>12, OneBucketMoves

LEMMA LimiterClear ==
  ASSUME TypeInv, TypeInv', LimiterInv, NEW s \in Slots, ClearLoginFailures(s)
  PROVE  LimiterInv'
<1>. DEFINE u == request[s].user
<1>1. u \in Users /\ now' = now /\ request \in [Slots -> Request]
      /\ bucket \in [Users -> Bucket \union {None}]
  BY DEF TypeInv, SessionType, Carries, ClearLoginFailures, At, SignInSteps
<1>2. bucket' = [bucket EXCEPT ![u] = None]
  BY DEF ClearLoginFailures
<1>3. \A v \in Users \ {u} : bucket'[v] = bucket[v] /\ Verifying(v)' = Verifying(v)
  <2>1. \A v \in Users \ {u} : Verifying(v)' = Verifying(v)
    BY <1>1 DEF Verifying, ClearLoginFailures, Goto, At, Request
  <2>2. QED BY <1>1, <1>2, <2>1
<1>4. bucket'[u] = None
  BY <1>1, <1>2
<1>5. QED BY <1>1, <1>3, <1>4 DEF LimiterInv

LEMMA LimiterStep ==
  ASSUME TypeInv, TypeInv', LimiterInv, [SessionNext]_vars
  PROVE  LimiterInv'
<1>1. CASE Restart
  BY <1>1 DEF Restart, LimiterInv
<1>2. CASE Tick \/ UNCHANGED vars
  <2>1. CASE \E s \in Slots : TRUE
    BY <1>2, <2>1, LimiterOthers
  <2>2. CASE ~ \E s \in Slots : TRUE
    <3>1. \A u \in Users : Verifying(u)' \subseteq Verifying(u)
      BY <2>2 DEF Verifying
    <3>2. bucket' = bucket /\ now' >= now
      BY <1>2, SessionConstants DEF Tick, vars, TypeInv, SessionType
    <3>3. QED BY <3>1, <3>2, LimiterKept
  <2>3. QED BY <2>1, <2>2
<1>3. CASE \E s \in Slots : CheckLoginRateLimit(s)
  BY <1>3, LimiterCheck
<1>4. CASE \E s \in Slots : RecordLoginFailure(s)
  BY <1>4, LimiterRecord
<1>5. CASE \E s \in Slots : ClearLoginFailures(s)
  BY <1>5, LimiterClear
<1>6. CASE \E s \in Slots : \/ Arrive(s) \/ UseSession(s) \/ Fail(s)
                            \/ RotateSession(s) \/ CreateSession(s) \/ InsertSession(s)
  BY <1>6, LimiterOthers
<1>7. QED BY <1>1, <1>2, <1>3, <1>4, <1>5, <1>6 DEF SessionNext, SignIn

----------------------------------------------------------------------------
(* Sessions                                                                *)

LEMMA LoginFailures ==
  ASSUME TypeInv, LimiterInv
  PROVE  FailuresBounded
<1>. SUFFICES ASSUME NEW u \in Users, bucket[u] # None
              PROVE  bucket[u].count <= LoginMaxFailures - 1 + Cardinality(Slots)
  BY DEF FailuresBounded
<1>1. bucket[u].count \in Nat
  BY DEF TypeInv, SessionType, Bucket
<1>2. QED BY <1>1, VerifyingFinite, SessionConstants DEF LimiterInv

TokensInv == RowsInv /\ AbsoluteCap /\ IdleCap /\ RetiredStaysRetired

LEMMA RowTypes ==
  ASSUME TypeInv, NEW t \in Tokens, session[t] # None
  PROVE  session[t].createdAt \in Nat /\ session[t].expiresAt \in Nat
  BY DEF TypeInv, SessionType, Session

(* No row, no use and no plan to change one: only what a request carries
   changes, to what it carried or to nothing.                              *)
LEMMA TokensKept ==
  ASSUME TypeInv, TypeInv', TokensInv,
         session' = session, issued' = issued, retired' = retired, seen' = seen, now' >= now,
         \A s \in Slots : request'[s].at \in {"create", "insert", "bump", "extend"} =>
                             request'[s] = request[s]
  PROVE  TokensInv'
<1>1. now \in Nat /\ now' \in Nat /\ seen \in [Tokens -> Nat]
  BY SessionConstants DEF TypeInv, SessionType
<1>2. AbsoluteCap' /\ IdleCap' /\ RetiredStaysRetired'
  BY DEF TokensInv, AbsoluteCap, IdleCap, RetiredStaysRetired
<1>3. \A t \in Tokens : session[t] # None => t \in issued /\ session[t].createdAt <= now'
  BY <1>1, RowTypes DEF TokensInv, RowsInv
<1>4. \A t \in Tokens : seen[t] <= now'
  BY <1>1 DEF TokensInv, RowsInv
<1>5. ASSUME NEW s \in Slots PROVE Holds(s)'
  <2>1. CASE request'[s].at \in {"create", "insert", "bump", "extend"}
    <3>1. request'[s] = request[s] /\ request[s].expires \in Nat
      BY <2>1 DEF TypeInv, SessionType, Request
    <3>2. request[s].at = "insert" =>
            /\ request[s].expires <= now' + AbsoluteTtl
            /\ IdleTtl > 0 => request[s].expires <= now' + IdleTtl
      BY <1>1, <3>1, SessionConstants DEF TokensInv, RowsInv, Holds
    <3>3. QED BY <3>1, <3>2 DEF TokensInv, RowsInv, Holds
  <2>2. CASE request'[s].at \notin {"create", "insert", "bump", "extend"}
    BY <2>2 DEF Holds
  <2>3. QED BY <2>1, <2>2
<1>6. QED BY <1>2, <1>3, <1>4, <1>5 DEF TokensInv, RowsInv

LEMMA TokensOthers ==
  ASSUME TypeInv, TypeInv', TokensInv, NEW s \in Slots,
         \/ Arrive(s) \/ CheckLoginRateLimit(s) \/ RecordLoginFailure(s)
         \/ Authorize(s) \/ Fail(s)
  PROVE  TokensInv'
<1>1. /\ session' = session /\ issued' = issued /\ retired' = retired /\ seen' = seen
      /\ now' >= now
  BY SessionConstants
     DEF TypeInv, SessionType, Arrive, Login, Present, CheckLoginRateLimit,
         RecordLoginFailure, Authorize, Fail
<1>2. request \in [Slots -> Request]
  BY DEF TypeInv, SessionType
<1>3. \A r \in Slots : request'[r].at \in {"create", "insert", "bump", "extend"} =>
                          request'[r] = request[r]
  <2>1. CASE Arrive(s)
    BY <1>2, <2>1 DEF Arrive, Login, Present, Fresh
  <2>2. CASE CheckLoginRateLimit(s) \/ RecordLoginFailure(s) \/ Authorize(s) \/ Fail(s)
    BY <1>2, <2>2, NewRequestType
       DEF CheckLoginRateLimit, RecordLoginFailure, Authorize, Fail, Goto, Respond, Request
  <2>3. QED BY <2>1, <2>2
<1>4. QED BY <1>1, <1>3, TokensKept

LEMMA TokensClock ==
  ASSUME TypeInv, TypeInv', TokensInv, Restart \/ Tick \/ UNCHANGED vars
  PROVE  TokensInv'
<1>1. /\ session' = session /\ issued' = issued /\ retired' = retired /\ seen' = seen
      /\ now' >= now
  BY SessionConstants DEF TypeInv, SessionType, Restart, Tick, vars
<1>2. \A r \in Slots : request'[r].at \in {"create", "insert", "bump", "extend"} =>
                          request'[r] = request[r]
  BY NewRequestType DEF Restart, Tick, vars
<1>3. QED BY <1>1, <1>2, TokensKept

(* The row of a token goes: nothing that is promised of a row is lost.     *)
LEMMA TokensGone ==
  ASSUME TypeInv, TypeInv', TokensInv, NEW s \in Slots, RotateSession(s) \/ DestroySession(s)
  PROVE  TokensInv'
<1>. DEFINE t == request[s].token
<1>0. /\ t \in issued /\ t \in Tokens /\ session \in [Tokens -> Session \union {None}]
      /\ request \in [Slots -> Request]
  BY DEF TypeInv, SessionType, Carries, RotateSession, DestroySession, At, UseSteps
<1>1. /\ session' = [session EXCEPT ![t] = None] /\ now' = now /\ issued' = issued
      /\ seen' = seen /\ retired' \subseteq retired \union {t}
  BY DEF RotateSession, DestroySession
<1>2. \A v \in Tokens : session'[v] # None => session'[v] = session[v] /\ session[v] # None
  BY <1>0, <1>1
<1>3. session'[t] = None
  BY <1>0, <1>1
<1>4. \A r \in Slots :
        \/ request'[r] = request[r]
        \/ request'[r].at = "create" /\ request'[r].token = t
        \/ request'[r].at = "idle"
  BY <1>0, NewRequestType DEF RotateSession, DestroySession, Goto, Respond, Request
<1>5. AbsoluteCap' /\ IdleCap'
  BY <1>1, <1>2 DEF TokensInv, AbsoluteCap, IdleCap
<1>6. RetiredStaysRetired'
  <2>1. \A v \in retired : session'[v] = None
    BY <1>2 DEF TokensInv, RetiredStaysRetired, TypeInv, SessionType
  <2>2. QED BY <1>1, <1>3, <2>1 DEF RetiredStaysRetired
<1>7. \A v \in Tokens : session'[v] # None => v \in issued' /\ session'[v].createdAt <= now'
  BY <1>1, <1>2 DEF TokensInv, RowsInv
<1>8. ASSUME NEW r \in Slots PROVE Holds(r)'
  <2>1. CASE request'[r] = request[r]
    <3>1. request[r].token \in Tokens \union {None}
      BY DEF TypeInv, SessionType, Request
    <3>2. request[r].at \in {"bump", "extend"} => request[r].token \in Tokens
      BY DEF TypeInv, SessionType, Carries, UseSteps
    <3>3. session'[request[r].token] # None /\ request[r].token \in Tokens =>
            session'[request[r].token] = session[request[r].token]
      BY <1>2
    <3>4. QED BY <1>1, <1>2, <2>1, <3>1, <3>2, <3>3 DEF TokensInv, RowsInv, Holds
  <2>2. CASE request'[r].at = "create" /\ request'[r].token = t
    BY <1>3, <2>2 DEF Holds
  <2>3. CASE request'[r].at = "idle"
    BY <2>3 DEF Holds
  <2>4. QED BY <1>4, <2>1, <2>2, <2>3
<1>9. QED BY <1>1, <1>5, <1>6, <1>7, <1>8 DEF TokensInv, RowsInv

(* A step of one request that leaves the rows alone.                       *)
LEMMA TokensOneRequest ==
  ASSUME TypeInv, TypeInv', TokensInv, NEW s \in Slots,
         session' = session, issued' = issued, retired' = retired, seen' = seen, now' = now,
         \A r \in Slots \ {s} : request'[r] = request[r],
         Holds(s)'
  PROVE  TokensInv'
<1>1. \A r \in Slots \ {s} : Holds(r)'
  BY DEF TokensInv, RowsInv, Holds
<1>2. \A r \in Slots : Holds(r)'
  BY <1>1
<1>3. AbsoluteCap' /\ IdleCap' /\ RetiredStaysRetired'
  BY DEF TokensInv, AbsoluteCap, IdleCap, RetiredStaysRetired
<1>4. QED BY <1>2, <1>3 DEF TokensInv, RowsInv, Holds

LEMMA TokensClear ==
  ASSUME TypeInv, TypeInv', TokensInv, NEW s \in Slots, ClearLoginFailures(s)
  PROVE  TokensInv'
<1>1. request \in [Slots -> Request]
  BY DEF TypeInv, SessionType
<1>2. \A r \in Slots \ {s} : request'[r] = request[r]
  BY <1>1 DEF ClearLoginFailures, Goto
<1>3. \/ request'[s].at = "create" /\ request'[s].token = None
      \/ request'[s].at = "rotate"
  BY <1>1 DEF ClearLoginFailures, Goto, Request
<1>4. Holds(s)'
  BY <1>3 DEF Holds
<1>5. QED BY <1>2, <1>4, TokensOneRequest DEF ClearLoginFailures

LEMMA TokensCreate ==
  ASSUME TypeInv, TypeInv', TokensInv, NEW s \in Slots, CreateSession(s)
  PROVE  TokensInv'
<1>1. request \in [Slots -> Request] /\ now \in Nat
  BY SessionConstants DEF TypeInv, SessionType
<1>2. \A r \in Slots \ {s} : request'[r] = request[r]
  BY <1>1 DEF CreateSession
<1>3. /\ request'[s].at = "insert" /\ request'[s].token = request[s].token
      /\ request'[s].expires = now + (IF IdleTtl > 0 THEN Earlier(IdleTtl, AbsoluteTtl)
                                                      ELSE AbsoluteTtl)
  BY <1>1 DEF CreateSession, Request
<1>4. /\ request'[s].expires <= now + AbsoluteTtl
      /\ IdleTtl > 0 => request'[s].expires <= now + IdleTtl
  BY <1>1, <1>3, SessionConstants DEF Earlier
<1>5. request[s].token # None => session[request[s].token] = None
  BY DEF CreateSession, At, TokensInv, RowsInv, Holds
<1>6. Holds(s)'
  BY <1>3, <1>4, <1>5 DEF Holds, CreateSession
<1>7. QED BY <1>2, <1>6, TokensOneRequest DEF CreateSession

LEMMA TokensValidate ==
  ASSUME TypeInv, TypeInv', TokensInv, NEW s \in Slots, ValidateSession(s)
  PROVE  TokensInv'
<1>1. request \in [Slots -> Request]
  BY DEF TypeInv, SessionType
<1>2. \A r \in Slots \ {s} : request'[r] = request[r]
  BY <1>1 DEF ValidateSession, Goto, Respond
<1>3. \/ /\ request'[s].at = "bump" /\ request'[s].token = request[s].token
         /\ request'[s].row = session[request[s].token]
      \/ request'[s].at \in {"authorize", "idle"}
  BY <1>1, NewRequestType DEF ValidateSession, Goto, Respond, Request
<1>4. Holds(s)'
  BY <1>3 DEF Holds, ValidateSession
<1>5. QED BY <1>2, <1>4, TokensOneRequest DEF ValidateSession

(* A use is noted when its expiry is decided on.                           *)
LEMMA TokensDecide ==
  ASSUME TypeInv, TypeInv', TokensInv, NEW s \in Slots, DecideBump(s)
  PROVE  TokensInv'
<1>. DEFINE t == request[s].token
            row == request[s].row
<1>1. /\ request \in [Slots -> Request] /\ now \in Nat /\ seen \in [Tokens -> Nat]
      /\ t \in issued /\ t \in Tokens /\ row \in Session
  BY SessionConstants DEF TypeInv, SessionType, Carries, DecideBump, At, UseSteps
<1>2. /\ session' = session /\ issued' = issued /\ retired' = retired /\ now' = now
      /\ seen' = [seen EXCEPT ![t] = now]
  BY DEF DecideBump
<1>3. \A v \in Tokens : seen'[v] >= seen[v] /\ seen'[v] <= now
  BY <1>1, <1>2 DEF TokensInv, RowsInv
<1>4. \A v \in Tokens : session[v] # None =>
        /\ v \in issued' /\ session[v].createdAt <= now'
        /\ session[v].expiresAt <= session[v].createdAt + AbsoluteTtl
        /\ IdleTtl > 0 => session[v].expiresAt <= seen'[v] + IdleTtl
  <2>. SUFFICES ASSUME NEW v \in Tokens, session[v] # None, IdleTtl > 0
                PROVE  session[v].expiresAt <= seen'[v] + IdleTtl
    BY <1>2 DEF TokensInv, RowsInv, AbsoluteCap
  <2>1. session[v].expiresAt <= seen[v] + IdleTtl /\ session[v].expiresAt \in Nat
    BY RowTypes DEF TokensInv, IdleCap
  <2>2. QED BY <1>1, <1>2, <1>3, <2>1, SessionConstants
<1>5. ASSUME NEW r \in Slots PROVE Holds(r)'
  <2>1. CASE r # s
    <3>1. request'[r] = request[r] /\ request[r].expires \in Nat
      BY <1>1, <2>1 DEF DecideBump, Request
    <3>2. request[r].at = "extend" => request[r].token \in Tokens
      BY DEF TypeInv, SessionType, Carries, UseSteps
    <3>3. request[r].at = "extend" =>
            /\ request[r].expires <= seen[request[r].token] + IdleTtl
            /\ seen'[request[r].token] >= seen[request[r].token]
            /\ seen'[request[r].token] \in Nat /\ seen[request[r].token] \in Nat
      BY <1>1, <1>2, <1>3, <3>2 DEF TokensInv, RowsInv, Holds
    <3>4. request[r].at = "extend" => request[r].expires <= seen'[request[r].token] + IdleTtl
      BY <3>1, <3>3, SessionConstants
    <3>5. QED BY <1>2, <3>1, <3>4 DEF Holds, TokensInv, RowsInv
  <2>2. CASE r = s
    <3>1. CASE request'[s].at = "extend"
      <4>1. request'[s].token = t /\ request'[s].expires = NewExpiry(row)
        BY <1>1, <3>1 DEF DecideBump, Request
      <4>2. row.createdAt \in Nat
        BY <1>1 DEF Session
      <4>3. NewExpiry(row) <= now + IdleTtl /\ NewExpiry(row) <= row.createdAt + AbsoluteTtl
        BY <1>1, <4>2, SessionConstants DEF NewExpiry, Earlier
      <4>4. session[t] # None => row.createdAt = session[t].createdAt
        BY DEF DecideBump, At, TokensInv, RowsInv, Holds
      <4>5. seen'[t] = now
        BY <1>1, <1>2
      <4>6. QED BY <1>2, <2>2, <3>1, <4>1, <4>3, <4>4, <4>5 DEF Holds
    <3>2. CASE request'[s].at # "extend"
      <4>1. request'[s].at = "authorize"
        BY <1>1, <3>2 DEF DecideBump, Request
      <4>2. QED BY <2>2, <4>1 DEF Holds
    <3>3. QED BY <3>1, <3>2
  <2>3. QED BY <2>1, <2>2
<1>6. RetiredStaysRetired'
  BY <1>2 DEF TokensInv, RetiredStaysRetired
<1>7. QED BY <1>2, <1>3, <1>4, <1>5, <1>6
          DEF TokensInv, RowsInv, Holds, AbsoluteCap, IdleCap

(* A new row gets a token never used before.                               *)
LEMMA TokensInsert ==
  ASSUME TypeInv, TypeInv', TokensInv, NEW s \in Slots, InsertSession(s)
  PROVE  TokensInv'
<1>. DEFINE e == request[s].expires
            old == request[s].token
<1>1. PICK t \in Tokens \ issued :
        /\ session' = [session EXCEPT ![t] =
             [user |-> request[s].user, createdAt |-> now, expiresAt |-> e]]
        /\ issued' = issued \union {t}
        /\ seen' = [seen EXCEPT ![t] = now]
  BY DEF InsertSession
<1>2. /\ now' = now /\ retired' = retired \union ({old} \ {None})
      /\ request' = [request EXCEPT ![s] = Idle]
  BY DEF InsertSession, Respond
<1>3. /\ request \in [Slots -> Request] /\ now \in Nat /\ seen \in [Tokens -> Nat]
      /\ session \in [Tokens -> Session \union {None}] /\ retired \subseteq issued
  BY SessionConstants DEF TypeInv, SessionType
<1>4. \A v \in Tokens \ {t} : session'[v] = session[v] /\ seen'[v] = seen[v]
  BY <1>1, <1>3
<1>5. /\ session'[t].createdAt = now /\ session'[t].expiresAt = e /\ seen'[t] = now
  BY <1>1, <1>3
<1>6. e <= now + AbsoluteTtl /\ (IdleTtl > 0 => e <= now + IdleTtl)
  BY DEF InsertSession, At, TokensInv, RowsInv, Holds
<1>7. old # None => session[old] = None /\ old \in issued
  BY DEF InsertSession, At, TokensInv, RowsInv, Holds, TypeInv, Carries
<1>8. AbsoluteCap' /\ IdleCap'
  BY <1>4, <1>5, <1>6 DEF TokensInv, AbsoluteCap, IdleCap
<1>9. RetiredStaysRetired'
  <2>1. \A v \in retired' : v \in issued /\ v # t /\ session[v] = None
    BY <1>1, <1>2, <1>3, <1>7 DEF TokensInv, RetiredStaysRetired
  <2>2. issued \subseteq Tokens
    BY DEF TypeInv, SessionType
  <2>3. QED BY <1>4, <2>1, <2>2 DEF RetiredStaysRetired
<1>10. /\ \A v \in Tokens : session'[v] # None => v \in issued' /\ session'[v].createdAt <= now'
       /\ \A v \in Tokens : seen'[v] <= now'
  BY <1>1, <1>2, <1>3, <1>4, <1>5 DEF TokensInv, RowsInv
<1>11. ASSUME NEW r \in Slots PROVE Holds(r)'
  <2>1. CASE r = s
    BY <1>2, <1>3, <2>1, NewRequestType DEF Holds
  <2>2. CASE r # s
    <3>1. request'[r] = request[r]
      BY <1>2, <1>3, <2>2
    <3>2. request[r].token \in issued \/ request[r].token = None
      BY <1>1 DEF TypeInv, Carries
    <3>3. request[r].at \in {"bump", "extend"} => request[r].token \in Tokens \ {t}
      BY <1>1 DEF TypeInv, SessionType, Carries, UseSteps
    <3>4. request[r].token # None => request[r].token \in Tokens \ {t}
      BY <1>1, <3>2 DEF TypeInv, SessionType
    <3>5. QED BY <1>2, <1>4, <3>1, <3>3, <3>4 DEF Holds, TokensInv, RowsInv
  <2>3. QED BY <2>1, <2>2
<1>12. QED BY <1>8, <1>9, <1>10, <1>11 DEF TokensInv, RowsInv

(* The delayed UPDATE: it finds the row it was computed for, or none.      *)
LEMMA TokensExtend ==
  ASSUME TypeInv, TypeInv', TokensInv, NEW s \in Slots, ExtendSession(s)
  PROVE  TokensInv'
<1>. DEFINE t == request[s].token
            e == request[s].expires
<1>1. /\ request \in [Slots -> Request] /\ t \in Tokens
      /\ session \in [Tokens -> Session \union {None}]
  BY DEF TypeInv, SessionType, Carries, ExtendSession, At, UseSteps
<1>2. /\ issued' = issued /\ retired' = retired /\ now' = now /\ seen' = seen
      /\ \A r \in Slots \ {s} : request'[r] = request[r]
      /\ request'[s].at = "authorize"
  BY <1>1 DEF ExtendSession, Request
<1>3. \A v \in Tokens \ {t} : session'[v] = session[v]
  BY <1>1 DEF ExtendSession
<1>4. session[t] = None => session'[t] = None
  BY DEF ExtendSession
<1>5. session[t] # None =>
        session'[t].createdAt = session[t].createdAt /\ session'[t].expiresAt = e
  BY <1>1 DEF ExtendSession, Session
<1>6. e <= seen[t] + IdleTtl /\ (session[t] # None => e <= session[t].createdAt + AbsoluteTtl)
  BY DEF ExtendSession, At, TokensInv, RowsInv, Holds
<1>7. AbsoluteCap' /\ IdleCap'
  BY <1>2, <1>3, <1>4, <1>5, <1>6 DEF TokensInv, AbsoluteCap, IdleCap
<1>8. RetiredStaysRetired'
  <2>1. \A v \in retired : v \in Tokens /\ session[v] = None
    BY DEF TokensInv, RetiredStaysRetired, TypeInv, SessionType
  <2>2. QED BY <1>2, <1>3, <1>4, <2>1 DEF RetiredStaysRetired
<1>9. \A v \in Tokens : session'[v] # None => v \in issued' /\ session'[v].createdAt <= now'
  BY <1>2, <1>3, <1>4, <1>5 DEF TokensInv, RowsInv
<1>10. ASSUME NEW r \in Slots PROVE Holds(r)'
  <2>1. CASE r = s
    BY <1>2, <2>1 DEF Holds
  <2>2. CASE r # s
    <3>1. request[r].token \in Tokens \union {None} /\ request'[r] = request[r]
      BY <1>1, <1>2, <2>2 DEF Request
    <3>2. request[r].at \in {"bump", "extend"} => request[r].token \in Tokens
      BY DEF TypeInv, SessionType, Carries, UseSteps
    <3>3. request[r].token \in Tokens =>
            /\ session[request[r].token] = None => session'[request[r].token] = None
            /\ session'[request[r].token] # None =>
                 session'[request[r].token].createdAt = session[request[r].token].createdAt
      BY <1>3, <1>4, <1>5
    <3>4. QED BY <1>2, <3>1, <3>2, <3>3 DEF Holds, TokensInv, RowsInv
  <2>3. QED BY <2>1, <2>2
<1>11. QED BY <1>2, <1>7, <1>8, <1>9, <1>10 DEF TokensInv, RowsInv

LEMMA TokensStep ==
  ASSUME TypeInv, TypeInv', TokensInv, [SessionNext]_vars
  PROVE  TokensInv'
<1>1. CASE Restart \/ Tick \/ UNCHANGED vars
  BY <1>1, TokensClock
<1>2. CASE \E s \in Slots : Arrive(s) \/ Fail(s)
  BY <1>2, TokensOthers
<1>3. CASE \E s \in Slots : SignIn(s)
  BY <1>3, TokensOthers, TokensClear, TokensGone, TokensCreate, TokensInsert DEF SignIn
<1>4. CASE \E s \in Slots : UseSession(s)
  BY <1>4, TokensOthers, TokensValidate, TokensDecide, TokensExtend, TokensGone DEF UseSession
<1>5. QED BY <1>1, <1>2, <1>3, <1>4 DEF SessionNext

----------------------------------------------------------------------------
(* The invariant, and the theorems                                         *)

LEMMA SessionStart == SessionInit => SessionInv
<1>. SUFFICES ASSUME SessionInit PROVE SessionInv
  OBVIOUS
<1>1. TypeInv
  BY TypeStart
<1>2. \A s \in Slots : request[s].at = "idle"
  BY NewRequestType DEF SessionInit
<1>3. LimiterInv
  BY DEF SessionInit, LimiterInv
<1>4. TokensInv
  BY <1>2 DEF SessionInit, TokensInv, RowsInv, Holds, AbsoluteCap, IdleCap, RetiredStaysRetired
<1>5. QED BY <1>1, <1>3, <1>4 DEF SessionInv, TokensInv

LEMMA SessionInvStep == SessionInv /\ [SessionNext]_vars => SessionInv'
<1>. SUFFICES ASSUME SessionInv, [SessionNext]_vars PROVE SessionInv'
  OBVIOUS
<1>1. TypeInv /\ TypeInv'
  BY TypeStep DEF SessionInv
<1>2. LimiterInv'
  BY <1>1, LimiterStep DEF SessionInv
<1>3. TokensInv'
  BY <1>1, TokensStep DEF SessionInv, TokensInv
<1>4. QED BY <1>1, <1>2, <1>3 DEF SessionInv, TokensInv

(* However many logins are in flight, a key never collects more failures in
   a window than the limit and those in flight allow.                      *)
THEOREM SessionFailuresBounded == SessionSpec => []FailuresBounded
<1>1. SessionInv => FailuresBounded
  BY LoginFailures DEF SessionInv
<1>2. QED BY <1>1, SessionStart, SessionInvStep, PTL DEF SessionSpec

(* No delayed update carries a session past its absolute time-to-live.     *)
THEOREM SessionAbsoluteCap == SessionSpec => []AbsoluteCap
<1>1. SessionInv => AbsoluteCap
  BY DEF SessionInv
<1>2. QED BY <1>1, SessionStart, SessionInvStep, PTL DEF SessionSpec

(* An unused session ends within the idle timeout of its last use.         *)
THEOREM SessionIdleCap == SessionSpec => []IdleCap
<1>1. SessionInv => IdleCap
  BY DEF SessionInv
<1>2. QED BY <1>1, SessionStart, SessionInvStep, PTL DEF SessionSpec

(* A token that a login rotated out or a logout ended is never valid again. *)
THEOREM SessionRetired == SessionSpec => []RetiredStaysRetired
<1>1. SessionInv => RetiredStaysRetired
  BY DEF SessionInv
<1>2. QED BY <1>1, SessionStart, SessionInvStep, PTL DEF SessionSpec
============================================================================
