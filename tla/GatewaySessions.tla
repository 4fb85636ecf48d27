-------------------------- MODULE GatewaySessions --------------------------
(***************************************************************************)
(* Sign-in at the gateway: the sessions of identity.sessions and the login *)
(* limiter (packages/shared/auth.mjs), as the routes of                    *)
(* services/api-gateway/src/index.mjs use them.                            *)
(*                                                                         *)
(* The limiter is a map in the gateway's memory, read before the password  *)
(* is verified and written after, with awaits between; the sessions are    *)
(* rows that every request reads, may extend by an UPDATE computed from    *)
(* what it read, and that a login or a logout deletes.  A slot is a        *)
(* request the gateway has in flight, its step an await of the code.       *)
(***************************************************************************)
EXTENDS Integers, FiniteSets

CONSTANTS
  Users,            \* keys of the limiter: an email, from one address
  Tokens,           \* session tokens the random generator may return
  Slots,            \* requests in flight at a time
  None,
  LoginWindow,      \* LOGIN_RATE_LIMIT_WINDOW_MS, in ticks of the clock
  LoginLockout,     \* LOGIN_LOCKOUT_MS
  LoginMaxFailures, \* LOGIN_RATE_LIMIT_MAX
  IdleTtl,          \* SESSION_IDLE_TTL_MINUTES; 0 switches the idle timeout off
  AbsoluteTtl,      \* SESSION_ABSOLUTE_TTL_HOURS
  BumpGrace,        \* SESSION_IDLE_BUMP_GRACE_MS
  MaxTime           \* bound on the clock

(* The lockout outlasts the window, as the defaults have it (300 s, 60 s).  *)
ASSUME SessionConstants ==
  /\ IsFiniteSet(Slots)
  /\ LoginWindow \in Nat \ {0} /\ LoginMaxFailures \in Nat \ {0}
  /\ LoginLockout \in Nat /\ LoginLockout >= LoginWindow
  /\ IdleTtl \in Nat /\ AbsoluteTtl \in Nat /\ BumpGrace \in Nat
  /\ MaxTime \in Nat
  /\ None \notin Users \union Tokens

VARIABLES
  now,              \* the clock the gateway and the database share
  bucket,           \* loginFailures: the entry of each key, or None
  session,          \* identity.sessions: the row of each token, or None
  issued,           \* tokens a login has answered with
  request,          \* the requests in flight
  retired,          \* history: tokens a finished login or logout has ended
  seen              \* history: when a token was issued or last used

vars == <<now, bucket, session, issued, request, retired, seen>>

Bucket == [count : Nat, windowStart : Nat, lockedUntil : Nat]
Session == [user : Users, createdAt : Nat, expiresAt : Nat]

(* A request: the await it is at, the user a login is for, the token it
   presented, the session row it read and the expiry it computed.  Whether
   a password or a CSRF token is right is settled where it is checked.     *)
Request ==
  [at : {"idle", "check", "verify", "rotate", "create", "insert",
         "validate", "bump", "extend", "authorize", "destroy"},
   op : {"none", "login", "command", "logout"},
   user : Users \union {None}, token : Tokens \union {None},
   row : Session \union {None}, expires : Nat]

SessionType ==
  /\ now \in 0 .. MaxTime
  /\ bucket \in [Users -> Bucket \union {None}]
  /\ session \in [Tokens -> Session \union {None}]
  /\ issued \subseteq Tokens
  /\ request \in [Slots -> Request]
  /\ retired \subseteq issued
  /\ seen \in [Tokens -> Nat]

(* A request that has only just got to a step.                             *)
Fresh(step, op, u, t) ==
  [at |-> step, op |-> op, user |-> u, token |-> t, row |-> None, expires |-> 0]

Idle == Fresh("idle", "none", None, None)

SessionInit ==
  /\ now = 0
  /\ bucket = [u \in Users |-> None]
  /\ session = [t \in Tokens |-> None]
  /\ issued = {} /\ retired = {}
  /\ request = [s \in Slots |-> Idle]
  /\ seen = [t \in Tokens |-> 0]

At(s, step) == request[s].at = step
Goto(s, step) == request' = [request EXCEPT ![s].at = step]
Respond(s) == request' = [request EXCEPT ![s] = Idle]
Earlier(a, b) == IF a <= b THEN a ELSE b

----------------------------------------------------------------------------
(* Login                                                                   *)

(* The limiter's entry of a key as the code finds it: a new one when there
   is none or its window is over, whether or not it is locked.             *)
LoginBucket(u) ==
  IF bucket[u] # None /\ bucket[u].windowStart + LoginWindow > now
    THEN bucket[u]
    ELSE [count |-> 0, windowStart |-> now, lockedUntil |-> 0]

(* A login arrives, with or without the cookie of an earlier session.      *)
Login(s, u, old) ==
  /\ At(s, "idle")
  /\ request' = [request EXCEPT ![s] = Fresh("check", "login", u, old)]
  /\ UNCHANGED <<now, bucket, session, issued, retired, seen>>

CheckLoginRateLimit(s) ==
  LET u == request[s].user IN
  /\ At(s, "check")
  /\ bucket' = [bucket EXCEPT ![u] = LoginBucket(u)]
  /\ \/ LoginBucket(u).lockedUntil > now /\ Respond(s)
     \/ LoginBucket(u).lockedUntil <= now /\ Goto(s, "verify")
  /\ UNCHANGED <<now, session, issued, retired, seen>>

(* Mutant: the lock closes only after the limit.                           *)
RecordFailureLateLock(s) ==
  LET u == request[s].user
      n == LoginBucket(u).count + 1 IN
  /\ At(s, "verify")
  /\ bucket' = [bucket EXCEPT ![u] =
       [LoginBucket(u) EXCEPT
          !.count = n,
          !.lockedUntil = IF n > LoginMaxFailures THEN now + LoginLockout ELSE @]]
  /\ Respond(s)
  /\ UNCHANGED <<now, session, issued, retired, seen>>

(* The wrong password: one more failure, and the lock at the limit.        *)
RecordLoginFailure(s) ==
  LET u == request[s].user
      n == LoginBucket(u).count + 1 IN
  /\ At(s, "verify")
  /\ bucket' = [bucket EXCEPT ![u] =
       [LoginBucket(u) EXCEPT
          !.count = n,
          !.lockedUntil = IF n >= LoginMaxFailures THEN now + LoginLockout ELSE @]]
  /\ Respond(s)
  /\ UNCHANGED <<now, session, issued, retired, seen>>

(* Mutant: the presented session is not rotated.                           *)
ClearWithoutRotation(s) ==
  /\ At(s, "verify")
  /\ bucket' = [bucket EXCEPT ![request[s].user] = None]
  /\ Goto(s, "create")
  /\ UNCHANGED <<now, session, issued, retired, seen>>

(* The right password, of an active account: the failures are forgotten.   *)
ClearLoginFailures(s) ==
  /\ At(s, "verify")
  /\ bucket' = [bucket EXCEPT ![request[s].user] = None]
  /\ Goto(s, IF request[s].token = None THEN "create" ELSE "rotate")
  /\ UNCHANGED <<now, session, issued, retired, seen>>

(* Session rotation: the session the client presented is deleted.          *)
RotateSession(s) ==
  /\ At(s, "rotate")
  /\ session' = [session EXCEPT ![request[s].token] = None]
  /\ Goto(s, "create")
  /\ UNCHANGED <<now, bucket, issued, retired, seen>>

(* Mutant: a new session starts with the absolute time-to-live.            *)
CreateSessionAbsolute(s) ==
  /\ At(s, "create")
  /\ request' = [request EXCEPT ![s].at = "insert", ![s].expires = now + AbsoluteTtl]
  /\ UNCHANGED <<now, bucket, session, issued, retired, seen>>

(* createSession computes the expiry ...                                   *)
CreateSession(s) ==
  /\ At(s, "create")
  /\ request' = [request EXCEPT
       ![s].at = "insert",
       ![s].expires = now + (IF IdleTtl > 0 THEN Earlier(IdleTtl, AbsoluteTtl)
                                            ELSE AbsoluteTtl)]
  /\ UNCHANGED <<now, bucket, session, issued, retired, seen>>

(* ... and inserts the row, whose created_at is the database's clock.      *)
InsertSession(s) ==
  /\ At(s, "insert")
  /\ \E t \in Tokens \ issued :
       /\ session' = [session EXCEPT ![t] =
            [user |-> request[s].user, createdAt |-> now,
             expiresAt |-> request[s].expires]]
       /\ issued' = issued \union {t}
       /\ seen' = [seen EXCEPT ![t] = now]
  /\ retired' = retired \union ({request[s].token} \ {None})
  /\ Respond(s)
  /\ UNCHANGED <<now, bucket>>

----------------------------------------------------------------------------
(* Requests that need a session                                            *)

Present(s, op, t) ==
  /\ At(s, "idle")
  /\ request' = [request EXCEPT ![s] = Fresh("validate", op, None, t)]
  /\ UNCHANGED <<now, bucket, session, issued, retired, seen>>

(* The row of an unexpired session is read, or the answer is 401.          *)
ValidateSession(s) ==
  LET row == session[request[s].token]
      valid == row # None /\ row.expiresAt > now IN
  /\ At(s, "validate")
  /\ \/ valid /\ IdleTtl > 0
        /\ request' = [request EXCEPT ![s].row = row, ![s].at = "bump"]
     \/ valid /\ IdleTtl = 0 /\ Goto(s, "authorize")
     \/ ~valid /\ Respond(s)
  /\ UNCHANGED <<now, bucket, session, issued, retired, seen>>

(* Mutant: the idle timeout may push the expiry past the absolute one.     *)
NewExpiryUncapped(row) == now + IdleTtl

(* The expiry a validation at this moment asks for.                        *)
NewExpiry(row) == Earlier(now + IdleTtl, row.createdAt + AbsoluteTtl)

(* The idle timeout: whether the expiry is to move is decided on the row
   as it was read.                                                         *)
DecideBump(s) ==
  LET row == request[s].row
      due == /\ now + IdleTtl > row.expiresAt + BumpGrace
             /\ NewExpiry(row) > row.expiresAt IN
  /\ At(s, "bump")
  /\ request' = [request EXCEPT
       ![s].row = None,
       ![s].at = IF due THEN "extend" ELSE "authorize",
       ![s].expires = IF due THEN NewExpiry(row) ELSE @]
  /\ seen' = [seen EXCEPT ![request[s].token] = now]
  /\ UNCHANGED <<now, bucket, session, issued, retired>>

(* UPDATE identity.sessions SET expires_at ... WHERE token: whatever the
   row has become meanwhile, and nothing when it is gone.                  *)
ExtendSession(s) ==
  LET t == request[s].token IN
  /\ At(s, "extend")
  /\ session' = IF session[t] = None THEN session
                ELSE [session EXCEPT ![t].expiresAt = request[s].expires]
  /\ request' = [request EXCEPT ![s].at = "authorize", ![s].expires = 0]
  /\ UNCHANGED <<now, bucket, issued, retired, seen>>

(* Unless a token in a cookie comes without its CSRF token, a logout goes
   on to end the session; a command runs, if the user's roles permit it,
   and changes nothing here.                                               *)
Authorize(s) ==
  /\ At(s, "authorize")
  /\ \/ request[s].op = "logout" /\ Goto(s, "destroy")
     \/ Respond(s)
  /\ UNCHANGED <<now, bucket, session, issued, retired, seen>>

DestroySession(s) ==
  /\ At(s, "destroy")
  /\ session' = [session EXCEPT ![request[s].token] = None]
  /\ retired' = retired \union {request[s].token}
  /\ Respond(s)
  /\ UNCHANGED <<now, bucket, issued, seen>>

----------------------------------------------------------------------------
(* A statement fails and the request is answered 500.                      *)
Fail(s) ==
  /\ ~At(s, "idle")
  /\ Respond(s)
  /\ UNCHANGED <<now, bucket, session, issued, retired, seen>>

(* The gateway stops and starts again: its memory is lost, rows are not.   *)
Restart ==
  /\ bucket' = [u \in Users |-> None]
  /\ request' = [s \in Slots |-> Idle]
  /\ UNCHANGED <<now, session, issued, retired, seen>>

Tick ==
  /\ now < MaxTime
  /\ now' = now + 1
  /\ UNCHANGED <<bucket, session, issued, request, retired, seen>>

Arrive(s) ==
  \/ \E u \in Users, old \in issued \union {None} : Login(s, u, old)
  \/ \E op \in {"command", "logout"}, t \in issued : Present(s, op, t)

SignIn(s) ==
  \/ CheckLoginRateLimit(s) \/ RecordLoginFailure(s) \/ ClearLoginFailures(s)
  \/ RotateSession(s) \/ CreateSession(s) \/ InsertSession(s)

UseSession(s) ==
  \/ ValidateSession(s) \/ DecideBump(s) \/ ExtendSession(s)
  \/ Authorize(s) \/ DestroySession(s)

SessionNext ==
  \/ \E s \in Slots : Arrive(s) \/ SignIn(s) \/ UseSession(s) \/ Fail(s)
  \/ Restart \/ Tick

SessionSpec == SessionInit /\ [][SessionNext]_vars
----------------------------------------------------------------------------
(* Properties                                                              *)

(* The check of the limiter and the recording of a failure are an await
   apart, so logins in flight may each add a failure beyond the limit, but
   no more than that: once a key is locked its window admits no other.     *)
FailuresBounded ==
  \A u \in Users : bucket[u] # None =>
    bucket[u].count <= LoginMaxFailures - 1 + Cardinality(Slots)

(* However validations overlap and their updates are delayed, no session
   outlives the absolute time-to-live from its creation.                   *)
AbsoluteCap ==
  \A t \in Tokens : session[t] # None =>
    session[t].expiresAt <= session[t].createdAt + AbsoluteTtl

(* With the idle timeout on, a session nobody uses ends: its expiry is
   never further away than the timeout from the last request that
   presented it, also when a delayed update lands long after.              *)
IdleCap ==
  IdleTtl > 0 => \A t \in Tokens : session[t] # None =>
    session[t].expiresAt <= seen[t] + IdleTtl

(* A token presented at a login that succeeded, or logged out, is dead: no
   update of a request still in flight brings its row back.                *)
RetiredStaysRetired == \A t \in retired : session[t] = None
============================================================================
