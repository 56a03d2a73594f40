---------------------------- MODULE RateLimiter ----------------------------
(***************************************************************************)
(* handlers/rate_limiter.go and cache/rate_limiter.go: the middleware with  *)
(* its statistics, the token buckets in Redis, and the administrator's      *)
(* changes of the configuration, which run beside the requests.             *)
(*                                                                         *)
(* A script of Redis is atomic; reading the clock, running the script and   *)
(* counting the verdict are steps of their own.  Times are in seconds.      *)
(***************************************************************************)
EXTENDS Integers, Sequences, FiniteSets

CONSTANTS
  Requests,     \* passes of a request through the middleware
  Users,
  NoUser,
  UserOf,       \* the X-User-ID of a request
  GlobalApi,    \* the bucket of globalLimiter
  UserApi,      \* the bucket userLimiter has for all users
  Admins,       \* calls of UpdateRateLimiterConfig
  Configs,      \* the configurations they may ask for
  NoConfig,
  MaxRate, MaxBurst,
  MaxTime       \* bound: the clock stops here

Buckets == {GlobalApi, UserApi} \cup Users
Period == 2     \* the keys of a bucket expire after period * 2

\* UpdateRateLimiterConfig refuses rates and bursts of zero.
Limits == [rate: 1 .. MaxRate, burst: 1 .. MaxBurst]

ASSUME LimiterAssumption ==
  /\ IsFiniteSet(Requests)
  /\ UserOf \in [Requests -> Users \cup {NoUser}]
  /\ NoUser \notin Users
  /\ GlobalApi \notin Users /\ UserApi \notin Users /\ GlobalApi # UserApi
  /\ Configs \subseteq [enabled: BOOLEAN, global: Limits, user: Limits]
  /\ NoConfig \notin Configs
  /\ MaxRate \in Nat /\ MaxBurst \in Nat /\ MaxTime \in Nat

VARIABLES
  now,
  tokens, ts,        \* the two keys of each bucket
  expires,           \* the second in which both go; -1 when they were never set
  rateLimiterConfig, rateLimitEnabled,
  globalLimiter, userLimiter,  \* the configuration each was made from
  limitStatistics,
  at,                \* what each request does next
  left,              \* the buckets it has still to ask
  stamp,             \* the time it has read
  using,             \* the configuration of the limiter it asks
  admin,             \* what each administrator does next
  wanted,            \* the configuration it sets
  \* history, read by the properties alone
  setting,           \* the limits by which each bucket last gave a token
  granted,           \* by those limits, the tokens it gave in and after each second,
  late,              \* and the seconds between clock and script, summed over them
  carried,           \* requests under way when the statistics were last zeroed
  overlapped,        \* whether two changes of the configuration overlapped
  noClient           \* whether the last reset of the limiters found no client

bucketVars == <<tokens, ts, expires, setting, granted, late>>
limiterVars == <<rateLimiterConfig, rateLimitEnabled, globalLimiter, userLimiter>>
requestVars == <<at, left, stamp, using>>
adminVars == <<admin, wanted, overlapped, noClient>>
vars == <<now, bucketVars, limiterVars, limitStatistics, requestVars, adminVars, carried>>

TypeOK ==
  /\ now \in 0 .. MaxTime
  /\ tokens \in [Buckets -> 0 .. MaxBurst]
  /\ ts \in [Buckets -> 0 .. MaxTime]
  /\ expires \in [Buckets -> Nat \cup {-1}]
  /\ rateLimiterConfig \in Configs
  /\ rateLimitEnabled \in BOOLEAN
  /\ globalLimiter \in Configs \cup {NoConfig}
  /\ userLimiter \in Configs \cup {NoConfig}
  /\ limitStatistics \in [total: Nat, allowed: Nat, rejected: Nat]
  /\ at \in [Requests -> {"new", "clock", "eval", "allow", "reject", "passed", "refused"}]
  /\ left \in [Requests -> Seq(Buckets)]
  /\ stamp \in [Requests -> 0 .. MaxTime]
  /\ using \in [Requests -> Configs \cup {NoConfig}]
  /\ admin \in [Admins -> {"idle", "enable", "check", "global", "user", "zero", "done"}]
  /\ wanted \in [Admins -> Configs \cup {NoConfig}]
  /\ setting \in [Buckets -> Limits]
  /\ granted \in [Buckets -> [0 .. MaxTime -> Nat]]
  /\ late \in [Buckets -> [0 .. MaxTime -> Nat]]
  /\ carried \in Nat
  /\ overlapped \in BOOLEAN
  /\ noClient \in BOOLEAN

Zero == [total |-> 0, allowed |-> 0, rejected |-> 0]

\* The limits a configuration has for a bucket.
LimitsIn(config, b) == IF b \in Users THEN config.user ELSE config.global

\* After InitRateLimiters, whose reset may have found no client.
Init ==
  /\ now = 0
  /\ tokens = [b \in Buckets |-> 0]
  /\ ts = [b \in Buckets |-> 0]
  /\ expires = [b \in Buckets |-> -1]
  /\ rateLimiterConfig \in Configs
  /\ rateLimitEnabled = rateLimiterConfig.enabled
  /\ noClient \in {failed \in BOOLEAN : failed => rateLimitEnabled}
  /\ globalLimiter = IF rateLimitEnabled /\ ~noClient THEN rateLimiterConfig ELSE NoConfig
  /\ userLimiter = globalLimiter
  /\ limitStatistics = Zero
  /\ at = [r \in Requests |-> "new"]
  /\ left = [r \in Requests |-> <<>>]
  /\ stamp = [r \in Requests |-> 0]
  /\ using = [r \in Requests |-> NoConfig]
  /\ admin = [a \in Admins |-> "idle"]
  /\ wanted = [a \in Admins |-> NoConfig]
  /\ setting = [b \in Buckets |-> LimitsIn(rateLimiterConfig, b)]
  /\ granted = [b \in Buckets |-> [s \in 0 .. MaxTime |-> 0]]
  /\ late = [b \in Buckets |-> [s \in 0 .. MaxTime |-> 0]]
  /\ carried = 0
  /\ overlapped = FALSE

-----------------------------------------------------------------------------
(* The middleware *)

Count(entry) == limitStatistics' = [limitStatistics EXCEPT ![entry] = @ + 1]

Goto(r, stage) == at' = [at EXCEPT ![r] = stage]

\* A request that names a user is sent through the two buckets of userLimiter too.
Path(r) == IF UserOf[r] = NoUser THEN <<GlobalApi>> ELSE <<GlobalApi, UserApi, UserOf[r]>>

\* Mutant: a request is counted before the limiter is found to be off.
EnterCountsFirst(r) ==
  /\ at[r] = "new"
  /\ Count("total")
  /\ \/ /\ ~rateLimitEnabled \/ globalLimiter = NoConfig
        /\ Goto(r, "passed")
        /\ UNCHANGED left
     \/ /\ rateLimitEnabled /\ globalLimiter # NoConfig
        /\ Goto(r, "clock")
        /\ left' = [left EXCEPT ![r] = Path(r)]
  /\ UNCHANGED <<now, bucketVars, limiterVars, stamp, using, adminVars, carried>>

Enter(r) ==
  /\ at[r] = "new"
  /\ \/ /\ ~rateLimitEnabled \/ globalLimiter = NoConfig
        /\ Goto(r, "passed")
        /\ UNCHANGED <<limitStatistics, left>>
     \/ /\ rateLimitEnabled /\ globalLimiter # NoConfig
        /\ Goto(r, "clock")
        /\ Count("total")
        /\ left' = [left EXCEPT ![r] = Path(r)]
  /\ UNCHANGED <<now, bucketVars, limiterVars, stamp, using, adminVars, carried>>

\* Allow reads the clock.  AllowUser asks one userLimiter for both its buckets.
\* A userLimiter that is still nil lets the request through.
ReadClock(r) ==
  LET b == Head(left[r]) IN
  /\ at[r] = "clock"
  /\ \/ /\ b = UserApi /\ userLimiter = NoConfig
        /\ Goto(r, "allow")
        /\ UNCHANGED <<stamp, using>>
     \/ /\ b # UserApi \/ userLimiter # NoConfig
        /\ Goto(r, "eval")
        /\ stamp' = [stamp EXCEPT ![r] = now]
        /\ using' = [using EXCEPT ![r] = CASE b = GlobalApi -> globalLimiter
                                           [] b = UserApi -> userLimiter
                                           [] OTHER -> @]
  /\ UNCHANGED <<now, bucketVars, limiterVars, limitStatistics, left, adminVars, carried>>

LimitsOf(r) == LimitsIn(using[r], Head(left[r]))

Least(x, y) == IF x < y THEN x ELSE y
Elapsed(since, until) == IF until > since THEN until - since ELSE 0

\* Within the second in which the keys expire they are still there, or not.
KeysGone(b) ==
  {gone \in BOOLEAN : IF gone THEN now >= expires[b] ELSE now <= expires[b]}

\* What the script computes for a request with time t; a bucket without keys is full.
NewTokens(b, limit, t, gone) ==
  IF gone THEN limit.burst
  ELSE Least(limit.burst, tokens[b] + Elapsed(ts[b], t) * limit.rate)

\* History: the seconds up to now have one token more, by these limits.
Grown(sums, b, limit, n) ==
  [s \in 0 .. MaxTime |-> (IF limit = setting[b] THEN sums[s] ELSE 0)
                            + (IF s <= now THEN n ELSE 0)]

Record(b, limit, t) ==
  /\ setting' = [setting EXCEPT ![b] = limit]
  /\ granted' = [granted EXCEPT ![b] = Grown(@, b, limit, 1)]
  /\ late' = [late EXCEPT ![b] = Grown(@, b, limit, now - t)]

\* Mutant: an empty bucket still gives a token.
TakeFromEmpty(b, limit, t) ==
  /\ \E gone \in KeysGone(b) :
       tokens' = [tokens EXCEPT ![b] = NewTokens(b, limit, t, gone) - 1]
  /\ ts' = [ts EXCEPT ![b] = t]
  /\ expires' = [expires EXCEPT ![b] = now + Period]
  /\ Record(b, limit, t)

\* Mutant: the tokens are stored before one is taken.
TakeAfterStore(b, limit, t) ==
  /\ \E gone \in KeysGone(b) :
       /\ NewTokens(b, limit, t, gone) >= 1
       /\ tokens' = [tokens EXCEPT ![b] = NewTokens(b, limit, t, gone)]
  /\ ts' = [ts EXCEPT ![b] = t]
  /\ expires' = [expires EXCEPT ![b] = now + Period]
  /\ Record(b, limit, t)

\* The script takes a token: the bucket's time becomes that of the request, which
\* may be older than the one it had.
TakeToken(b, limit, t) ==
  /\ \E gone \in KeysGone(b) :
       /\ NewTokens(b, limit, t, gone) >= 1
       /\ tokens' = [tokens EXCEPT ![b] = NewTokens(b, limit, t, gone) - 1]
  /\ ts' = [ts EXCEPT ![b] = t]
  /\ expires' = [expires EXCEPT ![b] = now + Period]
  /\ Record(b, limit, t)

\* The script runs, or Redis fails before or after it; a failure refuses the request.
Eval(r) ==
  LET b == Head(left[r])
      limit == LimitsOf(r) IN
  /\ at[r] = "eval"
  /\ \/ /\ TakeToken(b, limit, stamp[r])
        /\ left' = [left EXCEPT ![r] = Tail(@)]
        /\ Goto(r, IF Tail(left[r]) = <<>> THEN "allow" ELSE "clock")
     \/ /\ TakeToken(b, limit, stamp[r])
        /\ Goto(r, "reject")
        /\ UNCHANGED left
     \/ /\ Goto(r, "reject")
        /\ UNCHANGED <<bucketVars, left>>
  /\ UNCHANGED <<now, limiterVars, limitStatistics, stamp, using, adminVars, carried>>

\* The request ends, and what it kept for itself goes with it.
Verdict(r) ==
  /\ \/ at[r] = "allow" /\ Goto(r, "passed") /\ Count("allowed")
     \/ at[r] = "reject" /\ Goto(r, "refused") /\ Count("rejected")
  /\ left' = [left EXCEPT ![r] = <<>>]
  /\ stamp' = [stamp EXCEPT ![r] = 0]
  /\ using' = [using EXCEPT ![r] = NoConfig]
  /\ UNCHANGED <<now, bucketVars, limiterVars, adminVars, carried>>

-----------------------------------------------------------------------------
(* UpdateRateLimiterConfig and resetRateLimiters *)

Changing == {a \in Admins : admin[a] \notin {"idle", "done"}}

SetConfig(a) ==
  /\ admin[a] = "idle"
  /\ \E c \in Configs :
       /\ wanted' = [wanted EXCEPT ![a] = c]
       /\ rateLimiterConfig' = c
  /\ admin' = [admin EXCEPT ![a] = "enable"]
  /\ overlapped' = (overlapped \/ Changing # {})
  /\ UNCHANGED <<now, bucketVars, rateLimitEnabled, globalLimiter, userLimiter,
                 limitStatistics, requestVars, noClient, carried>>

SetEnabled(a) ==
  /\ admin[a] = "enable"
  /\ rateLimitEnabled' = wanted[a].enabled
  /\ wanted' = [wanted EXCEPT ![a] = NoConfig]
  /\ admin' = [admin EXCEPT ![a] = "check"]
  /\ UNCHANGED <<now, bucketVars, rateLimiterConfig, globalLimiter, userLimiter,
                 limitStatistics, requestVars, overlapped, noClient, carried>>

\* The test reads the shared flag again, not the value the request asked for.
CheckEnabled(a) ==
  /\ admin[a] = "check"
  /\ admin' = [admin EXCEPT ![a] = IF rateLimitEnabled THEN "global" ELSE "done"]
  /\ UNCHANGED <<now, bucketVars, limiterVars, limitStatistics, requestVars,
                 wanted, overlapped, noClient, carried>>

\* Mutant: the limiter of the users is not made again.
ResetGlobalOnly(a) ==
  /\ admin[a] = "global"
  /\ globalLimiter' = rateLimiterConfig
  /\ admin' = [admin EXCEPT ![a] = "zero"]
  /\ noClient' = FALSE
  /\ UNCHANGED <<now, bucketVars, rateLimiterConfig, rateLimitEnabled, userLimiter,
                 limitStatistics, requestVars, wanted, overlapped, carried>>

\* Without a client resetRateLimiters gives up: the limiters stay as they were, or nil,
\* and so do the statistics.
ResetFails(a) ==
  /\ admin[a] = "global"
  /\ admin' = [admin EXCEPT ![a] = "done"]
  /\ noClient' = TRUE
  /\ UNCHANGED <<now, bucketVars, limiterVars, limitStatistics, requestVars,
                 wanted, overlapped, carried>>

\* The buckets in Redis keep their tokens.
ResetGlobal(a) ==
  /\ admin[a] = "global"
  /\ globalLimiter' = rateLimiterConfig
  /\ admin' = [admin EXCEPT ![a] = "user"]
  /\ noClient' = FALSE
  /\ UNCHANGED <<now, bucketVars, rateLimiterConfig, rateLimitEnabled, userLimiter,
                 limitStatistics, requestVars, wanted, overlapped, carried>>

ResetUser(a) ==
  /\ admin[a] = "user"
  /\ userLimiter' = rateLimiterConfig
  /\ admin' = [admin EXCEPT ![a] = "zero"]
  /\ UNCHANGED <<now, bucketVars, rateLimiterConfig, rateLimitEnabled, globalLimiter,
                 limitStatistics, requestVars, wanted, overlapped, noClient, carried>>

InFlight == {r \in Requests : at[r] \in {"clock", "eval", "allow", "reject"}}

ResetStatistics(a) ==
  /\ admin[a] = "zero"
  /\ limitStatistics' = Zero
  /\ carried' = Cardinality(InFlight)
  /\ admin' = [admin EXCEPT ![a] = "done"]
  /\ UNCHANGED <<now, bucketVars, limiterVars, requestVars, wanted, overlapped, noClient>>

Tick ==
  /\ now < MaxTime
  /\ now' = now + 1
  /\ UNCHANGED <<bucketVars, limiterVars, limitStatistics, requestVars, adminVars, carried>>

-----------------------------------------------------------------------------

Next ==
  \/ \E r \in Requests : Enter(r) \/ ReadClock(r) \/ Eval(r) \/ Verdict(r)
  \/ \E a \in Admins : \/ SetConfig(a) \/ SetEnabled(a) \/ CheckEnabled(a)
                       \/ ResetFails(a) \/ ResetGlobal(a) \/ ResetUser(a)
                       \/ ResetStatistics(a)
  \/ Tick

Spec == Init /\ [][Next]_vars

-----------------------------------------------------------------------------
(* Properties *)

\* A bucket whose keys have expired is full again: it refills at its rate, or by a
\* full bucket every Period seconds, whichever is faster.  With a burst of up to
\* Period times the rate, as in the configurations of the code, that is its rate.
Refill(limit) ==
  LET byExpiry == (limit.burst + Period - 1) \div Period IN
  IF limit.rate > byExpiry THEN limit.rate ELSE byExpiry

\* From any second on, while its limits stay the same, a bucket grants no more than
\* its own burst and what it refills since then.  A script that runs late sets the
\* bucket's time back, and the seconds it waited after reading the clock are
\* credited twice.
RateKept ==
  \A b \in Buckets : \A s \in 0 .. now :
    granted[b][s] <= setting[b].burst + Refill(setting[b]) * (now - s + late[b][s])

\* Every request counted in total is under way or counted once more, as allowed
\* or rejected; those under way when the statistics were zeroed only once more.
StatisticsAddUp ==
  limitStatistics.total + carried =
    limitStatistics.allowed + limitStatistics.rejected + Cardinality(InFlight)

\* When no change of the configuration is under way and no two have overlapped, the
\* switch is that of the configuration the statistics show, both limiters come from
\* one configuration, and it is the one shown, unless the last reset found no client.
ConfigInForce ==
  Changing = {} /\ ~overlapped =>
    /\ rateLimitEnabled = rateLimiterConfig.enabled
    /\ globalLimiter = userLimiter
    /\ rateLimitEnabled /\ ~noClient => globalLimiter = rateLimiterConfig
=============================================================================
