------------------------- MODULE RateLimiterProofs -------------------------
(***************************************************************************)
(* What holds of RateLimiter for any requests, users, administrators,      *)
(* configurations, rates and bursts, however long the clock runs.          *)
(***************************************************************************)
EXTENDS RateLimiter, FiniteSetTheorems, TLAPS

-----------------------------------------------------------------------------
(* Arithmetic *)

LEMMA LargerFactor ==
  ASSUME NEW x \in Nat, NEW y \in Nat, NEW k \in Nat, x <= y
  PROVE  k * x <= k * y /\ x * k <= y * k /\ k * x \in Nat /\ k * y \in Nat
OBVIOUS

LEMMA RefillType ==
  ASSUME NEW limit \in Limits
  PROVE  /\ limit.burst \in Nat /\ limit.rate \in Nat /\ Refill(limit) \in Nat
         /\ limit.rate <= Refill(limit)
         /\ limit.burst <= Refill(limit) * Period
<1>1. limit.rate \in Nat /\ limit.burst \in Nat
  BY LimiterAssumption DEF Limits
<1>2. (limit.burst + Period - 1) \div Period \in Nat
  BY <1>1 DEF Period
<1>3. limit.burst <= ((limit.burst + Period - 1) \div Period) * Period
  BY <1>1 DEF Period
<1> QED BY <1>1, <1>2, <1>3 DEF Refill, Period

-----------------------------------------------------------------------------
(* Types *)

\* What is left of a request's way, and that it finds a limiter on it.
OnTheWay(r) ==
  LET u == UserOf[r] IN
  /\ left[r] \in IF u = NoUser THEN {<<GlobalApi>>}
                 ELSE {<<GlobalApi, UserApi, u>>, <<UserApi, u>>, <<u>>}
  /\ at[r] = "eval" => using[r] \in Configs
  /\ at[r] = "clock" /\ Head(left[r]) = GlobalApi => globalLimiter \in Configs
  /\ at[r] = "clock" /\ Head(left[r]) \in Users => using[r] \in Configs

Way == \A r \in Requests : at[r] \in {"clock", "eval"} => OnTheWay(r)

Past == \A r \in Requests : stamp[r] <= now

\* An administrator who has still to turn the switch knows which way.
Wants == \A a \in Admins : admin[a] = "enable" => wanted[a] \in Configs

Typed == TypeOK /\ Way /\ Past /\ Wants

Stages == {"new", "clock", "eval", "allow", "reject", "passed", "refused"}

LEMMA InitTyped == Init => Typed
<1> SUFFICES ASSUME Init PROVE Typed
  OBVIOUS
<1> USE LimiterAssumption
<1>1. rateLimiterConfig \in Configs /\ rateLimiterConfig.enabled \in BOOLEAN
  BY DEF Init, Limits
<1>2. globalLimiter \in Configs \cup {NoConfig} /\ userLimiter \in Configs \cup {NoConfig}
  BY <1>1 DEF Init
<1>3. limitStatistics \in [total: Nat, allowed: Nat, rejected: Nat]
  BY DEF Init, Zero
<1>4. left \in [Requests -> Seq(Buckets)]
  <2>1. <<>> \in Seq(Buckets)
    OBVIOUS
  <2> QED BY <2>1 DEF Init
<1>5. TypeOK
  <2>1. /\ tokens \in [Buckets -> 0 .. MaxBurst] /\ ts \in [Buckets -> 0 .. MaxTime]
        /\ expires \in [Buckets -> Nat \cup {-1}]
        /\ granted \in [Buckets -> [0 .. MaxTime -> Nat]]
        /\ late \in [Buckets -> [0 .. MaxTime -> Nat]]
    BY DEF Init
  <2>4. setting \in [Buckets -> Limits] /\ noClient \in BOOLEAN
    BY <1>1 DEF Init, LimitsIn
  <2>2. /\ now \in 0 .. MaxTime /\ stamp \in [Requests -> 0 .. MaxTime] /\ carried \in Nat
        /\ at \in [Requests -> Stages]
        /\ using \in [Requests -> Configs \cup {NoConfig}]
        /\ overlapped \in BOOLEAN /\ rateLimitEnabled \in BOOLEAN
    <3>1. now = 0 /\ carried = 0 /\ stamp = [r \in Requests |-> 0] /\ 0 \in 0 .. MaxTime
      BY DEF Init
    <3>2. at = [r \in Requests |-> "new"] /\ using = [r \in Requests |-> NoConfig]
      BY DEF Init
    <3>3. overlapped = FALSE /\ rateLimitEnabled = rateLimiterConfig.enabled
      BY DEF Init
    <3>4. overlapped \in BOOLEAN /\ rateLimitEnabled \in BOOLEAN
      BY <1>1, <3>3
    <3> QED BY <3>1, <3>2, <3>4 DEF Stages
  <2>3. /\ admin \in [Admins -> {"idle", "enable", "check", "global", "user", "zero", "done"}]
        /\ wanted \in [Admins -> Configs \cup {NoConfig}]
    BY DEF Init
  <2> QED BY <1>1, <1>2, <1>3, <1>4, <2>1, <2>2, <2>3, <2>4 DEF TypeOK, Stages
<1>6. Way /\ Past /\ Wants
  BY DEF Init, Way, Past, Wants
<1> QED BY <1>5, <1>6 DEF Typed

(* The limits a request asks by are among those a configuration may have. *)
LEMMA LimitType ==
  ASSUME Typed, NEW r \in Requests, at[r] = "eval"
  PROVE  /\ LimitsOf(r) \in Limits
         /\ Head(left[r]) \in Buckets
<1> USE LimiterAssumption
<1>1. OnTheWay(r)
  BY DEF Typed, Way
<1>2. using[r].user \in Limits /\ using[r].global \in Limits
  BY <1>1 DEF OnTheWay
<1>3. UserOf[r] \in Users \cup {NoUser}
  OBVIOUS
<1>4. Head(left[r]) \in {GlobalApi, UserApi} \cup Users
  BY <1>1, <1>3 DEF OnTheWay
<1> QED BY <1>2, <1>4 DEF LimitsOf, LimitsIn, Buckets

(* What a token leaves behind. *)
LEMMA TakeTokenType ==
  ASSUME Typed, NEW b \in Buckets, NEW limit \in Limits, NEW t \in 0 .. now,
         TakeToken(b, limit, t)
  PROVE  /\ tokens' \in [Buckets -> 0 .. MaxBurst]
         /\ ts' \in [Buckets -> 0 .. MaxTime]
         /\ expires' \in [Buckets -> Nat \cup {-1}]
         /\ setting' \in [Buckets -> Limits]
         /\ granted' \in [Buckets -> [0 .. MaxTime -> Nat]]
         /\ late' \in [Buckets -> [0 .. MaxTime -> Nat]]
<1> USE LimiterAssumption
<1>1. now \in Nat /\ t \in Nat /\ t <= now /\ now <= MaxTime
  BY DEF Typed, TypeOK
<1>2. limit.burst \in 1 .. MaxBurst /\ limit.rate \in 1 .. MaxRate
  BY DEF Limits
<1>3. tokens[b] \in Nat /\ ts[b] \in Nat /\ Elapsed(ts[b], t) \in Nat
  <2>1. tokens[b] \in Nat /\ ts[b] \in Nat
    BY DEF Typed, TypeOK
  <2>2. QED BY <1>1, <2>1 DEF Elapsed
<1>4. Elapsed(ts[b], t) * limit.rate \in Nat
  BY <1>2, <1>3
<1>5. ASSUME NEW gone, NewTokens(b, limit, t, gone) >= 1
      PROVE  NewTokens(b, limit, t, gone) - 1 \in 0 .. MaxBurst
  BY <1>2, <1>3, <1>4, <1>5 DEF NewTokens, Least
<1>6. tokens' \in [Buckets -> 0 .. MaxBurst]
  <2>1. PICK gone \in KeysGone(b) :
          /\ NewTokens(b, limit, t, gone) >= 1
          /\ tokens' = [tokens EXCEPT ![b] = NewTokens(b, limit, t, gone) - 1]
    BY DEF TakeToken
  <2>2. NewTokens(b, limit, t, gone) - 1 \in 0 .. MaxBurst
    BY <1>5, <2>1
  <2> QED BY <2>1, <2>2 DEF Typed, TypeOK
<1>7. ts' \in [Buckets -> 0 .. MaxTime]
  BY <1>1, SMTT(30) DEF TakeToken, Typed, TypeOK
<1>8. expires' \in [Buckets -> Nat \cup {-1}]
  BY <1>1 DEF TakeToken, Typed, TypeOK, Period
<1>9. setting' \in [Buckets -> Limits]
  BY DEF TakeToken, Record, Typed, TypeOK
<1>10. ASSUME NEW sums \in [0 .. MaxTime -> Nat], NEW n \in Nat
       PROVE  Grown(sums, b, limit, n) \in [0 .. MaxTime -> Nat]
  BY <1>10 DEF Grown
<1>11. /\ granted \in [Buckets -> [0 .. MaxTime -> Nat]]
       /\ late \in [Buckets -> [0 .. MaxTime -> Nat]]
  BY DEF Typed, TypeOK
<1>12. granted' \in [Buckets -> [0 .. MaxTime -> Nat]]
  <2>1. granted' = [granted EXCEPT ![b] = Grown(granted[b], b, limit, 1)]
    BY DEF TakeToken, Record
  <2>2. Grown(granted[b], b, limit, 1) \in [0 .. MaxTime -> Nat]
    BY <1>10, <1>11
  <2> QED BY <1>11, <2>1, <2>2
<1>13. late' \in [Buckets -> [0 .. MaxTime -> Nat]]
  <2>1. late' = [late EXCEPT ![b] = Grown(late[b], b, limit, now - t)]
    BY DEF TakeToken, Record
  <2>2. now - t \in Nat
    BY <1>1
  <2>3. Grown(late[b], b, limit, now - t) \in [0 .. MaxTime -> Nat]
    BY <1>10, <1>11, <2>2
  <2> QED BY <1>11, <2>1, <2>3
<1> QED BY <1>6, <1>7, <1>8, <1>9, <1>12, <1>13

LEMMA NextTyped == Typed /\ [Next]_vars => Typed'
<1> SUFFICES ASSUME Typed, [Next]_vars PROVE Typed'
  OBVIOUS
<1> USE LimiterAssumption
<1>1. /\ at \in [Requests -> Stages] /\ left \in [Requests -> Seq(Buckets)]
      /\ using \in [Requests -> Configs \cup {NoConfig}]
      /\ stamp \in [Requests -> 0 .. MaxTime]
      /\ limitStatistics \in [total: Nat, allowed: Nat, rejected: Nat]
      /\ globalLimiter \in Configs \cup {NoConfig} /\ userLimiter \in Configs \cup {NoConfig}
      /\ rateLimiterConfig \in Configs /\ now \in 0 .. MaxTime
  BY DEF Typed, TypeOK, Stages
<1>2. ASSUME NEW entry \in {"total", "allowed", "rejected"}, Count(entry)
      PROVE  limitStatistics' \in [total: Nat, allowed: Nat, rejected: Nat]
  <2>1. limitStatistics' = [limitStatistics EXCEPT ![entry] = limitStatistics[entry] + 1]
    BY <1>2 DEF Count
  <2>0. /\ limitStatistics["total"] \in Nat /\ limitStatistics["allowed"] \in Nat
        /\ limitStatistics["rejected"] \in Nat
    BY <1>1
  <2>5. limitStatistics[entry] + 1 \in Nat
    BY <2>0
  <2>2. CASE entry = "total"
    BY <1>1, <2>1, <2>2, <2>5
  <2>3. CASE entry = "allowed"
    BY <1>1, <2>1, <2>3, <2>5
  <2>4. CASE entry = "rejected"
    BY <1>1, <2>1, <2>4, <2>5
  <2> QED BY <2>2, <2>3, <2>4
<1>3. ASSUME NEW r \in Requests, Enter(r) PROVE Typed'
  <2>1. CASE Goto(r, "passed") /\ UNCHANGED <<limitStatistics, left>>
    BY <1>1, <1>3, <2>1 DEF Typed, TypeOK, Way, Past, Wants, OnTheWay, Enter, Goto, bucketVars,
         limiterVars, adminVars, Stages
  <2>2. CASE /\ Goto(r, "clock") /\ Count("total") /\ globalLimiter # NoConfig
             /\ left' = [left EXCEPT ![r] = Path(r)]
    <3>1. Path(r) \in Seq(Buckets)
      <4>1. <<GlobalApi>> \in Seq(Buckets)
        BY DEF Buckets
      <4>2. UserOf[r] \in Users => <<GlobalApi, UserApi, UserOf[r]>> \in Seq(Buckets)
        BY DEF Buckets
      <4> QED BY <4>1, <4>2 DEF Path
    <3>2. TypeOK'
      BY <1>1, <1>2, <1>3, <2>2, <3>1 DEF Typed, TypeOK, Enter, Goto, bucketVars, limiterVars,
           adminVars, Stages
    <3>3. Head(Path(r)) = GlobalApi
      BY DEF Path
    <3>4. at' = [at EXCEPT ![r] = "clock"] /\ using' = using /\ globalLimiter' = globalLimiter
      BY <1>3, <2>2 DEF Enter, Goto, limiterVars
    <3>5. OnTheWay(r)'
      BY <1>1, <2>2, <3>3, <3>4 DEF OnTheWay, Path
    <3>6. Way'
      BY <1>1, <2>2, <3>4, <3>5 DEF Typed, Way, OnTheWay
    <3>7. Past' /\ Wants'
      BY <1>3 DEF Typed, Past, Wants, Enter, adminVars
    <3> QED BY <3>2, <3>6, <3>7 DEF Typed
  <2> QED BY <1>3, <2>1, <2>2 DEF Enter
<1>4. ASSUME NEW r \in Requests, ReadClock(r) PROVE Typed'
  <2>1. at[r] = "clock" /\ OnTheWay(r)
    BY <1>4 DEF ReadClock, Typed, Way
  <2>2. CASE Goto(r, "allow") /\ UNCHANGED <<stamp, using>>
    <3>1. TypeOK'
      BY <1>1, <1>4, <2>2 DEF Typed, TypeOK, ReadClock, Goto, bucketVars, limiterVars,
           adminVars, Stages
    <3>2. /\ left' = left /\ globalLimiter' = globalLimiter /\ now' = now
          /\ at' = [at EXCEPT ![r] = "allow"] /\ stamp' = stamp /\ using' = using
      BY <1>4, <2>2 DEF ReadClock, Goto, limiterVars
    <3>3. Way' /\ Past'
      BY <1>1, <3>2 DEF Typed, Way, Past, OnTheWay
    <3>4. Wants'
      BY <1>4 DEF Typed, Wants, ReadClock, adminVars
    <3> QED BY <3>1, <3>3, <3>4 DEF Typed
  <2>3. CASE /\ Head(left[r]) # UserApi \/ userLimiter # NoConfig
             /\ at' = [at EXCEPT ![r] = "eval"]
             /\ stamp' = [stamp EXCEPT ![r] = now]
             /\ using' = [using EXCEPT ![r] = CASE Head(left[r]) = GlobalApi -> globalLimiter
                                                [] Head(left[r]) = UserApi -> userLimiter
                                                [] OTHER -> using[r]]
    <3>1. Head(left[r]) \in {GlobalApi, UserApi} \cup Users
      BY <2>1 DEF OnTheWay
    <3>2. using'[r] \in Configs
      <4>1. CASE Head(left[r]) = GlobalApi
        BY <1>1, <2>1, <2>3, <4>1 DEF OnTheWay
      <4>2. CASE Head(left[r]) = UserApi
        BY <1>1, <2>1, <2>3, <4>2 DEF OnTheWay
      <4>3. CASE Head(left[r]) \in Users
        BY <1>1, <2>1, <2>3, <4>3 DEF OnTheWay
      <4> QED BY <3>1, <4>1, <4>2, <4>3
    <3>3. /\ using' \in [Requests -> Configs \cup {NoConfig}]
          /\ \A q \in Requests : q # r => using'[q] = using[q]
      BY <1>1, <2>3, <3>2
    <3>4. TypeOK'
      BY <1>1, <1>4, <2>3, <3>3 DEF Typed, TypeOK, ReadClock, bucketVars, limiterVars,
           adminVars, Stages
    <3>5. left' = left /\ globalLimiter' = globalLimiter /\ now' = now
      BY <1>4 DEF ReadClock, limiterVars
    <3>6. OnTheWay(r)'
      BY <1>1, <2>1, <2>3, <3>2, <3>5 DEF OnTheWay
    <3>7. Way'
      BY <1>1, <2>3, <3>3, <3>5, <3>6 DEF Typed, Way, OnTheWay
    <3>8. Past'
      BY <1>1, <2>3, <3>5 DEF Typed, Past
    <3>9. Wants'
      BY <1>4 DEF Typed, Wants, ReadClock, adminVars
    <3> QED BY <3>4, <3>7, <3>8, <3>9 DEF Typed
  <2> QED BY <1>4, <2>2, <2>3 DEF ReadClock, Goto
<1>5. ASSUME NEW r \in Requests, Eval(r) PROVE Typed'
  <2>1. at[r] = "eval" /\ OnTheWay(r) /\ stamp[r] \in 0 .. now
    BY <1>1, <1>5 DEF Eval, Typed, Way, Past
  <2>2. /\ now' = now /\ stamp' = stamp /\ using' = using /\ limitStatistics' = limitStatistics
        /\ UNCHANGED <<limiterVars, adminVars, carried>>
    BY <1>5 DEF Eval
  <2>3. /\ tokens' \in [Buckets -> 0 .. MaxBurst] /\ ts' \in [Buckets -> 0 .. MaxTime]
        /\ expires' \in [Buckets -> Nat \cup {-1}]
        /\ setting' \in [Buckets -> Limits]
        /\ granted' \in [Buckets -> [0 .. MaxTime -> Nat]]
        /\ late' \in [Buckets -> [0 .. MaxTime -> Nat]]
    <3>1. CASE TakeToken(Head(left[r]), LimitsOf(r), stamp[r])
      BY <2>1, <3>1, LimitType, TakeTokenType
    <3>2. CASE UNCHANGED bucketVars
      BY <3>2 DEF bucketVars, Typed, TypeOK
    <3> QED BY <1>5, <3>1, <3>2 DEF Eval
  <2>4. Past' /\ Wants'
    BY <2>2 DEF Typed, Past, Wants, adminVars
  <2>5. CASE left' = left /\ at' = [at EXCEPT ![r] = "reject"]
    <3>1. TypeOK'
      BY <1>1, <2>2, <2>3, <2>5 DEF Typed, TypeOK, limiterVars, adminVars, Stages
    <3>2. Way'
      BY <1>1, <2>2, <2>5 DEF Typed, Way, OnTheWay, limiterVars
    <3> QED BY <2>4, <3>1, <3>2 DEF Typed
  <2>6. CASE /\ left' = [left EXCEPT ![r] = Tail(left[r])]
             /\ at' = [at EXCEPT ![r] = IF Tail(left[r]) = <<>> THEN "allow" ELSE "clock"]
    <3> DEFINE u == UserOf[r]
    <3>0. \/ left[r] = <<GlobalApi>> /\ Tail(left[r]) = <<>>
          \/ u \in Users /\ left[r] = <<GlobalApi, UserApi, u>> /\ Tail(left[r]) = <<UserApi, u>>
          \/ u \in Users /\ left[r] = <<UserApi, u>> /\ Tail(left[r]) = <<u>>
          \/ u \in Users /\ left[r] = <<u>> /\ Tail(left[r]) = <<>>
      <4>1. \/ left[r] = <<GlobalApi>>
            \/ u \in Users /\ left[r] = <<GlobalApi, UserApi, u>>
            \/ u \in Users /\ left[r] = <<UserApi, u>>
            \/ u \in Users /\ left[r] = <<u>>
        BY <2>1 DEF OnTheWay
      <4>2. CASE left[r] = <<GlobalApi>>
        BY <4>2
      <4>3. CASE u \in Users /\ left[r] = <<GlobalApi, UserApi, u>>
        BY <4>3
      <4>4. CASE u \in Users /\ left[r] = <<UserApi, u>>
        BY <4>4
      <4>5. CASE u \in Users /\ left[r] = <<u>>
        BY <4>5
      <4> QED BY <4>1, <4>2, <4>3, <4>4, <4>5
    <3>1. Tail(left[r]) \in Seq(Buckets)
      <4>1. <<>> \in Seq(Buckets)
        OBVIOUS
      <4>2. u \in Users => <<UserApi, u>> \in Seq(Buckets) /\ <<u>> \in Seq(Buckets)
        BY DEF Buckets
      <4> HIDE DEF u
      <4> QED BY <3>0, <4>1, <4>2
    <3>2. TypeOK'
      BY <1>1, <2>2, <2>3, <2>6, <3>1 DEF Typed, TypeOK, limiterVars, adminVars, Stages
    <3>3. /\ \A q \in Requests : q # r => left'[q] = left[q] /\ at'[q] = at[q]
          /\ left'[r] = Tail(left[r])
          /\ at'[r] = IF Tail(left[r]) = <<>> THEN "allow" ELSE "clock"
          /\ globalLimiter' = globalLimiter
      BY <1>1, <2>2, <2>6 DEF limiterVars
    <3>4. ASSUME at'[r] \in {"clock", "eval"} PROVE OnTheWay(r)'
      <4>1. Tail(left[r]) # <<>>
        BY <3>3, <3>4
      <4>2. /\ u \in Users
            /\ \/ left[r] = <<GlobalApi, UserApi, u>> /\ Tail(left[r]) = <<UserApi, u>>
               \/ left[r] = <<UserApi, u>> /\ Tail(left[r]) = <<u>>
        BY <3>0, <4>1
      <4>3. left'[r] \in {<<UserApi, u>>, <<u>>} /\ u # NoUser /\ Head(left'[r]) # GlobalApi
        <5>1. CASE left'[r] = <<UserApi, u>>
          BY <4>2, <5>1
        <5>2. CASE left'[r] = <<u>>
          BY <4>2, <5>2
        <5> QED BY <3>3, <4>2, <5>1, <5>2
      <4>4. using'[r] \in Configs
        BY <2>1, <2>2 DEF OnTheWay
      <4> QED BY <4>3, <4>4 DEF OnTheWay
    <3>5. Way'
      <4> SUFFICES ASSUME NEW q \in Requests, at'[q] \in {"clock", "eval"} PROVE OnTheWay(q)'
        BY DEF Way
      <4>1. CASE q = r
        BY <3>4, <4>1
      <4>2. CASE q # r
        BY <2>2, <3>3, <4>2 DEF Typed, Way, OnTheWay
      <4> QED BY <4>1, <4>2
    <3> QED BY <2>4, <3>2, <3>5 DEF Typed
  <2> QED BY <1>5, <2>5, <2>6 DEF Eval, Goto
<1>6. ASSUME NEW r \in Requests, Verdict(r) PROVE Typed'
  <2>1. limitStatistics' \in [total: Nat, allowed: Nat, rejected: Nat]
    BY <1>2, <1>6 DEF Verdict
  <2>2. /\ at' = [at EXCEPT ![r] = "passed"] \/ at' = [at EXCEPT ![r] = "refused"]
        /\ left' = [left EXCEPT ![r] = <<>>]
        /\ stamp' = [stamp EXCEPT ![r] = 0]
        /\ using' = [using EXCEPT ![r] = NoConfig]
        /\ UNCHANGED <<now, bucketVars, limiterVars, adminVars, carried>>
    BY <1>6 DEF Verdict, Goto
  <2>3. /\ left' \in [Requests -> Seq(Buckets)] /\ stamp' \in [Requests -> 0 .. MaxTime]
        /\ using' \in [Requests -> Configs \cup {NoConfig}] /\ at' \in [Requests -> Stages]
    <3>1. <<>> \in Seq(Buckets) /\ 0 \in 0 .. MaxTime
      OBVIOUS
    <3> QED BY <1>1, <2>2, <3>1 DEF Stages
  <2>4. TypeOK'
    BY <2>1, <2>2, <2>3 DEF Typed, TypeOK, bucketVars, limiterVars, adminVars, Stages
  <2>5. Way'
    <3> SUFFICES ASSUME NEW q \in Requests, at'[q] \in {"clock", "eval"} PROVE OnTheWay(q)'
      BY DEF Way
    <3>1. q # r
      BY <1>1, <2>2
    <3>2. at'[q] = at[q] /\ left'[q] = left[q] /\ using'[q] = using[q]
      BY <1>1, <2>2, <3>1
    <3> QED BY <2>2, <3>2 DEF Typed, Way, OnTheWay, limiterVars
  <2>6. Past' /\ Wants'
    BY <1>1, <2>2 DEF Typed, Past, Wants, adminVars
  <2> QED BY <2>4, <2>5, <2>6 DEF Typed
<1>7. ASSUME NEW a \in Admins, SetConfig(a) PROVE Typed'
  <2>1. TypeOK'
    BY <1>1, <1>7 DEF Typed, TypeOK, Wants, SetConfig, bucketVars, requestVars
  <2>2. UNCHANGED <<requestVars, now, globalLimiter>>
    BY <1>7 DEF SetConfig
  <2>3. Way' /\ Past'
    BY <2>2 DEF Typed, Way, Past, OnTheWay, requestVars
  <2>4. PICK c \in Configs : wanted' = [wanted EXCEPT ![a] = c]
    BY <1>7 DEF SetConfig
  <2>5. admin' = [admin EXCEPT ![a] = "enable"]
    BY <1>7 DEF SetConfig
  <2>6. Wants'
    BY <1>1, <2>4, <2>5 DEF Typed, Wants, TypeOK
  <2> QED BY <2>1, <2>3, <2>6 DEF Typed
<1>8. ASSUME NEW a \in Admins, SetEnabled(a) PROVE Typed'
  <2>1. wanted[a].enabled \in BOOLEAN
    BY <1>8 DEF SetEnabled, Typed, Wants
  <2> QED BY <1>1, <1>8, <2>1 DEF Typed, TypeOK, Way, Past, Wants, OnTheWay, SetEnabled,
              bucketVars, requestVars
<1>9. ASSUME NEW a \in Admins, CheckEnabled(a) PROVE Typed'
  BY <1>1, <1>9 DEF Typed, TypeOK, Way, Past, Wants, OnTheWay, CheckEnabled, bucketVars,
       requestVars, limiterVars
<1>10. ASSUME NEW a \in Admins, ResetGlobal(a) PROVE Typed'
  BY <1>1, <1>10 DEF Typed, TypeOK, Way, Past, Wants, OnTheWay, ResetGlobal, bucketVars,
       requestVars
<1>11. ASSUME NEW a \in Admins, ResetUser(a) PROVE Typed'
  BY <1>1, <1>11 DEF Typed, TypeOK, Way, Past, Wants, OnTheWay, ResetUser, bucketVars,
       requestVars
<1>12. ASSUME NEW a \in Admins, ResetStatistics(a) PROVE Typed'
  <2>1. carried' \in Nat
    BY <1>12, FS_Subset, FS_CardinalityType DEF ResetStatistics, InFlight
  <2>2. limitStatistics' \in [total: Nat, allowed: Nat, rejected: Nat]
    BY <1>12 DEF ResetStatistics, Zero
  <2> QED BY <1>1, <1>12, <2>1, <2>2 DEF Typed, TypeOK, Way, Past, Wants, OnTheWay,
              ResetStatistics, bucketVars, requestVars, limiterVars
<1>13. CASE Tick
  <2>1. now' \in 0 .. MaxTime /\ now' = now + 1
    BY <1>1, <1>13 DEF Tick
  <2>2. UNCHANGED <<bucketVars, limiterVars, limitStatistics, requestVars, adminVars, carried>>
    BY <1>13 DEF Tick
  <2>3. TypeOK'
    BY <2>1, <2>2 DEF Typed, TypeOK, bucketVars, limiterVars, requestVars, adminVars
  <2>4. Way' /\ Wants'
    BY <2>2 DEF Typed, Way, Wants, OnTheWay, limiterVars, requestVars, adminVars
  <2>5. Past'
    BY <1>1, <2>1, <2>2 DEF Typed, Past, requestVars
  <2> QED BY <2>3, <2>4, <2>5 DEF Typed
<1>14. ASSUME NEW a \in Admins, ResetFails(a) PROVE Typed'
  BY <1>1, <1>14 DEF Typed, TypeOK, Way, Past, Wants, OnTheWay, ResetFails, bucketVars,
       requestVars, limiterVars
<1>15. CASE UNCHANGED vars
  BY <1>15 DEF Typed, TypeOK, Way, Past, Wants, OnTheWay, vars, bucketVars, requestVars,
       limiterVars, adminVars
<1> QED BY <1>3, <1>4, <1>5, <1>6, <1>7, <1>8, <1>9, <1>10, <1>11, <1>12, <1>13, <1>14,
           <1>15 DEF Next

(* Every variable keeps its type: a bucket never holds more than a burst and never
   owes a token, and every request that asks a limiter finds one. *)
THEOREM LimiterTypeOK == Spec => []TypeOK
<1>1. Typed => TypeOK
  BY DEF Typed
<1> QED BY InitTyped, NextTyped, <1>1, PTL DEF Spec

-----------------------------------------------------------------------------
(* The rate *)

\* What a bucket has granted by its limits since second s and still holds was in it
\* then or has flowed in until its own time.
Window(b, s) ==
  granted[b][s] > 0 =>
    /\ s <= now /\ s <= ts[b] + late[b][s]
    /\ granted[b][s] + tokens[b]
         <= setting[b].burst + Refill(setting[b]) * (ts[b] - s + late[b][s])

\* The keys of a bucket outlive its time by Period.
Filled(b) ==
  /\ ts[b] <= now
  /\ expires[b] = -1 => \A s \in 0 .. MaxTime : granted[b][s] = 0
  /\ expires[b] # -1 => ts[b] + Period <= expires[b]
  /\ \A s \in 0 .. MaxTime : Window(b, s)

Metered == Typed /\ \A b \in Buckets : Filled(b)

LEMMA InitMetered == Init => Metered
<1> SUFFICES ASSUME Init PROVE Metered
  OBVIOUS
<1>1. ASSUME NEW b \in Buckets PROVE Filled(b)
  BY LimiterAssumption DEF Init, Filled, Window
<1> QED BY <1>1, InitTyped DEF Metered

(* A token taken by a request that has read the time t leaves the bucket filled. *)
LEMMA TakeTokenFills ==
  ASSUME Metered, NEW b \in Buckets, NEW limit \in Limits, NEW t \in 0 .. now,
         TakeToken(b, limit, t), now' = now, NEW c \in Buckets
  PROVE  Filled(c)'
<1> USE LimiterAssumption
<1>1. /\ now \in Nat /\ t \in Nat /\ t <= now
      /\ tokens[b] \in Nat /\ ts[b] \in Nat
      /\ expires[b] \in Nat \cup {-1} /\ ts[b] <= now
  BY DEF Metered, Typed, TypeOK, Filled
<1>2. /\ limit.burst \in Nat /\ limit.rate \in Nat /\ Refill(limit) \in Nat
      /\ limit.rate <= Refill(limit) /\ limit.burst <= Refill(limit) * Period
  BY RefillType
<1>4. PICK gone \in KeysGone(b) :
        /\ NewTokens(b, limit, t, gone) >= 1
        /\ tokens' = [tokens EXCEPT ![b] = NewTokens(b, limit, t, gone) - 1]
  BY DEF TakeToken
<1>5. /\ tokens \in [Buckets -> 0 .. MaxBurst] /\ ts \in [Buckets -> 0 .. MaxTime]
      /\ expires \in [Buckets -> Nat \cup {-1}] /\ setting \in [Buckets -> Limits]
      /\ granted \in [Buckets -> [0 .. MaxTime -> Nat]]
      /\ late \in [Buckets -> [0 .. MaxTime -> Nat]]
  BY DEF Metered, Typed, TypeOK
<1>6. CASE c # b
  BY <1>4, <1>5, <1>6 DEF Metered, Filled, Window, TakeToken, Record
<1>7. CASE c = b
  <2> DEFINE n == NewTokens(b, limit, t, gone)
             R == Refill(limit)
  <2>1. /\ tokens'[b] = n - 1 /\ ts'[b] = t /\ expires'[b] = now + Period
        /\ setting'[b] = limit
    BY <1>4, <1>5 DEF TakeToken, Record
  <2>2. /\ granted'[b] = Grown(granted[b], b, limit, 1)
        /\ late'[b] = Grown(late[b], b, limit, now - t)
    BY <1>5 DEF TakeToken, Record
  <2>3. n \in Nat /\ n <= limit.burst
    <3>1. tokens[b] + Elapsed(ts[b], t) * limit.rate \in Nat
      <4>1. Elapsed(ts[b], t) \in Nat
        BY <1>1 DEF Elapsed
      <4>2. Elapsed(ts[b], t) * limit.rate \in Nat
        BY <1>2, <4>1
      <4> QED BY <1>1, <4>2
    <3> QED BY <1>2, <3>1 DEF NewTokens, Least
  <2> HIDE DEF n, R
  <2>4. ASSUME NEW s \in 0 .. MaxTime PROVE Window(b, s)'
    <3> DEFINE g == granted[b][s]
               l == late[b][s]
    <3>1. g \in Nat /\ l \in Nat /\ s \in Nat
      <4>1. granted[b] \in [0 .. MaxTime -> Nat] /\ late[b] \in [0 .. MaxTime -> Nat]
        BY <1>5
      <4>2. granted[b][s] \in Nat /\ late[b][s] \in Nat
        BY <4>1
      <4> QED BY <4>2
    <3>2. /\ granted'[b][s] = (IF limit = setting[b] THEN g ELSE 0) + (IF s <= now THEN 1 ELSE 0)
          /\ late'[b][s] = (IF limit = setting[b] THEN l ELSE 0)
                              + (IF s <= now THEN now - t ELSE 0)
      BY <2>2 DEF Grown
    <3> HIDE DEF g, l
    <3>3. CASE s > now
      <4>1. g = 0
        BY <1>1, <3>1, <3>3 DEF Metered, Filled, Window, g
      <4>2. granted'[b][s] = 0
        BY <1>1, <3>1, <3>2, <3>3, <4>1
      <4> QED BY <4>2 DEF Window
    <3>4. CASE s <= now /\ (limit # setting[b] \/ g = 0)
      <4>1. granted'[b][s] = 1 /\ late'[b][s] \in Nat /\ now - t <= late'[b][s]
        BY <1>1, <3>1, <3>2, <3>4
      <4>2. t - s + late'[b][s] \in Nat
        BY <1>1, <3>1, <3>4, <4>1
      <4>3. R * (t - s + late'[b][s]) \in Nat
        BY <1>2, <4>2 DEF R
      <4>4. 1 + (n - 1) <= limit.burst + R * (t - s + late'[b][s])
        BY <1>2, <2>3, <4>3
      <4>5. s <= t + late'[b][s]
        BY <1>1, <3>1, <4>1, <4>2
      <4> QED BY <2>1, <3>4, <4>1, <4>4, <4>5 DEF Window, Refill, R, Period
    <3>5. CASE s <= now /\ limit = setting[b] /\ g > 0
      <4> DEFINE A == ts[b] - s + l
                 Z == now - s + l
      <4>1. /\ s <= ts[b] + l
            /\ g + tokens[b] <= limit.burst + R * A
        BY <3>5 DEF Metered, Filled, Window, g, l, R
      <4>2. A \in Nat /\ Z \in Nat /\ A <= Z
        BY <1>1, <3>1, <3>5, <4>1
      <4>3. R \in Nat /\ R * A \in Nat /\ R * Z \in Nat
        BY <1>2, <4>2 DEF R
      <4>4. g + n <= limit.burst + R * Z
        <5>1. CASE gone
          <6>1. n = limit.burst
            BY <5>1 DEF NewTokens, n
          <6>2. ts[b] + Period <= now
            <7>1. expires[b] # -1
              BY <3>1, <3>5 DEF Metered, Filled, g
            <7>2. ts[b] + Period <= expires[b]
              BY <7>1 DEF Metered, Filled
            <7>3. expires[b] <= now
              BY <1>1, <1>4, <5>1, <7>1 DEF KeysGone
            <7> QED BY <1>1, <7>2, <7>3 DEF Period
          <6>3. A + Period \in Nat /\ A + Period <= Z
            BY <1>1, <3>1, <4>2, <6>2 DEF Period
          <6> HIDE DEF A, Z
          <6>4. R * (A + Period) <= R * Z
            BY <4>2, <4>3, <6>3, LargerFactor
          <6>5. R * (A + Period) = R * A + R * Period
            BY <4>2, <4>3 DEF Period
          <6>6. R * Period \in Nat /\ limit.burst <= R * Period
            BY <1>2, <4>3 DEF R, Period
          <6> QED BY <1>1, <1>2, <3>1, <4>1, <4>3, <6>1, <6>4, <6>5, <6>6
        <5>2. CASE ~gone
          <6> DEFINE e == Elapsed(ts[b], t)
          <6>1. e \in Nat /\ ts[b] + e <= now
            BY <1>1 DEF Elapsed
          <6>2. A + e \in Nat /\ A + e <= Z
            BY <1>1, <3>1, <4>2, <6>1
          <6>3. n = Least(limit.burst, tokens[b] + e * limit.rate)
            BY <5>2 DEF NewTokens, n
          <6> HIDE DEF A, Z, e
          <6>4. e * limit.rate \in Nat /\ e * limit.rate <= e * R /\ e * R \in Nat
            BY <1>2, <4>3, <6>1, LargerFactor DEF R
          <6>5. n <= tokens[b] + e * limit.rate
            BY <1>1, <1>2, <6>3, <6>4 DEF Least
          <6>6. R * (A + e) <= R * Z
            BY <4>2, <4>3, <6>2, LargerFactor
          <6>7. R * (A + e) = R * A + e * R
            BY <4>2, <4>3, <6>1
          <6> QED BY <1>1, <1>2, <2>3, <3>1, <4>1, <4>3, <6>4, <6>5, <6>6, <6>7
        <5>3. gone \in BOOLEAN
          BY <1>4 DEF KeysGone
        <5> QED BY <5>1, <5>2, <5>3
      <4>5. granted'[b][s] = g + 1 /\ late'[b][s] = l + (now - t)
        BY <1>1, <3>1, <3>2, <3>5
      <4>6. t - s + late'[b][s] = Z /\ s <= t + late'[b][s]
        BY <1>1, <3>1, <3>5, <4>2, <4>5
      <4>7. granted'[b][s] + tokens'[b] = g + n
        BY <2>1, <2>3, <3>1, <4>5
      <4> HIDE DEF A, Z
      <4>8. granted'[b][s] + tokens'[b]
              <= setting'[b].burst + Refill(setting'[b]) * (ts'[b] - s + late'[b][s])
        BY <2>1, <4>4, <4>6, <4>7 DEF R
      <4> QED BY <2>1, <3>5, <4>6, <4>8 DEF Window, Refill, Period
    <3> QED BY <1>1, <3>1, <3>3, <3>4, <3>5
  <2>5. ts'[b] <= now' /\ expires'[b] # -1 /\ ts'[b] + Period <= expires'[b]
    BY <1>1, <2>1 DEF Period
  <2> QED BY <1>7, <2>4, <2>5 DEF Filled, Period
<1> QED BY <1>6, <1>7

LEMMA NextMetered == Metered /\ [Next]_vars => Metered'
<1> SUFFICES ASSUME Metered, [Next]_vars PROVE Metered'
  OBVIOUS
<1>1. Typed'
  BY NextTyped DEF Metered
<1>2. ASSUME UNCHANGED bucketVars, now' >= now, NEW b \in Buckets PROVE Filled(b)'
  <2>1. now \in Nat /\ now' \in Nat /\ ts[b] \in Nat
    BY <1>1, LimiterAssumption DEF Metered, Typed, TypeOK
  <2> QED BY <1>2, <2>1 DEF Metered, Filled, Window, bucketVars, Refill
<1>3. now \in Nat
  BY DEF Metered, Typed, TypeOK
<1>4. ASSUME NEW r \in Requests, Eval(r), NEW b \in Buckets PROVE Filled(b)'
  <2>1. CASE TakeToken(Head(left[r]), LimitsOf(r), stamp[r])
    <3>1. at[r] = "eval" /\ now' = now
      BY <1>4 DEF Eval
    <3>2. stamp[r] \in 0 .. now
      BY <1>3 DEF Metered, Typed, TypeOK, Past
    <3> QED BY <2>1, <3>1, <3>2, LimitType, TakeTokenFills DEF Metered
  <2>2. CASE UNCHANGED bucketVars
    BY <1>2, <1>3, <1>4, <2>2 DEF Eval
  <2> QED BY <1>4, <2>1, <2>2 DEF Eval
<1>5. ASSUME NEW r \in Requests, Enter(r) \/ ReadClock(r) \/ Verdict(r), NEW b \in Buckets
      PROVE  Filled(b)'
  BY <1>2, <1>3, <1>5 DEF Enter, ReadClock, Verdict
<1>6. ASSUME NEW a \in Admins, NEW b \in Buckets,
             \/ SetConfig(a) \/ SetEnabled(a) \/ CheckEnabled(a)
             \/ ResetFails(a) \/ ResetGlobal(a) \/ ResetUser(a) \/ ResetStatistics(a)
      PROVE  Filled(b)'
  BY <1>2, <1>3, <1>6 DEF SetConfig, SetEnabled, CheckEnabled, ResetFails,
       ResetGlobal, ResetUser, ResetStatistics
<1>7. ASSUME Tick \/ UNCHANGED vars, NEW b \in Buckets PROVE Filled(b)'
  <2>1. UNCHANGED bucketVars /\ now' >= now
    BY <1>3, <1>7 DEF Tick, vars, bucketVars
  <2> QED BY <1>2, <2>1
<1>8. \A b \in Buckets : Filled(b)'
  BY <1>4, <1>5, <1>6, <1>7 DEF Next
<1> QED BY <1>1, <1>8 DEF Metered, Buckets

(* Over every span of time through which its limits stay the same, a token bucket
   grants no more than its own burst, and its own refill for each second of the span
   and each second that a request took from its clock to its script. *)
THEOREM GrantsWithinRate == Spec => []RateKept
<1>1. Metered => RateKept
  <2> SUFFICES ASSUME Metered, NEW b \in Buckets, NEW s \in 0 .. now
               PROVE  granted[b][s]
                        <= setting[b].burst + Refill(setting[b]) * (now - s + late[b][s])
    BY DEF RateKept
  <2> DEFINE R == Refill(setting[b])
             g == granted[b][s]
             l == late[b][s]
  <2>0. now \in 0 .. MaxTime /\ MaxTime \in Nat
    BY LimiterAssumption DEF Metered, Typed, TypeOK
  <2>1. s \in 0 .. MaxTime /\ now \in Nat /\ s \in Nat /\ s <= now
    BY <2>0
  <2>2. /\ tokens[b] \in Nat /\ ts[b] \in Nat /\ g \in Nat /\ l \in Nat
        /\ setting[b] \in Limits
    BY <2>1, LimiterAssumption DEF Metered, Typed, TypeOK
  <2>3. setting[b].burst \in Nat /\ R \in Nat
    BY <2>2, RefillType
  <2>4. ts[b] <= now /\ Window(b, s)
    BY <2>1 DEF Metered, Filled
  <2> HIDE DEF R
  <2>5. R * (now - s + l) \in Nat
    <3>1. now - s + l \in Nat
      BY <2>1, <2>2
    <3> HIDE DEF l
    <3> QED BY <2>3, <3>1
  <2>6. CASE g > 0
    <3>1. /\ s <= ts[b] + l
          /\ g + tokens[b] <= setting[b].burst + R * (ts[b] - s + l)
      BY <2>4, <2>6 DEF Window, R
    <3> HIDE DEF g, l
    <3>2. ts[b] - s + l \in Nat /\ now - s + l \in Nat /\ ts[b] - s + l <= now - s + l
      BY <2>1, <2>2, <2>4, <3>1
    <3>3. /\ R * (ts[b] - s + l) <= R * (now - s + l)
          /\ R * (ts[b] - s + l) \in Nat /\ R * (now - s + l) \in Nat
      BY <2>3, <3>2, LargerFactor
    <3>4. g <= setting[b].burst + R * (now - s + l)
      BY <2>2, <2>3, <3>1, <3>3
    <3> QED BY <3>4 DEF g, l, R
  <2>7. CASE g = 0
    <3>1. g <= setting[b].burst + R * (now - s + l)
      BY <2>3, <2>5, <2>7
    <3> QED BY <3>1 DEF R
  <2> QED BY <2>2, <2>6, <2>7
<1> QED BY InitMetered, NextMetered, <1>1, PTL DEF Spec

-----------------------------------------------------------------------------
(* The statistics *)

Accounted == Typed /\ StatisticsAddUp

LEMMA InitAccounted == Init => Accounted
<1> SUFFICES ASSUME Init PROVE Accounted
  OBVIOUS
<1>1. InFlight = {}
  BY DEF Init, InFlight
<1>2. Cardinality(InFlight) = 0
  BY <1>1, FS_EmptySet
<1>3. StatisticsAddUp
  BY <1>2 DEF Init, Zero, StatisticsAddUp
<1> QED BY <1>3, InitTyped DEF Accounted

LEMMA NextAccounted == Accounted /\ [Next]_vars => Accounted'
<1> SUFFICES ASSUME Accounted, [Next]_vars PROVE Accounted'
  OBVIOUS
<1>1. Typed'
  BY NextTyped DEF Accounted
<1>2. at \in [Requests -> Stages]
  BY DEF Accounted, Typed, TypeOK, Stages
<1>3. IsFiniteSet(InFlight) /\ Cardinality(InFlight) \in Nat
  BY FS_Subset, FS_CardinalityType, LimiterAssumption DEF InFlight
<1>4. /\ limitStatistics \in [total: Nat, allowed: Nat, rejected: Nat] /\ carried \in Nat
      /\ limitStatistics.total + carried
            = limitStatistics.allowed + limitStatistics.rejected + Cardinality(InFlight)
  BY DEF Accounted, Typed, TypeOK, StatisticsAddUp
<1>5. ASSUME limitStatistics' = limitStatistics, carried' = carried, InFlight' = InFlight
      PROVE  StatisticsAddUp'
  BY <1>4, <1>5 DEF StatisticsAddUp
<1>6. ASSUME NEW r \in Requests, Enter(r) PROVE StatisticsAddUp'
  <2>1. at[r] = "new" /\ carried' = carried
    BY <1>6 DEF Enter
  <2>2. CASE Goto(r, "passed") /\ UNCHANGED <<limitStatistics, left>>
    <3>1. InFlight' = InFlight
      BY <1>2, <2>1, <2>2 DEF InFlight, Goto
    <3> QED BY <1>5, <2>1, <2>2, <3>1
  <2>3. CASE Goto(r, "clock") /\ Count("total")
    <3>1. r \notin InFlight /\ InFlight' = InFlight \cup {r}
      BY <1>2, <2>1, <2>3 DEF InFlight, Goto
    <3>2. Cardinality(InFlight') = Cardinality(InFlight) + 1
      BY <1>3, <3>1, FS_AddElement
    <3>3. /\ limitStatistics'.total = limitStatistics.total + 1
          /\ limitStatistics'.allowed = limitStatistics.allowed
          /\ limitStatistics'.rejected = limitStatistics.rejected
      BY <1>4, <2>3 DEF Count
    <3> QED BY <1>3, <1>4, <2>1, <3>2, <3>3 DEF StatisticsAddUp
  <2> QED BY <1>6, <2>2, <2>3 DEF Enter
<1>7. ASSUME NEW r \in Requests, ReadClock(r) \/ Eval(r) PROVE StatisticsAddUp'
  <2>1. \E stage \in {"allow", "eval", "reject", "clock"} :
          /\ at[r] \in {"clock", "eval"}
          /\ at' = [at EXCEPT ![r] = stage]
    BY <1>7 DEF ReadClock, Eval, Goto
  <2>2. InFlight' = InFlight
    BY <1>2, <2>1 DEF InFlight
  <2> QED BY <1>5, <1>7, <2>2 DEF ReadClock, Eval
<1>8. ASSUME NEW r \in Requests, Verdict(r) PROVE StatisticsAddUp'
  <2>1. /\ at[r] \in {"allow", "reject"} /\ carried' = carried
        /\ at' = [at EXCEPT ![r] = "passed"] \/ at' = [at EXCEPT ![r] = "refused"]
    BY <1>8 DEF Verdict, Goto
  <2>2. r \in InFlight /\ InFlight' = InFlight \ {r}
    BY <1>2, <2>1 DEF InFlight
  <2>3. Cardinality(InFlight') = Cardinality(InFlight) - 1
    BY <1>3, <2>2, FS_RemoveElement
  <2>4. /\ limitStatistics'.total = limitStatistics.total
        /\ \/ /\ limitStatistics'.allowed = limitStatistics.allowed + 1
              /\ limitStatistics'.rejected = limitStatistics.rejected
           \/ /\ limitStatistics'.allowed = limitStatistics.allowed
              /\ limitStatistics'.rejected = limitStatistics.rejected + 1
    BY <1>4, <1>8 DEF Verdict, Count
  <2>5. CASE limitStatistics'.allowed = limitStatistics.allowed + 1
             /\ limitStatistics'.rejected = limitStatistics.rejected
    BY <1>3, <1>4, <2>1, <2>3, <2>4, <2>5 DEF StatisticsAddUp
  <2>6. CASE limitStatistics'.allowed = limitStatistics.allowed
             /\ limitStatistics'.rejected = limitStatistics.rejected + 1
    BY <1>3, <1>4, <2>1, <2>3, <2>4, <2>6 DEF StatisticsAddUp
  <2> QED BY <2>4, <2>5, <2>6
<1>9. ASSUME NEW a \in Admins, ResetStatistics(a) PROVE StatisticsAddUp'
  <2>1. InFlight' = InFlight
    BY <1>9 DEF ResetStatistics, requestVars, InFlight
  <2>2. limitStatistics' = Zero /\ carried' = Cardinality(InFlight)
    BY <1>9 DEF ResetStatistics
  <2> QED BY <1>3, <2>1, <2>2 DEF Zero, StatisticsAddUp
<1>10. ASSUME NEW a \in Admins,
              \/ SetConfig(a) \/ SetEnabled(a) \/ CheckEnabled(a)
              \/ ResetFails(a) \/ ResetGlobal(a) \/ ResetUser(a)
       PROVE  StatisticsAddUp'
  <2>1. at' = at /\ limitStatistics' = limitStatistics /\ carried' = carried
    BY <1>10 DEF SetConfig, SetEnabled, CheckEnabled, ResetFails, ResetGlobal,
         ResetUser, requestVars
  <2> QED BY <1>5, <2>1 DEF InFlight
<1>11. CASE Tick \/ UNCHANGED vars
  <2>1. at' = at /\ limitStatistics' = limitStatistics /\ carried' = carried
    BY <1>11 DEF Tick, vars, requestVars
  <2>2. StatisticsAddUp'
    BY <1>5, <2>1 DEF InFlight
  <2> QED BY <1>1, <2>2 DEF Accounted
<1> QED BY <1>1, <1>6, <1>7, <1>8, <1>9, <1>10, <1>11 DEF Next, Accounted

(* No request is lost from or counted twice in the statistics, whatever resets
   them in between. *)
THEOREM StatisticsAlwaysAddUp == Spec => []StatisticsAddUp
<1>1. Accounted => StatisticsAddUp
  BY DEF Accounted
<1> QED BY InitAccounted, NextAccounted, <1>1, PTL DEF Spec

-----------------------------------------------------------------------------
(* The configuration *)

\* While no two changes have overlapped there is one at most, and what it has done so
\* far shows where it stands.
Done(a) ==
  LET cfg == rateLimiterConfig IN
  /\ admin[a] = "enable" => wanted[a] = cfg
  /\ admin[a] \in {"check", "global", "user", "zero"} => rateLimitEnabled = cfg.enabled
  /\ admin[a] \in {"global", "user", "zero"} => rateLimitEnabled
  /\ admin[a] \in {"user", "zero"} => globalLimiter = cfg /\ ~noClient
  /\ admin[a] # "user" => globalLimiter = userLimiter

OneChange ==
  ~overlapped =>
    /\ \A a, b \in Changing : a = b
    /\ \A a \in Changing : Done(a)
    /\ Changing = {} =>
         /\ rateLimitEnabled = rateLimiterConfig.enabled
         /\ globalLimiter = userLimiter
         /\ rateLimitEnabled /\ ~noClient => globalLimiter = rateLimiterConfig

Configured == Typed /\ OneChange

LEMMA InitConfigured == Init => Configured
<1> SUFFICES ASSUME Init PROVE Configured
  OBVIOUS
<1>1. Changing = {}
  BY DEF Init, Changing
<1>2. OneChange
  BY <1>1 DEF Init, OneChange
<1> QED BY <1>2, InitTyped DEF Configured

LEMMA NextConfigured == Configured /\ [Next]_vars => Configured'
<1> SUFFICES ASSUME Configured, [Next]_vars PROVE Configured'
  OBVIOUS
<1>1. Typed'
  BY NextTyped DEF Configured
<1>2. /\ admin \in [Admins -> {"idle", "enable", "check", "global", "user", "zero", "done"}]
      /\ wanted \in [Admins -> Configs \cup {NoConfig}]
  BY DEF Configured, Typed, TypeOK
<1>3. ASSUME admin' = admin, wanted' = wanted, overlapped' = overlapped,
             noClient' = noClient, UNCHANGED limiterVars
      PROVE  OneChange'
  BY <1>3 DEF Configured, OneChange, Changing, Done, limiterVars
<1>4. ASSUME NEW r \in Requests, Enter(r) \/ ReadClock(r) \/ Eval(r) \/ Verdict(r)
      PROVE  OneChange'
  BY <1>3, <1>4 DEF Enter, ReadClock, Eval, Verdict, adminVars
<1>5. ASSUME NEW a \in Admins, SetConfig(a) PROVE OneChange'
  <2>1. admin[a] = "idle" /\ admin' = [admin EXCEPT ![a] = "enable"]
        /\ overlapped' = (overlapped \/ Changing # {})
    BY <1>5 DEF SetConfig
  <2>2. wanted'[a] = rateLimiterConfig'
    BY <1>2, <1>5 DEF SetConfig
  <2>3. CASE overlapped'
    BY <2>3 DEF OneChange
  <2>4. CASE ~overlapped'
    <3>1. Changing = {}
      BY <2>1, <2>4
    <3>2. Changing' = {a} /\ admin'[a] = "enable"
      BY <1>2, <2>1, <3>1 DEF Changing
    <3>3. globalLimiter' = userLimiter'
      BY <1>5, <2>1, <2>4, <3>1 DEF SetConfig, Configured, OneChange
    <3> QED BY <2>2, <3>2, <3>3 DEF OneChange, Done
  <2> QED BY <2>3, <2>4
<1>6. ASSUME NEW a \in Admins, NEW stage \in {"check", "global", "user", "zero"},
             a \in Changing, admin' = [admin EXCEPT ![a] = stage],
             overlapped' = overlapped, ~overlapped => Done(a)'
      PROVE  OneChange'
  <2>1. Changing' = Changing
    BY <1>2, <1>6 DEF Changing
  <2>2. ASSUME ~overlapped PROVE Changing = {a}
    BY <1>6, <2>2 DEF Configured, OneChange
  <2> QED BY <1>6, <2>1, <2>2 DEF OneChange
<1>7. ASSUME NEW a \in Admins, a \in Changing, admin' = [admin EXCEPT ![a] = "done"],
             overlapped' = overlapped,
             ~overlapped => /\ rateLimitEnabled' = rateLimiterConfig'.enabled
                            /\ globalLimiter' = userLimiter'
                            /\ rateLimitEnabled' /\ ~noClient' =>
                                 globalLimiter' = rateLimiterConfig'
      PROVE  OneChange'
  <2>1. Changing' = Changing \ {a}
    BY <1>2, <1>7 DEF Changing
  <2>2. ASSUME ~overlapped PROVE Changing' = {}
    BY <1>7, <2>1, <2>2 DEF Configured, OneChange
  <2> QED BY <1>7, <2>2 DEF OneChange
<1>8. ASSUME NEW a \in Admins, a \in Changing, ~overlapped PROVE Done(a)
  BY <1>8 DEF Configured, OneChange
<1>9. ASSUME NEW a \in Admins, SetEnabled(a) PROVE OneChange'
  <2>1. a \in Changing /\ admin' = [admin EXCEPT ![a] = "check"]
    BY <1>9 DEF SetEnabled, Changing
  <2>2. ~overlapped => Done(a)'
    BY <1>2, <1>8, <1>9, <2>1 DEF SetEnabled, Done
  <2> QED BY <1>6, <1>9, <2>1, <2>2 DEF SetEnabled
<1>10. ASSUME NEW a \in Admins, CheckEnabled(a) PROVE OneChange'
  <2>1. a \in Changing /\ admin[a] = "check"
    BY <1>10 DEF CheckEnabled, Changing
  <2>2. UNCHANGED <<limiterVars, wanted, overlapped, noClient>>
    BY <1>10 DEF CheckEnabled
  <2>3. CASE rateLimitEnabled
    <3>1. admin' = [admin EXCEPT ![a] = "global"]
      BY <1>10, <2>3 DEF CheckEnabled
    <3>2. ~overlapped => Done(a)'
      BY <1>2, <1>8, <2>1, <2>2, <2>3, <3>1 DEF Done, limiterVars
    <3> QED BY <1>6, <2>1, <2>2, <3>1, <3>2
  <2>4. CASE ~rateLimitEnabled
    <3>1. admin' = [admin EXCEPT ![a] = "done"]
      BY <1>10, <2>4 DEF CheckEnabled
    <3>2. ~overlapped => /\ rateLimitEnabled = rateLimiterConfig.enabled
                         /\ globalLimiter = userLimiter
      BY <1>8, <2>1 DEF Done
    <3> QED BY <1>7, <2>1, <2>2, <2>4, <3>1, <3>2 DEF limiterVars
  <2> QED BY <2>3, <2>4
<1>11. ASSUME NEW a \in Admins, ResetGlobal(a) PROVE OneChange'
  <2>1. a \in Changing /\ admin' = [admin EXCEPT ![a] = "user"]
    BY <1>11 DEF ResetGlobal, Changing
  <2>2. ~overlapped => Done(a)'
    BY <1>2, <1>8, <1>11, <2>1 DEF ResetGlobal, Done
  <2> QED BY <1>6, <1>11, <2>1, <2>2 DEF ResetGlobal
<1>12. ASSUME NEW a \in Admins, ResetUser(a) PROVE OneChange'
  <2>1. a \in Changing /\ admin' = [admin EXCEPT ![a] = "zero"]
    BY <1>12 DEF ResetUser, Changing
  <2>2. ~overlapped => Done(a)'
    BY <1>2, <1>8, <1>12, <2>1 DEF ResetUser, Done
  <2> QED BY <1>6, <1>12, <2>1, <2>2 DEF ResetUser
<1>13. ASSUME NEW a \in Admins, ResetStatistics(a) PROVE OneChange'
  <2>1. a \in Changing /\ admin' = [admin EXCEPT ![a] = "done"] /\ overlapped' = overlapped
        /\ UNCHANGED <<limiterVars, noClient>>
    BY <1>13 DEF ResetStatistics, Changing
  <2>2. ~overlapped => Done(a) /\ admin[a] = "zero"
    BY <1>8, <1>13, <2>1 DEF ResetStatistics
  <2>3. ~overlapped => /\ rateLimitEnabled' = rateLimiterConfig'.enabled
                       /\ globalLimiter' = rateLimiterConfig' /\ globalLimiter' = userLimiter'
    BY <2>1, <2>2 DEF Done, limiterVars
  <2> QED BY <1>7, <2>1, <2>3
<1>14. ASSUME NEW a \in Admins, ResetFails(a) PROVE OneChange'
  <2>1. a \in Changing /\ admin' = [admin EXCEPT ![a] = "done"] /\ overlapped' = overlapped
        /\ noClient' = TRUE /\ UNCHANGED limiterVars
    BY <1>14 DEF ResetFails, Changing
  <2>2. ~overlapped => Done(a) /\ admin[a] = "global"
    BY <1>8, <1>14, <2>1 DEF ResetFails
  <2>3. ~overlapped => /\ rateLimitEnabled' = rateLimiterConfig'.enabled
                       /\ globalLimiter' = userLimiter'
    BY <2>1, <2>2 DEF Done, limiterVars
  <2> QED BY <1>7, <2>1, <2>3
<1>15. CASE Tick \/ UNCHANGED vars
  <2>1. /\ admin' = admin /\ wanted' = wanted /\ overlapped' = overlapped
        /\ noClient' = noClient /\ UNCHANGED limiterVars
    BY <1>15 DEF Tick, vars, adminVars, limiterVars
  <2>2. OneChange'
    BY <1>3, <2>1
  <2> QED BY <1>1, <2>2 DEF Configured
<1> QED BY <1>1, <1>4, <1>5, <1>9, <1>10, <1>11, <1>12, <1>13, <1>14,
           <1>15 DEF Next, Configured

(* Between changes of the configuration that have not overlapped, both limiters come
   from one configuration: the one in force, or an older one (or none) when limiting is
   off or the last reset found no Redis client. *)
THEOREM LimitersFollowConfiguration == Spec => []ConfigInForce
<1>1. Configured => ConfigInForce
  BY DEF Configured, OneChange, ConfigInForce
<1> QED BY InitConfigured, NextConfigured, <1>1, PTL DEF Spec
=============================================================================
