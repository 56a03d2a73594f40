------------------------------ MODULE HotCache ------------------------------
(***************************************************************************)
(* cache/hot_cache.go over cache/distlock.go for one key of the cache: the  *)
(* reads of GetWithCache, the rounds of the refresher and the prewarming of *)
(* the start-up, each holding another lock, or none.  One action per round  *)
(* trip to Redis or to the source of the data.                              *)
(*                                                                         *)
(* The locks are those of redsync: a key that expires, set if absent to a   *)
(* value of its holder and deleted only while it has that value.            *)
(***************************************************************************)
EXTENDS Integers, FiniteSets

CONSTANTS
  Readers,      \* calls of GetWithCache
  Refreshers,   \* rounds of StartHotDataRefresher for this key
  Warmers,      \* goroutines of PrewarmCache for this key
  Free, Nothing,
  Tries,        \* WithTries: the attempts to lock
  MaxVersion,   \* bound: changes of the data
  MaxFaults,    \* bound: Redis commands and loads that fail
  MaxEvictions, \* bound: times the entry expires or is cleaned away
  MaxLosses     \* bound: times a lock does

Callers == Readers \cup Refreshers \cup Warmers

ASSUME HotCacheAssumption ==
  /\ Readers \cap Refreshers = {}
  /\ Readers \cap Warmers = {}
  /\ Refreshers \cap Warmers = {}
  /\ Free \notin Callers
  /\ IsFiniteSet(Readers)
  /\ Tries \in Nat \ {0}
  /\ MaxVersion \in Nat /\ MaxFaults \in Nat /\ MaxEvictions \in Nat /\ MaxLosses \in Nat
  /\ Nothing \notin Nat

VARIABLES
  version,    \* of the data at its source
  cached,     \* the version in the cache, or Nothing
  cacheLock,  \* cache_lock:key
  refreshLock,\* refresh_lock:key
  at,         \* what each caller does next
  tries,      \* the failed attempts to lock of each
  loaded,     \* the version each has loaded
  \* history, read by the properties alone
  loads,      \* loads of readers
  faults, evictions, losses,
  lost,       \* the callers whose lock went away before they released it
  writer      \* who wrote what is cached

lockVars == <<cacheLock, refreshLock>>
callVars == <<at, tries, loaded>>
historyVars == <<loads, faults, evictions, losses, lost>>
vars == <<version, cached, writer, lockVars, callVars, historyVars>>

TypeOK ==
  /\ version \in 0 .. MaxVersion
  /\ cached \in 0 .. MaxVersion \cup {Nothing}
  /\ cacheLock \in Readers \cup {Free}
  /\ refreshLock \in Refreshers \cup {Free}
  /\ at \in [Callers -> {"get", "lock", "check", "load", "store", "unlock", "done"}]
  /\ tries \in [Callers -> 0 .. Tries]
  /\ loaded \in [Callers -> 0 .. MaxVersion]
  /\ loads \in Nat /\ faults \in Nat /\ evictions \in Nat /\ losses \in Nat
  /\ lost \subseteq Callers
  /\ writer \in Callers \cup {Nothing}

Init ==
  /\ version = 0
  /\ cached = Nothing
  /\ cacheLock = Free
  /\ refreshLock = Free
  /\ at = [p \in Callers |-> CASE p \in Readers -> "get"
                              [] p \in Refreshers -> "lock"
                              [] OTHER -> "load"]
  /\ tries = [p \in Callers |-> 0]
  /\ loaded = [p \in Callers |-> 0]
  /\ loads = 0 /\ faults = 0 /\ evictions = 0 /\ losses = 0
  /\ lost = {}
  /\ writer = Nothing

Goto(p, stage) == at' = [at EXCEPT ![p] = stage]

Fault ==
  /\ faults < MaxFaults
  /\ faults' = faults + 1

\* GET answers with an entry, without one, or fails, which counts as no entry.
Lookup(p, found, missed) ==
  \/ cached # Nothing /\ Goto(p, found) /\ UNCHANGED faults
  \/ cached = Nothing /\ Goto(p, missed) /\ UNCHANGED faults
  \/ cached # Nothing /\ Goto(p, missed) /\ Fault

-----------------------------------------------------------------------------
(* The locks *)

LockOf(p) == IF p \in Readers THEN cacheLock ELSE refreshLock

SetLock(p, holder) ==
  IF p \in Readers THEN cacheLock' = holder /\ UNCHANGED refreshLock
                   ELSE refreshLock' = holder /\ UNCHANGED cacheLock

\* Mutant: one attempt too many.
AttemptsOnceMore(p) ==
  /\ tries' = [tries EXCEPT ![p] = @ + 1]
  /\ Goto(p, IF tries[p] = Tries THEN "done" ELSE "lock")

\* A failed attempt: again, or ErrFailed to the caller.
AttemptFails(p) ==
  /\ tries' = [tries EXCEPT ![p] = @ + 1]
  /\ Goto(p, IF tries[p] + 1 = Tries THEN "done" ELSE "lock")

\* The lock is taken; it is held by somebody or Redis fails; or it was set and the
\* answer lost, so that the key stands in everybody's way until it expires.
AcquireLock(p) ==
  /\ at[p] = "lock"
  /\ \/ /\ LockOf(p) = Free
        /\ SetLock(p, p)
        /\ Goto(p, IF p \in Readers THEN "check" ELSE "load")
        /\ UNCHANGED <<tries, faults>>
     \/ /\ LockOf(p) # Free
        /\ AttemptFails(p)
        /\ UNCHANGED <<lockVars, faults>>
     \/ /\ LockOf(p) = Free
        /\ SetLock(p, Free) \/ SetLock(p, p)
        /\ AttemptFails(p)
        /\ Fault
  /\ UNCHANGED <<version, cached, writer, loaded, loads, evictions, losses, lost>>

\* Mutant: DEL without a look at the value, as ReleaseLock of cache/redis.go does it.
ReleaseAny(p) ==
  /\ at[p] = "unlock"
  /\ \/ SetLock(p, Free) /\ UNCHANGED faults
     \/ UNCHANGED lockVars /\ Fault
  /\ Goto(p, "done")
  /\ UNCHANGED <<version, cached, writer, tries, loaded, loads, evictions, losses, lost>>

\* The deferred Unlock; its error is ignored.
ReleaseLock(p) ==
  /\ at[p] = "unlock"
  /\ \/ SetLock(p, IF LockOf(p) = p THEN Free ELSE LockOf(p)) /\ UNCHANGED faults
     \/ UNCHANGED lockVars /\ Fault
  /\ Goto(p, "done")
  /\ UNCHANGED <<version, cached, writer, tries, loaded, loads, evictions, losses, lost>>

\* Whether p believes that it holds its lock.
Holding(p) == p \notin Warmers /\ at[p] \in {"check", "load", "store", "unlock"}

\* A lock expires, under its holder or not, or CleanupRedisCache deletes it.
LoseLock ==
  /\ losses < MaxLosses
  /\ losses' = losses + 1
  /\ \E p \in Callers :
       /\ LockOf(p) = p
       /\ SetLock(p, Free)
       /\ lost' = IF Holding(p) THEN lost \cup {p} ELSE lost
  /\ UNCHANGED <<version, cached, writer, callVars, loads, faults, evictions>>

-----------------------------------------------------------------------------
(* GetWithCache, the refresher and PrewarmCache *)

Get(r) ==
  /\ at[r] = "get"
  /\ Lookup(r, "done", "lock")
  /\ UNCHANGED <<version, cached, writer, lockVars, tries, loaded,
                 loads, evictions, losses, lost>>

\* Mutant: whoever gets the lock loads.
CheckSkipped(r) ==
  /\ at[r] = "check"
  /\ Goto(r, "load")
  /\ UNCHANGED <<version, cached, writer, lockVars, tries, loaded, historyVars>>

\* The second look under the lock.
DoubleCheck(r) ==
  /\ at[r] = "check"
  /\ Lookup(r, "unlock", "load")
  /\ UNCHANGED <<version, cached, writer, lockVars, tries, loaded,
                 loads, evictions, losses, lost>>

\* Where a caller goes that has nothing more to do under its lock, if it has one.
Leave(p) == Goto(p, IF p \in Warmers THEN "done" ELSE "unlock")

\* Mutant: the lock is released before the entry is stored, the order of
\* GetWithCache in cache/redis.go.
LoadThenRelease(p) ==
  /\ at[p] = "load"
  /\ loads' = IF p \in Readers THEN loads + 1 ELSE loads
  /\ loaded' = [loaded EXCEPT ![p] = version]
  /\ Goto(p, "store")
  /\ SetLock(p, IF LockOf(p) = p THEN Free ELSE LockOf(p))
  /\ UNCHANGED <<version, cached, writer, tries, faults, evictions, losses, lost>>

\* The loader returns the data as they are, or an error.
Load(p) ==
  /\ at[p] = "load"
  /\ loads' = IF p \in Readers THEN loads + 1 ELSE loads
  /\ \/ /\ loaded' = [loaded EXCEPT ![p] = version]
        /\ Goto(p, "store")
        /\ UNCHANGED faults
     \/ /\ Leave(p)
        /\ Fault
        /\ UNCHANGED loaded
  /\ UNCHANGED <<version, cached, writer, lockVars, tries, evictions, losses, lost>>

\* The error of SET is ignored.
Store(p) ==
  /\ at[p] = "store"
  /\ \/ cached' = loaded[p] /\ writer' = p /\ UNCHANGED faults
     \/ UNCHANGED <<cached, writer>> /\ Fault
  /\ Leave(p)
  /\ UNCHANGED <<version, lockVars, tries, loaded, loads, evictions, losses, lost>>

-----------------------------------------------------------------------------
(* The environment *)

Change ==
  /\ version < MaxVersion
  /\ version' = version + 1
  /\ UNCHANGED <<cached, writer, lockVars, callVars, historyVars>>

\* The entry expires, or CleanupRedisCache deletes it.
Evict ==
  /\ cached # Nothing
  /\ evictions < MaxEvictions
  /\ evictions' = evictions + 1
  /\ cached' = Nothing
  /\ UNCHANGED <<version, writer, lockVars, callVars, loads, faults, losses, lost>>

Next ==
  \/ \E r \in Readers : Get(r) \/ DoubleCheck(r)
  \/ \E p \in Callers : AcquireLock(p) \/ Load(p) \/ Store(p) \/ ReleaseLock(p)
  \/ LoseLock \/ Change \/ Evict

Spec == Init /\ [][Next]_vars

-----------------------------------------------------------------------------
(* Properties *)

\* Two readers are under the lock only when it went away under one of them; that
\* one, coming late, does not release the lock of the other.
Excluded == \A r, s \in Readers \ lost : Holding(r) /\ Holding(s) => r = s

\* The source is asked once, and once more for every entry that went away, every
\* lock that went away under a reader and every command that failed: a hot entry
\* that is missing does not send all its readers to the database.
NoStampede == loads <= 1 + evictions + losses + faults

\* An entry is overwritten with older data only when one of the two was written
\* by a reader that lost its lock, by the refresher, which holds another lock, or
\* by the prewarming, which holds none.
Regular(p) == p \in Readers \ lost

NeverOlder ==
  [][cached # Nothing /\ cached' # Nothing /\ cached' < cached
       => ~Regular(writer) \/ ~Regular(writer')]_vars
=============================================================================
