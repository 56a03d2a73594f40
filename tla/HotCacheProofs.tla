--------------------------- MODULE HotCacheProofs ---------------------------
(***************************************************************************)
(* What holds of HotCache for any number of readers, refreshers and        *)
(* prewarming goroutines, attempts, versions, faults, evictions and losses. *)
(***************************************************************************)
EXTENDS HotCache, FiniteSetTheorems, TLAPS


-----------------------------------------------------------------------------
(* Types *)

\* Who tries to lock, or will, has an attempt left.
TriesLeft == \A p \in Callers : at[p] \in {"get", "lock"} => tries[p] < Tries

\* PrewarmCache takes no lock.
NoLock == \A p \in Warmers : at[p] \in {"load", "store", "done"}

Typed == TypeOK /\ TriesLeft /\ NoLock

LEMMA InitTyped == Init => Typed
<1>1. SUFFICES ASSUME Init PROVE Typed
  OBVIOUS
<1>2. TriesLeft /\ NoLock
  BY <1>1, HotCacheAssumption DEF Init, TriesLeft, NoLock, Callers
<1>3. TypeOK
  BY <1>1, HotCacheAssumption DEF Init, TypeOK, Callers
<1> QED BY <1>2, <1>3 DEF Typed

LEMMA NextTyped == Typed /\ [Next]_vars => Typed'
<1>1. SUFFICES ASSUME Typed, [Next]_vars PROVE Typed'
  OBVIOUS
<1> USE HotCacheAssumption
<1>2. ASSUME NEW r \in Readers, Get(r) PROVE Typed'
  BY <1>1, <1>2 DEF Typed, TypeOK, TriesLeft, NoLock, Get, Lookup, Goto, Fault, Callers, lockVars
<1>3. ASSUME NEW r \in Readers, DoubleCheck(r) PROVE Typed'
  BY <1>1, <1>3 DEF Typed, TypeOK, TriesLeft, NoLock, DoubleCheck, Lookup, Goto, Fault, Callers, lockVars
<1>4. ASSUME NEW p \in Callers, AcquireLock(p) PROVE Typed'
  <2>1. at[p] = "lock" /\ p \notin Warmers /\ tries[p] < Tries
    BY <1>1, <1>4 DEF Typed, TriesLeft, NoLock, AcquireLock
  <2>2. cacheLock' \in Readers \cup {Free} /\ refreshLock' \in Refreshers \cup {Free}
    BY <1>1, <1>4, <2>1 DEF Typed, TypeOK, AcquireLock, SetLock, lockVars, Callers
  <2>3. \/ UNCHANGED tries /\ Goto(p, IF p \in Readers THEN "check" ELSE "load")
        \/ AttemptFails(p)
    BY <1>4 DEF AcquireLock
  <2>4. at' \in [Callers -> {"get", "lock", "check", "load", "store", "unlock", "done"}]
    BY <1>1, <2>3 DEF Typed, TypeOK, AttemptFails, Goto
  <2>5. tries' \in [Callers -> 0 .. Tries]
    <3>1. tries[p] + 1 \in 0 .. Tries
      BY <1>1, <2>1, HotCacheAssumption DEF Typed, TypeOK
    <3>2. UNCHANGED tries \/ tries' = [tries EXCEPT ![p] = tries[p] + 1]
      BY <2>3 DEF AttemptFails
    <3>3. tries \in [Callers -> 0 .. Tries]
      BY <1>1 DEF Typed, TypeOK
    <3> QED BY <3>1, <3>2, <3>3
  <2>6. TriesLeft'
    BY <1>1, <2>1, <2>3 DEF Typed, TypeOK, TriesLeft, AttemptFails, Goto
  <2>7. NoLock'
    BY <1>1, <2>1, <2>3 DEF Typed, TypeOK, NoLock, AttemptFails, Goto, Callers
  <2>8. faults' \in Nat
    BY <1>1, <1>4 DEF Typed, TypeOK, AcquireLock, Fault
  <2> QED BY <1>1, <1>4, <2>2, <2>4, <2>5, <2>6, <2>7, <2>8 DEF Typed, TypeOK, AcquireLock
<1>5. ASSUME NEW p \in Callers, Load(p) PROVE Typed'
  BY <1>1, <1>5 DEF Typed, TypeOK, TriesLeft, NoLock, Load, Leave, Goto, Fault, Callers, lockVars
<1>6. ASSUME NEW p \in Callers, Store(p) PROVE Typed'
  BY <1>1, <1>6 DEF Typed, TypeOK, TriesLeft, NoLock, Store, Leave, Goto, Fault, Callers, lockVars
<1>7. ASSUME NEW p \in Callers, ReleaseLock(p) PROVE Typed'
  <2>1. cacheLock' \in Readers \cup {Free} /\ refreshLock' \in Refreshers \cup {Free}
    BY <1>1, <1>7 DEF Typed, TypeOK, ReleaseLock, SetLock, LockOf, lockVars
  <2> QED BY <1>1, <1>7, <2>1 DEF Typed, TypeOK, TriesLeft, NoLock, ReleaseLock, Goto, Fault
<1>8. CASE LoseLock
  <2>1. cacheLock' \in Readers \cup {Free} /\ refreshLock' \in Refreshers \cup {Free}
    BY <1>1, <1>8 DEF Typed, TypeOK, LoseLock, SetLock
  <2> QED BY <1>1, <1>8, <2>1 DEF Typed, TypeOK, TriesLeft, NoLock, LoseLock, callVars
<1>9. CASE Change
  BY <1>1, <1>9 DEF Typed, TypeOK, TriesLeft, NoLock, Change, callVars, lockVars, historyVars
<1>10. CASE Evict
  BY <1>1, <1>10 DEF Typed, TypeOK, TriesLeft, NoLock, Evict, callVars, lockVars
<1>11. CASE UNCHANGED vars
  BY <1>1, <1>11 DEF Typed, TypeOK, TriesLeft, NoLock, vars, callVars, lockVars, historyVars
<1> QED BY <1>1, <1>2, <1>3, <1>4, <1>5, <1>6, <1>7, <1>8, <1>9, <1>10, <1>11 DEF Next

(* Every variable keeps its type; AcquireLock of distlock.go never counts more
   than Tries failed attempts. *)
THEOREM HotCacheTypeOK == Spec => []TypeOK
<1>1. Typed => TypeOK
  BY DEF Typed
<1> QED BY InitTyped, NextTyped, <1>1, PTL DEF Spec

-----------------------------------------------------------------------------
(* The lock *)

\* A reader under the lock holds it, until it goes away; who has not asked for the
\* lock has not lost it.
HoldsLock == \A r \in Readers \ lost : Holding(r) => cacheLock = r
LostLater == \A p \in lost : at[p] \notin {"get", "lock"}

Locked == Typed /\ HoldsLock /\ LostLater

LEMMA InitLocked == Init => Locked
BY InitTyped DEF Init, Locked, HoldsLock, LostLater, Holding, Callers

LEMMA NextLocked == Locked /\ [Next]_vars => Locked'
<1> SUFFICES ASSUME Locked, [Next]_vars PROVE Locked'
  OBVIOUS
<1> USE HotCacheAssumption
<1>1. Typed'
  BY NextTyped DEF Locked
<1>2. ASSUME NEW r \in Readers, Get(r) PROVE HoldsLock' /\ LostLater'
  <2>1. Goto(r, "lock") \/ Goto(r, "done")
    BY <1>2 DEF Get, Lookup
  <2> QED BY <1>2, <2>1 DEF Get, lockVars, Goto, HoldsLock, LostLater, Holding,
            Locked, Typed, TypeOK, Callers
<1>3. ASSUME NEW r \in Readers, DoubleCheck(r) PROVE HoldsLock' /\ LostLater'
  <2>1. Goto(r, "unlock") \/ Goto(r, "load")
    BY <1>3 DEF DoubleCheck, Lookup
  <2> QED BY <1>3, <2>1 DEF DoubleCheck, lockVars, Goto, HoldsLock, LostLater, Holding,
            Locked, Typed, TypeOK, Callers
<1>4. ASSUME NEW p \in Callers, AcquireLock(p) PROVE HoldsLock' /\ LostLater'
  <2>1. at[p] = "lock" /\ p \notin lost /\ p \notin Warmers
    BY <1>4 DEF AcquireLock, Locked, LostLater, Typed, NoLock
  <2>2. CASE /\ LockOf(p) = Free
             /\ SetLock(p, p)
             /\ at' = [at EXCEPT ![p] = IF p \in Readers THEN "check" ELSE "load"]
    BY <1>4, <2>1, <2>2 DEF AcquireLock, SetLock, LockOf, Goto, HoldsLock, LostLater,
         Holding, Locked, Typed, TypeOK, Callers
  <2>3. CASE AttemptFails(p)
    <3>1. Goto(p, "done") \/ Goto(p, "lock")
      BY <2>3 DEF AttemptFails
    <3>2. cacheLock' = cacheLock \/ (p \in Readers /\ cacheLock = Free)
      BY <1>4, <2>1 DEF AcquireLock, SetLock, LockOf, lockVars
    <3> QED BY <1>4, <2>1, <3>1, <3>2 DEF AcquireLock, Goto, HoldsLock, LostLater, Holding,
                 Locked, Typed, TypeOK, Callers
  <2>4. \/ LockOf(p) = Free /\ SetLock(p, p) /\ at' = [at EXCEPT ![p] = IF p \in Readers THEN "check" ELSE "load"]
        \/ AttemptFails(p)
    BY <1>4 DEF AcquireLock, Goto
  <2> QED BY <2>2, <2>3, <2>4
<1>5. ASSUME NEW p \in Callers, Load(p) PROVE HoldsLock' /\ LostLater'
  <2>1. Goto(p, "store") \/ Goto(p, "unlock") \/ Goto(p, "done")
    BY <1>5 DEF Load, Leave
  <2> QED BY <1>5, <2>1 DEF Load, lockVars, Goto, HoldsLock, LostLater, Holding,
            Locked, Typed, TypeOK, Callers
<1>6. ASSUME NEW p \in Callers, Store(p) PROVE HoldsLock' /\ LostLater'
  <2>1. Goto(p, "unlock") \/ Goto(p, "done")
    BY <1>6 DEF Store, Leave
  <2> QED BY <1>6, <2>1 DEF Store, lockVars, Goto, HoldsLock, LostLater, Holding,
            Locked, Typed, TypeOK, Callers
<1>7. ASSUME NEW p \in Callers, ReleaseLock(p) PROVE HoldsLock' /\ LostLater'
  <2>1. at[p] = "unlock" /\ at' = [at EXCEPT ![p] = "done"] /\ UNCHANGED lost
    BY <1>7 DEF ReleaseLock, Goto
  <2>2. cacheLock' = cacheLock \/ (p \in Readers /\ cacheLock = p)
    BY <1>7 DEF ReleaseLock, SetLock, LockOf, lockVars
  <2> QED BY <2>1, <2>2 DEF HoldsLock, LostLater, Holding, Locked, Typed, TypeOK, Callers
<1>8. CASE LoseLock
  <2>1. PICK p \in Callers : /\ LockOf(p) = p
                             /\ SetLock(p, Free)
                             /\ lost' = IF Holding(p) THEN lost \cup {p} ELSE lost
    BY <1>8 DEF LoseLock
  <2>2. UNCHANGED at
    BY <1>8 DEF LoseLock, callVars
  <2>3. LostLater'
    BY <2>1, <2>2 DEF LostLater, Holding, Locked
  <2>4. cacheLock' = cacheLock \/ (p \in Readers /\ cacheLock = p)
    BY <2>1 DEF SetLock, LockOf
  <2>5. ASSUME NEW r \in (Readers \ lost)', Holding(r)' PROVE cacheLock' = r
    <3>1. Holding(r) /\ r \in Readers \ lost
      BY <2>1, <2>2, <2>5 DEF Holding
    <3>2. cacheLock = r
      BY <3>1 DEF Locked, HoldsLock
    <3> QED BY <2>1, <2>4, <2>5, <3>1, <3>2
  <2>6. HoldsLock'
    BY <2>5 DEF HoldsLock, Holding
  <2> QED BY <1>1, <2>3, <2>6 DEF Locked
<1>9. CASE Change \/ Evict \/ UNCHANGED vars
  <2>1. cacheLock' = cacheLock /\ at' = at /\ lost' = lost
    BY <1>9 DEF Change, Evict, vars, lockVars, callVars, historyVars
  <2> QED BY <1>1, <2>1 DEF HoldsLock, LostLater, Holding, Locked
<1> QED BY <1>1, <1>2, <1>3, <1>4, <1>5, <1>6, <1>7, <1>8, <1>9 DEF Next, Locked

(* Two calls of GetWithCache are under the lock of a key at once only when the
   lock went away under one of them. *)
THEOREM OneReaderUnderLock == Spec => []Excluded
<1>1. Locked => Excluded
  BY DEF Locked, HoldsLock, Excluded
<1> QED BY InitLocked, NextLocked, <1>1, PTL DEF Spec

-----------------------------------------------------------------------------
(* Loads *)

\* The readers that lost their lock and may still load.
Pending == {r \in Readers \cap lost : at[r] \in {"check", "load"}}

\* The loads that what happened so far still pays for, beyond the first.
Spare == evictions + losses + faults - loads
Credit == Spare - Cardinality(Pending)

\* The first load is paid for while the entry is missing and nobody under the lock
\* is about to store it; it is when somebody under the lock is about to load.
Paid ==
  /\ Credit >= -1
  /\ cached = Nothing /\ (\A r \in Readers \ lost : at[r] # "store") => Credit >= 0
  /\ (\E r \in Readers \ lost : at[r] = "load") => Credit >= 0

Counted == Locked /\ Paid

LEMMA PendingCount ==
  ASSUME Typed
  PROVE  IsFiniteSet(Pending) /\ Cardinality(Pending) \in Nat
BY FS_Subset, FS_CardinalityType, HotCacheAssumption DEF Pending

\* An eviction, a loss or a fault pays for whatever comes next.
LEMMA Recovers ==
  ASSUME Counted, Typed', Spare' > Spare,
         Pending' \subseteq Pending
  PROVE  Paid'
<1>1. IsFiniteSet(Pending) /\ Cardinality(Pending) \in Nat
  BY PendingCount DEF Counted, Locked
<1>2. Cardinality(Pending') \in Nat /\ Cardinality(Pending') <= Cardinality(Pending)
  BY <1>1, FS_Subset, FS_CardinalityType
<1>3. Spare \in Int /\ Spare' \in Int
  BY DEF Counted, Locked, Typed, TypeOK, Spare
<1>4. Credit \in Int /\ Credit' \in Int
  BY <1>1, <1>2, <1>3 DEF Credit
<1>5. Credit' > Credit
  BY <1>1, <1>2, <1>3 DEF Credit
<1> QED BY <1>4, <1>5 DEF Counted, Paid

\* A step that costs nothing, brings nobody under the lock to load, and leaves
\* nobody's entry unstored.
LEMMA CostsNothing ==
  ASSUME Counted, Typed', Spare' >= Spare,
         Pending' \subseteq Pending, lost' = lost, cached' # Nothing \/ cached' = cached,
         \A r \in Readers \ lost : at'[r] = "load" => at[r] = "load",
         \A r \in Readers \ lost : at[r] = "store" => cached' # Nothing \/ at'[r] = "store"
  PROVE  Paid'
<1>1. IsFiniteSet(Pending) /\ Cardinality(Pending) \in Nat
  BY PendingCount DEF Counted, Locked
<1>2. Cardinality(Pending') \in Nat /\ Cardinality(Pending') <= Cardinality(Pending)
  BY <1>1, FS_Subset, FS_CardinalityType
<1>3. Spare \in Int /\ Spare' \in Int
  BY DEF Counted, Locked, Typed, TypeOK, Spare
<1>6. Credit' >= Credit /\ Credit \in Int /\ Credit' \in Int
  BY <1>1, <1>2, <1>3 DEF Credit
<1>4. cached' = Nothing /\ (\A r \in Readers \ lost : at'[r] # "store") => Credit >= 0
  BY DEF Counted, Paid
<1>5. (\E r \in Readers \ lost : at'[r] = "load") => Credit >= 0
  BY DEF Counted, Paid
<1> QED BY <1>4, <1>5, <1>6 DEF Counted, Paid

\* Only one reader is under the lock without having lost it.
LEMMA OneHolder ==
  ASSUME Locked, NEW r \in Readers \ lost, NEW s \in Readers \ lost,
         at[r] \in {"check", "load", "store", "unlock"},
         at[s] \in {"check", "load", "store", "unlock"}
  PROVE  r = s
BY HotCacheAssumption DEF Locked, HoldsLock, Holding

LEMMA InitCounted == Init => Counted
<1> SUFFICES ASSUME Init PROVE Counted
  OBVIOUS
<1>1. Pending = {}
  BY DEF Init, Pending
<1>2. Credit = 0
  BY <1>1, FS_EmptySet DEF Init, Credit, Spare
<1>3. Paid
  BY <1>2 DEF Paid
<1> QED BY <1>3, InitLocked DEF Counted

LEMMA LoadPaid ==
  ASSUME Counted, Typed', NEW p \in Callers, Load(p)
  PROVE  Paid'
<1> USE HotCacheAssumption
<1>1. /\ at[p] = "load" /\ lost' = lost /\ cached' = cached
      /\ evictions' = evictions /\ losses' = losses
  BY DEF Load
<1>2. at \in [Callers -> {"get", "lock", "check", "load", "store", "unlock", "done"}]
  BY DEF Counted, Locked, Typed, TypeOK
<1>3. \/ at' = [at EXCEPT ![p] = "store"] /\ faults' = faults
      \/ (at' = [at EXCEPT ![p] = "unlock"] \/ at' = [at EXCEPT ![p] = "done"]) /\ faults' = faults + 1
  BY DEF Load, Leave, Goto, Fault
<1>4. /\ evictions \in Nat /\ losses \in Nat /\ faults \in Nat /\ loads \in Nat
      /\ Spare \in Int /\ Spare' \in Int
  BY DEF Counted, Locked, Typed, TypeOK, Spare
<1>5. Pending' \subseteq Pending
  BY <1>1, <1>2, <1>3 DEF Pending, Callers
<1>6. \A r \in Callers : at'[r] = "load" => at[r] = "load" /\ r # p
  BY <1>1, <1>2, <1>3
<1>7. \A r \in Callers : at[r] = "store" => at'[r] = "store"
  BY <1>1, <1>2, <1>3
<1>8. CASE p \notin Readers
  <2>1. Spare' >= Spare
    BY <1>1, <1>3, <1>4, <1>8 DEF Load, Spare
  <2> QED BY <1>1, <1>5, <1>6, <1>7, <2>1, CostsNothing DEF Callers
<1>9. CASE p \in Readers \cap lost
  <2>1. Spare' >= Spare - 1
    BY <1>1, <1>3, <1>4 DEF Load, Spare
  <2>2. p \in Pending /\ Pending' = Pending \ {p}
    BY <1>1, <1>2, <1>3, <1>9 DEF Pending, Callers
  <2>3. IsFiniteSet(Pending) /\ Cardinality(Pending) \in Nat
    BY PendingCount DEF Counted, Locked
  <2>4. Cardinality(Pending') = Cardinality(Pending) - 1
    BY <2>2, <2>3, FS_RemoveElement
  <2>5. Credit' >= Credit /\ Credit \in Int /\ Credit' \in Int
    BY <1>4, <2>1, <2>3, <2>4 DEF Credit
  <2>6. (\E r \in Readers \ lost : at'[r] = "load") => Credit >= 0
    BY <1>6 DEF Counted, Paid, Callers
  <2>7. cached = Nothing /\ (\A r \in Readers \ lost : at'[r] # "store") => Credit >= 0
    BY <1>7 DEF Counted, Paid, Callers
  <2> QED BY <1>1, <2>5, <2>6, <2>7 DEF Counted, Paid
<1>10. CASE p \in Readers \ lost
  <2>1. Pending' = Pending
    BY <1>1, <1>2, <1>3, <1>10 DEF Pending, Callers
  <2>2. Cardinality(Pending) \in Nat
    BY PendingCount DEF Counted, Locked
  <2>3. Credit \in Int /\ Credit' \in Int /\ Credit >= 0
    BY <1>1, <1>4, <1>10, <2>1, <2>2 DEF Credit, Counted, Paid
  <2>4. \A r \in Readers \ lost : at'[r] # "load"
    BY <1>1, <1>6, <1>10, OneHolder DEF Counted, Callers
  <2>5. CASE faults' = faults + 1
    <3>1. Spare' = Spare
      BY <1>1, <1>4, <1>10, <2>5 DEF Load, Spare
    <3>2. Credit' >= 0
      BY <2>1, <2>3, <3>1 DEF Credit
    <3> QED BY <2>3, <3>2 DEF Paid
  <2>6. CASE at' = [at EXCEPT ![p] = "store"] /\ faults' = faults
    <3>1. Spare' = Spare - 1
      BY <1>1, <1>4, <1>10, <2>6 DEF Load, Spare
    <3>2. Credit' = Credit - 1
      BY <1>4, <2>1, <2>2, <3>1 DEF Credit
    <3>3. at'[p] = "store"
      BY <1>2, <2>6
    <3> QED BY <1>1, <1>10, <2>3, <2>4, <3>2, <3>3 DEF Paid
  <2> QED BY <1>3, <2>5, <2>6
<1> QED BY <1>8, <1>9, <1>10

LEMMA NextCounted == Counted /\ [Next]_vars => Counted'
<1> SUFFICES ASSUME Counted, [Next]_vars PROVE Counted'
  OBVIOUS
<1> USE HotCacheAssumption
<1>1. Locked'
  BY NextLocked DEF Counted
<1>2. Typed'
  BY <1>1 DEF Locked
<1>3. at \in [Callers -> {"get", "lock", "check", "load", "store", "unlock", "done"}]
  BY DEF Counted, Locked, Typed, TypeOK
<1>4. /\ evictions \in Nat /\ losses \in Nat /\ faults \in Nat /\ loads \in Nat
      /\ Spare \in Int
  BY DEF Counted, Locked, Typed, TypeOK, Spare
<1>5. ASSUME NEW r \in Readers, Get(r) PROVE Paid'
  <2>1. /\ at' = [at EXCEPT ![r] = "done"] \/ at' = [at EXCEPT ![r] = "lock"]
        /\ at[r] = "get" /\ lost' = lost /\ cached' = cached
    BY <1>5 DEF Get, Lookup, Goto
  <2>2. Pending' \subseteq Pending
    BY <1>3, <2>1 DEF Pending, Callers
  <2>3. Spare' >= Spare
    BY <1>4, <1>5 DEF Get, Lookup, Fault, Spare
  <2> QED BY <1>2, <1>3, <2>1, <2>2, <2>3, CostsNothing DEF Callers
<1>6. ASSUME NEW r \in Readers, DoubleCheck(r) PROVE Paid'
  <2>1. /\ at[r] = "check" /\ lost' = lost /\ cached' = cached
        /\ evictions' = evictions /\ losses' = losses /\ loads' = loads
    BY <1>6 DEF DoubleCheck
  <2>2. /\ at' = [at EXCEPT ![r] = "unlock"] \/ at' = [at EXCEPT ![r] = "load"]
        /\ faults' = faults \/ faults' = faults + 1
        /\ at' = [at EXCEPT ![r] = "load"] => cached = Nothing \/ faults' = faults + 1
    <3>1. "unlock" # "load"
      OBVIOUS
    <3> QED BY <1>3, <1>6, <3>1 DEF DoubleCheck, Lookup, Goto, Fault, Callers
  <2>3. Pending' \subseteq Pending
    BY <1>3, <2>1, <2>2 DEF Pending, Callers
  <2>4. CASE faults' = faults + 1
    <3>1. Spare' > Spare
      BY <1>4, <2>1, <2>4 DEF Spare
    <3> QED BY <1>2, <2>3, <3>1, Recovers
  <2>5. CASE faults' = faults
    <3>1. Spare' >= Spare
      BY <1>4, <2>1, <2>5 DEF Spare
    <3>2. CASE at' = [at EXCEPT ![r] = "unlock"] \/ r \in lost
      BY <1>2, <1>3, <2>1, <2>2, <2>3, <3>1, <3>2, CostsNothing DEF Callers
    <3>3. CASE at' = [at EXCEPT ![r] = "load"] /\ r \notin lost
      <4>1. cached = Nothing
        BY <1>4, <2>2, <2>5, <3>3
      <4>2. \A s \in Readers \ lost : at[s] # "store"
        BY <2>1, <3>3, OneHolder DEF Counted
      <4>3. Credit >= 0
        BY <4>1, <4>2 DEF Counted, Paid
      <4>4. IsFiniteSet(Pending) /\ Cardinality(Pending) \in Nat
        BY PendingCount DEF Counted, Locked
      <4>5. Cardinality(Pending') \in Nat /\ Cardinality(Pending') <= Cardinality(Pending)
        BY <2>3, <4>4, FS_Subset, FS_CardinalityType
      <4>6. Spare' \in Int
        BY <1>2 DEF Typed, TypeOK, Spare
      <4>7. Credit' >= Credit /\ Credit \in Int /\ Credit' \in Int
        BY <1>4, <3>1, <4>4, <4>5, <4>6 DEF Credit
      <4> QED BY <4>3, <4>7 DEF Paid
    <3> QED BY <2>2, <3>2, <3>3
  <2> QED BY <2>2, <2>4, <2>5
<1>7. ASSUME NEW p \in Callers, AcquireLock(p) PROVE Paid'
  <2>1. at[p] = "lock" /\ p \notin lost /\ lost' = lost /\ cached' = cached
    BY <1>7 DEF AcquireLock, Counted, Locked, LostLater
  <2>2. \E stage \in {"check", "lock", "load", "done"} :
          at' = [at EXCEPT ![p] = stage] /\ (p \in Readers => stage # "load")
    BY <1>7 DEF AcquireLock, AttemptFails, Goto
  <2>3. Pending' \subseteq Pending
    BY <1>3, <2>1, <2>2 DEF Pending, Callers
  <2>4. Spare' >= Spare
    BY <1>4, <1>7 DEF AcquireLock, Fault, Spare
  <2> QED BY <1>2, <1>3, <2>1, <2>2, <2>3, <2>4, CostsNothing DEF Callers
<1>8. ASSUME NEW p \in Callers, Load(p) PROVE Paid'
  BY <1>2, <1>8, LoadPaid
<1>9. ASSUME NEW p \in Callers, Store(p) PROVE Paid'
  <2>1. /\ at' = [at EXCEPT ![p] = "unlock"] \/ at' = [at EXCEPT ![p] = "done"]
        /\ at[p] = "store" /\ lost' = lost
        /\ evictions' = evictions /\ losses' = losses /\ loads' = loads
    BY <1>9 DEF Store, Leave, Goto
  <2>2. Pending' \subseteq Pending
    BY <1>3, <2>1 DEF Pending, Callers
  <2>3. CASE cached' = loaded[p] /\ faults' = faults
    <3>1. Spare' >= Spare
      BY <1>4, <2>1, <2>3 DEF Spare
    <3>2. cached' # Nothing
      BY <2>3 DEF Counted, Locked, Typed, TypeOK
    <3> QED BY <1>2, <1>3, <2>1, <2>2, <3>1, <3>2, CostsNothing DEF Callers
  <2>4. CASE faults' = faults + 1
    <3>1. Spare' > Spare
      BY <1>4, <2>1, <2>4 DEF Spare
    <3> QED BY <1>2, <2>2, <3>1, Recovers
  <2> QED BY <1>9, <2>3, <2>4 DEF Store, Fault
<1>10. ASSUME NEW p \in Callers, ReleaseLock(p) PROVE Paid'
  <2>1. /\ at' = [at EXCEPT ![p] = "done"]
        /\ at[p] = "unlock" /\ lost' = lost /\ cached' = cached
    BY <1>10 DEF ReleaseLock, Goto
  <2>2. Pending' \subseteq Pending
    BY <1>3, <2>1 DEF Pending, Callers
  <2>3. Spare' >= Spare
    BY <1>4, <1>10 DEF ReleaseLock, Fault, Spare
  <2> QED BY <1>2, <1>3, <2>1, <2>2, <2>3, CostsNothing DEF Callers
<1>11. CASE LoseLock
  <2>1. PICK p \in Callers : lost' = IF Holding(p) THEN lost \cup {p} ELSE lost
    BY <1>11 DEF LoseLock
  <2>2. at' = at /\ cached' = cached
    BY <1>11 DEF LoseLock, callVars
  <2>3. Spare' = Spare + 1
    BY <1>4, <1>11 DEF LoseLock, Spare
  <2>4. CASE Pending' \subseteq Pending
    BY <1>1, <1>2, <1>4, <2>3, <2>4, Recovers DEF Counted
  <2>5. CASE ~(Pending' \subseteq Pending)
    <3>1. /\ p \notin Pending /\ Pending' = Pending \cup {p} /\ at[p] \in {"check", "load"}
          /\ lost' = lost \cup {p}
      BY <2>1, <2>2, <2>5 DEF Pending
    <3>2. IsFiniteSet(Pending) /\ Cardinality(Pending) \in Nat
      BY PendingCount DEF Counted, Locked
    <3>3. Cardinality(Pending') = Cardinality(Pending) + 1
      BY <3>1, <3>2, FS_AddElement
    <3>4. Credit' = Credit /\ Credit \in Int
      BY <1>4, <2>3, <3>2, <3>3 DEF Credit
    <3>5. (\E r \in Readers \ lost' : at'[r] = "load") => Credit >= 0
      BY <2>2, <3>1 DEF Counted, Paid
    <3>6. cached = Nothing /\ (\A r \in Readers \ lost' : at'[r] # "store") => Credit >= 0
      BY <2>2, <3>1 DEF Counted, Paid
    <3> QED BY <1>1, <2>2, <3>4, <3>5, <3>6 DEF Counted, Paid
  <2> QED BY <1>1, <2>4, <2>5 DEF Counted
<1>12. CASE Evict
  <2>1. Pending' \subseteq Pending
    <3>1. at' = at /\ lost' = lost
      BY <1>12 DEF Evict, callVars
    <3> QED BY <3>1 DEF Pending
  <2>2. Spare' > Spare
    BY <1>4, <1>12 DEF Evict, Spare
  <2> QED BY <1>1, <1>2, <2>1, <2>2, Recovers DEF Counted
<1>13. CASE Change \/ UNCHANGED vars
  <2>1. at' = at /\ cached' = cached /\ lost' = lost /\ Spare' = Spare
    BY <1>13 DEF Change, vars, callVars, historyVars, Spare
  <2>2. Pending' = Pending
    BY <2>1 DEF Pending
  <2>3. Credit' = Credit
    BY <2>1, <2>2 DEF Credit
  <2> QED BY <1>1, <2>1, <2>3 DEF Counted, Paid
<1> QED BY <1>1, <1>5, <1>6, <1>7, <1>8, <1>9, <1>10, <1>11, <1>12, <1>13 DEF Next, Counted

(* However many calls of GetWithCache miss the same entry, the data are loaded
   once, and once more for each eviction, lost lock and failed command. *)
THEOREM SourceAskedOnce == Spec => []NoStampede
<1>1. Counted => NoStampede
  <2> SUFFICES ASSUME Counted PROVE NoStampede
    OBVIOUS
  <2>1. Cardinality(Pending) \in Nat
    BY PendingCount DEF Counted, Locked
  <2>2. Credit >= -1 /\ Spare \in Int
    BY DEF Counted, Paid, Locked, Typed, TypeOK, Spare
  <2>3. Spare >= -1
    BY <2>1, <2>2 DEF Credit
  <2> QED BY <2>3 DEF Spare, NoStampede, Counted, Locked, Typed, TypeOK
<1> QED BY InitCounted, NextCounted, <1>1, PTL DEF Spec

-----------------------------------------------------------------------------
(* The order of what is stored *)

\* Nothing is newer than the data; what a reader under its lock is about to store
\* is no older than what another has stored under it.
Ordered ==
  /\ cached # Nothing => cached <= version
  /\ \A p \in Callers : loaded[p] <= version
  /\ \A p \in Readers \ lost :
       at[p] = "store" /\ cached # Nothing /\ Regular(writer) => cached <= loaded[p]

InOrder == Locked /\ Ordered

LEMMA InitInOrder == Init => InOrder
<1> SUFFICES ASSUME Init PROVE InOrder
  OBVIOUS
<1>1. Ordered
  BY DEF Init, Ordered, Callers
<1> QED BY <1>1, InitLocked DEF InOrder

\* A step that neither loads nor stores.
LEMMA KeepsOrder ==
  ASSUME InOrder, loaded' = loaded, version' = version, writer' = writer, lost \subseteq lost',
         cached' = cached \/ cached' = Nothing,
         \A p \in Readers : at'[p] = "store" => at[p] = "store"
  PROVE  Ordered'
BY DEF InOrder, Ordered, Regular

LEMMA NextInOrder == InOrder /\ [Next]_vars => InOrder'
<1> SUFFICES ASSUME InOrder, [Next]_vars PROVE InOrder'
  OBVIOUS
<1> USE HotCacheAssumption
<1>1. Locked'
  BY NextLocked DEF InOrder
<1>2. at \in [Callers -> {"get", "lock", "check", "load", "store", "unlock", "done"}]
  BY DEF InOrder, Locked, Typed, TypeOK
<1>3. /\ version \in 0 .. MaxVersion /\ loaded \in [Callers -> 0 .. MaxVersion]
      /\ cached \in 0 .. MaxVersion \cup {Nothing}
  BY DEF InOrder, Locked, Typed, TypeOK
<1>4. ASSUME NEW p \in Callers, NEW stage \in {"lock", "check", "load", "unlock", "done"},
             at' = [at EXCEPT ![p] = stage], loaded' = loaded, version' = version,
             writer' = writer, lost' = lost, cached' = cached
      PROVE  Ordered'
  <2>1. \A r \in Readers : at'[r] = "store" => at[r] = "store"
    BY <1>2, <1>4 DEF Callers
  <2> QED BY <1>4, <2>1, KeepsOrder
<1>5. ASSUME NEW r \in Readers, Get(r) \/ DoubleCheck(r) PROVE Ordered'
  <2>1. \E stage \in {"lock", "load", "unlock", "done"} : at' = [at EXCEPT ![r] = stage]
    BY <1>5 DEF Get, DoubleCheck, Lookup, Goto
  <2> QED BY <1>4, <1>5, <2>1 DEF Get, DoubleCheck, Callers
<1>6. ASSUME NEW p \in Callers, AcquireLock(p) \/ ReleaseLock(p) PROVE Ordered'
  <2>1. \E stage \in {"lock", "check", "load", "done"} : at' = [at EXCEPT ![p] = stage]
    BY <1>6 DEF AcquireLock, AttemptFails, ReleaseLock, Goto
  <2> QED BY <1>4, <1>6, <2>1 DEF AcquireLock, ReleaseLock
<1>7. ASSUME NEW p \in Callers, Load(p) PROVE Ordered'
  <2>1. at[p] = "load" /\ UNCHANGED <<version, cached, writer, lost>>
    BY <1>7 DEF Load
  <2>2. CASE Leave(p) /\ UNCHANGED loaded
    <3>1. at' = [at EXCEPT ![p] = "unlock"] \/ at' = [at EXCEPT ![p] = "done"]
      BY <2>2 DEF Leave, Goto
    <3> QED BY <1>4, <2>1, <2>2, <3>1
  <2>3. CASE loaded' = [loaded EXCEPT ![p] = version] /\ Goto(p, "store")
    <3>1. loaded'[p] = version /\ \A q \in Callers : q # p => loaded'[q] = loaded[q]
      BY <1>3, <2>3
    <3>2. \A q \in Callers : loaded'[q] <= version
      BY <1>3, <3>1 DEF InOrder, Ordered
    <3>3. ASSUME NEW q \in Readers \ lost, at'[q] = "store", cached # Nothing, Regular(writer)
          PROVE  cached <= loaded'[q]
      <4>1. CASE q = p
        BY <1>3, <3>1, <3>3, <4>1 DEF InOrder, Ordered
      <4>2. CASE q # p
        BY <1>2, <2>3, <3>1, <3>3, <4>2 DEF InOrder, Ordered, Goto, Callers
      <4> QED BY <4>1, <4>2
    <3> QED BY <2>1, <3>2, <3>3 DEF InOrder, Ordered, Regular
  <2> QED BY <1>7, <2>2, <2>3 DEF Load
<1>8. ASSUME NEW p \in Callers, Store(p) PROVE Ordered'
  <2>1. /\ at[p] = "store" /\ loaded' = loaded /\ version' = version /\ lost' = lost
        /\ at' = [at EXCEPT ![p] = "unlock"] \/ at' = [at EXCEPT ![p] = "done"]
    BY <1>8 DEF Store, Leave, Goto
  <2>2. CASE UNCHANGED <<cached, writer>>
    BY <1>4, <2>1, <2>2
  <2>3. CASE cached' = loaded[p] /\ writer' = p
    <3>1. \A q \in Readers \ lost : at'[q] = "store" /\ p \in Readers \ lost => FALSE
      BY <1>2, <2>1, OneHolder DEF InOrder, Callers
    <3> QED BY <2>1, <2>3, <3>1 DEF InOrder, Ordered, Regular
  <2> QED BY <1>8, <2>2, <2>3 DEF Store
<1>9. CASE LoseLock \/ Evict \/ UNCHANGED vars
  <2>1. /\ loaded' = loaded /\ version' = version /\ writer' = writer /\ at' = at
        /\ lost \subseteq lost'
        /\ cached' = cached \/ cached' = Nothing
    BY <1>9 DEF LoseLock, Evict, vars, callVars, historyVars
  <2> QED BY <1>1, <2>1, KeepsOrder DEF InOrder
<1>10. CASE Change
  <2>1. /\ loaded' = loaded /\ version' = version + 1 /\ writer' = writer /\ at' = at
        /\ lost' = lost /\ cached' = cached
    BY <1>10 DEF Change, callVars, historyVars
  <2> QED BY <1>1, <1>3, <2>1 DEF InOrder, Ordered, Regular
<1> QED BY <1>1, <1>5, <1>6, <1>7, <1>8, <1>9, <1>10 DEF Next, InOrder

(* Among the calls of GetWithCache that kept their lock, an entry is never replaced
   by older data: only one that lost it, the refresher or the prewarming does that. *)
THEOREM OldDataNeverReturn == Spec => NeverOlder
<1>1. InOrder /\ [Next]_vars =>
        [cached # Nothing /\ cached' # Nothing /\ cached' < cached
           => ~Regular(writer) \/ ~Regular(writer')]_vars
  <2> SUFFICES ASSUME InOrder, [Next]_vars, cached # Nothing, cached' # Nothing, cached' < cached,
                      Regular(writer), Regular(writer')
               PROVE  FALSE
    OBVIOUS
  <2>1. cached \in 0 .. MaxVersion
    BY DEF InOrder, Locked, Typed, TypeOK
  <2>2. cached' # cached
    BY <2>1
  <2>3. PICK p \in Callers : Store(p) /\ cached' = loaded[p] /\ writer' = p
    BY <2>2 DEF Next, vars, Get, DoubleCheck, AcquireLock, Load, Store, ReleaseLock, LoseLock,
         Change, Evict
  <2>4. loaded[p] \in 0 .. MaxVersion
    BY DEF InOrder, Locked, Typed, TypeOK
  <2>5. lost' = lost /\ at[p] = "store" /\ p \in Readers \ lost
    BY <2>3 DEF Store, Regular
  <2>6. cached <= loaded[p]
    BY <2>5 DEF InOrder, Ordered
  <2> QED BY <2>1, <2>3, <2>4, <2>6
<1> QED BY InitInOrder, NextInOrder, <1>1, PTL DEF Spec, NeverOlder
=============================================================================
