----------------------- MODULE ReservationCacheProofs -----------------------
(***************************************************************************)
(* Proofs about ReservationCache, for every set of reservations and every  *)
(* choice of the intervals.                                                *)
(*                                                                         *)
(* That the data of a reservation outlasts the cleanup is a statement      *)
(* about time: the invariant compares what is left of reservation_data:{id} *)
(* with the ticks the reservation may yet have to wait until GetExpired    *)
(* returns it.  It needs a data TTL that covers the longest wait.          *)
(***************************************************************************)
EXTENDS ReservationCache, TLAPS

USE TTLAssumption, IntervalAssumption, BoundsAssumption

LEMMA TypeInit == Init => TypeOK
BY DEF Init, TypeOK, IdleScan

LEMMA TypeStep ==
    ASSUME TypeOK, [Next]_vars
    PROVE  TypeOK'
<1> USE DEF TypeOK, cacheVars, scanVars, vars
<1>1. ASSUME NEW r \in Reservations, Command(r)
      PROVE  TypeOK'
  <2>1. CASE StoreID(r)
    BY <2>1 DEF StoreID
  <2>2. CASE StoreData(r)
    BY <2>2 DEF StoreData
  <2>3. CASE Refresh(r)
    BY <2>3 DEF Refresh
  <2>4. CASE DeleteData(r)
    BY <2>4 DEF DeleteData
  <2>5. CASE DeleteID(r)
    BY <2>5 DEF DeleteID
  <2>6. QED
    BY <1>1, <2>1, <2>2, <2>3, <2>4, <2>5 DEF Command
<1>2. ASSUME NEW r \in Reservations, ScanID(r)
      PROVE  TypeOK'
  BY <1>2 DEF ScanID, Live
<1>3. ASSUME NEW r \in Reservations, ScanData(r)
      PROVE  TypeOK'
  BY <1>3 DEF ScanData, Live
<1>4. CASE StartRun
  <2>1. scan' = [pc |-> "ids", unseen |-> Reservations, active |-> {}, dataKeys |-> {},
                 began |-> Live(id)]
    BY <1>4 DEF StartRun, IdleScan
  <2>2. Live(id) \in SUBSET Reservations
    BY DEF Live
  <2>3. QED
    BY <1>4, <2>1, <2>2 DEF StartRun
<1>5. CASE MGet
  BY <1>5 DEF MGet, IdleScan, Live
<1>6. CASE FailRun
  BY <1>6 DEF FailRun, IdleScan
<1>7. CASE Tick
  <2>1. elapsed' \in 0..CleanupInterval
    BY <1>7 DEF Tick
  <2>2. /\ id' \in [Reservations -> 0..ReservationTTL]
        /\ data' \in [Reservations -> 0..ReservationDataTTL]
    BY <1>7 DEF Tick
  <2>3. QED
    BY <1>7, <2>1, <2>2 DEF Tick
<1>8. CASE UNCHANGED vars
  BY <1>8
<1>9. QED
  BY <1>1, <1>2, <1>3, <1>4, <1>5, <1>6, <1>7, <1>8 DEF Next

\* The keys, the clock and the run of the cleanup job have the types of TypeOK:
\* no time to live outgrows the configured one, no run its interval.
THEOREM CacheTyped == Spec => []TypeOK
<1>1. TypeOK /\ [Next]_vars => TypeOK'
  BY TypeStep
<1>2. QED
  BY <1>1, TypeInit, PTL DEF Spec

-----------------------------------------------------------------------------
(* A run returns no reservation that stays active *)

\* A reservation that was active when the run began, and is, has been seen or
\* has yet to be.  Only Store can make one active again, and it does so once.
SeenActive(r) ==
    /\ id[r] > 0 \/ r \in scan.began => entry[r] # "none"
    /\ r \in scan.began /\ id[r] > 0 =>
           (scan.pc = "ids" /\ r \in scan.unseen) \/ r \in scan.active

ScanInv ==
    /\ scan.pc # "idle" => elapsed <= MaxScanTime
    /\ \A r \in Reservations : SeenActive(r)

LEMMA ScanInit == Init => ScanInv
BY DEF Init, ScanInv, SeenActive, IdleScan

LEMMA ScanStep ==
    ASSUME TypeOK, ScanInv, [Next]_vars
    PROVE  ScanInv'
<1> USE DEF TypeOK, cacheVars, scanVars, vars
<1>1. ASSUME NEW r \in Reservations, Command(r)
      PROVE  ScanInv'
  <2>1. CASE StoreID(r)
    BY <2>1 DEF StoreID, ScanInv, SeenActive
  <2>2. CASE StoreData(r)
    BY <2>2 DEF StoreData, ScanInv, SeenActive
  <2>3. CASE Refresh(r)
    BY <2>3 DEF Refresh, ScanInv, SeenActive
  <2>4. CASE DeleteData(r)
    BY <2>4 DEF DeleteData, ScanInv, SeenActive
  <2>5. CASE DeleteID(r)
    BY <2>5 DEF DeleteID, ScanInv, SeenActive
  <2>6. QED
    BY <1>1, <2>1, <2>2, <2>3, <2>4, <2>5 DEF Command
<1>2. ASSUME NEW r \in Reservations, ScanID(r)
      PROVE  ScanInv'
  BY <1>2 DEF ScanID, ScanInv, SeenActive, Live
<1>3. ASSUME NEW r \in Reservations, ScanData(r)
      PROVE  ScanInv'
  BY <1>3 DEF ScanData, ScanInv, SeenActive, Live
<1>4. CASE StartRun
  BY <1>4 DEF StartRun, ScanInv, SeenActive, IdleScan, Live
<1>5. CASE MGet
  BY <1>5 DEF MGet, ScanInv, SeenActive, IdleScan
<1>6. CASE FailRun
  BY <1>6 DEF FailRun, ScanInv, SeenActive, IdleScan
<1>7. CASE Tick
  <2>1. \A r \in Reservations : id'[r] > 0 => id[r] > 0
    BY <1>7 DEF Tick
  <2>2. UNCHANGED <<scan, entry>> /\ (scan.pc # "idle" => elapsed' <= MaxScanTime)
    BY <1>7 DEF Tick
  <2>3. QED
    BY <2>1, <2>2 DEF ScanInv, SeenActive
<1>8. CASE UNCHANGED vars
  BY <1>8 DEF ScanInv, SeenActive
<1>9. QED
  BY <1>1, <1>2, <1>3, <1>4, <1>5, <1>6, <1>7, <1>8 DEF Next

LEMMA ScanAlways == Spec => [](TypeOK /\ ScanInv)
<1>1. TypeOK /\ ScanInv /\ [Next]_vars => ScanInv'
  BY ScanStep
<1>2. QED
  BY <1>1, ScanInit, CacheTyped, PTL DEF Spec

\* GetExpired returns no reservation that was active when its run began and
\* still is, whichever refreshes, deletions and lapses its two scans and its
\* MGET interleave with.
THEOREM RunsSpareActive == Spec => ActiveNeverReported
<1> DEFINE Spares == \A r \in (reported' \ reported) \cap scan.began : id[r] = 0
<1>1. TypeOK /\ ScanInv /\ Next => Spares
  <2> SUFFICES ASSUME TypeOK, ScanInv, Next,
                      NEW r \in (reported' \ reported) \cap scan.began
               PROVE  id[r] = 0
    OBVIOUS
  <2>1. MGet
    BY DEF Next, Command, StoreID, StoreData, Refresh, DeleteData, DeleteID, ScanID, ScanData,
       StartRun, FailRun, Tick, cacheVars, scanVars
  <2>2. r \in Reservations /\ r \notin scan.active /\ scan.pc = "mget"
    BY <2>1 DEF MGet, Live, TypeOK
  <2>3. QED
    BY <2>2 DEF ScanInv, SeenActive, TypeOK
<1>2. TypeOK /\ ScanInv /\ [Next]_vars => [Spares]_vars
  BY <1>1
<1>3. QED
  BY <1>2, ScanAlways, PTL DEF Spec, ActiveNeverReported

-----------------------------------------------------------------------------
(* The data of a reservation outlasts the wait for the cleanup job *)

\* What the refreshes to come may add to the time to live of reservation:{id},
\* and the failing runs to the time until GetExpired returns it.  A refresh
\* finds the key alive, so that each of them gains a tick less than the TTL.
Refreshing == (MaxRefreshes - refreshes) * (ReservationTTL - 1)
Failing    == (MaxFailedRuns - failedRuns) * CleanupInterval

\* The run in progress is going to return r, unless it fails.
Finds(r) ==
    /\ scan.pc # "idle"
    /\ r \notin scan.active
    /\ scan.pc = "ids" \/ (scan.pc = "data" /\ r \in scan.unseen) \/ r \in scan.dataKeys

\* The ticks a stored reservation that nobody took over may yet have to wait:
\* until its key lapses, until the next run starts, until that run ends.
WaitOf(r) ==
    IF id[r] > 0 THEN id[r] + Refreshing + CleanupInterval + MaxScanTime + Failing
    ELSE IF Finds(r) THEN MaxScanTime - elapsed + Failing + 1
    ELSE CleanupInterval - elapsed + MaxScanTime + Failing + 1

Waits(r) == entry[r] = "stored" /\ r \notin reported => data[r] >= WaitOf(r)

WaitInv == \A r \in Reservations : Waits(r)

\* The data TTL covers the first TTL of the key, the refreshes, an interval for
\* the run that has just missed the reservation and for each that fails, and
\* the time the last run takes.  A tick less, and TLC finds the reservation lost.
DataTTLCoversWait ==
    ReservationDataTTL >=
        ReservationTTL + MaxRefreshes * (ReservationTTL - 1)
            + (MaxFailedRuns + 1) * CleanupInterval + MaxScanTime

LEMMA Times ==
    ASSUME NEW n \in Nat, NEW k \in Nat
    PROVE  n * k \in Nat /\ (n + 1) * k = n * k + k
<1>1. (n + 1) * k = n * k + k
  OBVIOUS
<1>2. n * k \in Nat
  OBVIOUS
<1>3. QED
  BY <1>1, <1>2

LEMMA Budgets ==
    ASSUME TypeOK
    PROVE  /\ Refreshing \in Nat /\ Failing \in Nat
           /\ Refreshing <= MaxRefreshes * (ReservationTTL - 1)
           /\ Failing + CleanupInterval <= (MaxFailedRuns + 1) * CleanupInterval
<1>1. ASSUME NEW m \in Nat, NEW n \in 0..m, NEW k \in Nat
      PROVE  (m - n) * k \in Nat /\ (m - n) * k <= m * k
  <2>1. (m - n) * k = m * k - n * k
    OBVIOUS
  <2>2. m - n \in Nat /\ (m - n) * k \in Nat /\ n * k \in Nat /\ m * k \in Nat
    BY Times
  <2>3. QED
    BY <2>1, <2>2
<1>2. /\ ReservationTTL - 1 \in Nat /\ CleanupInterval \in Nat
      /\ refreshes \in 0..MaxRefreshes /\ failedRuns \in 0..MaxFailedRuns
  BY DEF TypeOK
<1>3. Refreshing \in Nat /\ Refreshing <= MaxRefreshes * (ReservationTTL - 1)
  BY <1>1, <1>2 DEF Refreshing
<1>4. Failing \in Nat /\ Failing <= MaxFailedRuns * CleanupInterval
  BY <1>1, <1>2 DEF Failing
<1>5. (MaxFailedRuns + 1) * CleanupInterval = MaxFailedRuns * CleanupInterval + CleanupInterval
  BY Times
<1>6. MaxFailedRuns * CleanupInterval \in Nat
  BY Times
<1>7. QED
  BY <1>3, <1>4, <1>5, <1>6

(* What a refresh and a failing run take from what is to come. *)
LEMMA RefreshSpent ==
    ASSUME TypeOK, refreshes < MaxRefreshes, refreshes' = refreshes + 1
    PROVE  /\ Refreshing' \in Nat
           /\ Refreshing = Refreshing' + ReservationTTL - 1
<1>1. PICK n \in Nat : MaxRefreshes - refreshes = n + 1 /\ MaxRefreshes - refreshes' = n
  <2>1. MaxRefreshes - refreshes - 1 \in Nat
    BY DEF TypeOK
  <2>2. QED
    BY <2>1 DEF TypeOK
<1>2. ReservationTTL - 1 \in Nat
  OBVIOUS
<1>3. /\ n * (ReservationTTL - 1) \in Nat
      /\ (n + 1) * (ReservationTTL - 1) = n * (ReservationTTL - 1) + (ReservationTTL - 1)
  BY <1>2, Times
<1>4. QED
  BY <1>1, <1>2, <1>3 DEF Refreshing

LEMMA FailureSpent ==
    ASSUME TypeOK, failedRuns < MaxFailedRuns, failedRuns' = failedRuns + 1
    PROVE  /\ Failing' \in Nat
           /\ Failing = Failing' + CleanupInterval
<1>1. PICK n \in Nat : MaxFailedRuns - failedRuns = n + 1 /\ MaxFailedRuns - failedRuns' = n
  <2>1. MaxFailedRuns - failedRuns - 1 \in Nat
    BY DEF TypeOK
  <2>2. QED
    BY <2>1 DEF TypeOK
<1>2. /\ n * CleanupInterval \in Nat
      /\ (n + 1) * CleanupInterval = n * CleanupInterval + CleanupInterval
  BY Times
<1>3. QED
  BY <1>1, <1>2 DEF Failing

(* A step that changes only whether the run finds r. *)
LEMMA FindsMore ==
    ASSUME TypeOK, ScanInv, NEW r \in Reservations, Waits(r),
           UNCHANGED <<id, data, elapsed, refreshes, failedRuns>>,
           entry'[r] = "stored" => entry[r] = "stored",
           reported \subseteq reported',
           Finds(r) /\ id[r] = 0 /\ data[r] > 0 => Finds(r)' \/ r \in reported'
    PROVE  Waits(r)'
<1>1. /\ id[r] \in Nat /\ data[r] \in Nat /\ elapsed \in 0..CleanupInterval
      /\ Refreshing \in Nat /\ Failing \in Nat
  BY Budgets DEF TypeOK
<1>2. Refreshing' = Refreshing /\ Failing' = Failing
  BY DEF Refreshing, Failing
<1>3. Finds(r) => elapsed <= MaxScanTime
  BY DEF ScanInv, Finds
<1>4. QED
  BY <1>1, <1>2, <1>3 DEF Waits, WaitOf


(* A step that leaves r alone may spend refreshes. *)
LEMMA OthersWait ==
    ASSUME TypeOK, NEW r \in Reservations, Waits(r),
           id'[r] = id[r], data'[r] = data[r], entry'[r] = entry[r],
           UNCHANGED scanVars,
           Refreshing' \in Nat, Refreshing' <= Refreshing
    PROVE  Waits(r)'
<1>1. Failing' = Failing /\ (Finds(r)' <=> Finds(r)) /\ elapsed' = elapsed /\ reported' = reported
  BY DEF scanVars, Failing, Finds
<1>2. id[r] \in Nat /\ data[r] \in Nat /\ elapsed \in Nat /\ Refreshing \in Nat /\ Failing \in Nat
  BY Budgets DEF TypeOK
<1>3. QED
  BY <1>1, <1>2 DEF Waits, WaitOf

LEMMA WaitStep ==
    ASSUME TypeOK, ScanInv, DataTTLCoversWait, WaitInv, [Next]_vars
    PROVE  WaitInv'
<1> USE DEF cacheVars, scanVars
<1>0. /\ \A r \in Reservations : /\ id[r] \in 0..ReservationTTL
                                 /\ data[r] \in 0..ReservationDataTTL
      /\ id \in [Reservations -> 0..ReservationTTL]
      /\ data \in [Reservations -> 0..ReservationDataTTL]
      /\ entry \in [Reservations -> {"none", "id", "stored", "deleted"}]
      /\ elapsed \in 0..CleanupInterval
      /\ Refreshing \in Nat /\ Failing \in Nat
  BY Budgets DEF TypeOK
<1> SUFFICES ASSUME NEW r \in Reservations PROVE Waits(r)'
  BY DEF WaitInv
<1>1. Waits(r)
  BY DEF WaitInv
<1>2. UNCHANGED refreshes => Refreshing' = Refreshing
  BY DEF Refreshing
<1>3. UNCHANGED failedRuns => Failing' = Failing
  BY DEF Failing
<1>4. ASSUME NEW q \in Reservations, Command(q), q # r
      PROVE  Waits(r)'
  <2>1. id'[r] = id[r] /\ data'[r] = data[r] /\ entry'[r] = entry[r] /\ UNCHANGED scanVars
    BY <1>0, <1>4 DEF Command, StoreID, StoreData, Refresh, DeleteData, DeleteID
  <2>2. CASE Refresh(q)
    <3>1. Refreshing' \in Nat /\ Refreshing = Refreshing' + ReservationTTL - 1
      BY <2>2, RefreshSpent DEF Refresh
    <3>2. QED
      BY <1>0, <1>1, <2>1, <3>1, OthersWait
  <2>3. CASE StoreID(q) \/ StoreData(q) \/ DeleteData(q) \/ DeleteID(q)
    <3>1. Refreshing' = Refreshing
      BY <1>2, <2>3 DEF StoreID, StoreData, DeleteData, DeleteID
    <3>2. QED
      BY <1>0, <1>1, <2>1, <3>1, OthersWait
  <2>4. QED
    BY <1>4, <2>2, <2>3 DEF Command
<1>5. CASE StoreID(r)
  BY <1>0, <1>5 DEF StoreID, Waits
<1>6. CASE StoreData(r)
  <2>1. data'[r] = ReservationDataTTL /\ UNCHANGED <<id, scan, elapsed, refreshes, failedRuns>>
    BY <1>0, <1>6 DEF StoreData
  <2>2. /\ Refreshing <= MaxRefreshes * (ReservationTTL - 1)
        /\ Failing + CleanupInterval <= (MaxFailedRuns + 1) * CleanupInterval
    BY Budgets
  <2>3. ReservationDataTTL >= ReservationTTL + Refreshing + Failing + CleanupInterval + MaxScanTime
    <3>1. PICK x \in Nat : x = MaxRefreshes * (ReservationTTL - 1)
      BY Times
    <3>2. PICK y \in Nat : y = (MaxFailedRuns + 1) * CleanupInterval
      BY Times
    <3>3. ReservationDataTTL >= ReservationTTL + x + y + MaxScanTime
      BY <3>1, <3>2 DEF DataTTLCoversWait
    <3>4. QED
      BY <1>0, <2>2, <3>1, <3>2, <3>3
  <2>4. Refreshing' = Refreshing /\ Failing' = Failing
    BY <1>2, <1>3, <2>1
  <2>5. QED
    BY <1>0, <2>1, <2>3, <2>4 DEF Waits, WaitOf
<1>7. CASE Refresh(r)
  <2>1. Refreshing' \in Nat /\ Refreshing = Refreshing' + ReservationTTL - 1
    BY <1>7, RefreshSpent DEF Refresh
  <2>2. /\ id[r] > 0 /\ id'[r] = ReservationTTL
        /\ UNCHANGED <<data, entry, scan, elapsed, reported, failedRuns>>
    BY <1>0, <1>7 DEF Refresh
  <2>3. QED
    BY <1>0, <1>1, <1>3, <2>1, <2>2 DEF Waits, WaitOf
<1>8. CASE DeleteData(r)
  BY <1>0, <1>8 DEF DeleteData, Waits
<1>9. CASE DeleteID(r)
  BY <1>0, <1>9 DEF DeleteID, Waits
<1>10. CASE StartRun
  <2>1. /\ scan.pc = "idle" /\ elapsed = CleanupInterval /\ elapsed' = 0
        /\ scan'.pc = "ids" /\ scan'.active = {}
        /\ UNCHANGED <<id, data, entry, reported, failedRuns, refreshes>>
    BY <1>10 DEF StartRun, IdleScan
  <2>2. ~ Finds(r) /\ Finds(r)'
    BY <2>1 DEF Finds
  <2>3. QED
    BY <1>0, <1>1, <1>2, <1>3, <2>1, <2>2 DEF Waits, WaitOf
<1>11. ASSUME NEW q \in Reservations, ScanID(q)
       PROVE  Waits(r)'
  <2>1. Finds(r) /\ id[r] = 0 => Finds(r)'
    BY <1>11 DEF ScanID, Finds, Live, TypeOK
  <2>2. UNCHANGED <<id, data, entry, elapsed, reported, refreshes, failedRuns>>
    BY <1>11 DEF ScanID
  <2>3. QED
    BY <1>1, <2>1, <2>2, FindsMore
<1>12. ASSUME NEW q \in Reservations, ScanData(q)
       PROVE  Waits(r)'
  <2>1. Finds(r) /\ data[r] > 0 => Finds(r)'
    BY <1>12 DEF ScanData, Finds, Live, TypeOK
  <2>2. UNCHANGED <<id, data, entry, elapsed, reported, refreshes, failedRuns>>
    BY <1>12 DEF ScanData
  <2>3. QED
    BY <1>1, <2>1, <2>2, FindsMore
<1>13. CASE MGet
  <2>1. Finds(r) /\ data[r] > 0 => r \in reported'
    BY <1>13 DEF MGet, Finds, Live
  <2>2. UNCHANGED <<id, data, entry, elapsed, refreshes, failedRuns>> /\ reported \subseteq reported'
    BY <1>13 DEF MGet
  <2>3. QED
    BY <1>1, <2>1, <2>2, FindsMore
<1>14. CASE FailRun
  <2>1. Failing' \in Nat /\ Failing = Failing' + CleanupInterval
    BY <1>14, FailureSpent DEF FailRun
  <2>2. UNCHANGED <<id, data, entry, elapsed, reported, refreshes>> /\ scan'.pc = "idle"
    BY <1>14 DEF FailRun, IdleScan
  <2>3. ~ Finds(r)'
    BY <2>2 DEF Finds
  <2>4. QED
    BY <1>0, <1>1, <1>2, <2>1, <2>2, <2>3 DEF Waits, WaitOf
<1>15. CASE Tick
  <2>1. /\ elapsed' = elapsed + 1
        /\ id'[r] = IF id[r] > 0 THEN id[r] - 1 ELSE 0
        /\ data'[r] = IF data[r] > 0 THEN data[r] - 1 ELSE 0
        /\ UNCHANGED <<entry, scan, reported, failedRuns, refreshes>>
    BY <1>15 DEF Tick
  <2>2. Finds(r)' <=> Finds(r)
    BY <2>1 DEF Finds
  <2>3. elapsed < IF scan.pc = "idle" THEN CleanupInterval ELSE MaxScanTime
    BY <1>15 DEF Tick
  <2>4. Finds(r) => scan.pc # "idle"
    BY DEF Finds
  <2>5. QED
    BY <1>0, <1>1, <1>2, <1>3, <2>1, <2>2, <2>3, <2>4 DEF Waits, WaitOf
<1>16. CASE UNCHANGED vars
  BY <1>0, <1>1, <1>2, <1>16, OthersWait DEF vars
<1>17. QED
  BY <1>4, <1>5, <1>6, <1>7, <1>8, <1>9, <1>10, <1>11, <1>12, <1>13, <1>14, <1>15, <1>16
     DEF Next, Command

\* With a data TTL that covers the wait, the data of a stored reservation that
\* nobody took over does not lapse before GetExpired has returned it: the
\* capacity that ReserveCapacity has taken is not forgotten.
THEOREM DataOutlastsCleanup ==
    ASSUME DataTTLCoversWait
    PROVE  Spec => []NeverLapsesUnreported
<1>1. Init => WaitInv
  BY DEF Init, WaitInv, Waits
<1>2. TypeOK /\ ScanInv /\ WaitInv /\ [Next]_vars => WaitInv'
  BY WaitStep
<1>3. TypeOK /\ ScanInv /\ WaitInv => NeverLapsesUnreported
  <2> SUFFICES ASSUME TypeOK, ScanInv, WaitInv, NEW r \in Reservations,
                      entry[r] = "stored", data[r] = 0, r \notin reported
               PROVE  FALSE
    BY DEF NeverLapsesUnreported
  <2>1. WaitOf(r) <= 0
    BY DEF WaitInv, Waits
  <2>2. /\ id[r] \in Nat /\ elapsed \in 0..CleanupInterval
        /\ Refreshing \in Nat /\ Failing \in Nat
        /\ Finds(r) => elapsed <= MaxScanTime
    BY Budgets DEF TypeOK, ScanInv, Finds
  <2>3. QED
    BY <2>1, <2>2 DEF WaitOf
<1>4. QED
  BY <1>1, <1>2, <1>3, ScanAlways, PTL DEF Spec
=============================================================================
