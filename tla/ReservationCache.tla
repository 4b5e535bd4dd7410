-------------------------- MODULE ReservationCache --------------------------
(***************************************************************************)
(* The Redis cache of the reservation service, with its two keys for each  *)
(* reservation and their time to live, and the cleanup job that looks for  *)
(* lapsed reservations.                                                    *)
(*                                                                         *)
(* reservation:{id} decides whether a reservation is valid.                *)
(* reservation_data:{id} is what a release is made from: once it has       *)
(* lapsed too, nothing knows any more that the vessel holds capacity.  The *)
(* model has a clock and lets Store, Refresh, deletions and expiry happen  *)
(* between any two Redis commands of GetExpired.                           *)
(***************************************************************************)
EXTENDS Naturals, FiniteSets

CONSTANTS
    Reservations,
    ReservationTTL,     \* redis.reservation_ttl, in ticks
    ReservationDataTTL, \* redis.reservation_data_ttl, in ticks
    CleanupInterval,    \* manager.cleanup_interval, in ticks
    MaxScanTime,        \* a run of the cleanup job takes at most so many ticks
    MaxFailedRuns,      \* bound: how many runs of the cleanup job may fail
    MaxRefreshes        \* bound: how many Refresh calls may succeed

ASSUME TTLAssumption      == ReservationTTL \in Nat \ {0} /\ ReservationDataTTL \in Nat \ {0}
ASSUME IntervalAssumption == CleanupInterval \in Nat /\ MaxScanTime \in 0..CleanupInterval
ASSUME BoundsAssumption   == MaxFailedRuns \in Nat /\ MaxRefreshes \in Nat

VARIABLES
    id,         \* ticks left for reservation:{id}, 0 when there is no such key
    data,       \* ticks left for reservation_data:{id}
    entry,      \* how far Store has come, and whether DeleteData has succeeded
    scan,       \* the run of GetExpired in progress
    elapsed,    \* ticks since the last run started
    reported,   \* the reservations GetExpired has ever returned
    failedRuns, \* how many runs have failed
    refreshes   \* how many Refresh calls have succeeded

cacheVars == <<id, data, entry>>
scanVars  == <<scan, elapsed, reported, failedRuns>>
vars      == <<id, data, entry, scan, elapsed, reported, failedRuns, refreshes>>

\* active and dataKeys are GetExpired's local sets, unseen the keys its
\* cursor has yet to reach; began is history: what was active at the start.
IdleScan == [pc |-> "idle", unseen |-> {}, active |-> {}, dataKeys |-> {}, began |-> {}]

TypeOK ==
    /\ id \in [Reservations -> 0..ReservationTTL]
    /\ data \in [Reservations -> 0..ReservationDataTTL]
    /\ entry \in [Reservations -> {"none", "id", "stored", "deleted"}]
    /\ scan \in [pc : {"idle", "ids", "data", "mget"},
                 unseen : SUBSET Reservations,
                 active : SUBSET Reservations,
                 dataKeys : SUBSET Reservations,
                 began : SUBSET Reservations]
    /\ elapsed \in 0..CleanupInterval
    /\ reported \subseteq Reservations
    /\ failedRuns \in 0..MaxFailedRuns
    /\ refreshes \in 0..MaxRefreshes

Init ==
    /\ id = [r \in Reservations |-> 0]
    /\ data = [r \in Reservations |-> 0]
    /\ entry = [r \in Reservations |-> "none"]
    /\ scan = IdleScan
    /\ elapsed = 0
    /\ reported = {}
    /\ failedRuns = 0
    /\ refreshes = 0

Live(ttl) == {r \in Reservations : ttl[r] > 0}

-----------------------------------------------------------------------------
(* The commands of the gRPC handlers and of the event handlers *)

StoreID(r) ==
    /\ entry[r] = "none"
    /\ id' = [id EXCEPT ![r] = ReservationTTL]
    /\ entry' = [entry EXCEPT ![r] = "id"]
    /\ UNCHANGED <<data, scanVars, refreshes>>

\* Mutant: the data is stored with the reservation's own TTL.
StoreData_SameTTL(r) ==
    /\ entry[r] = "id"
    /\ data' = [data EXCEPT ![r] = ReservationTTL]
    /\ entry' = [entry EXCEPT ![r] = "stored"]
    /\ UNCHANGED <<id, scanVars, refreshes>>

\* The second SET of Store.  It may fail, or never come: StoreID alone is
\* a behaviour of the specification too.
StoreData(r) ==
    /\ entry[r] = "id"
    /\ data' = [data EXCEPT ![r] = ReservationDataTTL]
    /\ entry' = [entry EXCEPT ![r] = "stored"]
    /\ UNCHANGED <<id, scanVars, refreshes>>

\* Mutant: the time to live is added to what is left of it.
Refresh_Adds(r) ==
    /\ refreshes < MaxRefreshes
    /\ id[r] > 0
    /\ id' = [id EXCEPT ![r] = @ + ReservationTTL]
    /\ refreshes' = refreshes + 1
    /\ UNCHANGED <<data, entry, scanVars>>

\* EXPIRE on the id key only; it does nothing when the key is gone.
Refresh(r) ==
    /\ refreshes < MaxRefreshes
    /\ id[r] > 0
    /\ id' = [id EXCEPT ![r] = ReservationTTL]
    /\ refreshes' = refreshes + 1
    /\ UNCHANGED <<data, entry, scanVars>>

\* An event handler, or the gRPC handlers, take over the reservation.
DeleteData(r) ==
    /\ data[r] > 0
    /\ data' = [data EXCEPT ![r] = 0]
    /\ entry' = [entry EXCEPT ![r] = "deleted"]
    /\ UNCHANGED <<id, scanVars, refreshes>>

DeleteID(r) ==
    /\ entry[r] = "deleted"
    /\ id[r] > 0
    /\ id' = [id EXCEPT ![r] = 0]
    /\ UNCHANGED <<data, entry, scanVars, refreshes>>

-----------------------------------------------------------------------------
(* GetExpired.  SCAN returns the keys that are there from the first call   *)
(* to the last; for the others it depends on when the cursor comes by.     *)

StartRun ==
    /\ scan.pc = "idle"
    /\ elapsed = CleanupInterval
    /\ scan' = [IdleScan EXCEPT !.pc = "ids", !.unseen = Reservations, !.began = Live(id)]
    /\ elapsed' = 0
    /\ UNCHANGED <<cacheVars, reported, failedRuns, refreshes>>

\* Mutant: only the first batch of ids is fetched.
ScanID_FirstBatch(r) ==
    /\ scan.pc = "ids"
    /\ r \in scan.unseen
    /\ scan' = [scan EXCEPT !.pc = "data", !.unseen = Reservations,
                            !.active = Live(id) \cap {r}]
    /\ UNCHANGED <<cacheVars, elapsed, reported, failedRuns, refreshes>>

\* The cursor of the first loop passes by reservation r.
ScanID(r) ==
    LET left == scan.unseen \ {r} IN
    /\ scan.pc = "ids"
    /\ r \in scan.unseen
    /\ scan' = [scan EXCEPT !.pc = IF left = {} THEN "data" ELSE @,
                            !.unseen = IF left = {} THEN Reservations ELSE left,
                            !.active = @ \cup (Live(id) \cap {r})]
    /\ UNCHANGED <<cacheVars, elapsed, reported, failedRuns, refreshes>>

\* The cursor of the second loop passes by reservation r.
ScanData(r) ==
    LET left == scan.unseen \ {r} IN
    /\ scan.pc = "data"
    /\ r \in scan.unseen
    /\ scan' = [scan EXCEPT !.pc = IF left = {} THEN "mget" ELSE @,
                            !.unseen = left,
                            !.dataKeys = @ \cup (Live(data) \cap {r})]
    /\ UNCHANGED <<cacheVars, elapsed, reported, failedRuns, refreshes>>

\* Data entries deleted since the scan come back as nil and are skipped.
MGet ==
    /\ scan.pc = "mget"
    /\ reported' = reported \cup ((scan.dataKeys \cap Live(data)) \ scan.active)
    /\ scan' = IdleScan
    /\ UNCHANGED <<cacheVars, elapsed, failedRuns, refreshes>>

\* A Redis command of the run fails, or what it found cannot be scheduled.
FailRun ==
    /\ failedRuns < MaxFailedRuns
    /\ scan.pc # "idle"
    /\ failedRuns' = failedRuns + 1
    /\ scan' = IdleScan
    /\ UNCHANGED <<cacheVars, elapsed, reported, refreshes>>

-----------------------------------------------------------------------------
\* Time passes.  The ticker starts a run at every interval, and a run ends
\* within MaxScanTime.
Tick ==
    /\ elapsed < IF scan.pc = "idle" THEN CleanupInterval ELSE MaxScanTime
    /\ elapsed' = elapsed + 1
    /\ id' = [r \in Reservations |-> IF id[r] > 0 THEN id[r] - 1 ELSE 0]
    /\ data' = [r \in Reservations |-> IF data[r] > 0 THEN data[r] - 1 ELSE 0]
    /\ UNCHANGED <<entry, scan, reported, failedRuns, refreshes>>

Command(r) == StoreID(r) \/ StoreData(r) \/ Refresh(r) \/ DeleteData(r) \/ DeleteID(r)

Next ==
    \/ \E r \in Reservations : Command(r) \/ ScanID(r) \/ ScanData(r)
    \/ StartRun \/ MGet \/ FailRun
    \/ Tick

Spec == Init /\ [][Next]_vars

-----------------------------------------------------------------------------
(* Properties *)

\* The data of a reservation that nobody took over does not lapse before the
\* cleanup job has returned it: otherwise its capacity stays reserved for ever.
NeverLapsesUnreported ==
    \A r \in Reservations : entry[r] = "stored" /\ data[r] = 0 => r \in reported

\* A run never returns a reservation that was active when the run began and
\* still is, however its scans interleave with refreshes and deletions.
ActiveNeverReported ==
    [][\A r \in (reported' \ reported) \cap scan.began : id[r] = 0]_vars
=============================================================================
