------------------------ MODULE OwnableSyncRebuild ------------------------
(***************************************************************************)
(* The rebuild of the ownable synchronizer lists during an evacuator       *)
(* cycle (EvacuatorDelegate):                                              *)
(*                                                                         *)
(*   prepareForEvacuation empties the list of every nursery region         *)
(*     (startOwnableSynchronizerProcessing) and keeps the list of every    *)
(*     other region (backupList);                                          *)
(*   every copy of a synchronizer that the evacuator scans as a heap       *)
(*     object goes through getOwnableSynchronizerObjectScanner, which     *)
(*     pushes it on the worker's buffer if it was registered before the   *)
(*     cycle (a non-NULL list link), and counts it;                        *)
(*   scanClearable flushes the buffer before the clearing phase, and      *)
(*     flushForEndCycle flushes what the clearing phase's drains added.   *)
(*                                                                         *)
(* Lists and buffers are sequences: the order inside a list is of no      *)
(* concern here, only what each holds and how often.                       *)
(***************************************************************************)
EXTENDS Naturals, Sequences, FiniteSets, SequencesExt

CONSTANTS
    Workers,            \* GC worker threads
    NurserySyncs,       \* synchronizer objects in the nursery at cycle start
    Registered,         \* those on a list (the rest are still under construction)
    TenureSyncs,        \* synchronizer objects on the tenure region's list
    RootScanned,        \* tenure objects the evacuator scans in a root-scan context
    BufferMax,          \* capacity of the per-thread synchronizer buffer
    ConcurrentScavenger \* isConcurrentScavengerEnabled()

Syncs == NurserySyncs \cup TenureSyncs
Regions == {"survivor", "tenure"}
Phases == {"main", "clearing"}

ASSUME /\ Registered \subseteq NurserySyncs /\ NurserySyncs \cap TenureSyncs = {}
       /\ RootScanned \subseteq TenureSyncs /\ BufferMax \in Nat \ {0}

(* What the copying engine does with each nursery synchronizer: it dies,  *)
(* or it is copied to survivor or tenure space in the main scan or in a    *)
(* drain of the clearing phase (after finalization resurrected it).       *)
Fates == {"dead"} \cup (Regions \X Phases)

VARIABLES
    pc,             \* [Workers -> label]
    fate,           \* [NurserySyncs -> Fates]
    scanned,        \* copies (and root-scanned objects) some worker has scanned
    list,           \* [Regions -> Seq(Syncs)]: the regions' synchronizer lists
    buf,            \* [Workers -> Seq(Syncs)]: per-thread synchronizer buffers
    bufRegion,      \* [Workers -> Regions]: the region the buffer's objects are in
    totalSurvived,  \* [Workers -> Nat]: _ownableSynchronizerTotalSurvived
    nurserySurvived \* [Workers -> Nat]: _ownableSynchronizerNurserySurvived

vars == <<pc, fate, scanned, list, buf, bufRegion, totalSurvived, nurserySurvived>>

(* Where an object lives after its copy; tenure objects are not moved.    *)
RegionOf(o) == IF o \in TenureSyncs THEN "tenure" ELSE fate[o][1]
Copied(ph) == {o \in NurserySyncs : fate[o] # "dead" /\ fate[o][2] = ph}

(* prepareForEvacuation: nursery lists start processing (empty for the    *)
(* rebuild), other regions' lists are backed up and stay as they are.     *)
Init ==
    /\ pc = [w \in Workers |-> "main"]
    /\ fate \in [NurserySyncs -> Fates]
    /\ scanned = {}
    /\ list = [r \in Regions |-> IF r = "tenure" THEN SetToSeq(TenureSyncs) ELSE << >>]
    /\ buf = [w \in Workers |-> << >>]
    /\ bufRegion = [w \in Workers |-> "survivor"]
    /\ totalSurvived = [w \in Workers |-> 0]
    /\ nurserySurvived = [w \in Workers |-> 0]

-----------------------------------------------------------------------------
(* buffer.flush(): the buffered objects are prepended to their region's    *)
(* list in one step.                                                       *)
FlushBuffer(w) ==
    /\ list' = [list EXCEPT ![bufRegion[w]] = buf[w] \o @]
    /\ buf' = [buf EXCEPT ![w] = << >>]

(* Mutant: the buffer is taken as full one object too late.               *)
BufferFullLate(w) == Len(buf[w]) > BufferMax
BufferFull(w) == Len(buf[w]) = BufferMax

(* buffer.add(): a full buffer, or one holding another region's objects,   *)
(* is flushed first.                                                       *)
BufferAdd(w, o) ==
    /\ IF buf[w] # << >> /\ (RegionOf(o) # bufRegion[w] \/ BufferFull(w))
       THEN /\ list' = [list EXCEPT ![bufRegion[w]] = buf[w] \o @]
            /\ buf' = [buf EXCEPT ![w] = <<o>>]
       ELSE /\ buf' = [buf EXCEPT ![w] = <<o>> \o @]
            /\ UNCHANGED list
    /\ bufRegion' = [bufRegion EXCEPT ![w] = RegionOf(o)]

(* Mutant: an object under construction is not told apart.                *)
InOwnableSynchronizerListAny(o) == TRUE
(* isObjectInOwnableSynchronizerList(): the object was on a list before    *)
(* the cycle; its copy carries the link field.                             *)
InOwnableSynchronizerList(o) == o \in Registered \cup TenureSyncs

(* Mutant: the survivor statistic counts tenured copies too.               *)
CountNurserySurvivedAll(w, o) == [nurserySurvived EXCEPT ![w] = @ + 1]
(* Only a copy in survivor space counts as a nursery survivor.             *)
CountNurserySurvived(w, o) ==
    IF RegionOf(o) = "survivor" THEN [nurserySurvived EXCEPT ![w] = @ + 1]
    ELSE nurserySurvived

(* getOwnableSynchronizerObjectScanner for a heap scan of object o.        *)
ScanOwnableSynchronizer(w, o) ==
    IF ~ConcurrentScavenger /\ InOwnableSynchronizerList(o)
    THEN /\ BufferAdd(w, o)
         /\ totalSurvived' = [totalSurvived EXCEPT ![w] = @ + 1]
         /\ nurserySurvived' = CountNurserySurvived(w, o)
    ELSE UNCHANGED <<list, buf, bufRegion, totalSurvived, nurserySurvived>>

(* The evacuator scans each copy once, in the phase it was copied in.     *)
ScanObject(w) ==
    /\ pc[w] \in Phases
    /\ \E o \in Copied(pc[w]) \ scanned :
         /\ scanned' = scanned \cup {o}
         /\ ScanOwnableSynchronizer(w, o)
    /\ UNCHANGED <<pc, fate>>

(* Mutant: the scan-context test is left out.                              *)
RootScanAsHeap(w, o) == ScanOwnableSynchronizer(w, o)
(* A root-scan context (GC_ObjectScanner::isRootScan) never registers:     *)
(* those objects are already on their region's kept list.                  *)
RootScan(w, o) == UNCHANGED <<list, buf, bufRegion, totalSurvived, nurserySurvived>>

ScanRootObject(w) ==
    /\ pc[w] = "main"
    /\ \E o \in RootScanned \ scanned :
         /\ scanned' = scanned \cup {o}
         /\ RootScan(w, o)
    /\ UNCHANGED <<pc, fate>>

(* The main scan is over when every worker is idle and every copy made so  *)
(* far has been scanned.                                                   *)
MainScanComplete ==
    /\ \A w \in Workers : pc[w] = "main"
    /\ Copied("main") \cup RootScanned \subseteq scanned
    /\ pc' = [w \in Workers |-> "clearable"]
    /\ UNCHANGED <<fate, scanned, list, buf, bufRegion, totalSurvived, nurserySurvived>>

(* Mutant: scanClearable goes into the clearing stage without the flush.   *)
ScanClearableNoFlush(w) ==
    /\ pc[w] = "clearable"
    /\ pc' = [pc EXCEPT ![w] = "clearableSync"]
    /\ UNCHANGED <<fate, scanned, list, buf, bufRegion, totalSurvived, nurserySurvived>>
(* EvacuatorDelegate::scanClearable: the buffer is flushed, then the root  *)
(* scanner's scanClearable synchronizes all workers.                      *)
ScanClearable(w) ==
    /\ pc[w] = "clearable"
    /\ FlushBuffer(w)
    /\ pc' = [pc EXCEPT ![w] = "clearableSync"]
    /\ UNCHANGED <<fate, scanned, bufRegion, totalSurvived, nurserySurvived>>

ClearableSync ==
    /\ \A w \in Workers : pc[w] = "clearableSync"
    /\ pc' = [w \in Workers |-> "clearing"]
    /\ UNCHANGED <<fate, scanned, list, buf, bufRegion, totalSurvived, nurserySurvived>>

(* The last drain of the clearing phase completes.                         *)
ClearingComplete ==
    /\ \A w \in Workers : pc[w] = "clearing"
    /\ Copied("clearing") \subseteq scanned
    /\ pc' = [w \in Workers |-> "endCycle"]
    /\ UNCHANGED <<fate, scanned, list, buf, bufRegion, totalSurvived, nurserySurvived>>

(* Mutant: the worker finishes the cycle without flushing its buffer.     *)
FlushForEndCycleNoFlush(w) ==
    /\ pc[w] = "endCycle"
    /\ pc' = [pc EXCEPT ![w] = "done"]
    /\ UNCHANGED <<fate, scanned, list, buf, bufRegion, totalSurvived, nurserySurvived>>
(* flushForEndCycle: what the clearing drains buffered goes to the lists.  *)
FlushForEndCycle(w) ==
    /\ pc[w] = "endCycle"
    /\ FlushBuffer(w)
    /\ pc' = [pc EXCEPT ![w] = "done"]
    /\ UNCHANGED <<fate, scanned, bufRegion, totalSurvived, nurserySurvived>>

Done == \A w \in Workers : pc[w] = "done"
Terminated == Done /\ UNCHANGED vars

Next ==
    \/ \E w \in Workers : \/ ScanObject(w) \/ ScanRootObject(w) \/ ScanClearable(w)
                          \/ FlushForEndCycle(w)
    \/ MainScanComplete \/ ClearableSync \/ ClearingComplete
    \/ Terminated

Spec == Init /\ [][Next]_vars

-----------------------------------------------------------------------------
TypeOK ==
    /\ pc \in [Workers -> Phases \cup {"clearable", "clearableSync", "endCycle", "done"}]
    /\ fate \in [NurserySyncs -> Fates] /\ scanned \subseteq Syncs
    /\ list \in [Regions -> Seq(Syncs)]
    /\ buf \in [Workers -> {b \in Seq(Syncs) : Len(b) <= BufferMax}]
    /\ bufRegion \in [Workers -> Regions]
    /\ totalSurvived \in [Workers -> Nat] /\ nurserySurvived \in [Workers -> Nat]

(* The registered synchronizers whose copy lands in region r.              *)
Rebuilt(r, phases) == {o \in Registered : fate[o] # "dead" /\ fate[o][1] = r /\ fate[o][2] \in phases}

(* After flushForEndCycle on every worker the survivor region's list holds *)
(* exactly the registered synchronizers copied there, and the tenure       *)
(* region's list its kept objects plus those copied there, each object     *)
(* once: nothing dead, nothing under construction, nothing registered      *)
(* twice through a second scan or a root scan.                             *)
SyncListsRebuilt ==
    Done => \A r \in Regions :
                /\ IsInjective(list[r])
                /\ Range(list[r]) = Rebuilt(r, Phases)
                                    \cup (IF r = "tenure" THEN TenureSyncs ELSE {})

(* Once every worker has passed scanClearable's flush, the lists hold every *)
(* synchronizer the main scan rebuilt, so the clearing stage sees complete  *)
(* lists; only the clearing drains' additions wait for flushForEndCycle.   *)
MainRebuildPublished ==
    (\A w \in Workers : pc[w] \in {"clearing", "endCycle", "done"})
        => \A r \in Regions : Rebuilt(r, {"main"}) \subseteq Range(list[r])

(* At the end of the cycle the per-thread statistics, summed, count each   *)
(* surviving registered synchronizer once, and the nursery-survivor count  *)
(* only those copied to survivor space.                                    *)
SurvivorStatsExact ==
    Done => /\ SumFunction(totalSurvived) = Cardinality(Rebuilt("survivor", Phases)
                                                        \cup Rebuilt("tenure", Phases))
            /\ SumFunction(nurserySurvived) = Cardinality(Rebuilt("survivor", Phases))

====
