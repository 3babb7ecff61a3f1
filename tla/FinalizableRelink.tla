------------------------- MODULE FinalizableRelink -------------------------
(***************************************************************************)
(* EvacuatorRootScanner::scanFinalizableObjects: when the finalize list    *)
(* manager holds objects from earlier cycles (finalizable objects loaded   *)
(* by the system class loader, by other class loaders, and reference       *)
(* objects waiting to be enqueued), the workers meet and one elected       *)
(* worker walks each of the three lists (scavengeFinalizableObjects):      *)
(* an object in evacuate space is copied, or its forwarding address is    *)
(* taken, and the new address is pushed on a local buffer that is flushed  *)
(* back to the manager. Objects outside evacuate space are re-added as     *)
(* they are. A failed copy re-adds the object at its old address.          *)
(*                                                                         *)
(* A list entry or link is an address [obj, space]; a copy keeps the link  *)
(* field, so links are kept per object.                                    *)
(***************************************************************************)
EXTENDS Naturals, Sequences, FiniteSets, SequencesExt

CONSTANTS
    Workers,            \* GC worker threads
    Objects,            \* objects on the finalize list manager's lists
    Null,
    Tenured,            \* objects outside evacuate memory
    FinalizableInit,    \* [Kinds -> Seq(Objects)]: the manager's lists at cycle start
    EvacuationMayFail   \* evacuateRootObject may fail for lack of copy space

Kinds == {"system", "default", "reference"}

(* scavengeFinalizableObjects is three blocks run in this order, each a    *)
(* reset, a walk loop and a flush; the labels of each block, and where the *)
(* elected worker goes after its flush ("release": back in                 *)
(* scanFinalizableObjects, which releases the other workers).               *)
ResetAt == [k \in Kinds |-> "reset_" \o k]
WalkAt == [k \in Kinds |-> "walk_" \o k]
AfterBlock == [system |-> "reset_default", default |-> "reset_reference", reference |-> "release"]

ASSUME /\ Null \notin Objects /\ Tenured \subseteq Objects
       /\ FinalizableInit \in [Kinds -> Seq(Objects)]

Ptr(o, space) == [obj |-> o, space |-> space]
InitialPtr(o) == Ptr(o, IF o \in Tenured THEN "tenure" ELSE "evacuate")

VARIABLES
    pc,         \* [Workers -> label]
    flags,      \* evacuator flags: shouldScavengeFinalizableObjects
    cursor,     \* address the elected worker is at
    buffer,     \* the local finalizable object / reference buffer
    lists,      \* [Kinds -> address]: the manager's list heads
    link,       \* [Objects -> address]: finalize link / reference link
    copied,     \* objects forwarded (by earlier root scanning or this walk)
    failed      \* objects whose copy failed

vars == <<pc, flags, cursor, buffer, lists, link, copied, failed>>

RECURSIVE ChainUpTo(_, _)
ChainUpTo(p, n) == IF p = Null \/ n = 0 THEN << >> ELSE <<p>> \o ChainUpTo(link[p.obj], n - 1)
Chain(p) == ChainUpTo(p, Cardinality(Objects) + 1)
HeadOr(buf) == IF buf = << >> THEN Null ELSE Head(buf)

(* The manager's lists as the previous cycles left them, linked through    *)
(* the objects' own fields.                                                *)
Successors(o) ==
    UNION {{FinalizableInit[k][i + 1] : i \in {i \in 1..Len(FinalizableInit[k]) - 1 :
                                                FinalizableInit[k][i] = o}} : k \in Kinds}
InitLink ==
    [o \in Objects |-> IF Successors(o) = {} THEN Null
                       ELSE InitialPtr(CHOOSE n \in Successors(o) : TRUE)]

(* prepareForEvacuation returns shouldScavengeFinalizableObjects when      *)
(* isFinalizableObjectProcessingRequired; root scanning before this point  *)
(* may already have copied some of the objects.                            *)
Init ==
    /\ pc = [w \in Workers |-> "finalizable"]
    /\ flags = IF \E k \in Kinds : FinalizableInit[k] # << >>
               THEN {"shouldScavengeFinalizableObjects"} ELSE {}
    /\ cursor = Null
    /\ buffer = << >>
    /\ lists = [k \in Kinds |-> IF FinalizableInit[k] = << >> THEN Null
                                ELSE InitialPtr(Head(FinalizableInit[k]))]
    /\ link = InitLink
    /\ copied \in SUBSET (Objects \ Tenured)
    /\ failed = {}

-----------------------------------------------------------------------------
(* scanFinalizableObjects: with the flag set every worker enters the       *)
(* synchronize-and-elect barrier; without it each goes on.                 *)
ScanFinalizableObjects(w) ==
    /\ pc[w] = "finalizable"
    /\ pc' = [pc EXCEPT ![w] = IF "shouldScavengeFinalizableObjects" \in flags
                                THEN "finalizableSync" ELSE "roots"]
    /\ UNCHANGED <<flags, cursor, buffer, lists, link, copied, failed>>

(* The last worker to arrive is elected; the others wait to be released.  *)
Elect(w) ==
    /\ \A v \in Workers : pc[v] = "finalizableSync"
    /\ pc' = [v \in Workers |-> IF v = w THEN ResetAt["system"] ELSE "released"]
    /\ UNCHANGED <<flags, cursor, buffer, lists, link, copied, failed>>

(* resetSystem/DefaultFinalizableObjects, resetReferenceObjects: the walk  *)
(* takes the whole list and leaves the manager's list empty.               *)
ResetList(w, k) ==
    /\ pc[w] = ResetAt[k]
    /\ cursor' = lists[k]
    /\ lists' = [lists EXCEPT ![k] = Null]
    /\ pc' = [pc EXCEPT ![w] = WalkAt[k]]
    /\ UNCHANGED <<flags, buffer, link, copied, failed>>

(* Mutant: the link is read after buffer.add() has rewritten it.          *)
FinalizableNextAfterAdd(p) == HeadOr(buffer)
(* The link to follow, read before the entry is pushed on the buffer.     *)
FinalizableNext(p) == link[p.obj]

(* Mutant: the object's old address is pushed even when it was forwarded. *)
FinalizableEntryOld(p, moved) == p
(* The address pushed: the copy's address for an object forwarded now or  *)
(* earlier, the old one for an object outside evacuate space or whose     *)
(* copy failed.                                                            *)
FinalizableEntry(p, moved) == IF moved THEN Ptr(p.obj, "survivor") ELSE p

(* One iteration of a walk loop.                                           *)
ScavengeFinalizableObject(w) ==
    LET p == cursor IN
    /\ pc[w] \in Range(WalkAt)
    /\ p # Null
    /\ \E fail \in IF p.space = "evacuate" /\ p.obj \notin copied /\ EvacuationMayFail
                   THEN BOOLEAN ELSE {FALSE} :
         LET moved == p.space = "evacuate" /\ ~fail
             q == FinalizableEntry(p, moved)
         IN  /\ copied' = IF moved THEN copied \cup {p.obj} ELSE copied
             /\ failed' = IF fail THEN failed \cup {p.obj} ELSE failed
             /\ cursor' = FinalizableNext(p)
             /\ link' = [link EXCEPT ![q.obj] = HeadOr(buffer)]
             /\ buffer' = <<q>> \o buffer
    /\ UNCHANGED <<pc, flags, lists>>

(* Mutant: the elected worker leaves without releasing the others.        *)
NextBlockNoRelease(w, k) ==
    IF AfterBlock[k] = "release" THEN pc' = [pc EXCEPT ![w] = "roots"]
    ELSE pc' = [pc EXCEPT ![w] = AfterBlock[k]]
(* After a block's flush the elected worker enters the next block; after   *)
(* the last, scavengeFinalizableObjects returns and                        *)
(* releaseSynchronizedGCThreads frees the waiting workers.                 *)
NextBlock(w, k) ==
    IF AfterBlock[k] = "release" THEN pc' = [v \in Workers |-> "roots"]
    ELSE pc' = [pc EXCEPT ![w] = AfterBlock[k]]

(* buffer.flush(): the buffer goes back onto the manager's list.          *)
FlushFinalizableBuffer(w, k) ==
    /\ pc[w] = WalkAt[k]
    /\ cursor = Null
    /\ IF buffer = << >> THEN UNCHANGED <<link, lists>>
       ELSE /\ link' = [link EXCEPT ![Last(buffer).obj] = lists[k]]
            /\ lists' = [lists EXCEPT ![k] = Head(buffer)]
    /\ buffer' = << >>
    /\ NextBlock(w, k)
    /\ UNCHANGED <<flags, cursor, copied, failed>>

Done == \A w \in Workers : pc[w] = "roots"
Terminated == Done /\ UNCHANGED vars

Next ==
    \/ \E w \in Workers : \/ ScanFinalizableObjects(w) \/ Elect(w) \/ ScavengeFinalizableObject(w)
                          \/ \E k \in Kinds : ResetList(w, k) \/ FlushFinalizableBuffer(w, k)
    \/ Terminated

Spec == Init /\ [][Next]_vars /\ WF_vars(Next)

-----------------------------------------------------------------------------
(* Where an object is at the end of the walk: the copy's address once it  *)
(* is forwarded, otherwise where it was.                                   *)
CurrentAddress(o) == IF o \in copied THEN Ptr(o, "survivor") ELSE InitialPtr(o)

(* When the workers leave scanFinalizableObjects each of the manager's     *)
(* lists holds, once each and without a cycle, exactly the objects it held *)
(* before: the walks, the failure paths and the flushes lose, duplicate or *)
(* move nothing.                                                           *)
FinalizableConserved ==
    Done => \A k \in Kinds :
                LET c == Chain(lists[k])
                IN  /\ IsInjective(c)
                    /\ {p.obj : p \in Range(c)} = Range(FinalizableInit[k])

(* When the workers leave scanFinalizableObjects every address on the      *)
(* manager's lists, heads and links alike, is its object's current         *)
(* address: no entry still points at an evacuated copy's old location,     *)
(* and a failed copy stays at its old address.                             *)
AddressesCurrent ==
    Done => \A k \in Kinds : \A p \in Range(Chain(lists[k])) : p = CurrentAddress(p.obj)

(* Every worker leaves scanFinalizableObjects: the elected worker finishes *)
(* the three walks and releaseSingleThread frees the waiting workers       *)
(* (liveness, under weak fairness of the workers).                         *)
RelinkTerminates == <>Done

====
