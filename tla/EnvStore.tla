------------------------------ MODULE EnvStore ------------------------------
(***************************************************************************)
(* The settings in the serial flash: EasyFlash's environment (ef_env.c),   *)
(* as Flash_Set and Flash_Get of device/FlashWork.c use it.                *)
(*                                                                         *)
(* A variable is a node in a sector; a new value is a new node, and the    *)
(* statuses PRE_WRITE, WRITE, PRE_DELETE and DELETED say how far the       *)
(* replacement has come.  Bits of the flash are only cleared, until a      *)
(* whole sector is erased; garbage collection moves the nodes in use to    *)
(* the sector kept empty for it.  A step is one write to the flash         *)
(* (ef_port_write, ef_port_erase) together with the reads before it; power *)
(* may be lost between any two.  Callers hold the environment's lock       *)
(* (module EnvLock), so that one call is in progress at a time.            *)
(*                                                                         *)
(* All nodes take one slot of their sector.                                *)
(***************************************************************************)
EXTENDS Integers, Sequences, FiniteSets

CONSTANTS
    Keys,             \* names of variables
    Values,           \* what they are set to
    SECTOR_NUM,       \* number of sectors
    Slots,            \* nodes that fit into a sector
    RemainThreshold,  \* EF_SEC_REMAIN_THRESHOLD, in slots
    EmptyThreshold,   \* EF_GC_EMPTY_SEC_THRESHOLD
    CacheSize,        \* EF_ENV_CACHE_TABLE_SIZE
    MaxLosses,        \* bound: losses of power in a behaviour
    None              \* no key, no address, no call

Sectors == 1 .. SECTOR_NUM
Places == Sectors \X (1 .. Slots)

ASSUME EnvConstants ==
    /\ SECTOR_NUM \in Nat /\ SECTOR_NUM >= 2
    /\ EmptyThreshold \in 1 .. SECTOR_NUM - 1
    /\ RemainThreshold \in Nat
    /\ CacheSize \in Nat \ {0}
    /\ MaxLosses \in Nat
    /\ IsFiniteSet(Keys) /\ Values # {}
    /\ None \notin Keys /\ None \notin Values /\ None \notin Sectors /\ None \notin Places
    \* room for every variable next to what interrupted boots leave behind
    /\ Slots \in Nat /\ Slots >= Cardinality(Keys) + MaxLosses + RemainThreshold

ASSUME NoneIsNoCall == None \notin [key : Keys, val : Values]

VARIABLES
    flash,       \* per sector: header, statuses and nodes
    pc,          \* where the call, or the boot, has come to
    request,     \* the call of ef_set_env in progress
    job,         \* the node being written: its content, destination and origin
    gc,          \* garbage collection: sector, next node, where to go on afterwards
    gc_request,
    in_recovery_check,
    env_cache_table,
    last_is_complete_del,
    losses       \* losses of power so far

ram == <<request, job, gc, gc_request, in_recovery_check, env_cache_table,
         last_is_complete_del>>
vars == <<flash, pc, ram, losses>>

NoJob == [key |-> None, val |-> None, src |-> None, dst |-> 0, full |-> FALSE, then |-> "none"]
NoGc == [s |-> 0, i |-> 0, then |-> "none"]

\* ENV_DELETED, ENV_ERR_HDR, or a status byte without a header: no scan looks
\* at such a node again, only its space is taken.
Dead == [st |-> "DEAD", key |-> None, val |-> None, crc |-> FALSE]
Erased == [magic |-> FALSE, store |-> "UNUSED", dirty |-> "UNUSED", nodes |-> << >>]
Formatted == [magic |-> TRUE, store |-> "EMPTY", dirty |-> "FALSE", nodes |-> << >>]

Node == [st : {"DEAD", "PRE_WRITE", "WRITE", "PRE_DELETE"},
         key : Keys \cup {None}, val : Values \cup {None}, crc : BOOLEAN]

TypeOK ==
    /\ DOMAIN flash = Sectors
    /\ \A s \in Sectors :
          /\ flash[s].magic \in BOOLEAN
          /\ flash[s].store \in {"UNUSED", "EMPTY", "USING", "FULL"}
          /\ flash[s].dirty \in {"UNUSED", "FALSE", "TRUE", "GC"}
          /\ Len(flash[s].nodes) <= Slots
          /\ \A i \in DOMAIN flash[s].nodes : flash[s].nodes[i] \in Node
    /\ env_cache_table \in [Keys -> Places \cup {None}]
    /\ Cardinality({k \in Keys : env_cache_table[k] # None}) <= CacheSize
    /\ losses \in 0 .. MaxLosses
----------------------------------------------------------------------------
(* Reading.                                                                *)

NodeAt(p) == flash[p[1]].nodes[p[2]]

\* env_iterator goes through sectors and nodes in the order of addresses.
Before(p, q) == p[1] < q[1] \/ (p[1] = q[1] /\ p[2] < q[2])
FirstOf(S) == IF S = {} THEN None
              ELSE CHOOSE p \in S : \A q \in S : p = q \/ Before(p, q)

Readable(s) == flash[s].magic /\ flash[s].store \in {"USING", "FULL"}
Iterated == {p \in Places : Readable(p[1]) /\ p[2] <= Len(flash[p[1]].nodes)}

find_env_no_cache(k) ==
    FirstOf({p \in Iterated : NodeAt(p).key = k /\ NodeAt(p).crc /\ NodeAt(p).st = "WRITE"})

\* The address in the cache is trusted.
find_env(k) ==
    IF env_cache_table[k] # None THEN env_cache_table[k] ELSE find_env_no_cache(k)

Remain(s) == Slots - Len(flash[s].nodes)
Empties == {s \in Sectors : flash[s].magic /\ flash[s].store = "EMPTY"}
Lowest(S) == CHOOSE s \in S : \A t \in S : s <= t

Allocatable(s) ==
    /\ flash[s].magic /\ Remain(s) > 1
    /\ flash[s].dirty = "FALSE" \/ (flash[s].dirty = "TRUE" /\ ~gc_request)

UsingCandidates == {s \in Sectors : flash[s].store = "USING" /\ Allocatable(s)}

\* Faulty variant (EmptyCandidates): the last empty sector is given away.
EmptyCandidatesToTheLast ==
    {s \in Empties : Allocatable(s) /\ (Cardinality(Empties) >= EmptyThreshold \/ gc_request)}

EmptyCandidates ==
    {s \in Empties : Allocatable(s) /\ (Cardinality(Empties) > EmptyThreshold \/ gc_request)}

\* alloc_env: a sector in use, else an empty one if that leaves enough of
\* them or garbage is being collected.
alloc_env ==
    IF UsingCandidates # {} THEN Lowest(UsingCandidates)
    ELSE IF EmptyCandidates # {} THEN Lowest(EmptyCandidates)
    ELSE None
\* A failed allocation requests garbage collection if a sector is kept empty.
RequestAfterAlloc == gc_request \/ (alloc_env = None /\ Empties # {})

----------------------------------------------------------------------------
(* Writing.                                                                *)

SetNode(p, n) == flash' = [flash EXCEPT ![p[1]].nodes[p[2]] = n]
Kill(p) == SetNode(p, Dead)
MarkDirty(s) ==
    flash' = IF flash[s].dirty = "FALSE" THEN [flash EXCEPT ![s].dirty = "TRUE"] ELSE flash

\* A new entry takes a free place in the table, or that of the least active.
update_env_cache(k, p) ==
    \/ /\ env_cache_table[k] # None
          \/ Cardinality({q \in Keys : env_cache_table[q] # None}) < CacheSize
       /\ env_cache_table' = [env_cache_table EXCEPT ![k] = p]
    \/ /\ env_cache_table[k] = None
       /\ Cardinality({q \in Keys : env_cache_table[q] # None}) = CacheSize
       /\ \E victim \in Keys \ {k} :
             /\ env_cache_table[victim] # None
             /\ env_cache_table' = [env_cache_table EXCEPT ![k] = p, ![victim] = None]

\* find_env enters what it had to search for.
CacheFound(k) ==
    IF env_cache_table[k] = None /\ find_env(k) # None
    THEN update_env_cache(k, find_env(k))
    ELSE UNCHANGED env_cache_table

\* The slot the current job writes: the last one begun in its sector.
Slot == <<job.dst, Len(flash[job.dst].nodes)>>

----------------------------------------------------------------------------
(* ef_set_env.                                                             *)

\* The first n variables of the table of defaults, as ef_env_set_default has
\* written them.
DefaultNodes(n) ==
    LET order == CHOOSE f \in [1 .. Cardinality(Keys) -> Keys] :
                    \A k \in Keys : \E i \in DOMAIN f : f[i] = k
        default == CHOOSE v \in Values : TRUE
    IN  [i \in 1 .. n |-> [st |-> "WRITE", key |-> order[i], val |-> default, crc |-> TRUE]]

\* A device after its first boot.  Power may have been lost in it: then the
\* headers are right, nobody writes the defaults again and the rest is missing.
Init ==
    /\ \E n \in 1 .. Cardinality(Keys) :
          flash = [s \in Sectors |->
                IF s = 1
                THEN [Formatted EXCEPT !.store = "USING", !.nodes = DefaultNodes(n)]
                ELSE Formatted]
    /\ pc = "idle"
    /\ request = None
    /\ job = NoJob
    /\ gc = NoGc
    /\ gc_request = FALSE
    /\ in_recovery_check = FALSE
    /\ env_cache_table = [k \in Keys |-> None]
    /\ last_is_complete_del = FALSE
    /\ losses = 0

Call(k, v) ==
    /\ pc = "idle"
    /\ request' = [key |-> k, val |-> v]
    /\ pc' = "alloc"
    /\ UNCHANGED <<flash, job, gc, gc_request, in_recovery_check, env_cache_table,
                   last_is_complete_del, losses>>

\* ef_get_env: nothing but the cache changes.
ef_get_env(k) ==
    /\ pc = "idle"
    /\ CacheFound(k)
    /\ UNCHANGED <<flash, pc, request, job, gc, gc_request, in_recovery_check,
                   last_is_complete_del, losses>>

\* gc_collect begins; if more sectors are empty than have to be it ends at once.
FewEmpty == Cardinality(Empties) <= EmptyThreshold
StartGc(then) ==
    /\ pc' = "gc"
    /\ gc' = [s |-> IF FewEmpty THEN 1 ELSE SECTOR_NUM + 1, i |-> 1, then |-> then]

\* new_env: space for the new value, collecting garbage once if there is none.
new_env ==
    /\ pc \in {"alloc", "retry"}
    /\ \/ /\ alloc_env # None
          /\ job' = [NoJob EXCEPT !.key = request.key, !.val = request.val,
                                  !.dst = alloc_env, !.then = "setend"]
          /\ pc' = "find"
          /\ UNCHANGED <<gc, gc_request, request>>
       \/ /\ alloc_env = None
          /\ gc_request' = RequestAfterAlloc
          /\ IF gc_request' /\ pc = "alloc"
             THEN StartGc("retry") /\ UNCHANGED request
             ELSE pc' = "idle" /\ request' = None /\ UNCHANGED gc     \* EF_ENV_FULL
          /\ UNCHANGED job
    /\ UNCHANGED <<flash, in_recovery_check, env_cache_table, last_is_complete_del,
                   losses>>

\* Faulty variant: the old node is deleted before the new one is written.
PreDeleteOldAtOnce ==
    /\ pc = "find"
    /\ LET old == find_env_no_cache(job.key) IN
       /\ IF old # None THEN Kill(old) ELSE UNCHANGED flash
       /\ job' = [job EXCEPT !.src = old]
    /\ pc' = "status"
    /\ UNCHANGED <<request, gc, gc_request, in_recovery_check, env_cache_table,
                   last_is_complete_del, losses>>

\* set_env: the old node, if there is one, is prepared for its deletion.
PreDeleteOld ==
    /\ pc = "find"
    /\ CacheFound(job.key)
    /\ LET old == find_env(job.key) IN
       \/ /\ old # None
          /\ SetNode(old, [NodeAt(old) EXCEPT !.st = "PRE_DELETE"])
          /\ last_is_complete_del' = TRUE
          /\ job' = [job EXCEPT !.src = old]
          /\ pc' = "predirty"
       \/ /\ old = None
          /\ pc' = "status"
          /\ UNCHANGED <<flash, last_is_complete_del, job>>
    /\ UNCHANGED <<request, gc, gc_request, in_recovery_check, losses>>

\* The end of del_env(..., false).
PreDeleteDirty ==
    /\ pc = "predirty"
    /\ MarkDirty(job.src[1])
    /\ pc' = IF job.then = "setend" THEN "status" ELSE "move"
    /\ UNCHANGED <<ram, losses>>

\* Faulty variant: move_env leaves the sector it writes to marked empty.
update_sec_statusOfNew ==
    /\ pc = "status"
    /\ flash' = IF job.then = "setend"
                THEN [flash EXCEPT ![job.dst].store =
                         IF Remain(job.dst) - 1 < RemainThreshold THEN "FULL" ELSE "USING"]
                ELSE flash
    /\ pc' = "prewrite"
    /\ UNCHANGED <<ram, losses>>

\* The sector written to is in use now, or full.
update_sec_status ==
    /\ pc = "status"
    /\ LET s == job.dst
           full == flash[s].store = "USING" /\ Remain(s) - 1 < RemainThreshold
       IN  /\ flash' = [flash EXCEPT ![s].store = IF full THEN "FULL" ELSE "USING"]
           /\ job' = [job EXCEPT !.full = full]
    /\ pc' = "prewrite"
    /\ UNCHANGED <<request, gc, gc_request, in_recovery_check, env_cache_table,
                   last_is_complete_del, losses>>

\* The status byte PRE_WRITE; without a header the node is not found.
WritePreWrite ==
    /\ pc = "prewrite"
    /\ flash' = [flash EXCEPT ![job.dst].nodes = Append(@, Dead)]
    /\ pc' = "header"
    /\ UNCHANGED <<ram, losses>>

write_env_hdr ==
    /\ pc = "header"
    /\ SetNode(Slot, [st |-> "PRE_WRITE", key |-> job.key, val |-> job.val, crc |-> FALSE])
    /\ pc' = "data"
    /\ UNCHANGED <<ram, losses>>

\* Name and value are complete: the checksum is right.  create_env_blob
\* enters the new address into the cache here, move_env after the next step.
WriteData ==
    /\ pc = "data"
    /\ SetNode(Slot, [NodeAt(Slot) EXCEPT !.crc = TRUE])
    /\ IF job.then = "setend"
       THEN update_env_cache(job.key, Slot)
       ELSE UNCHANGED env_cache_table
    /\ pc' = "write"
    /\ UNCHANGED <<request, job, gc, gc_request, in_recovery_check,
                   last_is_complete_del, losses>>

\* ENV_WRITE: from here on the node is the variable.
WriteDone ==
    /\ pc = "write"
    /\ SetNode(Slot, [NodeAt(Slot) EXCEPT !.st = "WRITE"])
    /\ IF job.then = "setend"
       THEN /\ gc_request' = (gc_request \/ job.full)
            /\ UNCHANGED env_cache_table
       ELSE /\ update_env_cache(job.key, Slot)
            /\ UNCHANGED gc_request
    /\ pc' = IF job.src # None THEN "delete" ELSE "setend"
    /\ UNCHANGED <<request, job, gc, in_recovery_check, last_is_complete_del,
                   losses>>

\* del_env(..., true).
DeleteOld ==
    /\ pc = "delete"
    /\ Kill(job.src)
    /\ env_cache_table' = IF last_is_complete_del THEN env_cache_table
                          ELSE [env_cache_table EXCEPT ![job.key] = None]
    /\ last_is_complete_del' = FALSE
    /\ pc' = "dirty"
    /\ UNCHANGED <<request, job, gc, gc_request, in_recovery_check, losses>>

DeleteDirty ==
    /\ pc = "dirty"
    /\ MarkDirty(job.src[1])
    /\ job' = NoJob
    /\ pc' = job.then
    /\ UNCHANGED <<request, gc, gc_request, in_recovery_check, env_cache_table,
                   last_is_complete_del, losses>>

\* The end of set_env: garbage is collected if the sector became full.
SetEnd ==
    /\ pc = "setend"
    /\ job' = NoJob
    /\ IF gc_request
       THEN StartGc("setend") /\ UNCHANGED request
       ELSE pc' = "idle" /\ request' = None /\ UNCHANGED gc
    /\ UNCHANGED <<flash, gc_request, in_recovery_check, env_cache_table,
                   last_is_complete_del, losses>>
----------------------------------------------------------------------------
(* gc_collect.                                                             *)

\* Faulty variant: the request is not taken back at the end.
GcSectorKeepsRequest ==
    /\ pc = "gc"
    /\ LET dirty == {s \in gc.s .. SECTOR_NUM : flash[s].dirty \in {"TRUE", "GC"}} IN
       IF dirty = {}
       THEN pc' = gc.then /\ gc' = NoGc /\ UNCHANGED flash
       ELSE /\ flash' = [flash EXCEPT ![Lowest(dirty)].dirty = "GC"]
            /\ pc' = "gcnode"
            /\ gc' = [gc EXCEPT !.s = Lowest(dirty), !.i = 1]
    /\ UNCHANGED <<request, job, gc_request, in_recovery_check, env_cache_table,
                   last_is_complete_del, losses>>

\* do_gc on the next sector, if it is dirty; the end of the iteration.
GcSector ==
    /\ pc = "gc"
    /\ \/ /\ gc.s > SECTOR_NUM
          /\ gc_request' = FALSE
          /\ pc' = gc.then
          /\ gc' = NoGc
          /\ UNCHANGED flash
       \/ /\ gc.s <= SECTOR_NUM
          /\ flash[gc.s].magic /\ flash[gc.s].dirty \in {"TRUE", "GC"}
          /\ flash' = [flash EXCEPT ![gc.s].dirty = "GC"]
          /\ pc' = "gcnode"
          /\ gc' = [gc EXCEPT !.i = 1]
          /\ UNCHANGED gc_request
       \/ /\ gc.s <= SECTOR_NUM
          /\ ~(flash[gc.s].magic /\ flash[gc.s].dirty \in {"TRUE", "GC"})
          /\ gc' = [gc EXCEPT !.s = @ + 1]
          /\ UNCHANGED <<flash, pc, gc_request>>
    /\ UNCHANGED <<request, job, in_recovery_check, env_cache_table,
                   last_is_complete_del, losses>>

\* The nodes of the sector that are still to be moved.
Movable(s, i) ==
    {j \in i .. Len(flash[s].nodes) :
        flash[s].nodes[j].crc /\ flash[s].nodes[j].st \in {"WRITE", "PRE_DELETE"}}

MoveJob(p, then) ==
    [NoJob EXCEPT !.key = NodeAt(p).key, !.val = NodeAt(p).val, !.src = p, !.then = then]

\* The next node to move; move_env first prepares a valid one for deletion.
GcNode ==
    /\ pc = "gcnode"
    /\ \/ /\ Movable(gc.s, gc.i) # {}
          /\ LET j == Lowest(Movable(gc.s, gc.i))
                 p == <<gc.s, j>>
             IN  /\ job' = MoveJob(p, "gcnode")
                 /\ gc' = [gc EXCEPT !.i = j + 1]
                 /\ IF NodeAt(p).st = "WRITE"
                    THEN /\ SetNode(p, [NodeAt(p) EXCEPT !.st = "PRE_DELETE"])
                         /\ last_is_complete_del' = TRUE
                         /\ pc' = "predirty"
                    ELSE /\ pc' = "move"
                         /\ UNCHANGED <<flash, last_is_complete_del>>
       \/ /\ Movable(gc.s, gc.i) = {}
          /\ pc' = "erase"
          /\ UNCHANGED <<flash, job, gc, last_is_complete_del>>
    /\ UNCHANGED <<request, gc_request, in_recovery_check, env_cache_table,
                   losses>>

\* Faulty variant: recovery copies a node whose copy is already valid.
AlreadyMovedNever == FALSE

\* During recovery the copy may have been finished before power was lost.
AlreadyMoved == in_recovery_check /\ find_env_no_cache(job.key) # None

\* move_env: space for the copy.  Without space (EF_ENV_FULL) the scan of
\* the boot ends and garbage collection goes on with the next node.
MoveAlloc ==
    /\ pc = "move"
    /\ \/ /\ alloc_env # None /\ AlreadyMoved
          /\ pc' = "delete"
          /\ UNCHANGED <<job, gc_request>>
       \/ /\ alloc_env # None /\ ~AlreadyMoved
          /\ job' = [job EXCEPT !.dst = alloc_env]
          /\ pc' = "status"
          /\ UNCHANGED gc_request
       \/ /\ alloc_env = None
          /\ gc_request' = RequestAfterAlloc
          /\ job' = NoJob
          /\ pc' = IF job.then = "envscan" THEN "scanned" ELSE job.then
    /\ UNCHANGED <<flash, request, gc, in_recovery_check, env_cache_table,
                   last_is_complete_del, losses>>

\* format_sector: erase, then write the header.
EraseSector ==
    /\ pc = "erase"
    /\ flash' = [flash EXCEPT ![gc.s] = Erased]
    /\ pc' = "format"
    /\ UNCHANGED <<ram, losses>>

FormatSector ==
    /\ pc = "format"
    /\ flash' = [flash EXCEPT ![gc.s] = Formatted]
    /\ gc' = [gc EXCEPT !.s = @ + 1]
    /\ pc' = "gc"
    /\ UNCHANGED <<request, job, gc_request, in_recovery_check, env_cache_table,
                   last_is_complete_del, losses>>
----------------------------------------------------------------------------
(* Loss of power, and ef_load_env at the next boot.                        *)

PowerLoss ==
    /\ pc # "off"
    /\ losses < MaxLosses
    /\ losses' = losses + 1
    /\ pc' = "off"
    /\ request' = None
    /\ job' = NoJob
    /\ gc' = NoGc
    /\ gc_request' = FALSE
    /\ in_recovery_check' = FALSE
    /\ env_cache_table' = [k \in Keys |-> None]
    /\ last_is_complete_del' = FALSE
    /\ UNCHANGED flash

Boot ==
    /\ pc = "off"
    /\ in_recovery_check' = TRUE
    /\ pc' = "headers"
    /\ UNCHANGED <<flash, request, job, gc, gc_request, env_cache_table,
                   last_is_complete_del, losses>>

\* check_sec_hdr_cb formats a sector without header.  (If no sector had one,
\* ef_env_set_default would follow: HeaderSurvives.)
CheckHeaders ==
    /\ pc = "headers"
    /\ LET bad == {s \in Sectors : ~flash[s].magic} IN
       \/ /\ bad # {}
          /\ flash' = [flash EXCEPT ![Lowest(bad)] = Formatted]
          /\ UNCHANGED pc
       \/ /\ bad = {}
          /\ pc' = "gcscan"
          /\ UNCHANGED flash
    /\ UNCHANGED <<ram, losses>>

\* check_and_recovery_gc_cb: an interrupted garbage collection is resumed.  It
\* formats every dirty sector, so one call is enough; with many sectors empty
\* no call does anything.
RecoverGc ==
    /\ pc = "gcscan"
    /\ IF FewEmpty /\ \E s \in Sectors : flash[s].magic /\ flash[s].dirty = "GC"
       THEN gc_request' = TRUE /\ StartGc("gcscan")
       ELSE pc' = "envscan" /\ UNCHANGED <<gc, gc_request>>
    /\ UNCHANGED <<flash, request, job, in_recovery_check, env_cache_table,
                   last_is_complete_del, losses>>

Unsettled ==
    {p \in Iterated : \/ NodeAt(p).st = "PRE_WRITE"
                      \/ NodeAt(p).st = "PRE_DELETE" /\ NodeAt(p).crc}

\* check_and_recovery_env_cb on the next node that is not settled: one that
\* was to be deleted is moved, an unfinished one is marked as an error,
\* which ends the scan.
RecoverEnv ==
    /\ pc = "envscan"
    /\ LET p == FirstOf(Unsettled) IN
       \/ /\ Unsettled # {} /\ NodeAt(p).st = "PRE_DELETE"
          /\ job' = MoveJob(p, "envscan")
          /\ pc' = "move"
          /\ UNCHANGED flash
       \/ /\ Unsettled # {} /\ NodeAt(p).st = "PRE_WRITE"
          /\ Kill(p)
          /\ pc' = "scanned"
          /\ UNCHANGED job
       \/ /\ Unsettled = {}
          /\ pc' = "scanned"
          /\ UNCHANGED <<flash, job>>
    /\ UNCHANGED <<request, gc, gc_request, in_recovery_check, env_cache_table,
                   last_is_complete_del, losses>>

\* The end of ef_load_env, after another scan if garbage had to be collected.
LoadEnd ==
    /\ pc = "scanned"
    /\ IF gc_request
       THEN StartGc("envscan") /\ UNCHANGED in_recovery_check
       ELSE /\ pc' = "idle"
            /\ in_recovery_check' = FALSE
            /\ UNCHANGED gc
    /\ UNCHANGED <<flash, request, job, gc_request, env_cache_table,
                   last_is_complete_del, losses>>
----------------------------------------------------------------------------
WriteNode == update_sec_status \/ WritePreWrite \/ write_env_hdr \/ WriteData \/ WriteDone
Delete == PreDeleteOld \/ PreDeleteDirty \/ DeleteOld \/ DeleteDirty
gc_collect == GcSector \/ GcNode \/ MoveAlloc \/ EraseSector \/ FormatSector
ef_load_env == Boot \/ CheckHeaders \/ RecoverGc \/ RecoverEnv \/ LoadEnd
Step == new_env \/ WriteNode \/ Delete \/ SetEnd \/ gc_collect \/ ef_load_env

Next ==
    \/ \E k \in Keys, v \in Values : Call(k, v)
    \/ \E k \in Keys : ef_get_env(k)
    \/ Step
    \/ PowerLoss

\* Whoever holds the lock goes on: nothing it waits for is held by others.
Spec == Init /\ [][Next]_vars /\ WF_vars(Step)
----------------------------------------------------------------------------
(* Properties.                                                             *)

\* The value of a variable: that of its valid node, or of the node that is
\* being replaced and would be recovered.
Stored(k) ==
    LET valid == find_env_no_cache(k)
        replaced == FirstOf({p \in Iterated :
                        NodeAt(p).key = k /\ NodeAt(p).crc /\ NodeAt(p).st = "PRE_DELETE"})
    IN  IF valid # None THEN NodeAt(valid).val
        ELSE IF replaced # None THEN NodeAt(replaced).val
        ELSE None

Promise == INSTANCE Settings WITH
    value <- [k \in Keys |-> Stored(k)],
    up <- IF in_recovery_check \/ pc = "off" THEN 0 ELSE 1,
    Nothing <- None

\* Flash_Set is atomic and durable: whatever is interrupted where, and
\* however garbage collection and recovery move the nodes about, each
\* variable has its old value or the new one, and the new one on return.
ImplementsSettings == Promise!Spec

\* When no call is in progress every variable that was ever written is found,
\* through the cache or without it, in exactly one valid node; the cache never
\* leads to a node that was deleted, moved or erased.
Findable ==
    pc = "idle" => \A k \in Keys :
        /\ Stored(k) # None => find_env(k) # None
        /\ find_env(k) = find_env_no_cache(k)
        /\ \A p \in Iterated : NodeAt(p).key = k => NodeAt(p).st # "WRITE" \/ p = find_env(k)

\* One sector has a valid header at any time: a boot never takes the flash
\* for a new one and sets the default values.
HeaderSurvives == \E s \in Sectors : flash[s].magic /\ flash[s].store # "EMPTY"

\* Between calls a sector is empty, so that the next garbage collection has
\* a place to move the variables to.
EmptyKept == pc = "idle" => Cardinality(Empties) >= EmptyThreshold

\* A boot comes to its end: neither the scan that is repeated after each
\* garbage collection (goto __retry) nor losses of power keep it from it.
BootEnds == pc = "off" ~> pc = "idle"
=============================================================================
