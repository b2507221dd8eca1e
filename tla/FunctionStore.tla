---------------------------- MODULE FunctionStore ----------------------------
(***************************************************************************)
(* Functions at rest in lambda-service: rows in Postgres, code in S3 under *)
(* its hash, and a Redis cache of rows                                     *)
(* (shared/domain/repository.go, internal/storage, internal/cache).        *)
(*                                                                         *)
(* Writers run CreateFunction, UpdateFunction, DeleteFunction or the       *)
(* registration of a built function; Readers run GetFunctionMeta (an       *)
(* invocation) or GetFunction (an event).  The cache is written by         *)
(* goroutines that nothing waits for.  Concurrent cache misses share one   *)
(* *Function: the cell of the reader that leads the flight.                *)
(***************************************************************************)
EXTENDS Naturals, FiniteSets

CONSTANTS Ids, Names, Codes,
          Writers, Readers,
          MaxOps,      \* bound on the writers' operations
          MaxFaults,   \* bound on failing Postgres and S3 calls of writers
          None

(* A function: `code` names its content; Function.Code holds the S3 key of   *)
(* the content, or the content itself when `raw`.                            *)
Row == [name : Names, code : Codes, raw : BOOLEAN]

(* The n-th operation of the writers, with the row it has found. *)
Operation ==
  [kind : {"create", "register", "update", "delete"}, id : Ids, name : Names, code : Codes,
   old : Row \cup {None}, n : 1..MaxOps]

ASSUME StoreAssumption ==
  /\ MaxOps \in Nat /\ MaxFaults \in Nat
  /\ None \notin Operation \cup Ids \cup Readers
  /\ Readers \cap (1..MaxOps) = {}

VARIABLES
  db,        \* the functions table
  s3,        \* contents stored under their hash
  cache,     \* function:<id> in Redis
  tasks,     \* cache writes that goroutines have still to do
  wpc, wop,  \* where a writer is, and its operation
  abandoned, \* contents deleted by an update whose Save then failed
  writers,   \* operations that have stored a content, and for which function
  rpc, want, \* where a reader is, and the function it reads
  view,      \* whose cell it holds
  cell,      \* the *Function a reader's flight or cache hit has allocated
  ops, faults

disk == <<db, s3, abandoned, writers>>
write == <<wpc, wop>>
read == <<rpc, want, view, cell>>
count == <<ops, faults>>
vars == <<disk, cache, tasks, write, read, count>>

(* Every variable keeps its type; an update or a delete has found its row. *)
TypeOK ==
  /\ db \in [Ids -> Row \cup {None}] /\ s3 \subseteq Codes
  /\ cache \in [Ids -> Row \cup {None}]
  /\ wpc \in [Writers -> {"idle", "store", "save", "rollback", "drop", "reap"}]
  /\ \A p \in Writers : wop[p] # None /\ wop[p].kind \in {"update", "delete"} => wop[p].old \in Row
  /\ abandoned \subseteq Codes /\ writers \in [Codes -> SUBSET ((1..MaxOps) \X Ids)]
  /\ rpc \in [Readers -> {"idle", "query", "wait", "get"}]
  /\ want \in [Readers -> Ids \cup {None}] /\ view \in [Readers -> Readers \cup {None}]
  /\ cell \in [Readers -> Row \cup {None}]
  /\ ops \in 0..MaxOps /\ faults \in 0..MaxFaults

Init ==
  /\ db = [i \in Ids |-> None] /\ s3 = {} /\ abandoned = {}
  /\ writers = [k \in Codes |-> {}]
  /\ cache = [i \in Ids |-> None] /\ tasks = {}
  /\ wpc = [p \in Writers |-> "idle"] /\ wop = [p \in Writers |-> None]
  /\ rpc = [r \in Readers |-> "idle"] /\ want = [r \in Readers |-> None]
  /\ view = [r \in Readers |-> None] /\ cell = [r \in Readers |-> None]
  /\ ops = 0 /\ faults = 0

Fault == faults < MaxFaults /\ faults' = faults + 1
Fine == UNCHANGED faults

-----------------------------------------------------------------------------
(* Writers *)

Goto(p, q) == wpc' = [wpc EXCEPT ![p] = q]
End(p) == Goto(p, "idle") /\ wop' = [wop EXCEPT ![p] = None]

Begin(p, kind, i, n, k, old) ==
  /\ wpc[p] = "idle" /\ ops < MaxOps /\ ops' = ops + 1
  /\ wop' = [wop EXCEPT ![p] =
               [kind |-> kind, id |-> i, name |-> n, code |-> k, old |-> old, n |-> ops + 1]]
  /\ UNCHANGED <<disk, cache, tasks, read, faults>>

(* Mutant of Found: nothing found is not an error. *)
FoundOrNil(i) == {cache[i], db[i]}

(* What FindByID may return: the cached row, or, when there is none or Redis *)
(* fails, the row in Postgres.                                               *)
Found(i) == {cache[i], db[i]} \ {None}

FindByName(n) == {j \in Ids : db[j] # None /\ db[j].name = n}

(* The name is not taken, and the ID is new. *)
CreateFunction(p) ==
  \E i \in Ids, n \in Names, k \in Codes :
    /\ db[i] = None /\ \A q \in Writers : wop[q] # None => wop[q].id # i
    /\ FindByName(n) = {}
    /\ Begin(p, "create", i, n, k, None) /\ Goto(p, "store")

(* registration.handle; an event may be delivered again. *)
Register(p) ==
  \E i \in Ids, n \in Names, k \in Codes :
    /\ Begin(p, "register", i, n, k, None) /\ Goto(p, "store")

UpdateFunction(p) ==
  \E i \in Ids, n \in Names, k \in Codes : \E old \in Found(i) :
    Begin(p, "update", i, n, k, old) /\ Goto(p, "store")

DeleteFunction(p) ==
  \E i \in Ids : \E old \in Found(i) :
    Begin(p, "delete", i, old.name, old.code, old) /\ Goto(p, "drop")

(* Store puts the object unless it is there. *)
Store(p) ==
  LET o == wop[p] IN
  /\ wpc[p] = "store"
  /\ \/ /\ s3' = s3 \cup {o.code}
        /\ writers' = [writers EXCEPT ![o.code] = @ \cup {<<o.n, o.id>>}]
        /\ Goto(p, IF o.kind = "update" THEN "reap" ELSE "save") /\ Fine /\ UNCHANGED wop
     \/ End(p) /\ Fault /\ UNCHANGED <<s3, writers>>
  /\ UNCHANGED <<db, abandoned, cache, tasks, read, ops>>

(* storage.Delete of what the row referred to.  A row that a GetFunction has *)
(* filled with the code names no object.                                     *)
Reapable(o) ==
  IF o.old.raw \/ (o.kind = "update" /\ o.old.code = o.code) THEN {} ELSE {o.old.code}

Reap(p) ==
  LET o == wop[p] IN
  /\ wpc[p] = "reap"
  /\ \/ s3' = s3 \ Reapable(o) /\ Fine
     \/ UNCHANGED s3 /\ Fault
  /\ \/ o.kind = "update" /\ Goto(p, "save") /\ UNCHANGED wop
     \/ o.kind = "delete" /\ End(p)
  /\ UNCHANGED <<db, abandoned, writers, cache, tasks, read, ops>>

(* Mutant of NewRow: an update without code keeps the key it has read. *)
NewRowKeepsOld(o) ==
  IF o.kind = "update" THEN [o.old EXCEPT !.name = o.name]
  ELSE [name |-> o.name, code |-> o.code, raw |-> FALSE]

(* functionCopy with the key Store returned; Validate demands code. *)
NewRow(o) == [name |-> o.name, code |-> o.code, raw |-> FALSE]

(* The column is UNIQUE. *)
NameFree(o) == FindByName(o.name) \subseteq {o.id}

Upserted(o) == [db EXCEPT ![o.id] = NewRow(o)]

(* The cached repository's Save: the upsert, then `go setWithJitter`. *)
Save(p) ==
  LET o == wop[p] IN
  /\ wpc[p] = "save"
  /\ \/ /\ NameFree(o) /\ Fine /\ End(p)
        /\ db' = Upserted(o)
        /\ tasks' = tasks \cup {[by |-> o.n, id |-> o.id, row |-> NewRow(o)]}
        /\ UNCHANGED abandoned
     \/ /\ (~NameFree(o) /\ Fine) \/ Fault
        /\ \/ o.kind = "create" /\ Goto(p, "rollback") /\ UNCHANGED <<wop, abandoned>>
           \/ o.kind = "register" /\ End(p) /\ UNCHANGED abandoned
           \/ o.kind = "update" /\ End(p) /\ abandoned' = abandoned \cup Reapable(o)
        /\ UNCHANGED <<db, tasks>>
  /\ UNCHANGED <<s3, writers, cache, read, ops>>

(* CreateFunction's rollback deletes the code it has stored. *)
Rollback(p) ==
  /\ wpc[p] = "rollback" /\ s3' = s3 \ {wop[p].code} /\ End(p)
  /\ UNCHANGED <<db, abandoned, writers, cache, tasks, read, count>>

Deleted(i) == [db EXCEPT ![i] = None]

(* Mutant of Drop: the code is deleted although the row could not be. *)
DropAnyway(p) ==
  LET o == wop[p] IN
  /\ wpc[p] = "drop" /\ Goto(p, "reap") /\ UNCHANGED wop
  /\ \/ /\ db' = Deleted(o.id) /\ Fine
        /\ tasks' = tasks \cup {[by |-> o.n, id |-> o.id, row |-> None]}
     \/ UNCHANGED <<db, tasks>> /\ Fault
  /\ UNCHANGED <<s3, abandoned, writers, cache, read, ops>>

(* The cached repository's Delete: no row affected is an error. *)
Drop(p) ==
  LET o == wop[p] IN
  /\ wpc[p] = "drop"
  /\ \/ /\ db[o.id] # None /\ db' = Deleted(o.id) /\ Fine
        /\ tasks' = tasks \cup {[by |-> o.n, id |-> o.id, row |-> None]}
        /\ Goto(p, "reap") /\ UNCHANGED wop
     \/ /\ (db[o.id] = None /\ Fine) \/ Fault
        /\ End(p) /\ UNCHANGED <<db, tasks>>
  /\ UNCHANGED <<s3, abandoned, writers, cache, read, ops>>

-----------------------------------------------------------------------------
(* Readers *)

(* A reader's cell is in use while someone holds it or a goroutine has still *)
(* to marshal it.                                                            *)
Held(l, viewing, writing) ==
  (\E q \in Readers : viewing[q] = l) \/ (\E t \in writing : t.by = l)

Leads(l, i) == rpc[l] = "query" /\ want[l] = i

(* FindByID: the cached row or, when there is none or Redis fails, a flight  *)
(* in progress or one of its own.  GetFunctionMeta is done with a cached row *)
(* at once.                                                                  *)
FindByID(r) ==
  /\ rpc[r] = "idle" /\ ~Held(r, view, tasks)
  /\ \E i \in Ids :
       /\ want' = [want EXCEPT ![r] = i]
       /\ \/ /\ cache[i] # None /\ rpc' = [rpc EXCEPT ![r] = "get"]
             /\ view' = [view EXCEPT ![r] = r] /\ cell' = [cell EXCEPT ![r] = cache[i]]
          \/ \E l \in Readers :
               /\ Leads(l, i) /\ rpc' = [rpc EXCEPT ![r] = "wait"]
               /\ view' = [view EXCEPT ![r] = l] /\ UNCHANGED cell
          \/ /\ \A l \in Readers : ~Leads(l, i)
             /\ rpc' = [rpc EXCEPT ![r] = "query"]
             /\ view' = [view EXCEPT ![r] = r] /\ UNCHANGED cell
  /\ UNCHANGED <<disk, cache, tasks, write, count>>

(* The flight's query answers all that wait for it, and a goroutine will     *)
(* cache the row.  Those that called GetFunction go on to retrieve the code. *)
Query(l) ==
  LET i == want[l]
      all == {r \in Readers : view[r] = l /\ rpc[r] \in {"query", "wait"}}
  IN
  /\ rpc[l] = "query"
  /\ \E gets \in SUBSET all :
       /\ db[i] = None => gets = {}
       /\ rpc' = [r \in Readers |-> CASE r \in gets -> "get" [] r \in all \ gets -> "idle"
                                     [] OTHER -> rpc[r]]
       /\ want' = [r \in Readers |-> IF r \in all \ gets THEN None ELSE want[r]]
       /\ view' = [r \in Readers |-> IF r \in all \ gets THEN None ELSE view[r]]
  /\ \/ db[i] = None /\ UNCHANGED <<cell, tasks>>
     \/ /\ db[i] # None /\ cell' = [cell EXCEPT ![l] = db[i]]
        /\ tasks' = tasks \cup {[by |-> l, id |-> i, row |-> None]}
  /\ UNCHANGED <<disk, cache, write, count>>

(* The object is there, and what Code holds is a key. *)
Retrievable(row) == ~row.raw /\ row.code \in s3

(* GetFunction: Retrieve fails, or the code replaces the key in the shared   *)
(* *Function.                                                                *)
Retrieve(r) ==
  LET l == view[r] IN
  /\ rpc[r] = "get" /\ rpc' = [rpc EXCEPT ![r] = "idle"]
  /\ want' = [want EXCEPT ![r] = None] /\ view' = [view EXCEPT ![r] = None]
  /\ cell' = CASE ~Held(l, view', tasks) -> [cell EXCEPT ![l] = None]
              [] Retrievable(cell[l]) -> [cell EXCEPT ![l].raw = TRUE]
              [] OTHER -> cell
  /\ UNCHANGED <<disk, cache, tasks, write, count>>

-----------------------------------------------------------------------------
(* The cache *)

(* What the goroutine writes: a flight's row as it is by now. *)
Written(t) == IF t.by \in Readers THEN cell[t.by] ELSE t.row

(* A goroutine sets or deletes the entry, or Redis fails it. *)
RunTask(t) ==
  /\ t \in tasks /\ tasks' = tasks \ {t}
  /\ cache' \in {cache, [cache EXCEPT ![t.id] = Written(t)]}
  /\ cell' = [l \in Readers |-> IF Held(l, view, tasks') THEN cell[l] ELSE None]
  /\ UNCHANGED <<disk, write, rpc, want, view, count>>

(* Mutant of Expire: entries for rows that exist are kept. *)
ExpireDeleted(i) ==
  /\ cache[i] # None /\ db[i] = None /\ cache' = [cache EXCEPT ![i] = None]
  /\ UNCHANGED <<disk, tasks, write, read, count>>

(* The TTL of five to six minutes passes. *)
Expire(i) ==
  /\ cache[i] # None /\ cache' = [cache EXCEPT ![i] = None]
  /\ UNCHANGED <<disk, tasks, write, read, count>>

-----------------------------------------------------------------------------
WriterStep(p) ==
  Store(p) \/ Reap(p) \/ Save(p) \/ Rollback(p) \/ Drop(p)

ReaderStep(r) == Query(r) \/ Retrieve(r)

Next ==
  \/ \E p \in Writers :
       \/ CreateFunction(p) \/ Register(p) \/ UpdateFunction(p) \/ DeleteFunction(p)
       \/ WriterStep(p)
  \/ \E r \in Readers : FindByID(r) \/ ReaderStep(r)
  \/ \E t \in tasks : RunTask(t)
  \/ \E i \in Ids : Expire(i)

Spec == Init /\ [][Next]_vars

(* Redis expires what it was told to. *)
FairSpec == Spec /\ \A i \in Ids : WF_vars(Expire(i))

-----------------------------------------------------------------------------
(* Properties *)

(* Postgres only ever holds keys: whatever rows events have filled with code *)
(* and goroutines have cached, no operation that reads one of them writes    *)
(* the code into the code_key column.                                        *)
RowsHoldKeys == \A i \in Ids : db[i] # None => ~db[i].raw

(* The code of a function is in S3, whichever calls of concurrent updates,   *)
(* deletes and registrations failed in whichever order, as long as only one  *)
(* operation has ever stored that content and no failed update deleted it.   *)
Updating(i) == \E p \in Writers :
                 wop[p] # None /\ wop[p].id = i /\ wop[p].kind = "update" /\ wpc[p] = "save"
CodePresent ==
  \A i \in Ids :
    /\ db[i] # None /\ ~Updating(i)
    /\ Cardinality(writers[db[i].code]) = 1 /\ db[i].code \notin abandoned
    => db[i].code \in s3

(* A stale entry does not outlive its TTL: goroutines that write old rows    *)
(* late, lost invalidations and rows filled with code leave the cache        *)
(* disagreeing with Postgres only for a time.                                *)
CacheCatchesUp == \A i \in Ids : []<>(cache[i] \in {None, db[i]})
=============================================================================
