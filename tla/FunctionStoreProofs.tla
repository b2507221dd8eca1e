------------------------- MODULE FunctionStoreProofs -------------------------
(* Theorems about FunctionStore, for any number of functions, contents,      *)
(* writers, readers, operations and faults.                                  *)
EXTENDS FunctionStore, FiniteSetTheorems, TLAPS

(* The types, with what a writer and a reader have at each place. *)
DiskTypes ==
  /\ db \in [Ids -> Row \cup {None}] /\ s3 \subseteq Codes
  /\ cache \in [Ids -> Row \cup {None}]
  /\ tasks \subseteq [by : Readers \cup (1..MaxOps), id : Ids, row : Row \cup {None}]
  /\ abandoned \subseteq Codes /\ writers \in [Codes -> SUBSET ((1..MaxOps) \X Ids)]
  /\ ops \in 0..MaxOps /\ faults \in 0..MaxFaults

Kinds(q) ==
  CASE q = "reap" -> {"update", "delete"}
    [] q = "drop" -> {"delete"}
    [] OTHER -> {"create", "register", "update"}

WriterTypes ==
  /\ wpc \in [Writers -> {"idle", "store", "save", "rollback", "drop", "reap"}]
  /\ wop \in [Writers -> Operation \cup {None}]
  /\ \A p \in Writers : wop[p] = None <=> wpc[p] = "idle"
  /\ \A p \in Writers : wop[p] # None => wop[p].kind \in Kinds(wpc[p])
  /\ \A p \in Writers : wop[p] # None /\ wop[p].kind \in {"update", "delete"} => wop[p].old \in Row

ReaderTypes ==
  /\ rpc \in [Readers -> {"idle", "query", "wait", "get"}]
  /\ want \in [Readers -> Ids \cup {None}] /\ view \in [Readers -> Readers \cup {None}]
  /\ cell \in [Readers -> Row \cup {None}]
  /\ \A r \in Readers : rpc[r] = "query" => want[r] \in Ids /\ view[r] = r
  /\ \A r \in Readers : rpc[r] = "get" => view[r] \in Readers /\ cell[view[r]] \in Row

TypeInv == DiskTypes /\ WriterTypes /\ ReaderTypes

LEMMA OperationTypes ==
  ASSUME WriterTypes, NEW p \in Writers, wpc[p] # "idle"
  PROVE  /\ wop[p] \in Operation /\ wop[p].id \in Ids /\ wop[p].name \in Names /\ wop[p].code \in Codes
         /\ wop[p].n \in 1..MaxOps /\ wop[p].kind \in Kinds(wpc[p])
         /\ wop[p].kind \in {"update", "delete"} => wop[p].old \in Row
  <1>1. wop[p] # None /\ wop[p] \in Operation
    BY DEF WriterTypes
  <1> QED
    BY <1>1 DEF WriterTypes, Operation

(* The moves of a writer *)
LEMMA TypeEnd == ASSUME WriterTypes, NEW p \in Writers, End(p) PROVE WriterTypes'
  BY DEF WriterTypes, End, Goto

LEMMA TypeGoto ==
  ASSUME WriterTypes, NEW p \in Writers, wpc[p] # "idle", NEW q \in {"save", "rollback", "reap"},
         Goto(p, q), UNCHANGED wop, wop[p].kind \in Kinds(q)
  PROVE  WriterTypes'
  BY DEF WriterTypes, Goto

LEMMA TypeBegin ==
  ASSUME TypeInv, NEW p \in Writers, NEW q \in {"store", "drop"}, NEW kind \in Kinds(q),
         NEW i \in Ids, NEW n \in Names, NEW k \in Codes, NEW old \in Row \cup {None},
         kind \in {"update", "delete"} => old \in Row,
         Begin(p, kind, i, n, k, old), Goto(p, q)
  PROVE  TypeInv'
  <1> DEFINE o == [kind |-> kind, id |-> i, name |-> n, code |-> k, old |-> old, n |-> ops + 1]
  <1>1. kind \in {"create", "register", "update", "delete"}
    BY DEF Kinds
  <1>2. ops \in Nat /\ ops < MaxOps /\ MaxOps \in Nat /\ ops' = ops + 1
    BY StoreAssumption DEF TypeInv, DiskTypes, Begin
  <1>3. ops + 1 \in 1..MaxOps /\ ops' \in 0..MaxOps
    BY <1>2
  <1>4. o \in Operation /\ o # None /\ o.kind = kind /\ o.old = old
    BY <1>1, <1>3, StoreAssumption DEF Operation
  <1>5. wop' = [wop EXCEPT ![p] = o] /\ wpc' = [wpc EXCEPT ![p] = q]
    BY DEF Begin, Goto
  <1> HIDE DEF o
  <1>6. WriterTypes'
    BY <1>4, <1>5 DEF TypeInv, WriterTypes
  <1>7. DiskTypes'
    BY <1>3 DEF TypeInv, DiskTypes, Begin, disk
  <1>8. ReaderTypes'
    BY DEF TypeInv, ReaderTypes, Begin, read
  <1> QED
    BY <1>6, <1>7, <1>8 DEF TypeInv

LEMMA TypeBegins ==
  ASSUME TypeInv, NEW p \in Writers,
         CreateFunction(p) \/ Register(p) \/ UpdateFunction(p) \/ DeleteFunction(p)
  PROVE  TypeInv'
  <1>1. CASE CreateFunction(p)
    <2>1. PICK i \in Ids, n \in Names, k \in Codes : Begin(p, "create", i, n, k, None) /\ Goto(p, "store")
      BY <1>1 DEF CreateFunction
    <2> QED
      BY <2>1, TypeBegin DEF Kinds
  <1>2. CASE Register(p)
    <2>1. PICK i \in Ids, n \in Names, k \in Codes : Begin(p, "register", i, n, k, None) /\ Goto(p, "store")
      BY <1>2 DEF Register
    <2> QED
      BY <2>1, TypeBegin DEF Kinds
  <1>3. CASE UpdateFunction(p)
    <2>1. PICK i \in Ids, n \in Names, k \in Codes : \E old \in Found(i) :
            Begin(p, "update", i, n, k, old) /\ Goto(p, "store")
      BY <1>3 DEF UpdateFunction
    <2>2. PICK old \in Found(i) : Begin(p, "update", i, n, k, old) /\ Goto(p, "store")
      BY <2>1
    <2>3. old \in Row
      BY DEF Found, TypeInv, DiskTypes
    <2> QED
      BY <2>2, <2>3, TypeBegin DEF Kinds
  <1>4. CASE DeleteFunction(p)
    <2>1. PICK i \in Ids : \E old \in Found(i) :
            Begin(p, "delete", i, old.name, old.code, old) /\ Goto(p, "drop")
      BY <1>4 DEF DeleteFunction
    <2>2. PICK old \in Found(i) : Begin(p, "delete", i, old.name, old.code, old) /\ Goto(p, "drop")
      BY <2>1
    <2>3. old \in Row
      BY DEF Found, TypeInv, DiskTypes
    <2>4. old.name \in Names /\ old.code \in Codes
      BY <2>3 DEF Row
    <2> QED
      BY <2>2, <2>3, <2>4, TypeBegin DEF Kinds
  <1> QED
    BY <1>1, <1>2, <1>3, <1>4

LEMMA Counted == ASSUME TypeInv, Fine \/ Fault PROVE faults' \in 0..MaxFaults
  BY StoreAssumption DEF TypeInv, DiskTypes, Fine, Fault

LEMMA NewRowType == ASSUME NEW o \in Operation PROVE NewRow(o) \in Row /\ NewRow(o).code = o.code /\ ~NewRow(o).raw
  BY DEF NewRow, Operation, Row

LEMMA TypeWriter == ASSUME TypeInv, NEW p \in Writers, WriterStep(p) PROVE TypeInv'
  <1> USE DEF TypeInv
  <1>1. ReaderTypes'
    BY DEF ReaderTypes, WriterStep, Store, Reap, Save, Rollback, Drop, read
  <1>2. CASE Store(p)
    <2>1. wpc[p] = "store" /\ (Fine \/ Fault) /\ UNCHANGED <<db, abandoned, cache, tasks, ops>>
      BY <1>2 DEF Store
    <2>2. wop[p].code \in Codes /\ wop[p].n \in 1..MaxOps /\ wop[p].id \in Ids /\ wop[p].kind \in Kinds("store")
      BY <2>1, OperationTypes
    <2>3. \/ UNCHANGED <<s3, writers>>
          \/ /\ s3' = s3 \cup {wop[p].code}
             /\ writers' = [writers EXCEPT ![wop[p].code] = @ \cup {<<wop[p].n, wop[p].id>>}]
      BY <1>2 DEF Store
    <2>4. DiskTypes'
      BY <2>1, <2>2, <2>3, Counted DEF DiskTypes
    <2>5. WriterTypes'
      <3>1. CASE End(p)
        BY <3>1, TypeEnd
      <3>2. CASE Goto(p, IF wop[p].kind = "update" THEN "reap" ELSE "save") /\ UNCHANGED wop
        BY <2>1, <2>2, <3>2, TypeGoto DEF Kinds
      <3> QED
        BY <1>2, <3>1, <3>2 DEF Store
    <2> QED
      BY <1>1, <2>4, <2>5
  <1>3. CASE Reap(p)
    <2>1. /\ wpc[p] = "reap" /\ (Fine \/ Fault) /\ s3' \subseteq s3
          /\ UNCHANGED <<db, abandoned, writers, cache, tasks, ops>>
      BY <1>3 DEF Reap
    <2>2. DiskTypes'
      BY <2>1, Counted DEF DiskTypes
    <2>3. WriterTypes'
      <3>1. CASE End(p)
        BY <3>1, TypeEnd
      <3>2. CASE wop[p].kind = "update" /\ Goto(p, "save") /\ UNCHANGED wop
        BY <2>1, <3>2, TypeGoto DEF Kinds
      <3> QED
        BY <1>3, <3>1, <3>2 DEF Reap
    <2> QED
      BY <1>1, <2>2, <2>3
  <1>4. CASE Save(p)
    <2>1. wpc[p] = "save" /\ (Fine \/ Fault) /\ UNCHANGED <<s3, writers, cache, ops>>
      BY <1>4 DEF Save
    <2>2. /\ wop[p] \in Operation /\ wop[p].n \in 1..MaxOps /\ wop[p].id \in Ids /\ wop[p].kind \in Kinds("save")
          /\ wop[p].kind = "update" => wop[p].old \in Row
      BY <2>1, OperationTypes
    <2>3. wop[p].kind = "update" => Reapable(wop[p]) \subseteq Codes
      BY <2>2 DEF Reapable, Row
    <2>4. \/ UNCHANGED <<db, tasks>>
          \/ /\ db' = [db EXCEPT ![wop[p].id] = NewRow(wop[p])]
             /\ tasks' = tasks \cup {[by |-> wop[p].n, id |-> wop[p].id, row |-> NewRow(wop[p])]}
      BY <1>4 DEF Save, Upserted
    <2>5. UNCHANGED abandoned \/ (wop[p].kind = "update" /\ abandoned' = abandoned \cup Reapable(wop[p]))
      BY <1>4 DEF Save
    <2>6. DiskTypes'
      BY <2>1, <2>2, <2>3, <2>4, <2>5, Counted, NewRowType DEF DiskTypes
    <2>7. WriterTypes'
      <3>1. CASE End(p)
        BY <3>1, TypeEnd
      <3>2. CASE Goto(p, "rollback") /\ UNCHANGED wop /\ wop[p].kind = "create"
        BY <2>1, <3>2, TypeGoto DEF Kinds
      <3> QED
        BY <1>4, <3>1, <3>2 DEF Save
    <2> QED
      BY <1>1, <2>6, <2>7
  <1>5. CASE Rollback(p)
    <2>1. DiskTypes'
      BY <1>5 DEF DiskTypes, Rollback, count
    <2> QED
      BY <1>1, <1>5, <2>1, TypeEnd DEF Rollback
  <1>6. CASE Drop(p)
    <2>1. wpc[p] = "drop" /\ (Fine \/ Fault) /\ UNCHANGED <<s3, abandoned, writers, cache, ops>>
      BY <1>6 DEF Drop
    <2>2. wop[p].n \in 1..MaxOps /\ wop[p].id \in Ids /\ wop[p].kind = "delete"
      BY <2>1, OperationTypes DEF Kinds
    <2>3. \/ UNCHANGED <<db, tasks>>
          \/ /\ db' = [db EXCEPT ![wop[p].id] = None]
             /\ tasks' = tasks \cup {[by |-> wop[p].n, id |-> wop[p].id, row |-> None]}
      BY <1>6 DEF Drop, Deleted
    <2>4. DiskTypes'
      BY <2>1, <2>2, <2>3, Counted DEF DiskTypes
    <2>5. WriterTypes'
      <3>1. CASE End(p)
        BY <3>1, TypeEnd
      <3>2. CASE Goto(p, "reap") /\ UNCHANGED wop
        BY <2>1, <2>2, <3>2, TypeGoto DEF Kinds
      <3> QED
        BY <1>6, <3>1, <3>2 DEF Drop
    <2> QED
      BY <1>1, <2>4, <2>5
  <1> QED
    BY <1>2, <1>3, <1>4, <1>5, <1>6 DEF WriterStep

LEMMA TypeReader ==
  ASSUME TypeInv, NEW r \in Readers, FindByID(r) \/ ReaderStep(r) PROVE TypeInv'
  <1> USE DEF TypeInv
  <1>1. WriterTypes'
    BY DEF WriterTypes, FindByID, ReaderStep, Query, Retrieve, write
  <1>2. CASE FindByID(r)
    <2>1. DiskTypes'
      BY <1>2 DEF FindByID, DiskTypes, disk, count
    <2>2. PICK i \in Ids :
            /\ want' = [want EXCEPT ![r] = i]
            /\ \/ /\ cache[i] # None /\ rpc' = [rpc EXCEPT ![r] = "get"]
                  /\ view' = [view EXCEPT ![r] = r] /\ cell' = [cell EXCEPT ![r] = cache[i]]
               \/ \E l \in Readers :
                    /\ Leads(l, i) /\ rpc' = [rpc EXCEPT ![r] = "wait"]
                    /\ view' = [view EXCEPT ![r] = l] /\ UNCHANGED cell
               \/ /\ rpc' = [rpc EXCEPT ![r] = "query"]
                  /\ view' = [view EXCEPT ![r] = r] /\ UNCHANGED cell
      BY <1>2 DEF FindByID
    <2>3. \A q \in Readers : view[q] # r
      BY <1>2 DEF FindByID, Held
    <2>4. cache[i] # None => cache[i] \in Row
      BY DEF DiskTypes
    <2>5. ReaderTypes'
      BY <2>2, <2>3, <2>4 DEF ReaderTypes
    <2> QED
      BY <1>1, <2>1, <2>5
  <1>3. CASE Query(r)
    <2> DEFINE all == {q \in Readers : view[q] = r /\ rpc[q] \in {"query", "wait"}}
    <2>1. rpc[r] = "query" /\ want[r] \in Ids /\ view[r] = r
      BY <1>3 DEF Query, ReaderTypes
    <2>2. \/ UNCHANGED <<cell, tasks>>
          \/ /\ db[want[r]] # None /\ cell' = [cell EXCEPT ![r] = db[want[r]]]
             /\ tasks' = tasks \cup {[by |-> r, id |-> want[r], row |-> None]}
      BY <1>3 DEF Query
    <2>3. DiskTypes'
      BY <1>3, <2>1, <2>2 DEF Query, DiskTypes, disk, count
    <2>4. PICK gets \in SUBSET all :
            /\ db[want[r]] = None => gets = {}
            /\ rpc' = [q \in Readers |-> CASE q \in gets -> "get" [] q \in all \ gets -> "idle"
                                          [] OTHER -> rpc[q]]
            /\ want' = [q \in Readers |-> IF q \in all \ gets THEN None ELSE want[q]]
            /\ view' = [q \in Readers |-> IF q \in all \ gets THEN None ELSE view[q]]
      BY <1>3 DEF Query
    <2>5. db[want[r]] # None => db[want[r]] \in Row /\ cell' = [cell EXCEPT ![r] = db[want[r]]]
      BY <1>3, <2>1 DEF Query, DiskTypes
    <2>6. \A q \in Readers : /\ rpc'[q] = "query" => rpc[q] = "query" /\ q \notin all
                             /\ rpc'[q] = "get" => q \in gets \/ (rpc[q] = "get" /\ q \notin all)
                             /\ rpc'[q] \in {"idle", "query", "wait", "get"}
      BY <2>4 DEF ReaderTypes
    <2>7. rpc' \in [Readers -> {"idle", "query", "wait", "get"}]
      BY <2>4, <2>6
    <2>8. /\ want' \in [Readers -> Ids \cup {None}] /\ view' \in [Readers -> Readers \cup {None}]
          /\ cell' \in [Readers -> Row \cup {None}]
      BY <2>1, <2>2, <2>4, <2>5 DEF ReaderTypes
    <2>9. \A q \in Readers : /\ rpc'[q] = "query" => want'[q] \in Ids /\ view'[q] = q
                             /\ rpc'[q] = "get" => view'[q] \in Readers /\ cell'[view'[q]] \in Row
      <3> SUFFICES ASSUME NEW q \in Readers
                   PROVE  /\ rpc'[q] = "query" => want'[q] \in Ids /\ view'[q] = q
                          /\ rpc'[q] = "get" => view'[q] \in Readers /\ cell'[view'[q]] \in Row
        OBVIOUS
      <3>1. rpc'[q] = "query" => want'[q] \in Ids /\ view'[q] = q
        BY <2>4, <2>6 DEF ReaderTypes
      <3>2. ASSUME q \in gets PROVE view'[q] \in Readers /\ cell'[view'[q]] \in Row
        BY <2>4, <2>5, <3>2 DEF ReaderTypes
      <3>3. ASSUME rpc[q] = "get", q \notin all PROVE view'[q] \in Readers /\ cell'[view'[q]] \in Row
        BY <2>2, <2>4, <2>5, <3>3 DEF ReaderTypes
      <3> QED
        BY <2>6, <3>1, <3>2, <3>3
    <2>10. ReaderTypes'
      BY <2>7, <2>8, <2>9 DEF ReaderTypes
    <2> QED
      BY <1>1, <2>3, <2>10
  <1>4. CASE Retrieve(r)
    <2> DEFINE l == view[r]
    <2>1. DiskTypes'
      BY <1>4 DEF Retrieve, DiskTypes, disk, count
    <2>2. l \in Readers /\ cell[l] \in Row
      BY <1>4 DEF Retrieve, ReaderTypes
    <2>3. /\ rpc' = [rpc EXCEPT ![r] = "idle"]
          /\ want' = [want EXCEPT ![r] = None] /\ view' = [view EXCEPT ![r] = None]
      BY <1>4 DEF Retrieve
    <2>4. \/ cell' = [cell EXCEPT ![l] = None] /\ ~Held(l, view', tasks)
          \/ cell' = [cell EXCEPT ![l] = [@ EXCEPT !.raw = TRUE]]
          \/ cell' = cell
      BY <1>4 DEF Retrieve
    <2>5. [cell[l] EXCEPT !.raw = TRUE] \in Row
      BY <2>2 DEF Row
    <2>6. \A q \in Readers : view'[q] = l => Held(l, view', tasks)
      BY DEF Held
    <2> HIDE DEF l
    <2>7. PICK row \in Row \cup {None} : cell' = [cell EXCEPT ![l] = row] /\ (row \in Row \/ ~Held(l, view', tasks))
      <3>1. cell = [cell EXCEPT ![l] = cell[l]]
        BY DEF ReaderTypes
      <3> QED
        BY <2>2, <2>4, <2>5, <3>1
    <2>8. cell' \in [Readers -> Row \cup {None}]
      BY <2>2, <2>7 DEF ReaderTypes
    <2>9. \A q \in Readers : rpc'[q] = "get" => view'[q] \in Readers /\ cell'[view'[q]] \in Row
      BY <2>2, <2>3, <2>6, <2>7 DEF ReaderTypes
    <2>10. /\ rpc' \in [Readers -> {"idle", "query", "wait", "get"}]
           /\ want' \in [Readers -> Ids \cup {None}] /\ view' \in [Readers -> Readers \cup {None}]
           /\ \A q \in Readers : rpc'[q] = "query" => want'[q] \in Ids /\ view'[q] = q
      BY <2>3 DEF ReaderTypes
    <2>11. ReaderTypes'
      BY <2>8, <2>9, <2>10 DEF ReaderTypes
    <2> QED
      BY <1>1, <2>1, <2>11
  <1> QED
    BY <1>2, <1>3, <1>4 DEF ReaderStep

LEMMA TypeCache ==
  ASSUME TypeInv, (\E t \in tasks : RunTask(t)) \/ (\E i \in Ids : Expire(i)) PROVE TypeInv'
  <1> USE DEF TypeInv
  <1>1. ASSUME NEW t \in tasks, RunTask(t) PROVE TypeInv'
    <2>1. WriterTypes' /\ UNCHANGED <<disk, rpc, want, view, count>>
      BY <1>1 DEF WriterTypes, RunTask, write
    <2>2. Written(t) \in Row \cup {None} /\ t.id \in Ids
      BY DEF Written, DiskTypes, ReaderTypes
    <2>3. tasks' = tasks \ {t} /\ cache' \in {cache, [cache EXCEPT ![t.id] = Written(t)]}
      BY <1>1 DEF RunTask
    <2>4. DiskTypes'
      BY <2>1, <2>2, <2>3 DEF DiskTypes, disk, count
    <2>5. cell' = [l \in Readers |-> IF Held(l, view, tasks') THEN cell[l] ELSE None]
      BY <1>1 DEF RunTask
    <2>6. \A q \in Readers : view[q] \in Readers => cell'[view[q]] = cell[view[q]]
      BY <2>5 DEF Held
    <2>7. ReaderTypes'
      BY <2>1, <2>5, <2>6 DEF ReaderTypes
    <2> QED
      BY <2>1, <2>4, <2>7
  <1>2. ASSUME NEW i \in Ids, Expire(i) PROVE TypeInv'
    BY <1>2 DEF Expire, DiskTypes, WriterTypes, ReaderTypes, disk, write, read, count
  <1> QED
    BY <1>1, <1>2

LEMMA TypeStep == ASSUME TypeInv, [Next]_vars PROVE TypeInv'
  <1>1. CASE UNCHANGED vars
    BY <1>1 DEF TypeInv, DiskTypes, WriterTypes, ReaderTypes, vars, disk, write, read, count
  <1> QED
    BY <1>1, TypeBegins, TypeWriter, TypeReader, TypeCache DEF Next

(* What handlers and readers rely on between two calls, whatever failed      *)
(* before: an update or a delete still has the row it has read, and a reader *)
(* that fetches the code has the shared row of a flight that found one.      *)
THEOREM TypeCorrect == Spec => []TypeInv
  <1>1. Init => TypeInv
    BY StoreAssumption DEF Init, TypeInv, DiskTypes, WriterTypes, ReaderTypes
  <1>2. TypeInv /\ [Next]_vars => TypeInv'
    BY TypeStep
  <1> QED
    BY <1>1, <1>2, PTL DEF Spec

(* The store's state is well typed, and an update or a delete always works   *)
(* on a row it has found, whatever the cache and Postgres returned to it.    *)
THEOREM WellTyped == Spec => []TypeOK
  <1>1. TypeInv => TypeOK
    BY DEF TypeInv, DiskTypes, WriterTypes, ReaderTypes, TypeOK
  <1> QED
    BY <1>1, TypeCorrect, PTL

(* Postgres holds keys only: every row Save writes carries the key Store     *)
(* returned, never the code that a GetFunction has put into a shared row.    *)
THEOREM KeysOnly == Spec => []RowsHoldKeys
  <1>1. Init => RowsHoldKeys
    BY DEF Init, RowsHoldKeys
  <1>2. TypeInv /\ RowsHoldKeys /\ [Next]_vars => RowsHoldKeys'
    <2> SUFFICES ASSUME TypeInv, RowsHoldKeys, [Next]_vars PROVE RowsHoldKeys'
      OBVIOUS
    <2>1. ASSUME NEW p \in Writers, Save(p) PROVE RowsHoldKeys'
      <3>1. wop[p] \in Operation /\ wop[p].id \in Ids
        BY <2>1, OperationTypes DEF Save, TypeInv
      <3>2. db' = db \/ db' = [db EXCEPT ![wop[p].id] = NewRow(wop[p])]
        BY <2>1 DEF Save, Upserted
      <3> QED
        BY <3>1, <3>2, NewRowType DEF RowsHoldKeys, TypeInv, DiskTypes
    <2>2. ASSUME NEW p \in Writers, Drop(p) PROVE RowsHoldKeys'
      <3>1. wop[p].id \in Ids
        BY <2>2, OperationTypes DEF Drop, TypeInv
      <3>2. db' = db \/ db' = [db EXCEPT ![wop[p].id] = None]
        BY <2>2 DEF Drop, Deleted
      <3> QED
        BY <3>1, <3>2 DEF RowsHoldKeys, TypeInv, DiskTypes
    <2>3. ASSUME \A p \in Writers : ~Save(p) /\ ~Drop(p) PROVE RowsHoldKeys'
      <3>1. UNCHANGED db
        BY <2>3 DEF Next, CreateFunction, Register, UpdateFunction, DeleteFunction, Begin, WriterStep,
                    Store, Reap, Rollback, FindByID, ReaderStep, Query, Retrieve, RunTask, Expire, vars, disk
      <3> QED
        BY <3>1 DEF RowsHoldKeys
    <2> QED
      BY <2>1, <2>2, <2>3
  <1> QED
    BY <1>1, <1>2, TypeCorrect, PTL DEF Spec

-----------------------------------------------------------------------------
(* Code that only one operation has stored *)

(* Operations under way *)
Active == {p \in Writers : wop[p] # None}

(* Functions with the contents that operations, by now ended, have stored    *)
(* for them.                                                                 *)
Supply ==
  {s \in Ids \X Codes : \E m \in 1..MaxOps :
     <<m, s[1]>> \in writers[s[2]] /\ \A p \in Active : wop[p].n # m}

(* Contents stored by two operations *)
Shared == {k \in Codes : \E a, b \in writers[k] : a # b}

(* Operations are numbered, and those past Store are among the writers of    *)
(* their content.                                                            *)
NumberInv ==
  /\ \A p \in Active : wop[p].n <= ops
  /\ \A p, q \in Active : wop[p].n = wop[q].n => p = q
  /\ \A k \in Codes : IsFiniteSet(writers[k]) /\ \A w \in writers[k] : w[1] <= ops
  /\ \A p \in Active : wpc[p] # "store" /\ wop[p].kind # "delete" =>
       <<wop[p].n, wop[p].id>> \in writers[wop[p].code]

(* Every row that an operation can find was supplied for its function. *)
SupplyInv ==
  /\ \A i \in Ids : db[i] # None => <<i, db[i].code>> \in Supply
  /\ \A i \in Ids : cache[i] # None => <<i, cache[i].code>> \in Supply
  /\ \A t \in tasks : IF t.by \in Readers THEN cell[t.by] \in Row /\ <<t.id, cell[t.by].code>> \in Supply
                      ELSE t.row # None => <<t.id, t.row.code>> \in Supply
  /\ \A l \in Readers : rpc[l] = "query" => \A t \in tasks : t.by # l
  /\ \A p \in Active : wop[p].kind \in {"update", "delete"} => <<wop[p].id, wop[p].old.code>> \in Supply

(* Contents that are in S3 unless two operations have stored them.  A delete *)
(* that removes an object while a row refers to it is one of the exceptions. *)
Doomed(p) ==
  /\ wpc[p] = "reap" /\ wop[p].kind = "delete" /\ ~wop[p].old.raw
  /\ db[wop[p].id] # None /\ db[wop[p].id].code = wop[p].old.code

ObjectInv ==
  /\ \A p \in Active : wpc[p] \in {"reap", "save", "rollback"} /\ wop[p].kind # "delete" =>
       wop[p].code \in s3 \cup Shared
  /\ \A p \in Active : Doomed(p) => wop[p].old.code \in Shared
  /\ \A i \in Ids : db[i] # None =>
       \/ db[i].code \in s3 \cup abandoned \cup Shared
       \/ \E p \in Active : /\ wpc[p] = "save" /\ wop[p].kind = "update" /\ wop[p].id = i
                            /\ db[i].code \in Reapable(wop[p])

LEMMA ActiveTypes ==
  ASSUME WriterTypes, NEW p \in Active
  PROVE  /\ p \in Writers /\ wpc[p] # "idle" /\ wop[p] \in Operation /\ wop[p].id \in Ids
         /\ wop[p].code \in Codes /\ wop[p].n \in 1..MaxOps /\ wop[p].kind \in Kinds(wpc[p])
         /\ wop[p].kind \in {"update", "delete"} => wop[p].old \in Row /\ wop[p].old.code \in Codes
  <1>1. p \in Writers /\ wpc[p] # "idle"
    BY DEF Active, WriterTypes
  <1> QED
    BY <1>1, OperationTypes DEF Row

(* An operation under way that has stored what another has supplied *)
LEMMA Conflict ==
  ASSUME TypeInv, NumberInv, NEW p \in Active, wpc[p] # "store", wop[p].kind # "delete",
         NEW i \in Ids, <<i, wop[p].code>> \in Supply
  PROVE  wop[p].code \in Shared
  <1>1. wop[p].code \in Codes /\ <<wop[p].n, wop[p].id>> \in writers[wop[p].code]
    BY ActiveTypes DEF NumberInv, TypeInv
  <1>2. PICK m \in 1..MaxOps : <<m, i>> \in writers[wop[p].code] /\ wop[p].n # m
    BY DEF Supply
  <1> QED
    BY <1>1, <1>2 DEF Shared

(* A content supplied for two functions *)
LEMMA SameSource ==
  ASSUME NEW i, NEW j, NEW k, <<i, k>> \in Supply, <<j, k>> \in Supply, k \notin Shared PROVE i = j
  BY DEF Supply, Shared

(* What a step may do to the operations *)
Moved ==
  /\ \A p \in Active' : (p \in Active /\ wop'[p] = wop[p]) \/ (p \notin Active /\ wop'[p].n = ops + 1)
  /\ \A k \in Codes : writers[k] \subseteq writers'[k]

LEMMA Keeps ==
  ASSUME TypeInv, NumberInv, Moved PROVE Supply \subseteq Supply' /\ Shared \subseteq Shared'
  <1>1. Shared \subseteq Shared'
    BY DEF Shared, Moved
  <1>2. ASSUME NEW s \in Supply PROVE s \in Supply'
    <2>1. s \in Ids \X Codes /\ s[2] \in Codes
      BY DEF Supply
    <2>2. PICK m \in 1..MaxOps : <<m, s[1]>> \in writers[s[2]] /\ \A p \in Active : wop[p].n # m
      BY DEF Supply
    <2>3. m <= ops /\ ops \in Nat
      BY <2>1, <2>2 DEF NumberInv, TypeInv, DiskTypes
    <2>4. \A p \in Active' : wop'[p].n # m
      BY <2>2, <2>3 DEF Moved
    <2>5. <<m, s[1]>> \in writers'[s[2]]
      BY <2>1, <2>2 DEF Moved
    <2> QED
      BY <2>1, <2>4, <2>5 DEF Supply
  <1> QED
    BY <1>1, <1>2

LEMMA Moves == ASSUME TypeInv, [Next]_vars PROVE Moved
  <1>1. ASSUME NEW p \in Writers, CreateFunction(p) \/ Register(p) \/ UpdateFunction(p) \/ DeleteFunction(p)
        PROVE  Moved
    <2>1. /\ wpc[p] = "idle" /\ UNCHANGED writers
          /\ \E o : o.n = ops + 1 /\ wop' = [wop EXCEPT ![p] = o]
      BY <1>1 DEF CreateFunction, Register, UpdateFunction, DeleteFunction, Begin, disk
    <2> QED
      BY <2>1 DEF Moved, Active, TypeInv, WriterTypes
  <1>2. ASSUME NEW p \in Writers, WriterStep(p) PROVE Moved
    <2>1. wop' = wop \/ wop' = [wop EXCEPT ![p] = None]
      BY <1>2 DEF WriterStep, Store, Reap, Save, Rollback, Drop, End
    <2>2. \/ UNCHANGED writers
          \/ writers' = [writers EXCEPT ![wop[p].code] = @ \cup {<<wop[p].n, wop[p].id>>}]
      BY <1>2 DEF WriterStep, Store, Reap, Save, Rollback, Drop
    <2> QED
      BY <2>1, <2>2 DEF Moved, Active, TypeInv, WriterTypes, DiskTypes
  <1>3. ASSUME UNCHANGED <<wop, writers>> PROVE Moved
    BY <1>3 DEF Moved, Active
  <1>4. ASSUME NEW r \in Readers, FindByID(r) \/ ReaderStep(r) PROVE UNCHANGED <<wop, writers>>
    BY <1>4 DEF FindByID, ReaderStep, Query, Retrieve, disk, write
  <1>5. ASSUME NEW t \in tasks, RunTask(t) PROVE UNCHANGED <<wop, writers>>
    BY <1>5 DEF RunTask, disk, write
  <1>6. ASSUME NEW i \in Ids, Expire(i) PROVE UNCHANGED <<wop, writers>>
    BY <1>6 DEF Expire, disk, write
  <1>7. CASE UNCHANGED vars
    BY <1>3, <1>7 DEF vars, disk, write
  <1> QED
    BY <1>1, <1>2, <1>3, <1>4, <1>5, <1>6, <1>7 DEF Next

-----------------------------------------------------------------------------
LEMMA NumberFrame == ASSUME NumberInv, UNCHANGED <<wpc, wop, writers, ops>> PROVE NumberInv'
  BY DEF NumberInv, Active

LEMMA NumberBegins ==
  ASSUME TypeInv, NumberInv, NEW p \in Writers,
         CreateFunction(p) \/ Register(p) \/ UpdateFunction(p) \/ DeleteFunction(p)
  PROVE  NumberInv'
  <1>1. PICK o : /\ o.n = ops + 1 /\ wop' = [wop EXCEPT ![p] = o]
                 /\ (o.kind = "delete" \/ wpc' = [wpc EXCEPT ![p] = "store"])
                 /\ \E q : wpc' = [wpc EXCEPT ![p] = q]
    <2>1. ASSUME NEW kind, NEW i, NEW n, NEW k, NEW old, NEW q, Begin(p, kind, i, n, k, old), Goto(p, q),
                 kind = "delete" \/ q = "store"
          PROVE  \E o : /\ o.n = ops + 1 /\ wop' = [wop EXCEPT ![p] = o]
                        /\ (o.kind = "delete" \/ wpc' = [wpc EXCEPT ![p] = "store"])
                        /\ \E s : wpc' = [wpc EXCEPT ![p] = s]
      <3> DEFINE o == [kind |-> kind, id |-> i, name |-> n, code |-> k, old |-> old, n |-> ops + 1]
      <3>1. o.n = ops + 1 /\ o.kind = kind
        OBVIOUS
      <3>2. wop' = [wop EXCEPT ![p] = o] /\ wpc' = [wpc EXCEPT ![p] = q]
        BY <2>1 DEF Begin, Goto
      <3> HIDE DEF o
      <3> QED
        BY <2>1, <3>1, <3>2
    <2> QED
      BY <2>1 DEF CreateFunction, Register, UpdateFunction, DeleteFunction
  <1>2. wpc[p] = "idle" /\ ops' = ops + 1 /\ UNCHANGED writers /\ ops \in Nat
    <2>1. ops \in Nat
      BY DEF TypeInv, DiskTypes
    <2>2. ASSUME NEW kind, NEW i, NEW n, NEW k, NEW old, Begin(p, kind, i, n, k, old)
          PROVE  wpc[p] = "idle" /\ ops' = ops + 1 /\ UNCHANGED writers
      BY <2>2 DEF Begin, disk
    <2> QED
      BY <2>1, <2>2 DEF CreateFunction, Register, UpdateFunction, DeleteFunction
  <1>3. p \notin Active /\ Active' \subseteq Active \cup {p} /\ wop'[p] = o
    BY <1>1, <1>2 DEF Active, TypeInv, WriterTypes
  <1>4. \A q \in Active' : q = p \/ (q \in Active /\ wop'[q] = wop[q] /\ wpc'[q] = wpc[q])
    BY <1>1, <1>3 DEF Active, TypeInv, WriterTypes
  <1>5. ASSUME NEW q \in Active PROVE wop[q].n \in Nat /\ wop[q].n <= ops
    <2>1. wop[q].n \in Nat
      BY ActiveTypes DEF TypeInv
    <2> QED
      BY <2>1 DEF NumberInv
  <1>6. \A q \in Active' : wop'[q].n <= ops'
    BY <1>1, <1>2, <1>3, <1>4, <1>5
  <1>7. ASSUME NEW q \in Active', NEW s \in Active', wop'[q].n = wop'[s].n PROVE q = s
    <2>1. \A t \in Active : wop[t].n # ops + 1
      BY <1>2, <1>5
    <2>2. CASE q = p \/ s = p
      BY <1>1, <1>3, <1>4, <1>7, <2>1, <2>2
    <2>3. CASE q # p /\ s # p
      <3>1. q \in Active /\ s \in Active /\ wop[q].n = wop[s].n
        BY <1>4, <1>7, <2>3
      <3> QED
        BY <3>1 DEF NumberInv
    <2> QED
      BY <2>2, <2>3
  <1>8. ASSUME NEW k \in Codes PROVE IsFiniteSet(writers'[k]) /\ \A w \in writers'[k] : w[1] <= ops'
    <2>1. \A w \in writers[k] : w[1] \in Nat /\ w[1] <= ops
      BY DEF NumberInv, TypeInv, DiskTypes
    <2>2. \A w \in writers[k] : w[1] <= ops + 1
      BY <1>2, <2>1
    <2>3. IsFiniteSet(writers[k])
      BY DEF NumberInv
    <2> QED
      BY <1>2, <2>2, <2>3
  <1>9. \A q \in Active' : wpc'[q] # "store" /\ wop'[q].kind # "delete" =>
          <<wop'[q].n, wop'[q].id>> \in writers'[wop'[q].code]
    <2>1. o.kind = "delete" \/ wpc'[p] = "store"
      BY <1>1 DEF TypeInv, WriterTypes
    <2> QED
      BY <1>2, <1>3, <1>4, <2>1 DEF NumberInv
  <1> QED
    BY <1>6, <1>7, <1>8, <1>9 DEF NumberInv

LEMMA NumberWriter ==
  ASSUME TypeInv, NumberInv, NEW p \in Writers, WriterStep(p) PROVE NumberInv'
  <1>1. /\ wpc[p] # "idle" /\ ops' = ops
        /\ wop' = wop \/ wop' = [wop EXCEPT ![p] = None]
        /\ \E q : wpc' = [wpc EXCEPT ![p] = q]
    BY DEF WriterStep, Store, Reap, Save, Rollback, Drop, End, Goto, count
  <1>2. wop[p].code \in Codes /\ wop[p].id \in Ids /\ wop[p].n \in 1..MaxOps /\ p \in Active
    BY <1>1, OperationTypes DEF TypeInv, Active, WriterTypes
  <1>3. Active' \subseteq Active /\ \A q \in Active' : wop'[q] = wop[q] /\ (q # p => wpc'[q] = wpc[q])
    BY <1>1 DEF Active, TypeInv, WriterTypes
  <1>4. \A k \in Codes : \/ writers'[k] = writers[k]
                         \/ k = wop[p].code /\ writers'[k] = writers[k] \cup {<<wop[p].n, wop[p].id>>}
    BY DEF WriterStep, Store, Reap, Save, Rollback, Drop, TypeInv, DiskTypes
  <1>5. p \in Active' /\ wop[p].kind # "delete" => <<wop[p].n, wop[p].id>> \in writers'[wop[p].code]
    <2>1. CASE Store(p)
      <3>1. CASE writers' = [writers EXCEPT ![wop[p].code] = @ \cup {<<wop[p].n, wop[p].id>>}]
        BY <1>2, <3>1 DEF TypeInv, DiskTypes
      <3>2. CASE End(p)
        BY <3>2 DEF End, Active, TypeInv, WriterTypes
      <3> QED
        BY <2>1, <3>1, <3>2 DEF Store
    <2>2. CASE Drop(p)
      BY <2>2, OperationTypes DEF Drop, Kinds, TypeInv
    <2>3. CASE Reap(p) \/ Save(p) \/ Rollback(p)
      BY <1>2, <2>3 DEF Reap, Save, Rollback, NumberInv
    <2> QED
      BY <2>1, <2>2, <2>3 DEF WriterStep
  <1>6. \A q \in Active' : wpc'[q] # "store" /\ wop'[q].kind # "delete" =>
          <<wop'[q].n, wop'[q].id>> \in writers'[wop'[q].code]
    <2> SUFFICES ASSUME NEW q \in Active', q # p, wpc'[q] # "store", wop'[q].kind # "delete"
                 PROVE  <<wop'[q].n, wop'[q].id>> \in writers'[wop'[q].code]
      BY <1>3, <1>5
    <2>1. q \in Active /\ wop'[q] = wop[q] /\ wpc'[q] = wpc[q] /\ wop[q].code \in Codes
      BY <1>3, ActiveTypes DEF TypeInv
    <2>2. <<wop[q].n, wop[q].id>> \in writers[wop[q].code]
      BY <2>1 DEF NumberInv
    <2> QED
      BY <1>4, <2>1, <2>2
  <1>7. \A k \in Codes : IsFiniteSet(writers[k])' /\ \A w \in writers'[k] : w[1] <= ops'
    <2> SUFFICES ASSUME NEW k \in Codes PROVE IsFiniteSet(writers'[k]) /\ \A w \in writers'[k] : w[1] <= ops
      BY <1>1
    <2>1. IsFiniteSet(writers[k]) /\ \A w \in writers[k] : w[1] <= ops
      BY DEF NumberInv
    <2>2. IsFiniteSet(writers[k] \cup {<<wop[p].n, wop[p].id>>})
      BY <2>1, FS_AddElement
    <2>3. <<wop[p].n, wop[p].id>>[1] <= ops
      BY <1>2 DEF NumberInv
    <2> QED
      BY <1>4, <2>1, <2>2, <2>3
  <1> QED
    BY <1>1, <1>3, <1>6, <1>7 DEF NumberInv

LEMMA NumberStep == ASSUME TypeInv, NumberInv, [Next]_vars PROVE NumberInv'
  <1>1. ASSUME NEW r \in Readers, FindByID(r) \/ ReaderStep(r) PROVE NumberInv'
    BY <1>1, NumberFrame DEF FindByID, ReaderStep, Query, Retrieve, disk, write, count
  <1>2. ASSUME NEW t \in tasks, RunTask(t) PROVE NumberInv'
    BY <1>2, NumberFrame DEF RunTask, disk, write, count
  <1>3. ASSUME NEW i \in Ids, Expire(i) PROVE NumberInv'
    BY <1>3, NumberFrame DEF Expire, disk, write, count
  <1>4. CASE UNCHANGED vars
    BY <1>4, NumberFrame DEF vars, disk, write, count
  <1> QED
    BY <1>1, <1>2, <1>3, <1>4, NumberBegins, NumberWriter DEF Next

-----------------------------------------------------------------------------
(* What a flight's goroutine will write *)
Pending(t) == t.by \in Readers => cell[t.by] \in Row /\ <<t.id, cell[t.by].code>> \in Supply

LEMMA SupplyBegins ==
  ASSUME TypeInv, SupplyInv, Supply \subseteq Supply', NEW p \in Writers,
         CreateFunction(p) \/ Register(p) \/ UpdateFunction(p) \/ DeleteFunction(p)
  PROVE  SupplyInv'
  <1>1. UNCHANGED <<db, cache, tasks, rpc, cell>> /\ wpc[p] = "idle"
    BY DEF CreateFunction, Register, UpdateFunction, DeleteFunction, Begin, disk, read
  <1>2. PICK o : /\ wop' = [wop EXCEPT ![p] = o]
                 /\ o.kind \in {"update", "delete"} => <<o.id, o.old.code>> \in Supply
    <2>1. ASSUME NEW kind, NEW i \in Ids, NEW n, NEW k, NEW old, Begin(p, kind, i, n, k, old),
                 kind \in {"update", "delete"} => old \in Found(i)
          PROVE  \E o : /\ wop' = [wop EXCEPT ![p] = o]
                        /\ o.kind \in {"update", "delete"} => <<o.id, o.old.code>> \in Supply
      <3> DEFINE o == [kind |-> kind, id |-> i, name |-> n, code |-> k, old |-> old, n |-> ops + 1]
      <3>1. o.id = i /\ o.old = old /\ o.kind = kind
        OBVIOUS
      <3>2. wop' = [wop EXCEPT ![p] = o]
        BY <2>1 DEF Begin
      <3>3. old \in Found(i) => <<i, old.code>> \in Supply
        BY DEF Found, SupplyInv
      <3> HIDE DEF o
      <3> QED
        BY <2>1, <3>1, <3>2, <3>3
    <2> QED
      BY <2>1 DEF CreateFunction, Register, UpdateFunction, DeleteFunction
  <1>3. \A q \in Active' : \/ q = p /\ wop'[q] = o
                           \/ q \in Active /\ wop'[q] = wop[q]
    BY <1>2 DEF Active, TypeInv, WriterTypes
  <1>4. \A q \in Active' : wop'[q].kind \in {"update", "delete"} => <<wop'[q].id, wop'[q].old.code>> \in Supply'
    BY <1>2, <1>3 DEF SupplyInv
  <1> QED
    BY <1>1, <1>4 DEF SupplyInv

LEMMA SupplyWriter ==
  ASSUME TypeInv, NumberInv, SupplyInv, Supply \subseteq Supply', NEW p \in Writers, WriterStep(p)
  PROVE  SupplyInv'
  <1>1. UNCHANGED <<cache, rpc, cell>> /\ wpc[p] # "idle"
    BY DEF WriterStep, Store, Reap, Save, Rollback, Drop, read
  <1>2. /\ wop[p] \in Operation /\ wop[p].code \in Codes /\ wop[p].id \in Ids /\ wop[p].n \in 1..MaxOps
        /\ wop[p].n \notin Readers /\ p \in Active
    BY <1>1, OperationTypes, StoreAssumption DEF TypeInv, Active, WriterTypes
  <1>3. wop' = wop \/ wop' = [wop EXCEPT ![p] = None]
    BY DEF WriterStep, Store, Reap, Save, Rollback, Drop, End
  <1>4. \A q \in Active' : q \in Active /\ wop'[q] = wop[q]
    BY <1>3 DEF Active, TypeInv, WriterTypes
  <1>5. \A q \in Active' : wop'[q].kind \in {"update", "delete"} => <<wop'[q].id, wop'[q].old.code>> \in Supply'
    BY <1>4 DEF SupplyInv
  <1>6. CASE UNCHANGED <<db, tasks>>
    BY <1>1, <1>5, <1>6 DEF SupplyInv
  <1>7. ASSUME NEW row \in Row \cup {None}, db' = [db EXCEPT ![wop[p].id] = row],
               tasks' = tasks \cup {[by |-> wop[p].n, id |-> wop[p].id, row |-> row]},
               row # None => <<wop[p].id, row.code>> \in Supply'
        PROVE  SupplyInv'
    <2>1. \A i \in Ids : db'[i] # None => <<i, db'[i].code>> \in Supply'
      BY <1>2, <1>7 DEF SupplyInv, TypeInv, DiskTypes
    <2>2. \A t \in tasks' : t \in tasks \/ (t.by = wop[p].n /\ t.id = wop[p].id /\ t.row = row)
      BY <1>7
    <2>3. \A t \in tasks' : IF t.by \in Readers THEN cell[t.by] \in Row /\ <<t.id, cell[t.by].code>> \in Supply'
                            ELSE t.row # None => <<t.id, t.row.code>> \in Supply'
      BY <1>2, <1>7, <2>2 DEF SupplyInv
    <2>4. \A l \in Readers : rpc[l] = "query" => \A t \in tasks' : t.by # l
      BY <1>2, <2>2 DEF SupplyInv
    <2>5. \A i \in Ids : cache[i] # None => <<i, cache[i].code>> \in Supply'
      BY DEF SupplyInv
    <2> QED
      BY <1>1, <1>5, <2>1, <2>3, <2>4, <2>5 DEF SupplyInv
  <1>8. CASE Save(p)
    <2>1. CASE db' = Upserted(wop[p])
      <3>1. \/ UNCHANGED <<db, tasks>>
            \/ /\ wop' = [wop EXCEPT ![p] = None] /\ UNCHANGED writers
               /\ tasks' = tasks \cup {[by |-> wop[p].n, id |-> wop[p].id, row |-> NewRow(wop[p])]}
        BY <1>8 DEF Save, End
      <3>2. <<wop[p].n, wop[p].id>> \in writers[wop[p].code]
        BY <1>2, <1>8, OperationTypes DEF Save, NumberInv, Kinds, TypeInv
      <3>3. ASSUME wop' = [wop EXCEPT ![p] = None], UNCHANGED writers
            PROVE  <<wop[p].id, wop[p].code>> \in Supply'
        <4>1. \A q \in Active' : wop'[q].n # wop[p].n
          BY <1>2, <1>4, <3>3 DEF NumberInv, Active, TypeInv, WriterTypes
        <4> QED
          BY <1>2, <3>2, <3>3, <4>1 DEF Supply
      <3>4. NewRow(wop[p]) \in Row /\ NewRow(wop[p]).code = wop[p].code
        BY <1>2, NewRowType
      <3> QED
        BY <1>6, <1>7, <2>1, <3>1, <3>3, <3>4 DEF Upserted
    <2> QED
      BY <1>6, <1>8, <2>1 DEF Save
  <1>9. CASE Drop(p)
    BY <1>6, <1>7, <1>9 DEF Drop, Deleted
  <1> QED
    BY <1>6, <1>8, <1>9 DEF WriterStep, Store, Reap, Rollback

LEMMA SupplyReader ==
  ASSUME TypeInv, SupplyInv, NEW r \in Readers, FindByID(r) \/ ReaderStep(r) PROVE SupplyInv'
  <1>1. UNCHANGED <<db, cache, wop, writers>>
    BY DEF FindByID, ReaderStep, Query, Retrieve, disk, write
  <1>2. Supply' = Supply /\ Active' = Active
    BY <1>1 DEF Supply, Active
  <1>3. ASSUME \A t \in tasks' : t \in tasks \/ (t.by \in Readers /\ t.row = None),
               \A t \in tasks' : Pending(t)', \A l \in Readers : rpc'[l] = "query" => \A t \in tasks' : t.by # l
        PROVE  SupplyInv'
    <2>1. \A t \in tasks' : IF t.by \in Readers THEN cell'[t.by] \in Row /\ <<t.id, cell'[t.by].code>> \in Supply'
                            ELSE t.row # None => <<t.id, t.row.code>> \in Supply'
      BY <1>2, <1>3 DEF SupplyInv, Pending
    <2> QED
      BY <1>1, <1>2, <1>3, <2>1 DEF SupplyInv
  <1>4. \A t \in tasks : t.by \in Readers => cell[t.by] \in Row /\ <<t.id, cell[t.by].code>> \in Supply
    BY DEF SupplyInv
  <1>5. CASE FindByID(r)
    <2>1. UNCHANGED tasks /\ \A t \in tasks : t.by # r
      BY <1>5 DEF FindByID, Held
    <2>2. \A l \in Readers \ {r} : cell'[l] = cell[l] /\ rpc'[l] = rpc[l]
      BY <1>5 DEF FindByID, TypeInv, ReaderTypes
    <2>3. \A t \in tasks' : Pending(t)'
      BY <1>2, <1>4, <2>1, <2>2 DEF Pending
    <2> QED
      BY <1>3, <2>1, <2>2, <2>3 DEF SupplyInv
  <1>6. CASE Query(r)
    <2>1. rpc[r] = "query" /\ want[r] \in Ids /\ view[r] = r /\ \A t \in tasks : t.by # r
      BY <1>6 DEF Query, TypeInv, ReaderTypes, SupplyInv
    <2>2. \A l \in Readers : rpc'[l] = "query" => l # r /\ rpc[l] = "query"
      <3> DEFINE all == {q \in Readers : view[q] = r /\ rpc[q] \in {"query", "wait"}}
      <3>1. PICK gets \in SUBSET all :
              rpc' = [q \in Readers |-> CASE q \in gets -> "get" [] q \in all \ gets -> "idle"
                                          [] OTHER -> rpc[q]]
        BY <1>6 DEF Query
      <3>2. r \in all
        BY <2>1
      <3> HIDE DEF all
      <3> QED
        BY <3>1, <3>2
    <2>3. CASE UNCHANGED <<cell, tasks>>
      BY <1>2, <1>3, <1>4, <2>2, <2>3 DEF Pending, SupplyInv
    <2>4. CASE /\ db[want[r]] # None /\ cell' = [cell EXCEPT ![r] = db[want[r]]]
               /\ tasks' = tasks \cup {[by |-> r, id |-> want[r], row |-> None]}
      <3>1. \A t \in tasks' : t \in tasks \/ (t.by = r /\ t.id = want[r] /\ t.row = None)
        BY <2>4
      <3>2. db[want[r]] \in Row /\ <<want[r], db[want[r]].code>> \in Supply
        BY <2>1, <2>4 DEF TypeInv, DiskTypes, SupplyInv
      <3>3. cell'[r] = db[want[r]] /\ \A l \in Readers \ {r} : cell'[l] = cell[l]
        BY <2>4 DEF TypeInv, ReaderTypes
      <3>4. \A t \in tasks' : Pending(t)'
        BY <1>2, <1>4, <2>1, <3>1, <3>2, <3>3 DEF Pending
      <3> QED
        BY <1>3, <2>2, <3>1, <3>4 DEF SupplyInv
    <2> QED
      BY <1>6, <2>3, <2>4 DEF Query
  <1>7. CASE Retrieve(r)
    <2>1. UNCHANGED tasks /\ rpc' = [rpc EXCEPT ![r] = "idle"]
      BY <1>7 DEF Retrieve
    <2>2. view[r] \in Readers /\ cell[view[r]] \in Row
      BY <1>7 DEF Retrieve, TypeInv, ReaderTypes
    <2>3. \/ cell' = [cell EXCEPT ![view[r]] = None] /\ ~Held(view[r], view', tasks)
          \/ cell' = [cell EXCEPT ![view[r]] = [@ EXCEPT !.raw = TRUE]]
          \/ cell' = cell
      BY <1>7 DEF Retrieve
    <2>4. [cell[view[r]] EXCEPT !.raw = TRUE] \in Row /\ [cell[view[r]] EXCEPT !.raw = TRUE].code = cell[view[r]].code
      BY <2>2 DEF Row
    <2>5. \A l \in Readers : (\E t \in tasks : t.by = l) /\ cell[l] \in Row => cell'[l] \in Row /\ cell'[l].code = cell[l].code
      BY <2>2, <2>3, <2>4 DEF Held, TypeInv, ReaderTypes
    <2>6. \A t \in tasks' : Pending(t)'
      BY <1>2, <1>4, <2>1, <2>5 DEF Pending
    <2>7. \A l \in Readers : rpc'[l] = "query" => rpc[l] = "query"
      BY <2>1 DEF TypeInv, ReaderTypes
    <2> QED
      BY <1>3, <2>1, <2>6, <2>7 DEF SupplyInv
  <1> QED
    BY <1>5, <1>6, <1>7 DEF ReaderStep

LEMMA SupplyCache ==
  ASSUME TypeInv, SupplyInv, (\E t \in tasks : RunTask(t)) \/ (\E i \in Ids : Expire(i)) PROVE SupplyInv'
  <1>1. UNCHANGED <<db, wop, writers, rpc>>
    BY DEF RunTask, Expire, disk, write, read
  <1>2. Supply' = Supply /\ Active' = Active
    BY <1>1 DEF Supply, Active
  <1>3. ASSUME NEW t \in tasks, RunTask(t) PROVE SupplyInv'
    <2>1. /\ tasks' = tasks \ {t} /\ cache' \in {cache, [cache EXCEPT ![t.id] = Written(t)]}
          /\ cell' = [l \in Readers |-> IF Held(l, view, tasks') THEN cell[l] ELSE None]
      BY <1>3 DEF RunTask
    <2>2. \A s \in tasks' : s \in tasks /\ (s.by \in Readers => cell'[s.by] = cell[s.by])
      BY <2>1 DEF Held
    <2>3. \A s \in tasks' : IF s.by \in Readers THEN cell'[s.by] \in Row /\ <<s.id, cell'[s.by].code>> \in Supply
                            ELSE s.row # None => <<s.id, s.row.code>> \in Supply
      BY <2>2 DEF SupplyInv
    <2>4. Written(t) # None => <<t.id, Written(t).code>> \in Supply
      BY DEF Written, SupplyInv
    <2>5. \A i \in Ids : cache'[i] # None => <<i, cache'[i].code>> \in Supply
      BY <2>1, <2>4 DEF SupplyInv, TypeInv, DiskTypes
    <2>6. \A l \in Readers : rpc'[l] = "query" => \A s \in tasks' : s.by # l
      BY <1>1, <2>2 DEF SupplyInv
    <2> QED
      BY <1>1, <1>2, <2>3, <2>5, <2>6 DEF SupplyInv
  <1>4. ASSUME NEW i \in Ids, Expire(i) PROVE SupplyInv'
    <2>1. UNCHANGED <<tasks, cell>> /\ cache' = [cache EXCEPT ![i] = None]
      BY <1>4 DEF Expire, read
    <2>2. \A j \in Ids : cache'[j] # None => <<j, cache'[j].code>> \in Supply
      BY <2>1 DEF SupplyInv, TypeInv, DiskTypes
    <2> QED
      BY <1>1, <1>2, <2>1, <2>2 DEF SupplyInv
  <1> QED
    BY <1>3, <1>4

LEMMA SupplyStep == ASSUME TypeInv, NumberInv, SupplyInv, [Next]_vars PROVE SupplyInv'
  <1>1. Supply \subseteq Supply'
    BY Moves, Keeps
  <1>2. CASE UNCHANGED vars
    <2>1. UNCHANGED <<db, cache, tasks, rpc, cell, wop, writers>>
      BY <1>2 DEF vars, disk, read, write
    <2>2. Supply' = Supply /\ Active' = Active
      BY <2>1 DEF Supply, Active
    <2> QED
      BY <2>1, <2>2 DEF SupplyInv
  <1> QED
    BY <1>1, <1>2, SupplyBegins, SupplyWriter, SupplyReader, SupplyCache DEF Next

-----------------------------------------------------------------------------
(* A writer that is about to delete what row i refers to: the update will    *)
(* replace the row.                                                          *)
Replacing(i, p) ==
  /\ wpc[p] = "save" /\ wop[p].kind = "update" /\ wop[p].id = i
  /\ db[i].code \in Reapable(wop[p])

(* Steps that delete nothing and leave the rows as they are *)
LEMMA ObjectFrame ==
  ASSUME TypeInv, ObjectInv, Shared \subseteq Shared', UNCHANGED db, s3 \subseteq s3',
         abandoned \subseteq abandoned',
         \A p \in Active' : wpc'[p] \in {"reap", "save", "rollback"} =>
           \/ p \in Active /\ wop'[p] = wop[p] /\ wpc'[p] = wpc[p]
           \/ wop'[p].kind # "delete" /\ wop'[p].code \in s3' \cup Shared',
         \A p \in Active : wpc[p] = "save" /\ wop[p].kind = "update" =>
           \/ p \in Active' /\ wop'[p] = wop[p] /\ wpc'[p] = wpc[p]
           \/ Reapable(wop[p]) \subseteq abandoned'
  PROVE  ObjectInv'
  <1>1. ASSUME NEW p \in Active', wpc'[p] \in {"reap", "save", "rollback"}, wop'[p].kind # "delete"
        PROVE  wop'[p].code \in s3' \cup Shared'
    <2>1. CASE p \in Active /\ wop'[p] = wop[p] /\ wpc'[p] = wpc[p]
      <3>1. wop[p].code \in s3 \cup Shared
        BY <1>1, <2>1 DEF ObjectInv
      <3> QED
        BY <2>1, <3>1
    <2> QED
      BY <1>1, <2>1
  <1>2. ASSUME NEW p \in Active', Doomed(p)' PROVE wop'[p].old.code \in Shared'
    <2>1. p \in Active /\ wop'[p] = wop[p] /\ wpc'[p] = wpc[p]
      BY <1>2 DEF Doomed
    <2>2. Doomed(p)
      BY <1>2, <2>1 DEF Doomed
    <2>3. wop[p].old.code \in Shared
      BY <2>1, <2>2 DEF ObjectInv
    <2> QED
      BY <2>1, <2>3
  <1>3. ASSUME NEW i \in Ids, db'[i] # None
        PROVE  \/ db'[i].code \in s3' \cup abandoned' \cup Shared'
               \/ \E p \in Active' : /\ wpc'[p] = "save" /\ wop'[p].kind = "update" /\ wop'[p].id = i
                                     /\ db'[i].code \in Reapable(wop'[p])
    <2>1. CASE db[i].code \in s3 \cup abandoned \cup Shared
      BY <2>1
    <2>2. CASE \E p \in Active : Replacing(i, p)
      <3>1. PICK p \in Active : Replacing(i, p)
        BY <2>2
      <3> QED
        BY <3>1 DEF Replacing
    <2> QED
      BY <1>3, <2>1, <2>2 DEF ObjectInv, Replacing
  <1> QED
    BY <1>1, <1>2, <1>3 DEF ObjectInv

(* The other writers are where they were. *)
LEMMA Others ==
  ASSUME TypeInv, NEW p \in Writers, WriterStep(p)
  PROVE  /\ p \in Active
         /\ \A q \in Active' : q \in Active /\ wop'[q] = wop[q] /\ (q # p => wpc'[q] = wpc[q])
         /\ \A q \in Active \ {p} : q \in Active' /\ wop'[q] = wop[q] /\ wpc'[q] = wpc[q]
  <1>1. /\ wpc[p] # "idle"
        /\ wop' = wop \/ wop' = [wop EXCEPT ![p] = None]
        /\ \E q : wpc' = [wpc EXCEPT ![p] = q]
    BY DEF WriterStep, Store, Reap, Save, Rollback, Drop, End, Goto
  <1> QED
    BY <1>1 DEF Active, TypeInv, WriterTypes

LEMMA ObjectReap ==
  ASSUME TypeInv, NumberInv, SupplyInv, ObjectInv, NEW p \in Writers, Reap(p) PROVE ObjectInv'
  <1>1. wpc[p] = "reap" /\ UNCHANGED <<db, abandoned, writers>> /\ Shared' = Shared
    BY DEF Reap, Shared
  <1>2. /\ p \in Active
        /\ \A q \in Active' : q \in Active /\ wop'[q] = wop[q] /\ (q # p => wpc'[q] = wpc[q])
        /\ \A q \in Active \ {p} : q \in Active' /\ wop'[q] = wop[q] /\ wpc'[q] = wpc[q]
    BY Others DEF WriterStep
  <1>3. \/ wop[p].kind = "update" /\ p \in Active' /\ wpc'[p] = "save"
        \/ wop[p].kind = "delete" /\ p \notin Active'
    BY <1>2 DEF Reap, End, Goto, Active, TypeInv, WriterTypes
  <1>4. s3 \ Reapable(wop[p]) \subseteq s3'
    BY DEF Reap
  <1>5. /\ wop[p].id \in Ids /\ wop[p].kind \in {"update", "delete"}
        /\ <<wop[p].id, wop[p].old.code>> \in Supply
    BY <1>1, <1>2, ActiveTypes DEF Kinds, SupplyInv, TypeInv
  <1>6. \A k \in Reapable(wop[p]) : k = wop[p].old.code /\ <<wop[p].id, k>> \in Supply /\ ~wop[p].old.raw
    BY <1>5 DEF Reapable
  <1>7. ASSUME NEW q \in Active', wpc'[q] \in {"reap", "save", "rollback"}, wop'[q].kind # "delete"
        PROVE  wop'[q].code \in s3' \cup Shared'
    <2>1. q \in Active /\ wop'[q] = wop[q] /\ wpc[q] \in {"reap", "save", "rollback"}
      BY <1>1, <1>2, <1>7
    <2>2. wop[q].code \in s3 \cup Shared
      BY <1>7, <2>1 DEF ObjectInv
    <2>3. wop[q].code \in Reapable(wop[p]) => wop[q].code \in Shared
      BY <1>5, <1>6, <1>7, <2>1, Conflict
    <2> QED
      BY <1>1, <1>4, <2>1, <2>2, <2>3
  <1>8. ASSUME NEW q \in Active', Doomed(q)' PROVE wop'[q].old.code \in Shared'
    <2>1. q \in Active /\ wop'[q] = wop[q] /\ wpc[q] = "reap"
      BY <1>2, <1>3, <1>8 DEF Doomed
    <2>2. Doomed(q)
      BY <1>1, <1>8, <2>1 DEF Doomed
    <2>3. wop[q].old.code \in Shared
      BY <2>1, <2>2 DEF ObjectInv
    <2> QED
      BY <1>1, <2>1, <2>3
  <1>9. ASSUME NEW i \in Ids, db'[i] # None
        PROVE  \/ db'[i].code \in s3' \cup abandoned' \cup Shared'
               \/ \E q \in Active' : /\ wpc'[q] = "save" /\ wop'[q].kind = "update" /\ wop'[q].id = i
                                     /\ db'[i].code \in Reapable(wop'[q])
    <2>1. CASE db[i].code \in Reapable(wop[p])
      <3>1. <<i, db[i].code>> \in Supply
        BY <1>1, <1>9 DEF SupplyInv
      <3>2. db[i].code \in Shared \/ i = wop[p].id
        BY <1>6, <2>1, <3>1, SameSource
      <3>3. CASE wop[p].kind = "update"
        BY <1>1, <1>2, <1>3, <2>1, <3>2, <3>3
      <3>4. CASE wop[p].kind = "delete" /\ i = wop[p].id
        <4>1. Doomed(p) /\ db[i].code = wop[p].old.code
          BY <1>1, <1>6, <1>9, <2>1, <3>4 DEF Doomed
        <4>2. wop[p].old.code \in Shared
          BY <1>2, <4>1 DEF ObjectInv
        <4> QED
          BY <1>1, <4>1, <4>2
      <3> QED
        BY <1>1, <1>5, <3>2, <3>3, <3>4
    <2>2. CASE \E q \in Active : Replacing(i, q)
      <3>1. PICK q \in Active : Replacing(i, q)
        BY <2>2
      <3>2. q # p
        BY <1>1, <3>1 DEF Replacing
      <3> QED
        BY <1>1, <1>2, <3>1, <3>2 DEF Replacing
    <2>3. CASE db[i].code \in s3 \cup abandoned \cup Shared /\ db[i].code \notin Reapable(wop[p])
      BY <1>1, <1>4, <2>3
    <2> QED
      BY <1>1, <1>9, <2>1, <2>2, <2>3 DEF ObjectInv, Replacing
  <1> QED
    BY <1>7, <1>8, <1>9 DEF ObjectInv

LEMMA ObjectSave ==
  ASSUME TypeInv, NumberInv, SupplyInv, ObjectInv, NEW p \in Writers, Save(p) PROVE ObjectInv'
  <1>1. wpc[p] = "save" /\ UNCHANGED <<s3, writers>> /\ Shared' = Shared
    BY DEF Save, Shared
  <1>2. /\ p \in Active
        /\ \A q \in Active' : q \in Active /\ wop'[q] = wop[q] /\ (q # p => wpc'[q] = wpc[q])
        /\ \A q \in Active \ {p} : q \in Active' /\ wop'[q] = wop[q] /\ wpc'[q] = wpc[q]
    BY Others DEF WriterStep
  <1>3. wop[p] \in Operation /\ wop[p].id \in Ids /\ wop[p].code \in Codes /\ wop[p].kind # "delete"
    BY <1>1, <1>2, ActiveTypes DEF Kinds, TypeInv
  <1>4. wop[p].code \in s3 \cup Shared
    BY <1>1, <1>2, <1>3 DEF ObjectInv
  <1>5. CASE /\ UNCHANGED db /\ abandoned \subseteq abandoned'
             /\ wop[p].kind = "update" => Reapable(wop[p]) \subseteq abandoned'
    BY <1>1, <1>2, <1>3, <1>4, <1>5, ObjectFrame
  <1>6. CASE db' = Upserted(wop[p]) /\ End(p) /\ UNCHANGED abandoned
    <2>1. db' = [db EXCEPT ![wop[p].id] = NewRow(wop[p])] /\ p \notin Active'
      BY <1>6 DEF Upserted, End, Active, TypeInv, WriterTypes
    <2>2. /\ db'[wop[p].id] = NewRow(wop[p]) /\ NewRow(wop[p]).code = wop[p].code
          /\ \A i \in Ids \ {wop[p].id} : db'[i] = db[i]
      BY <1>3, <2>1, NewRowType DEF TypeInv, DiskTypes
    <2>3. \A q \in Active' : wpc'[q] \in {"reap", "save", "rollback"} /\ wop'[q].kind # "delete" =>
            wop'[q].code \in s3' \cup Shared'
      BY <1>1, <1>2, <2>1 DEF ObjectInv
    <2>4. ASSUME NEW q \in Active', Doomed(q)' PROVE wop'[q].old.code \in Shared'
      <3>1. q \in Active /\ wop'[q] = wop[q] /\ wpc[q] = "reap" /\ wop[q].kind = "delete" /\ wop[q].id \in Ids
        BY <1>2, <2>1, <2>4, ActiveTypes DEF TypeInv, Doomed
      <3>2. CASE wop[q].id = wop[p].id
        <4>1. wop[q].old.code = wop[p].code
          BY <2>2, <2>4, <3>1, <3>2 DEF Doomed
        <4>2. <<wop[q].id, wop[q].old.code>> \in Supply
          BY <3>1 DEF SupplyInv
        <4> QED
          BY <1>1, <1>2, <1>3, <3>1, <4>1, <4>2, Conflict
      <3>3. CASE wop[q].id # wop[p].id
        <4>1. db'[wop[q].id] = db[wop[q].id]
          BY <2>2, <3>1, <3>3
        <4>2. Doomed(q)
          BY <2>4, <3>1, <4>1 DEF Doomed
        <4>3. wop[q].old.code \in Shared
          BY <3>1, <4>2 DEF ObjectInv
        <4> QED
          BY <1>1, <3>1, <4>3
      <3> QED
        BY <3>2, <3>3
    <2>5. ASSUME NEW i \in Ids, db'[i] # None
          PROVE  \/ db'[i].code \in s3' \cup abandoned' \cup Shared'
                 \/ \E q \in Active' : /\ wpc'[q] = "save" /\ wop'[q].kind = "update" /\ wop'[q].id = i
                                       /\ db'[i].code \in Reapable(wop'[q])
      <3>1. CASE i = wop[p].id
        BY <1>1, <1>4, <2>2, <3>1
      <3>2. CASE i # wop[p].id /\ \E q \in Active : Replacing(i, q)
        <4>1. PICK q \in Active : Replacing(i, q)
          BY <3>2
        <4>2. q # p /\ db'[i] = db[i]
          BY <2>2, <3>2, <4>1 DEF Replacing
        <4> QED
          BY <1>2, <4>1, <4>2 DEF Replacing
      <3>3. CASE i # wop[p].id /\ db[i].code \in s3 \cup abandoned \cup Shared
        BY <1>1, <1>6, <2>2, <3>3
      <3> QED
        BY <2>2, <2>5, <3>1, <3>2, <3>3 DEF ObjectInv, Replacing
    <2> QED
      BY <2>3, <2>4, <2>5 DEF ObjectInv
  <1> QED
    BY <1>5, <1>6 DEF Save

LEMMA ObjectRollback ==
  ASSUME TypeInv, NumberInv, SupplyInv, ObjectInv, NEW p \in Writers, Rollback(p) PROVE ObjectInv'
  <1>1. /\ wpc[p] = "rollback" /\ UNCHANGED <<db, abandoned, writers>> /\ Shared' = Shared
        /\ s3' = s3 \ {wop[p].code}
    BY DEF Rollback, Shared
  <1>2. /\ p \in Active
        /\ \A q \in Active' : q \in Active /\ wop'[q] = wop[q] /\ (q # p => wpc'[q] = wpc[q])
        /\ \A q \in Active \ {p} : q \in Active' /\ wop'[q] = wop[q] /\ wpc'[q] = wpc[q]
    BY Others DEF WriterStep
  <1>3. p \notin Active' /\ wop[p].kind # "delete" /\ wop[p].code \in Codes
    BY <1>1, <1>2, ActiveTypes DEF Rollback, End, Active, TypeInv, WriterTypes, Kinds
  <1>4. <<wop[p].n, wop[p].id>> \in writers[wop[p].code]
    BY <1>1, <1>2, <1>3 DEF NumberInv
  <1>5. ASSUME NEW q \in Active', wpc'[q] \in {"reap", "save", "rollback"}, wop'[q].kind # "delete"
        PROVE  wop'[q].code \in s3' \cup Shared'
    <2>1. q \in Active /\ q # p /\ wop'[q] = wop[q] /\ wpc'[q] = wpc[q]
      BY <1>2, <1>3
    <2>2. wop[q].code \in s3 \cup Shared /\ <<wop[q].n, wop[q].id>> \in writers[wop[q].code]
      BY <1>5, <2>1 DEF ObjectInv, NumberInv
    <2>3. wop[q].code = wop[p].code => wop[q].code \in Shared
      <3>1. wop[q].n # wop[p].n
        BY <1>2, <2>1 DEF NumberInv
      <3>2. <<wop[q].n, wop[q].id>> # <<wop[p].n, wop[p].id>>
        BY <3>1
      <3> QED
        BY <1>3, <1>4, <2>2, <3>2 DEF Shared
    <2> QED
      BY <1>1, <2>1, <2>2, <2>3
  <1>6. ASSUME NEW q \in Active', Doomed(q)' PROVE wop'[q].old.code \in Shared'
    <2>1. q \in Active /\ wop'[q] = wop[q] /\ wpc[q] = "reap"
      BY <1>2, <1>3, <1>6 DEF Doomed
    <2>2. Doomed(q)
      BY <1>1, <1>6, <2>1 DEF Doomed
    <2>3. wop[q].old.code \in Shared
      BY <2>1, <2>2 DEF ObjectInv
    <2> QED
      BY <1>1, <2>1, <2>3
  <1>7. ASSUME NEW i \in Ids, db'[i] # None
        PROVE  \/ db'[i].code \in s3' \cup abandoned' \cup Shared'
               \/ \E q \in Active' : /\ wpc'[q] = "save" /\ wop'[q].kind = "update" /\ wop'[q].id = i
                                     /\ db'[i].code \in Reapable(wop'[q])
    <2>1. CASE db[i].code = wop[p].code
      <3>1. <<i, wop[p].code>> \in Supply
        BY <1>1, <1>7, <2>1 DEF SupplyInv
      <3> QED
        BY <1>1, <1>2, <1>3, <2>1, <3>1, Conflict
    <2>2. CASE \E q \in Active : Replacing(i, q)
      <3>1. PICK q \in Active : Replacing(i, q)
        BY <2>2
      <3>2. q # p
        BY <1>1, <3>1 DEF Replacing
      <3> QED
        BY <1>1, <1>2, <3>1, <3>2 DEF Replacing
    <2>3. CASE db[i].code \in s3 \cup abandoned \cup Shared /\ db[i].code # wop[p].code
      BY <1>1, <2>3
    <2> QED
      BY <1>1, <1>7, <2>1, <2>2, <2>3 DEF ObjectInv, Replacing
  <1> QED
    BY <1>5, <1>6, <1>7 DEF ObjectInv

LEMMA ObjectDrop ==
  ASSUME TypeInv, ObjectInv, NEW p \in Writers, Drop(p) PROVE ObjectInv'
  <1>1. wpc[p] = "drop" /\ UNCHANGED <<s3, abandoned, writers>> /\ Shared' = Shared
    BY DEF Drop, Shared
  <1>2. /\ p \in Active
        /\ \A q \in Active' : q \in Active /\ wop'[q] = wop[q] /\ (q # p => wpc'[q] = wpc[q])
        /\ \A q \in Active \ {p} : q \in Active' /\ wop'[q] = wop[q] /\ wpc'[q] = wpc[q]
    BY Others DEF WriterStep
  <1>3. wop[p].id \in Ids /\ wop[p].kind = "delete"
    BY <1>1, <1>2, ActiveTypes DEF Kinds, TypeInv
  <1>4. \/ db' = [db EXCEPT ![wop[p].id] = None]
        \/ db' = db /\ p \notin Active'
    BY DEF Drop, Deleted, End, Active, TypeInv, WriterTypes
  <1>5. \A i \in Ids : db'[i] # None => db'[i] = db[i]
    BY <1>4 DEF TypeInv, DiskTypes
  <1>6. p \in Active' => db'[wop[p].id] = None
    BY <1>3, <1>4 DEF TypeInv, DiskTypes
  <1>7. ASSUME NEW q \in Active', wpc'[q] \in {"reap", "save", "rollback"}, wop'[q].kind # "delete"
        PROVE  wop'[q].code \in s3' \cup Shared'
    <2>1. q \in Active /\ wop'[q] = wop[q] /\ wpc'[q] = wpc[q]
      BY <1>2, <1>3, <1>7
    <2>2. wop[q].code \in s3 \cup Shared
      BY <1>7, <2>1 DEF ObjectInv
    <2> QED
      BY <1>1, <2>1, <2>2
  <1>8. ASSUME NEW q \in Active', Doomed(q)' PROVE wop'[q].old.code \in Shared'
    <2>1. q # p /\ q \in Active /\ wop'[q] = wop[q] /\ wpc[q] = "reap" /\ wop[q].id \in Ids
      BY <1>2, <1>6, <1>8, ActiveTypes DEF TypeInv, Doomed
    <2>2. db'[wop[q].id] = db[wop[q].id]
      BY <1>5, <1>8, <2>1 DEF Doomed
    <2>3. Doomed(q)
      BY <1>8, <2>1, <2>2 DEF Doomed
    <2>4. wop[q].old.code \in Shared
      BY <2>1, <2>3 DEF ObjectInv
    <2> QED
      BY <1>1, <2>1, <2>4
  <1>9. ASSUME NEW i \in Ids, db'[i] # None
        PROVE  \/ db'[i].code \in s3' \cup abandoned' \cup Shared'
               \/ \E q \in Active' : /\ wpc'[q] = "save" /\ wop'[q].kind = "update" /\ wop'[q].id = i
                                     /\ db'[i].code \in Reapable(wop'[q])
    <2>1. db'[i] = db[i]
      BY <1>5, <1>9
    <2>2. CASE \E q \in Active : Replacing(i, q)
      <3>1. PICK q \in Active : Replacing(i, q)
        BY <2>2
      <3>2. q # p
        BY <1>1, <3>1 DEF Replacing
      <3> QED
        BY <1>2, <2>1, <3>1, <3>2 DEF Replacing
    <2>3. CASE db[i].code \in s3 \cup abandoned \cup Shared
      BY <1>1, <2>1, <2>3
    <2> QED
      BY <1>9, <2>1, <2>2, <2>3 DEF ObjectInv, Replacing
  <1> QED
    BY <1>7, <1>8, <1>9 DEF ObjectInv

LEMMA ObjectStep ==
  ASSUME TypeInv, NumberInv, SupplyInv, ObjectInv, [Next]_vars PROVE ObjectInv'
  <1>1. Shared \subseteq Shared'
    BY Moves, Keeps
  <1>2. ASSUME NEW p \in Writers, CreateFunction(p) \/ Register(p) \/ UpdateFunction(p) \/ DeleteFunction(p)
        PROVE  ObjectInv'
    <2>1. /\ wpc[p] = "idle" /\ UNCHANGED <<db, s3, abandoned>>
          /\ \E o : wop' = [wop EXCEPT ![p] = o]
          /\ \E q \in {"store", "drop"} : wpc' = [wpc EXCEPT ![p] = q]
      BY <1>2 DEF CreateFunction, Register, UpdateFunction, DeleteFunction, Begin, Goto, disk
    <2>2. /\ p \notin Active /\ wpc'[p] \in {"store", "drop"}
          /\ \A q \in Writers \ {p} : wop'[q] = wop[q] /\ wpc'[q] = wpc[q]
      BY <2>1 DEF Active, TypeInv, WriterTypes
    <2>3. /\ \A q \in Active' : wpc'[q] \in {"reap", "save", "rollback"} =>
               q \in Active /\ wop'[q] = wop[q] /\ wpc'[q] = wpc[q]
          /\ \A q \in Active : q \in Active' /\ wop'[q] = wop[q] /\ wpc'[q] = wpc[q]
      BY <2>2 DEF Active
    <2> QED
      BY <1>1, <2>1, <2>3, ObjectFrame
  <1>3. ASSUME NEW p \in Writers, Store(p) PROVE ObjectInv'
    <2>1. wpc[p] = "store" /\ UNCHANGED <<db, abandoned>> /\ s3 \subseteq s3'
      BY <1>3 DEF Store
    <2>2. /\ p \in Active
          /\ \A q \in Active' : q \in Active /\ wop'[q] = wop[q] /\ (q # p => wpc'[q] = wpc[q])
          /\ \A q \in Active \ {p} : q \in Active' /\ wop'[q] = wop[q] /\ wpc'[q] = wpc[q]
      BY <1>3, Others DEF WriterStep
    <2>3. p \in Active' => wop[p].code \in s3' /\ wop[p].kind # "delete"
      BY <1>3, <2>1, <2>2, ActiveTypes DEF Store, End, Active, TypeInv, WriterTypes, Kinds
    <2> QED
      BY <1>1, <2>1, <2>2, <2>3, ObjectFrame
  <1>4. ASSUME UNCHANGED <<db, s3, abandoned, wpc, wop>> PROVE ObjectInv'
    <2>1. Active' = Active
      BY <1>4 DEF Active
    <2> QED
      BY <1>1, <1>4, <2>1, ObjectFrame
  <1>5. ASSUME NEW r \in Readers, FindByID(r) \/ ReaderStep(r) PROVE ObjectInv'
    BY <1>4, <1>5 DEF FindByID, ReaderStep, Query, Retrieve, disk, write
  <1>6. ASSUME NEW t \in tasks, RunTask(t) PROVE ObjectInv'
    BY <1>4, <1>6 DEF RunTask, disk, write
  <1>7. ASSUME NEW i \in Ids, Expire(i) PROVE ObjectInv'
    BY <1>4, <1>7 DEF Expire, disk, write
  <1>8. CASE UNCHANGED vars
    BY <1>4, <1>8 DEF vars, disk, write
  <1>9. ASSUME NEW p \in Writers, WriterStep(p) PROVE ObjectInv'
    BY <1>3, <1>9, ObjectReap, ObjectSave, ObjectRollback, ObjectDrop DEF WriterStep
  <1> QED
    BY <1>2, <1>5, <1>6, <1>7, <1>8, <1>9 DEF Next

(* A content with one writer is not shared. *)
LEMMA Single ==
  ASSUME NumberInv, NEW k \in Codes, Cardinality(writers[k]) = 1 PROVE k \notin Shared
  <1>1. IsFiniteSet(writers[k])
    BY DEF NumberInv
  <1>2. PICK w : writers[k] = {w}
    BY <1>1, FS_Singleton
  <1> QED
    BY <1>2 DEF Shared

(* The code of a function that one operation has ever stored is in S3, for   *)
(* any number of concurrent creates, updates, deletes and registrations,     *)
(* failing anywhere, unless an update deleted it and then could not Save.    *)
(* What deletes an object has found a row with its key, and whoever stored   *)
(* it for that row had ended; so the row is the function's own, or a second  *)
(* operation has stored the content.                                         *)
THEOREM CodeKept == Spec => []CodePresent
  <1> DEFINE Inv == NumberInv /\ SupplyInv /\ ObjectInv
  <1>1. Init => Inv
    <2> SUFFICES ASSUME Init PROVE Inv
      OBVIOUS
    <2>1. Active = {}
      BY DEF Init, Active
    <2>2. \A k \in Codes : writers[k] = {}
      BY DEF Init
    <2>3. NumberInv
      BY <2>1, <2>2, FS_EmptySet DEF NumberInv
    <2>4. SupplyInv
      BY <2>1 DEF Init, SupplyInv
    <2>5. ObjectInv
      BY <2>1 DEF Init, ObjectInv
    <2> QED
      BY <2>3, <2>4, <2>5
  <1>2. TypeInv /\ Inv /\ [Next]_vars => Inv'
    BY NumberStep, SupplyStep, ObjectStep
  <1>3. TypeInv /\ Inv => CodePresent
    <2> SUFFICES ASSUME TypeInv, Inv, NEW i \in Ids, db[i] # None, ~Updating(i),
                        Cardinality(writers[db[i].code]) = 1, db[i].code \notin abandoned
                 PROVE  db[i].code \in s3
      BY DEF CodePresent
    <2>1. db[i].code \in Codes
      BY DEF TypeInv, DiskTypes, Row
    <2>2. db[i].code \notin Shared
      BY <2>1, Single
    <2>3. ASSUME NEW p \in Active, wpc[p] = "save", wop[p].kind = "update", wop[p].id = i PROVE FALSE
      BY <2>3 DEF Updating, Active
    <2> QED
      BY <2>2, <2>3 DEF ObjectInv
  <1> QED
    BY <1>1, <1>2, <1>3, TypeCorrect, PTL DEF Spec
=============================================================================
