----------------------------- MODULE WriteBuffer -----------------------------
(***************************************************************************)
(* The write path of the SQLite store (metrics/sqlite_store.go).           *)
(* AddRecord appends to a buffer under bufferMu; a full buffer starts one  *)
(* asynchronous flush, a ticker flushes it too, and so do the deletion of  *)
(* a key's records and the queries of the history.  A flush takes the      *)
(* whole buffer and inserts it in a transaction; flushMu keeps flushes     *)
(* apart.  A batch that cannot be inserted goes back to the front of the   *)
(* buffer, unless the buffer has filled up meanwhile.                      *)
(***************************************************************************)
EXTENDS Naturals, Sequences, FiniteSets

CONSTANTS
  Keys,       \* metrics keys
  BatchSize,  \* defaultBatchSize
  BufferMax,  \* batchSize*10, where requeueRecords begins to drop
  MaxRecords  \* bound: the records of a behaviour

ASSUME WriteBufferAssumption ==
  /\ BatchSize \in Nat \ {0}
  /\ BufferMax \in Nat
  /\ MaxRecords \in Nat

(* A record is told apart by the order in which it was accepted.            *)
Records == [id : 1..MaxRecords, key : Keys]

(* Who flushes: the goroutine AddRecord starts, flushLoop, a deletion of    *)
(* records and a query.                                                     *)
Flushers == {"async", "loop", "delete", "query"}
Nobody   == "nobody"

VARIABLES
  buffer,    \* writeBuffer
  table,     \* the committed rows of request_records
  taken,     \* the batch a flusher has taken out of the buffer
  flushMu,   \* who holds the lock
  flusher,   \* how far every flusher is
  flushing,  \* the flag that lets one asynchronous flush be scheduled
  due,       \* AddRecord calls that found the buffer full and have not tried the flag
  store,     \* open, closing, stopping (the last round of flushLoop) or closed
  deleting,  \* the key whose records are being deleted
  accepted,  \* how many records were accepted
  promised,  \* history: what a query must show, and what a deletion must remove
  gone,      \* history: records whose deletion has succeeded
  writeFailed \* history: an insert or a deletion has failed since the start

bufferVars == <<buffer, table, taken, flushMu, flusher, flushing, due, store, deleting,
                accepted, promised, gone, writeFailed>>

Ids(batch) == {batch[i].id : i \in DOMAIN batch}

IdsOf(key, batch) == {batch[i].id : i \in {j \in DOMAIN batch : batch[j].key = key}}

(* The batch that has been taken is older than what the buffer holds.       *)
Pending == IF flushMu = Nobody THEN buffer ELSE taken[flushMu] \o buffer

Goes(f, step) == flusher' = [flusher EXCEPT ![f] = step]

BufferInit ==
  /\ buffer = << >> /\ table = << >>
  /\ taken = [f \in Flushers |-> << >>]
  /\ flushMu = Nobody
  /\ flusher = [f \in Flushers |-> "idle"]
  /\ flushing = FALSE /\ due = 0
  /\ store = "open"
  /\ deleting \in Keys
  /\ accepted = 0
  /\ promised = [f \in Flushers |-> {}]
  /\ gone = {}
  /\ writeFailed = FALSE

-----------------------------------------------------------------------------
(* AddRecord.  A record that comes after Close has begun is ignored; the    *)
(* flag is tried after bufferMu has been released.                          *)

AddRecord(key) ==
  /\ store = "open" /\ accepted < MaxRecords
  /\ accepted' = accepted + 1
  /\ buffer' = Append(buffer, [id |-> accepted + 1, key |-> key])
  /\ due' = IF Len(buffer') >= BatchSize THEN due + 1 ELSE due
  /\ UNCHANGED <<table, taken, flushMu, flusher, flushing, store, deleting, promised, gone,
                 writeFailed>>

ScheduleFlush ==
  /\ due > 0
  /\ due' = due - 1
  /\ IF flushing THEN UNCHANGED <<flushing, flusher>>
                 ELSE flushing' = TRUE /\ Goes("async", "waiting")
  /\ UNCHANGED <<buffer, table, taken, flushMu, store, deleting, accepted, promised, gone,
                 writeFailed>>

(* A round of flushLoop: its ticker, or the last one after stopCh is closed.  *)
TickFlush ==
  /\ flusher["loop"] = "idle"
  /\ Goes("loop", "waiting")
  /\ UNCHANGED <<buffer, table, taken, flushMu, flushing, due, store, deleting, accepted,
                 promised, gone, writeFailed>>

StopFlush ==
  /\ flusher["loop"] = "idle" /\ store = "closing"
  /\ store' = "stopping"
  /\ Goes("loop", "waiting")
  /\ UNCHANGED <<buffer, table, taken, flushMu, flushing, due, deleting, accepted, promised,
                 gone, writeFailed>>

(* DeleteRecordsByMetricsKeys and QueryAggregatedHistory are called.        *)
CallDelete(key) ==
  /\ flusher["delete"] = "idle"
  /\ Goes("delete", "waiting")
  /\ deleting' = key
  /\ promised' = [promised EXCEPT !["delete"] = IdsOf(key, Pending) \cup IdsOf(key, table)]
  /\ UNCHANGED <<buffer, table, taken, flushMu, flushing, due, store, accepted, gone, writeFailed>>

CallQuery ==
  /\ flusher["query"] = "idle"
  /\ Goes("query", "waiting")
  /\ promised' = [promised EXCEPT !["query"] = Ids(Pending) \cup Ids(table)]
  /\ UNCHANGED <<buffer, table, taken, flushMu, flushing, due, store, deleting, accepted, gone,
                 writeFailed>>

-----------------------------------------------------------------------------
(* One flush, under flushMu *)

Take(f) ==
  IF buffer = << >>
  THEN Goes(f, "flushed") /\ UNCHANGED <<taken, buffer>>
  ELSE /\ taken' = [taken EXCEPT ![f] = buffer]
       /\ buffer' = << >>
       /\ Goes(f, "inserting")

(* Mutant: the lock is not taken.                                           *)
LockAndTakeFree(f) ==
  /\ flusher[f] = "waiting"
  /\ flushMu' = f
  /\ Take(f)
  /\ UNCHANGED <<table, flushing, due, store, deleting, accepted, promised, gone, writeFailed>>

(* The buffer is taken under bufferMu as soon as flushMu is held.           *)
LockAndTake(f) ==
  /\ flusher[f] = "waiting" /\ flushMu = Nobody
  /\ flushMu' = f
  /\ Take(f)
  /\ UNCHANGED <<table, flushing, due, store, deleting, accepted, promised, gone, writeFailed>>

(* batchInsertRecords is one transaction; it fails when the database is     *)
(* closed, and may fail at any time.                                        *)
BatchInsertRecords(f) ==
  /\ flusher[f] = "inserting"
  /\ \/ /\ store # "closed"
        /\ table' = table \o taken[f]
        /\ taken' = [taken EXCEPT ![f] = << >>]
        /\ Goes(f, "flushed")
        /\ UNCHANGED writeFailed
     \/ /\ writeFailed' = TRUE
        /\ Goes(f, "requeue")
        /\ UNCHANGED <<table, taken>>
  /\ UNCHANGED <<buffer, flushMu, flushing, due, store, deleting, accepted, promised, gone>>

(* Mutant: the batch goes behind the records that came after it.            *)
RequeueRecordsBehind(f) ==
  /\ flusher[f] = "requeue"
  /\ buffer' = IF Len(buffer) < BufferMax THEN buffer \o taken[f] ELSE buffer
  /\ taken' = [taken EXCEPT ![f] = << >>]
  /\ Goes(f, "flushed")
  /\ UNCHANGED <<table, flushMu, flushing, due, store, deleting, accepted, promised, gone,
                 writeFailed>>

(* The whole batch is dropped when the buffer has filled up meanwhile.      *)
RequeueRecords(f) ==
  /\ flusher[f] = "requeue"
  /\ buffer' = IF Len(buffer) < BufferMax THEN taken[f] \o buffer ELSE buffer
  /\ taken' = [taken EXCEPT ![f] = << >>]
  /\ Goes(f, "flushed")
  /\ UNCHANGED <<table, flushMu, flushing, due, store, deleting, accepted, promised, gone,
                 writeFailed>>

(* The rows of the other keys, in their order.                              *)
Without(key, rows) ==
  LET others    == {i \in DOMAIN rows : rows[i].key # key}
      Before(i) == Cardinality({j \in others : j < i})
  IN  [n \in 1..Cardinality(others) |-> rows[CHOOSE i \in others : Before(i) = n - 1]]

(* The rows of the key are deleted before the lock is released.             *)
DeleteRows ==
  /\ flusher["delete"] = "flushed"
  /\ Goes("delete", "deleted")
  /\ \/ /\ store # "closed"
        /\ table' = Without(deleting, table)
        /\ promised' = [promised EXCEPT !["query"] = @ \ IdsOf(deleting, table)]
        /\ gone' = gone \cup promised["delete"]
        /\ UNCHANGED writeFailed
     \/ /\ writeFailed' = TRUE
        /\ UNCHANGED <<table, promised, gone>>
  /\ UNCHANGED <<buffer, taken, flushMu, flushing, due, store, deleting, accepted>>

(* flushLoop goes on or ends, a deletion returns.                           *)
UnlockFlush(f) ==
  /\ flusher[f] = IF f = "delete" THEN "deleted" ELSE "flushed"
  /\ flushMu' = Nobody
  /\ Goes(f, CASE f \in {"async", "query"} -> "after"
               [] f = "loop" /\ store = "stopping" -> "done"
               [] OTHER -> "idle")
  /\ promised' = [promised EXCEPT !["delete"] = IF f = "delete" THEN {} ELSE @]
  /\ UNCHANGED <<buffer, table, taken, flushing, due, store, deleting, accepted, gone, writeFailed>>

(* The goroutine clears its flag; the query reads the rows.                 *)
AfterFlush(f) ==
  /\ flusher[f] = "after"
  /\ Goes(f, "idle")
  /\ flushing' = (flushing /\ f # "async")
  /\ promised' = [promised EXCEPT !["query"] = IF f = "query" THEN {} ELSE @]
  /\ UNCHANGED <<buffer, table, taken, flushMu, due, store, deleting, accepted, gone, writeFailed>>

Flush(f) ==
  LockAndTake(f) \/ BatchInsertRecords(f) \/ RequeueRecords(f) \/
  UnlockFlush(f) \/ AfterFlush(f)

-----------------------------------------------------------------------------
(* Retention, shutdown and crash *)

(* CleanupOldRecords; records are taken to arrive in the order of their     *)
(* timestamps.  cleanupLoop runs until stopCh is closed.                    *)
CleanupOldRecords ==
  /\ store \in {"open", "closing"}
  /\ \E n \in 1..Len(table) :
       /\ table' = SubSeq(table, n + 1, Len(table))
       /\ promised' = [promised EXCEPT !["query"] = @ \ Ids(SubSeq(table, 1, n))]
  /\ UNCHANGED <<buffer, taken, flushMu, flusher, flushing, due, store, deleting, accepted,
                 gone, writeFailed>>

Close ==
  /\ store = "open"
  /\ store' = "closing"
  /\ UNCHANGED <<buffer, table, taken, flushMu, flusher, flushing, due, deleting, accepted,
                 promised, gone, writeFailed>>

(* Mutant: Close waits for nobody.                                          *)
CloseDatabaseAtOnce ==
  /\ store \in {"closing", "stopping"}
  /\ store' = "closed"
  /\ UNCHANGED <<buffer, table, taken, flushMu, flusher, flushing, due, deleting, accepted,
                 promised, gone, writeFailed>>

(* After wg and asyncFlushWg have been waited for.                          *)
CloseDatabase ==
  /\ store = "stopping" /\ flusher["loop"] = "done" /\ flusher["async"] = "idle"
  /\ store' = "closed"
  /\ UNCHANGED <<buffer, table, taken, flushMu, flusher, flushing, due, deleting, accepted,
                 promised, gone, writeFailed>>

(* The process ends, in order or not, and is started again.                 *)
RestartStore ==
  /\ buffer' = << >>
  /\ taken' = [f \in Flushers |-> << >>]
  /\ flushMu' = Nobody
  /\ flusher' = [f \in Flushers |-> "idle"]
  /\ flushing' = FALSE /\ due' = 0
  /\ store' = "open"
  /\ promised' = [f \in Flushers |-> {}]
  /\ gone' = IF writeFailed THEN {} ELSE gone
  /\ writeFailed' = FALSE
  /\ UNCHANGED <<table, deleting, accepted>>

BufferNext ==
  \/ \E key \in Keys : AddRecord(key) \/ CallDelete(key)
  \/ ScheduleFlush \/ TickFlush \/ StopFlush \/ CallQuery
  \/ \E f \in Flushers : Flush(f)
  \/ DeleteRows \/ CleanupOldRecords \/ Close \/ CloseDatabase \/ RestartStore

BufferSpec == BufferInit /\ [][BufferNext]_bufferVars

-----------------------------------------------------------------------------
(* Properties *)

(* The buffer, its four flushers, requeueing, shutdown and crashes keep     *)
(* what RecordLog promises: no record is stored twice or out of order, and  *)
(* none is lost but with a batch that was dropped or with the process.      *)
Log == INSTANCE RecordLog WITH pending <- Pending, durable <- table

StoresInOrder == Log!LogSpec

(* A query of the history sees every record accepted before the query was   *)
(* made, also one that another flush had taken out of the buffer.           *)
QueriesSeeAll ==
  flusher["query"] = "after" /\ ~writeFailed => promised["query"] \subseteq Ids(table)

(* What DeleteRecordsByMetricsKeys has deleted does not come back with a    *)
(* batch that was buffered or in flight when it was called.                 *)
DeletedStayDeleted ==
  ~writeFailed => gone \cap (Ids(Pending) \cup Ids(table)) = {}

(* When Close has returned, every record that was accepted is in the        *)
(* database.                                                                *)
CloseFlushes ==
  store = "closed" /\ ~writeFailed => Pending = << >>
=============================================================================
