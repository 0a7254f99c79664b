----------------------------- MODULE AppendLog -----------------------------
(***************************************************************************)
(* pkg/appendlog/fs_store.go: the append-only log on segment files.        *)
(* Appenders reserve buffer space and an offset and queue their record;    *)
(* one flush loop writes the queue to the active segment, and rotates it.  *)
(* The process may die at any moment and be started again on the same      *)
(* files.  A record is written as one item; what a crash leaves of an item *)
(* that was only partly written is Torn.  The bytes that follow a torn     *)
(* item are not on a record boundary, so no reader of the file decodes     *)
(* them as the records they were.                                          *)
(***************************************************************************)
EXTENDS Naturals, Sequences, FiniteSets, SequencesExt

CONSTANTS Appenders,         \* the goroutines that call Append
          Durabilities,      \* a subset of {"memory", "fsync"}
          MaxSegmentItems,   \* MaxSegmentBytes, in records
          MaxSegments,       \* bound on the files the calls of Rotate make
          MaxBuffered,       \* MaxBufferedBytes, in records
          QueueCap,          \* the capacity of appendCh
          MaxAppends,        \* bound on the calls of Append
          MaxRestarts,       \* bound on the restarts of the process
          Torn               \* a partly written record

VARIABLES durability,   \* cfg.Durability
          segments,     \* the files: [items, durable: how many are fsync'd]
          buffered,     \* how many items of the last file are still in activeBuf
          logUp,        \* the process runs and the store is open
          closePC,      \* where Close is
          queue,        \* appendCh
          flushing,     \* the record appendToDisk is writing, holding mu, or <<>>
          bufferedBytes, nextOffset,
          appendPC,     \* where each appender is
          appendReq,    \* its request
          acked,        \* records whose Append returned nil
          appends, restarts

logVars == <<durability, segments, buffered, logUp, closePC, queue, flushing, bufferedBytes,
             nextOffset, appendPC, appendReq, acked, appends, restarts>>
fileVars == <<durability, segments, buffered>>

NoRequest == [offset |-> 0, data |-> 0]

\* The items of a file a reader decodes: up to the first torn one.
Decoded(items) ==
  LET torn == {i \in DOMAIN items : items[i] = Torn}
  IN  IF torn = {} THEN items
      ELSE SubSeq(items, 1, (CHOOSE i \in torn : \A j \in torn : i <= j) - 1)

Offsets(items) == {items[i].offset : i \in DOMAIN items}

ScanSegmentMaxOffset(items) == Max(Offsets(Decoded(items)) \cup {0})

\* Mutant: only the last segment is scanned.
RecoverLastSegment == ScanSegmentMaxOffset(Last(segments).items) + 1

RecoverOffset == Max({ScanSegmentMaxOffset(segments[s].items) : s \in DOMAIN segments}) + 1

LogInit ==
  /\ durability \in Durabilities
  /\ segments = <<[items |-> <<>>, durable |-> 0]>>
  /\ buffered = 0 /\ logUp = TRUE /\ closePC = "open" /\ queue = <<>> /\ flushing = <<>>
  /\ bufferedBytes = 0 /\ nextOffset = 1
  /\ appendPC = [p \in Appenders |-> "idle"] /\ appendReq = [p \in Appenders |-> NoRequest]
  /\ acked = {} /\ appends = 0 /\ restarts = 0

AppendGoto(p, pc) == appendPC' = [appendPC EXCEPT ![p] = pc]

\* Append up to the reservation of an offset; refused when closed or over the buffer limit.
LogAppend(p) ==
  /\ logUp /\ appendPC[p] = "idle" /\ appends < MaxAppends
  /\ appends' = appends + 1
  /\ IF closePC # "open" \/ bufferedBytes + 1 > MaxBuffered
     THEN UNCHANGED <<appendPC, appendReq, bufferedBytes, nextOffset>>
     ELSE /\ bufferedBytes' = bufferedBytes + 1
          /\ nextOffset' = nextOffset + 1
          /\ appendReq' = [appendReq EXCEPT ![p] = [offset |-> nextOffset, data |-> appends']]
          /\ AppendGoto(p, "reserved")
  /\ UNCHANGED <<fileVars, logUp, closePC, queue, flushing, acked, restarts>>

\* What a crash may leave of a file: the durable items, some of the later ones, and the
\* next one torn.
Leftovers(seg) ==
  {[items |-> SubSeq(seg.items, 1, n), durable |-> n] : n \in seg.durable .. Len(seg.items)}
  \cup {[items |-> Append(SubSeq(seg.items, 1, n), Torn), durable |-> n + 1]
          : n \in seg.durable .. Len(seg.items) - 1}

\* The process dies: the queue, the buffer and every pending call go with it.
Die ==
  /\ logUp' = FALSE
  /\ segments' \in {left \in [DOMAIN segments -> UNION {Leftovers(segments[s]) : s \in DOMAIN segments}] :
                      \A s \in DOMAIN segments : left[s] \in Leftovers(segments[s])}
  /\ buffered' = 0 /\ queue' = <<>> /\ flushing' = <<>> /\ bufferedBytes' = 0
  /\ closePC' = "open"
  /\ appendPC' = [p \in Appenders |-> "idle"] /\ appendReq' = [p \in Appenders |-> NoRequest]
  /\ UNCHANGED <<durability, nextOffset, acked, appends, restarts>>

Crash == logUp /\ restarts < MaxRestarts /\ Die

\* The non-blocking send.  A send on the channel that Close closed panics.
EnqueueRecord(p) ==
  /\ appendPC[p] = "reserved" /\ closePC \in {"open", "flagged"}
  /\ IF Len(queue) < QueueCap
     THEN /\ queue' = Append(queue, appendReq[p])
          /\ IF durability = "memory"
             THEN /\ acked' = acked \cup {appendReq[p]}
                  /\ AppendGoto(p, "idle")
             ELSE AppendGoto(p, "waiting") /\ UNCHANGED acked
          /\ UNCHANGED bufferedBytes
     ELSE /\ bufferedBytes' = bufferedBytes - 1
          /\ AppendGoto(p, "idle") /\ UNCHANGED <<queue, acked>>
  /\ UNCHANGED <<fileVars, logUp, closePC, flushing, nextOffset, appendReq, appends, restarts>>

EnqueuePanics(p) == appendPC[p] = "reserved" /\ closePC \notin {"open", "flagged"} /\ Die

\* The fsync of the active file, and the flush of activeBuf before it.
Synced(segs) == [segs EXCEPT ![Len(segs)].durable = Len(segs[Len(segs)].items)]

\* Mutant: the next file is opened without the flush of activeBuf, which is then dropped.
RotateUnflushed(segs) ==
  Append([segs EXCEPT ![Len(segs)].items = SubSeq(@, 1, Len(@) - buffered)],
         [items |-> <<>>, durable |-> 0])

RotateLocked(segs) ==
  Append(IF durability = "fsync" THEN Synced(segs) ELSE segs, [items |-> <<>>, durable |-> 0])

\* appendToDisk up to the write into activeBuf, which may spill some of it into the file.
WriteRecord ==
  /\ logUp /\ flushing = <<>> /\ queue # <<>> /\ closePC = "open"
  /\ flushing' = <<Head(queue)>> /\ queue' = Tail(queue)
  /\ LET full == Len(Last(segments).items) + 1 > MaxSegmentItems
         segs == IF full THEN RotateLocked(segments) ELSE segments
     IN  /\ segments' = [segs EXCEPT ![Len(segs)].items = Append(@, Head(queue))]
         /\ buffered' \in 0 .. IF full THEN 1 ELSE buffered + 1
  /\ UNCHANGED <<durability, logUp, closePC, bufferedBytes, nextOffset, appendPC, appendReq,
                 acked, appends, restarts>>

\* Mutant: the bytes of a record that was not written stay reserved.
AnswerKeepsBytes(req, ok) ==
  /\ bufferedBytes' = IF ok THEN bufferedBytes - 1 ELSE bufferedBytes
  /\ appendPC' = [p \in Appenders |-> IF appendPC[p] = "waiting" /\ appendReq[p] = req
                                      THEN "idle" ELSE appendPC[p]]
  /\ acked' = IF ok /\ durability = "fsync" THEN acked \cup {req} ELSE acked

\* Mutant: only a record that was written is answered.
AnswerWrittenOnly(req, ok) ==
  /\ bufferedBytes' = bufferedBytes - 1
  /\ appendPC' = [p \in Appenders |-> IF appendPC[p] = "waiting" /\ appendReq[p] = req /\ ok
                                      THEN "idle" ELSE appendPC[p]]
  /\ acked' = IF ok /\ durability = "fsync" THEN acked \cup {req} ELSE acked

\* The answer of an fsync append: the appender that waits for this request gets it.
AnswerAppend(req, ok) ==
  /\ bufferedBytes' = bufferedBytes - 1
  /\ appendPC' = [p \in Appenders |-> IF appendPC[p] = "waiting" /\ appendReq[p] = req
                                      THEN "idle" ELSE appendPC[p]]
  /\ acked' = IF ok /\ durability = "fsync" THEN acked \cup {req} ELSE acked

\* Mutant: the answer is given without the fsync.
AnswerUnsynced ==
  /\ flushing # <<>> /\ flushing' = <<>>
  /\ UNCHANGED <<segments, buffered>>
  /\ AnswerAppend(flushing[1], TRUE)
  /\ UNCHANGED <<durability, logUp, closePC, queue, nextOffset, appendReq, appends, restarts>>

SyncRecord ==
  /\ flushing # <<>> /\ flushing' = <<>>
  /\ IF durability = "fsync"
     THEN segments' = Synced(segments) /\ buffered' = 0
     ELSE UNCHANGED <<segments, buffered>>
  /\ AnswerAppend(flushing[1], TRUE)
  /\ UNCHANGED <<durability, logUp, closePC, queue, nextOffset, appendReq, appends, restarts>>

\* appendToDisk of a closed store: ErrClosed, nothing is written.
DiscardRecord ==
  /\ logUp /\ flushing = <<>> /\ queue # <<>> /\ closePC # "open"
  /\ queue' = Tail(queue)
  /\ AnswerAppend(Head(queue), FALSE)
  /\ UNCHANGED <<fileVars, logUp, closePC, flushing, nextOffset, appendReq, appends, restarts>>

Rotate ==
  /\ logUp /\ flushing = <<>> /\ closePC = "open"
  /\ Len(segments) < MaxSegments
  /\ segments' = RotateLocked(segments) /\ buffered' = 0
  /\ UNCHANGED <<durability, logUp, closePC, queue, flushing, bufferedBytes, nextOffset, appendPC,
                 appendReq, acked, appends, restarts>>

Sync ==
  /\ logUp /\ flushing = <<>> /\ closePC = "open"
  /\ segments' = Synced(segments) /\ buffered' = 0
  /\ UNCHANGED <<durability, logUp, closePC, queue, flushing, bufferedBytes, nextOffset, appendPC,
                 appendReq, acked, appends, restarts>>

\* Close: closed and appendCh under mu, then close(ch), then the wait for the flush loop,
\* then the last flush and the close of the file.
CloseFlag ==
  /\ logUp /\ flushing = <<>> /\ closePC = "open" /\ closePC' = "flagged"
  /\ UNCHANGED <<fileVars, logUp, queue, flushing, bufferedBytes, nextOffset, appendPC, appendReq,
                 acked, appends, restarts>>

CloseChannel ==
  /\ logUp /\ closePC = "flagged" /\ closePC' = "signalled"
  /\ UNCHANGED <<fileVars, logUp, queue, flushing, bufferedBytes, nextOffset, appendPC, appendReq,
                 acked, appends, restarts>>

CloseFiles ==
  /\ logUp /\ closePC = "signalled" /\ queue = <<>> /\ flushing = <<>>
  /\ closePC' = "closed" /\ buffered' = 0
  /\ UNCHANGED <<durability, segments, logUp, queue, flushing, bufferedBytes, nextOffset,
                 appendPC, appendReq, acked, appends, restarts>>

\* NewFSStore on the files of a store that was closed or died: openOrRecover.
OpenOrRecover ==
  /\ restarts < MaxRestarts
  /\ ~logUp \/ (closePC = "closed" /\ \A p \in Appenders : appendPC[p] = "idle")
  /\ restarts' = restarts + 1
  /\ logUp' = TRUE /\ closePC' = "open" /\ buffered' = 0 /\ bufferedBytes' = 0
  /\ nextOffset' = RecoverOffset
  /\ UNCHANGED <<durability, segments, queue, flushing, appendPC, appendReq, acked, appends>>

FlushStep == WriteRecord \/ SyncRecord \/ DiscardRecord
AppenderStep(p) == EnqueueRecord(p) \/ EnqueuePanics(p)
LogStep == FlushStep \/ CloseChannel \/ CloseFiles

LogNext ==
  \/ \E p \in Appenders : LogAppend(p) \/ AppenderStep(p)
  \/ LogStep \/ Rotate \/ Sync \/ CloseFlag \/ Crash \/ OpenOrRecover

LogSpec == LogInit /\ [][LogNext]_logVars /\ WF_logVars(LogStep)
           /\ \A p \in Appenders : WF_logVars(AppenderStep(p))
-----------------------------------------------------------------------------
\* What readSegmentRange sees of a file, and Read of all of them.
OnFile(s) == IF s = Len(segments) THEN SubSeq(segments[s].items, 1, Len(segments[s].items) - buffered)
             ELSE segments[s].items

ReadSegmentRange(s, from, limit) ==
  LET recs == SelectSeq(Decoded(OnFile(s)), LAMBDA r : r.offset >= from)
  IN  SubSeq(recs, 1, IF Len(recs) < limit THEN Len(recs) ELSE limit)

Read(from, limit) ==
  FoldLeft(LAMBDA acc, s :
             LET recs == ReadSegmentRange(s, acc.from, limit - Len(acc.out))
             IN  [out |-> acc.out \o recs,
                  from |-> IF recs = <<>> THEN acc.from ELSE Last(recs).offset + 1],
           [out |-> <<>>, from |-> from], [s \in DOMAIN segments |-> s]).out

Stored == UNION {{segments[s].items[i] : i \in DOMAIN segments[s].items} : s \in DOMAIN segments}
AfterTorn(s, i) == \E j \in 1 .. i - 1 : segments[s].items[j] = Torn

(***************************************************************************)
(* A crash at any point, any number of restarts and any rotation leave a   *)
(* log in which no two records that decode have the same offset, and in    *)
(* which a record whose fsync append was acknowledged is still stored; and *)
(* until the first crash or Close every acknowledged record is on file, in *)
(* the buffer or queued, whatever is rotated in between.                   *)
(* This rests on openOrRecover taking the maximum over all the segments    *)
(* and on the acknowledgement coming after the fsync.                      *)
(***************************************************************************)
LogSurvives ==
  /\ \A s, t \in DOMAIN segments : \A i \in DOMAIN segments[s].items, j \in DOMAIN segments[t].items :
       (<<s, i>> # <<t, j>> /\ Torn \notin {segments[s].items[i], segments[t].items[j]}
          /\ ~AfterTorn(s, i) /\ ~AfterTorn(t, j))
       => segments[s].items[i].offset # segments[t].items[j].offset
  /\ durability = "fsync" => acked \subseteq Stored
  /\ (restarts = 0 /\ logUp /\ closePC = "open") => acked \subseteq Stored \cup ToSet(queue)

(***************************************************************************)
(* The buffer account is exact: bufferedBytes counts the requests between  *)
(* reservation and answer, so backpressure neither leaks nor over-admits.  *)
(***************************************************************************)
BufferExact ==
  (logUp /\ closePC # "closed")
  => bufferedBytes = Len(queue) + Len(flushing)
                     + Cardinality({p \in Appenders : appendPC[p] = "reserved"})

(***************************************************************************)
(* An fsync append that waits is answered, whatever Close, Rotate and the  *)
(* other appenders do, unless the process dies.                            *)
(***************************************************************************)
AppendAnswered == \A p \in Appenders : []<>(appendPC[p] = "idle")

(***************************************************************************)
(* The promise of DurabilityFsync: a record that was acknowledged can be   *)
(* read from its offset, in every process that has the log open.           *)
(***************************************************************************)
AckedIsReadable ==
  (logUp /\ durability = "fsync") => \A r \in acked : r \in ToSet(Read(r.offset, 1))
=============================================================================
