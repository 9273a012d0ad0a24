----------------------------- MODULE DiskStore -----------------------------
(***************************************************************************)
(* DiskStore<T>: the day files of one series (.dat, and .blob for kinds    *)
(* with variable-length payloads), the two buffered writers in front of    *)
(* them, rotation at a new UTC day, retention, a crash at any point, disk  *)
(* errors, and the tail read at a warm start.  A record is Parts cells of  *)
(* .dat, its payload some cells of .blob; the sparse .idx file is left     *)
(* out, nothing reads it.                                                  *)
(***************************************************************************)
EXTENDS Integers, Sequences, FiniteSets, SequencesExt

CONSTANTS
  BlobKinds,    \* whether T has a blob pointer, the cases to look at
  Parts,        \* RECORD_SIZE in cells
  DatCap,       \* capacity of a BufWriter in cells, for .dat ...
  BlobCap,      \* ... and for .blob
  BlobLens,     \* payload lengths in cells
  Retention,    \* retention_days
  MaxTailDays,  \* MAX_TAIL_DAYS
  Limit,        \* warm_start_capacity: how many points a warm start asks for
  MaxDay,       \* bound: days of the wall clock
  MaxRecs,      \* bound: points ever handed to append
  MaxFaults     \* bound: crashes and disk errors

ASSUME StoreAssumption ==
  /\ BlobKinds \subseteq BOOLEAN
  /\ Parts \in Nat \ {0} /\ DatCap \in Nat /\ DatCap > Parts /\ BlobCap \in Nat
  /\ BlobLens \subseteq Nat
  /\ Retention \in Nat /\ MaxTailDays \in Nat \ {0} /\ Limit \in Nat \ {0}
  /\ MaxDay \in Nat \ {0} /\ MaxRecs \in Nat /\ MaxFaults \in Nat

Days == 1 .. MaxDay
NoPoint == [id |-> 0, len |-> 0, day |-> 1]
Garbled == [id |-> 0, off |-> 0, len |-> 0]

VARIABLES
  hasBlob,   \* T::blob_pointer_offset().is_some()
  today,     \* the wall clock
  pc,        \* where the store is, "closed" when nobody has it open
  next,      \* where a flush goes on
  point,     \* the point append is working on
  day,       \* current_day
  datDay,    \* the day whose file self.dat writes to ...
  blobDay,   \* ... and self.blob
  datBuf,    \* cells in the BufWriter of .dat
  blobBuf,   \* cells in the BufWriter of .blob
  blobPos,   \* blob_pos
  off,       \* the offset append put into the header
  days,      \* the days that have a .dat file
  dat,       \* .dat of each day: cells of records
  blob,      \* .blob of each day: cells, named after the point they belong to
  issued,    \* history: points handed to append so far, their ids
  accepted,  \* history: the ids append returned Ok for, and the day of each
  lost,      \* history: ids a crash took out of the writers
  synced,    \* history: the ids accepted before the last Ok of a flush
  torn,      \* history: days on whose .dat a crash left part of a record
  astray,    \* history: days whose headers and .blob have come apart
  faults

writers == <<datBuf, blobBuf, blobPos>>
files == <<days, dat, blob>>
history == <<issued, accepted, lost, synced, torn, astray>>
vars == <<hasBlob, today, pc, next, point, day, datDay, blobDay, writers, off, files, history,
          faults>>

Init ==
  /\ hasBlob \in BlobKinds
  /\ today = 1 /\ pc = "closed" /\ next = "idle" /\ point = NoPoint
  /\ day = 1 /\ datDay = 1 /\ blobDay = 1
  /\ datBuf = <<>> /\ blobBuf = <<>> /\ blobPos = 0 /\ off = 0
  /\ days = {}
  /\ dat = [d \in Days |-> <<>>] /\ blob = [d \in Days |-> <<>>]
  /\ issued = 0 /\ accepted = <<>> /\ lost = {} /\ synced = {} /\ torn = {} /\ astray = {}
  /\ faults = 0

MayFail == faults < MaxFaults /\ faults' = faults + 1

-----------------------------------------------------------------------------
(* Cells and records.                                                        *)

Cells(rec) == [i \in 1 .. Parts |-> [rec |-> rec, part |-> i]]
IsWhole(chunk) == \A i \in DOMAIN chunk : chunk[i] = [rec |-> chunk[1].rec, part |-> i]
Decode(chunk) == IF IsWhole(chunk) THEN chunk[1].rec ELSE Garbled

\* BufWriter: what does not fit sends the buffer to the file first, and what is
\* as large as the buffer goes straight to the file.
Spills(buf, new, cap) == Len(buf) + Len(new) > cap
Direct(new, cap) == Len(new) >= cap
ToFile(buf, new, cap) ==
  IF ~Spills(buf, new, cap) THEN <<>> ELSE IF Direct(new, cap) THEN buf \o new ELSE buf
\* Mutant: a buffer grows as long as it is asked to.
ToBuffer_Grows(buf, new, cap) == IF Direct(new, cap) THEN <<>> ELSE buf \o new

ToBuffer(buf, new, cap) ==
  IF ~Spills(buf, new, cap) THEN buf \o new ELSE IF Direct(new, cap) THEN <<>> ELSE new

Drop(s, k) == SubSeq(s, k + 1, Len(s))

\* Mutant: the last day of the retention window is swept too.
Stale_Early(d, keep) == {s \in Days : s <= d - keep /\ s # d}

\* Removes the files of days before the retention window.
Stale(d, keep) == {s \in Days : s < d - keep}
SweepAt(d, keep) ==
  /\ days' = (days \cup {d}) \ Stale(d, keep)
  /\ dat' = [s \in Days |-> IF s \in Stale(d, keep) THEN <<>> ELSE dat[s]]
  /\ blob' = [s \in Days |-> IF s \in Stale(d, keep) THEN <<>> ELSE blob[s]]

-----------------------------------------------------------------------------
(* Opening, the clock, a crash.                                              *)

Open ==
  /\ pc = "closed"
  /\ pc' = "idle"
  /\ day' = today /\ datDay' = today /\ blobDay' = today
  /\ datBuf' = <<>> /\ blobBuf' = <<>>
  /\ blobPos' = Len(blob[today])
  /\ SweepAt(today, Retention)
  /\ UNCHANGED <<hasBlob, today, next, point, off, history, faults>>

Midnight ==
  /\ today < MaxDay
  /\ today' = today + 1
  /\ UNCHANGED <<hasBlob, pc, next, point, day, datDay, blobDay, writers, off, files, history,
                 faults>>

\* How much of a buffer has reached its file when the process dies: none of it,
\* or any part of it if it was being written.
Torn(writing, buf) == IF writing THEN 0 .. Len(buf) ELSE {0}
Dangling(d, f, b) == \E i \in DOMAIN f[d] : f[d][i].rec.off + f[d][i].rec.len > Len(b[d])

\* The process ends without running Drop: what the writers still hold is gone.
Kill ==
  /\ pc # "closed" /\ MayFail
  /\ pc' = "closed"
  /\ \E k \in Torn(pc = "flushDat" \/ (pc = "dat" /\ Len(datBuf) + Parts > DatCap), datBuf) :
       /\ dat' = [dat EXCEPT ![datDay] = @ \o SubSeq(datBuf, 1, k)]
       /\ lost' = lost \cup {datBuf[i].rec.id : i \in k + 1 .. Len(datBuf)}
  /\ \E k \in Torn(pc = "flushBlob", blobBuf) :
       blob' = [blob EXCEPT ![blobDay] = @ \o SubSeq(blobBuf, 1, k)]
  /\ torn' = torn \cup {d \in Days : Len(dat'[d]) % Parts # 0}
  /\ astray' = astray \cup {d \in Days : Dangling(d, dat', blob')}
  /\ datBuf' = <<>> /\ blobBuf' = <<>> /\ point' = NoPoint /\ off' = 0 /\ next' = "idle"
  /\ UNCHANGED <<hasBlob, today, day, datDay, blobDay, blobPos, days, issued, accepted, synced>>

-----------------------------------------------------------------------------
(* append: rotate, payload, header.                                          *)

\* Back to the caller, with or without an error.
Return == pc' = "idle" /\ point' = NoPoint /\ off' = 0

AppendPoint(len) ==
  /\ pc = "idle" /\ issued < MaxRecs
  /\ issued' = issued + 1
  /\ point' = [id |-> issued + 1, len |-> IF hasBlob THEN len ELSE 0, day |-> today]
  /\ IF today = day THEN pc' = "blob" /\ UNCHANGED next
     ELSE pc' = "flushDat" /\ next' = "openDat"
  /\ UNCHANGED <<hasBlob, today, day, datDay, blobDay, writers, off, files, accepted, lost,
                 synced, torn, astray, faults>>

\* Mutant: current_day is set before every file of the new day is open.
OpenDat_DayFirst ==
  /\ pc = "openDat"
  /\ datDay' = point.day /\ datBuf' = <<>> /\ day' = point.day
  /\ days' = days \cup {point.day}
  /\ pc' = "openBlob"
  /\ UNCHANGED <<hasBlob, today, next, point, blobDay, blobBuf, blobPos, off, dat, blob,
                 history, faults>>

\* rotate_if_new_day: the new .dat is open and assigned before .blob is opened.
OpenDat ==
  /\ pc = "openDat"
  /\ datDay' = point.day /\ datBuf' = <<>>
  /\ days' = days \cup {point.day}
  /\ pc' = "openBlob"
  /\ UNCHANGED <<hasBlob, today, next, point, day, blobDay, blobBuf, blobPos, off, dat, blob,
                 history, faults>>

\* Mutant: blob_pos goes on counting from the day before.
OpenBlob_KeepsPos ==
  /\ pc = "openBlob"
  /\ blobDay' = datDay /\ blobBuf' = <<>>
  /\ day' = datDay
  /\ SweepAt(datDay, Retention)
  /\ pc' = "blob" /\ next' = "idle"
  /\ UNCHANGED <<hasBlob, today, point, datDay, datBuf, blobPos, off, history, faults>>

\* The rest of the rotation, the retention sweep included.
OpenBlob ==
  /\ pc = "openBlob"
  /\ blobDay' = datDay /\ blobBuf' = <<>> /\ blobPos' = Len(blob[datDay])
  /\ day' = datDay
  /\ SweepAt(datDay, Retention)
  /\ pc' = "blob" /\ next' = "idle"
  /\ UNCHANGED <<hasBlob, today, point, datDay, datBuf, off, history, faults>>

\* A file that cannot be opened: the point is given up, what was assigned stays.
OpenFails ==
  /\ pc \in {"openDat", "openBlob"} /\ MayFail
  /\ pc = "openBlob" => hasBlob
  /\ Return /\ next' = "idle"
  /\ UNCHANGED <<hasBlob, today, day, datDay, blobDay, writers, files, history>>

Payload == [i \in 1 .. point.len |-> point.id]

WriteBlob ==
  /\ pc = "blob"
  /\ IF point.len = 0 THEN UNCHANGED <<blobBuf, blobPos, blob, off>>
     ELSE /\ blob' = [blob EXCEPT ![blobDay] = @ \o ToFile(blobBuf, Payload, BlobCap)]
          /\ blobBuf' = ToBuffer(blobBuf, Payload, BlobCap)
          /\ off' = blobPos
          /\ blobPos' = blobPos + point.len
  /\ pc' = "dat"
  /\ UNCHANGED <<hasBlob, today, next, point, day, datDay, blobDay, datBuf, days, dat, history,
                 faults>>

\* Writing the payload fails: of a buffer on its way out k cells are in the
\* file and the rest is kept; of a payload written directly k cells are in the
\* file and blob_pos does not count them.
WriteBlobFails ==
  /\ pc = "blob" /\ point.len > 0 /\ Spills(blobBuf, Payload, BlobCap) /\ MayFail
  /\ \/ \E k \in 0 .. Len(blobBuf) - 1 :
          /\ blob' = [blob EXCEPT ![blobDay] = @ \o SubSeq(blobBuf, 1, k)]
          /\ blobBuf' = Drop(blobBuf, k)
          /\ UNCHANGED astray
     \/ \E k \in 0 .. point.len - 1 :
          /\ Direct(Payload, BlobCap)
          /\ blob' = [blob EXCEPT ![blobDay] = @ \o blobBuf \o SubSeq(Payload, 1, k)]
          /\ blobBuf' = <<>>
          /\ astray' = IF k = 0 THEN astray ELSE astray \cup {blobDay}
  /\ Return
  /\ UNCHANGED <<hasBlob, today, next, day, datDay, blobDay, datBuf, blobPos, days, dat,
                 issued, accepted, lost, synced, torn>>

Header == Cells([id |-> point.id, off |-> off, len |-> point.len])

\* Mutant: a header that does not fit goes past the buffer.
WriteDat_Bypass ==
  /\ pc = "dat"
  /\ IF Spills(datBuf, Header, DatCap)
       THEN dat' = [dat EXCEPT ![datDay] = @ \o Header] /\ UNCHANGED datBuf
       ELSE datBuf' = datBuf \o Header /\ UNCHANGED dat
  /\ accepted' = Append(accepted, [id |-> point.id, day |-> day])
  /\ Return
  /\ UNCHANGED <<hasBlob, today, next, day, datDay, blobDay, blobBuf, blobPos, days, blob,
                 issued, lost, synced, torn, astray, faults>>

WriteDat ==
  /\ pc = "dat"
  /\ dat' = [dat EXCEPT ![datDay] = @ \o ToFile(datBuf, Header, DatCap)]
  /\ datBuf' = ToBuffer(datBuf, Header, DatCap)
  /\ accepted' = Append(accepted, [id |-> point.id, day |-> day])
  /\ Return
  /\ UNCHANGED <<hasBlob, today, next, day, datDay, blobDay, blobBuf, blobPos, days, blob,
                 issued, lost, synced, torn, astray, faults>>

WriteDatFails ==
  /\ pc = "dat" /\ Spills(datBuf, Header, DatCap) /\ MayFail
  /\ \E k \in 0 .. Len(datBuf) - 1 :
       /\ dat' = [dat EXCEPT ![datDay] = @ \o SubSeq(datBuf, 1, k)]
       /\ datBuf' = Drop(datBuf, k)
  /\ Return
  /\ UNCHANGED <<hasBlob, today, next, day, datDay, blobDay, blobBuf, blobPos, days, blob,
                 history>>

-----------------------------------------------------------------------------
(* flush_sync: called by flush, by the rotation ("openDat") and by Drop.     *)

Flush ==
  /\ pc = "idle" /\ pc' = "flushDat" /\ next' \in {"idle", "closed"}
  /\ UNCHANGED <<hasBlob, today, point, day, datDay, blobDay, writers, off, files, history,
                 faults>>

FlushDat ==
  /\ pc = "flushDat"
  /\ dat' = [dat EXCEPT ![datDay] = @ \o datBuf]
  /\ datBuf' = <<>>
  /\ pc' = "flushBlob"
  /\ UNCHANGED <<hasBlob, today, next, point, day, datDay, blobDay, blobBuf, blobPos, off, days,
                 blob, history, faults>>

FlushBlob ==
  /\ pc = "flushBlob"
  /\ blob' = [blob EXCEPT ![blobDay] = @ \o blobBuf]
  /\ blobBuf' = <<>>
  /\ pc' = next /\ next' = IF next = "openDat" THEN next ELSE "idle"
  /\ synced' = IF next = "closed" THEN synced ELSE {accepted[i].id : i \in DOMAIN accepted} \ lost
  /\ UNCHANGED <<hasBlob, today, point, day, datDay, blobDay, datBuf, blobPos, off, days, dat,
                 issued, accepted, lost, torn, astray, faults>>

\* Mutant: an error gives up the whole buffer.
FlushDatFails_Clears ==
  /\ pc = "flushDat" /\ next # "closed" /\ MayFail
  /\ datBuf' = <<>>
  /\ Return /\ next' = "idle"
  /\ UNCHANGED <<hasBlob, today, day, datDay, blobDay, blobBuf, blobPos, files, history>>

\* An error keeps what was not written and leaves flush_sync at once; in Drop
\* each writer is flushed once more on its own and then gone.
FlushDatFails ==
  /\ pc = "flushDat" /\ MayFail
  /\ \E k \in 0 .. Len(datBuf) - 1 :
       /\ dat' = [dat EXCEPT ![datDay] = @ \o SubSeq(datBuf, 1, k)]
       /\ IF next = "closed"
            THEN /\ datBuf' = <<>>
                 /\ lost' = lost \cup {datBuf[i].rec.id : i \in k + 1 .. Len(datBuf)}
                 /\ torn' = IF Len(dat'[datDay]) % Parts = 0 THEN torn ELSE torn \cup {datDay}
                 /\ pc' = "flushBlob" /\ UNCHANGED <<next, point, off>>
            ELSE /\ datBuf' = Drop(datBuf, k)
                 /\ Return /\ next' = "idle"
                 /\ UNCHANGED <<lost, torn>>
  /\ UNCHANGED <<hasBlob, today, day, datDay, blobDay, blobBuf, blobPos, days, blob, issued,
                 accepted, synced, astray>>

FlushBlobFails ==
  /\ pc = "flushBlob" /\ MayFail
  /\ \E k \in 0 .. Len(blobBuf) - 1 :
       /\ blob' = [blob EXCEPT ![blobDay] = @ \o SubSeq(blobBuf, 1, k)]
       /\ IF next = "closed"
            THEN /\ blobBuf' = <<>> /\ pc' = "closed" /\ UNCHANGED <<point, off>>
                 /\ astray' = astray \cup {d \in Days : Dangling(d, dat, blob')}
            ELSE /\ blobBuf' = Drop(blobBuf, k) /\ Return /\ UNCHANGED astray
  /\ next' = "idle"
  /\ UNCHANGED <<hasBlob, today, day, datDay, blobDay, datBuf, blobPos, days, dat, issued,
                 accepted, lost, synced, torn>>

-----------------------------------------------------------------------------
(* read_tail.                                                                *)

\* A record as decode_blob returns it: the payload is what .blob holds in the
\* header's range.  A range beyond the end of .blob skips the record, a header
\* without payload is not looked up.
InBounds(rec, b) == rec.len = 0 \/ rec.off + rec.len <= Len(b)
Stitched(rec, b) == [id |-> rec.id, payload |-> SubSeq(b, rec.off + 1, rec.off + rec.len),
                     len |-> rec.len]

\* What one chunk adds to the result: its record, or nothing.
ReadChunk(chunk, b) ==
  LET rec == Decode(chunk) IN IF InBounds(rec, b) THEN <<Stitched(rec, b)>> ELSE <<>>

\* read_day_tail: the records counted from the END of the file.
ReadDayTail(d, limit) ==
  LET total == Len(dat[d])
      most == total \div Parts
      take == IF limit < most THEN limit ELSE most
      start == total - take * Parts
  IN  FlattenSeq([i \in 1 .. take |->
        ReadChunk(SubSeq(dat[d], start + (i - 1) * Parts + 1, start + i * Parts), blob[d])])

\* The newest of the older days that have a .dat; with the current one at most
\* MAX_TAIL_DAYS days are visited.
OlderDays(cur) ==
  {d \in days : d < cur /\ Cardinality({e \in days : d < e /\ e < cur}) < MaxTailDays - 1}

\* Mutant: the blocks stay in the order the days were walked in.
ReadTail_Walk(cur, limit) ==
  LET back[n \in 0 .. cur - 1] ==
        IF n = 0 THEN ReadDayTail(cur, limit)
        ELSE IF cur - n \in OlderDays(cur)
             THEN back[n - 1] \o ReadDayTail(cur - n, limit - Len(back[n - 1]))
             ELSE back[n - 1]
  IN  back[cur - 1]

\* The current day first, then the older days, newest first, until the limit is
\* met; back[n] is what has been read once the walk is n days back.
ReadTail(cur, limit) ==
  LET back[n \in 0 .. cur - 1] ==
        IF n = 0 THEN ReadDayTail(cur, limit)
        ELSE IF cur - n \in OlderDays(cur)
             THEN ReadDayTail(cur - n, limit - Len(back[n - 1])) \o back[n - 1]
             ELSE back[n - 1]
  IN  back[cur - 1]

-----------------------------------------------------------------------------
Writing == (\E len \in BlobLens : AppendPoint(len)) \/ OpenDat \/ OpenBlob \/ WriteBlob
           \/ WriteDat
Flushing == Flush \/ FlushDat \/ FlushBlob
Failing == Kill \/ OpenFails \/ WriteBlobFails \/ WriteDatFails \/ FlushDatFails
           \/ FlushBlobFails

Next == Open \/ Midnight \/ Writing \/ Flushing \/ Failing

Spec == Init /\ [][Next]_vars

-----------------------------------------------------------------------------
Ids(s) == {s[i].id : i \in DOMAIN s}

TypeOK ==
  /\ hasBlob \in BlobKinds
  /\ today \in Days /\ {day, datDay, blobDay} \subseteq 1 .. today
  /\ pc \in {"closed", "idle", "openDat", "openBlob", "blob", "dat", "flushDat", "flushBlob"}
  /\ next \in {"idle", "closed", "openDat"}
  /\ point.id \in 0 .. issued /\ point.day \in Days
  /\ Len(datBuf) <= DatCap /\ Len(blobBuf) <= BlobCap
  /\ blobPos \in Nat /\ off \in 0 .. blobPos
  /\ days \subseteq Days /\ torn \subseteq Days /\ astray \subseteq Days
  /\ issued \in 0 .. MaxRecs /\ Ids(accepted) \subseteq 1 .. issued
  /\ lost \subseteq 1 .. issued /\ synced \subseteq Ids(accepted)
  /\ faults \in 0 .. MaxFaults

\* append writes a point's payload and header to the files of one and the same
\* day, the one append was called on, after every failure and however often the
\* rotation was begun and given up.
OneDay == pc \in {"blob", "dat"} => datDay = day /\ blobDay = day /\ point.day = day

\* "Read up to `limit` most-recent records ... oldest -> newest": a warm start
\* gets the newest points accepted on the days it visits, all of them that no
\* crash took unless the limit is met, in order and each once, after rotations,
\* sweeps, errors and restarts.  Days a crash left torn, or whose blobs are
\* astray, are excepted.  Ids are given in the order of append.
Visited == {day} \cup OlderDays(day)
Remaining == {a \in ToSet(accepted) : a.day \in Visited /\ a.id \notin lost}
TailIsNewest ==
  pc = "idle" /\ datBuf = <<>> /\ blobBuf = <<>> /\ Visited \cap (torn \cup astray) = {} =>
    LET tail == ReadTail(day, Limit)
    IN  /\ Len(tail) <= Limit
        /\ \A i, j \in DOMAIN tail : i < j => tail[i].id < tail[j].id
        /\ \A i \in DOMAIN tail : \E a \in Remaining : a.id = tail[i].id
        /\ \A a \in Remaining :
             \/ \E i \in DOMAIN tail : tail[i].id = a.id
             \/ Len(tail) = Limit /\ \A i \in DOMAIN tail : a.id < tail[i].id

\* A point read back carries the payload it was appended with, whatever failed
\* and whenever the store was reopened, on every day but those where a crash
\* left a header without its payload or a direct write of a payload failed.
PayloadIsOwnUnlessAstray ==
  \A d \in Days \ (torn \cup astray) : \A r \in ToSet(ReadDayTail(d, Limit)) :
    r.payload = [i \in 1 .. r.len |-> r.id]

\* Once a flush returned Ok, what was appended before it is in its day's file
\* until retention sweeps that day: no later error, rotation or crash undoes it.
FlushedIsStored ==
  \A n \in DOMAIN accepted :
    accepted[n].id \in synced /\ accepted[n].day >= day - Retention =>
      \E i \in DOMAIN dat[accepted[n].day] :
        dat[accepted[n].day][i].rec.id = accepted[n].id /\ dat[accepted[n].day][i].part = Parts

\* A day inside the retention window only ever grows: no sweep, rotation or
\* reopening removes or overwrites a cell of it.
WindowOnlyGrows ==
  [][\A d \in Days : d >= day' - Retention =>
       IsPrefix(dat[d], dat'[d]) /\ IsPrefix(blob[d], blob'[d])]_vars

\* "Write order: blob bytes first, header second": a header on disk never refers
\* to another point's payload.  flush_sync writes the headers first, the two
\* buffers spill independently, and a reopened .blob is appended to at its
\* current length.
PayloadIsOwn ==
  \A d \in Days \ torn : \A r \in ToSet(ReadDayTail(d, Limit)) :
    r.payload = [i \in 1 .. r.len |-> r.id]

\* The store keeps what DurableLog promises: a crash takes a suffix of what was
\* accepted, nothing is reordered, repeated or lost in the middle.
Complete(cells) ==
  FlattenSeq([i \in DOMAIN cells |-> IF cells[i].part = Parts THEN <<cells[i].rec.id>> ELSE <<>>])
Log == INSTANCE DurableLog WITH
  Points <- 1 .. MaxRecs,
  stored <- FlattenSeq([d \in Days |-> Complete(dat[d])]),
  buffered <- Complete(datBuf)
ImplementsDurableLog == Log!LogSpec
=============================================================================
