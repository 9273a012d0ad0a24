-------------------------- MODULE DiskStoreProofs --------------------------
(***************************************************************************)
(* What DiskStore guarantees for every size of records and buffers, every  *)
(* retention, every number of days, points and faults: a rotation that is  *)
(* begun, given up and begun again never mixes the files of two days,      *)
(* nothing that happens takes away from a day in the retention window, and *)
(* what a flush said is stored is stored.                                  *)
(***************************************************************************)
EXTENDS DiskStore, TLAPS

-----------------------------------------------------------------------------
(* The strengthening: what the three days are while a rotation is under way, *)
(* and after one that was given up.                                          *)

CalendarType ==
  /\ today \in Days /\ day \in Days /\ point.day \in Int
  /\ next \in {"idle", "closed", "openDat"}

Rotating ==
  \/ pc \in {"openDat", "openBlob"}
  \/ pc \in {"flushDat", "flushBlob"} /\ next = "openDat"

\* A rotation goes from an earlier day to a day that has begun.
Forward == day <= today /\ (Rotating => day < point.day /\ point.day <= today)

\* The .dat of the new day is assigned before .blob is opened.
HalfDone == pc = "openBlob" => datDay = point.day

\* A rotation that was given up leaves the writers on different days only as long
\* as current_day is in the past, so that the next append begins it again.
Aligned == pc # "closed" /\ day = today => datDay = day /\ blobDay = day

DayInv == CalendarType /\ Forward /\ HalfDone /\ Aligned /\ OneDay

USE StoreAssumption DEF Days, StoreAssumption

\* A store that has never been opened is on its first day.
LEMMA DayInvInit == Init => DayInv
BY DEF Init, DayInv, CalendarType, Rotating, Forward, HalfDone, Aligned, OneDay,
                       NoPoint

-----------------------------------------------------------------------------
(* Steps of append and of the rotation.                                      *)

\* append, its rotation included, keeps the days in order.
LEMMA WritingStep == DayInv /\ Writing => DayInv'
<1> SUFFICES ASSUME DayInv, Writing PROVE DayInv'
  OBVIOUS
<1> USE DEF DayInv, CalendarType, Rotating, Forward, HalfDone, Aligned, OneDay
<1>1. ASSUME NEW len \in BlobLens, AppendPoint(len) PROVE DayInv'
  <2>1. CASE today = day
    BY <1>1, <2>1 DEF AppendPoint
  <2>2. CASE today # day
    BY <1>1, <2>2 DEF AppendPoint
  <2> QED BY <2>1, <2>2
<1>2. CASE OpenDat
  BY <1>2 DEF OpenDat
<1>3. CASE OpenBlob
  BY <1>3 DEF OpenBlob
<1>4. CASE WriteBlob
  BY <1>4 DEF WriteBlob
<1>5. CASE WriteDat
  BY <1>5 DEF WriteDat, Return, NoPoint
<1> QED BY <1>1, <1>2, <1>3, <1>4, <1>5 DEF Writing

-----------------------------------------------------------------------------
(* Steps of flush_sync.                                                      *)

\* So does flush_sync, called on its own, by the rotation or by Drop.
LEMMA FlushingStep == DayInv /\ Flushing => DayInv'
<1> SUFFICES ASSUME DayInv, Flushing PROVE DayInv'
  OBVIOUS
<1> USE DEF DayInv, CalendarType, Rotating, Forward, HalfDone, Aligned, OneDay
<1>1. CASE Flush
  BY <1>1 DEF Flush
<1>2. CASE FlushDat
  BY <1>2 DEF FlushDat
<1>3. CASE FlushBlob
  BY <1>3 DEF FlushBlob
<1> QED BY <1>1, <1>2, <1>3 DEF Flushing

-----------------------------------------------------------------------------
(* Errors and crashes.                                                       *)

\* An error or a crash leaves the days of the writers where they were.
LEMMA FailingStep == DayInv /\ Failing => DayInv'
<1> SUFFICES ASSUME DayInv, Failing PROVE DayInv'
  OBVIOUS
<1> USE DEF DayInv, CalendarType, Rotating, Forward, HalfDone, Aligned, OneDay, NoPoint
<1>1. CASE Kill
  BY <1>1 DEF Kill
<1>2. CASE OpenFails
  BY <1>2 DEF OpenFails, Return
<1>3. CASE WriteBlobFails
  BY <1>3 DEF WriteBlobFails, Return
<1>4. CASE WriteDatFails
  BY <1>4 DEF WriteDatFails, Return
<1>5. CASE FlushDatFails
  <2>1. CASE next = "closed"
    BY <1>5, <2>1 DEF FlushDatFails
  <2>2. CASE next # "closed"
    BY <1>5, <2>2 DEF FlushDatFails, Return
  <2> QED BY <2>1, <2>2
<1>6. CASE FlushBlobFails
  <2>1. CASE next = "closed"
    BY <1>6, <2>1 DEF FlushBlobFails
  <2>2. CASE next # "closed"
    BY <1>6, <2>2 DEF FlushBlobFails, Return
  <2> QED BY <2>1, <2>2
<1> QED BY <1>1, <1>2, <1>3, <1>4, <1>5, <1>6 DEF Failing

-----------------------------------------------------------------------------
\* The days of the writers are inductive.
LEMMA DayInvStep == DayInv /\ [Next]_vars => DayInv'
<1> SUFFICES ASSUME DayInv, [Next]_vars PROVE DayInv'
  OBVIOUS
<1> USE DEF DayInv, CalendarType, Rotating, Forward, HalfDone, Aligned, OneDay
<1>1. CASE Open
  BY <1>1 DEF Open
<1>2. CASE Midnight
  BY <1>2 DEF Midnight
<1>3. CASE UNCHANGED vars
  BY <1>3 DEF vars
<1> QED BY <1>1, <1>2, <1>3, WritingStep, FlushingStep, FailingStep DEF Next

\* The days of the writers in every reachable state: a rotation goes forward, and
\* one that failed half way is begun again before the next point is written.
THEOREM DayInvHolds == Spec => []DayInv
BY DayInvInit, DayInvStep, PTL DEF Spec

\* append writes payload and header of a point to the files of the day it was
\* called on, whatever writes and openings failed before.
THEOREM OneDayHolds == Spec => []OneDay
<1>1. DayInv => OneDay
  BY DEF DayInv
<1> QED BY <1>1, DayInvHolds, PTL

-----------------------------------------------------------------------------
(* Sequences that grow.                                                      *)

\* A concatenation extends its first part.
LEMMA ConcatGrows ==
  ASSUME NEW T, NEW s \in Seq(T), NEW t \in Seq(T)
  PROVE  s \o t \in Seq(T) /\ IsPrefix(s, s \o t)
<1>1. s \o t \in Seq(T) /\ Len(s \o t) = Len(s) + Len(t)
  OBVIOUS
<1>2. \A i \in 1 .. Len(s) : (s \o t)[i] = s[i]
  OBVIOUS
<1>3. SubSeq(s, 1, Len(s)) = SubSeq(s \o t, 1, Len(s))
  BY <1>1, <1>2
<1> QED BY <1>1, <1>3 DEF IsPrefix

\* Two things written one after the other are one thing written.
LEMMA ConcatAssociates ==
  ASSUME NEW T, NEW s \in Seq(T), NEW t \in Seq(T), NEW u \in Seq(T)
  PROVE  (s \o t) \o u = s \o (t \o u)
<1> DEFINE l == (s \o t) \o u
           r == s \o (t \o u)
           n == Len(s) + Len(t) + Len(u)
<1>1. /\ s \o t \in Seq(T) /\ t \o u \in Seq(T)
      /\ Len(s \o t) = Len(s) + Len(t) /\ Len(t \o u) = Len(t) + Len(u)
  OBVIOUS
<1>2. l \in Seq(T) /\ r \in Seq(T) /\ Len(l) = n /\ Len(r) = n
  BY <1>1
<1>3. ASSUME NEW i \in 1 .. n PROVE l[i] = r[i]
  <2>1. CASE i <= Len(s)
    BY <1>1, <2>1
  <2>2. CASE i > Len(s) /\ i <= Len(s) + Len(t)
    BY <1>1, <2>2
  <2>3. CASE i > Len(s) + Len(t)
    BY <1>1, <2>3
  <2> QED BY <2>1, <2>2, <2>3
<1> HIDE DEF l, r
<1>4. l = r
  BY <1>2, <1>3
<1> QED BY <1>4 DEF l, r

\* A sequence is a prefix of itself.
LEMMA SameIsPrefix ==
  ASSUME NEW T, NEW s \in Seq(T)
  PROVE  IsPrefix(s, s)
BY DEF IsPrefix

\* The part of a buffer that was written and the rest of it.
LEMMA PartOf ==
  ASSUME NEW T, NEW s \in Seq(T), NEW k \in 0 .. Len(s)
  PROVE  SubSeq(s, 1, k) \in Seq(T) /\ Drop(s, k) \in Seq(T)
BY DEF Drop

\* A file of one day that is written to; the others stay.
LEMMA FileGrows ==
  ASSUME NEW T, NEW f \in [Days -> Seq(T)], NEW e \in Days, NEW x \in Seq(T)
  PROVE  LET g == [f EXCEPT ![e] = @ \o x]
         IN  g \in [Days -> Seq(T)] /\ \A d \in Days : IsPrefix(f[d], g[d])
<1> DEFINE g == [f EXCEPT ![e] = @ \o x]
<1>1. f[e] \o x \in Seq(T) /\ IsPrefix(f[e], f[e] \o x)
  BY ConcatGrows
<1>2. g \in [Days -> Seq(T)]
  BY <1>1
<1>3. ASSUME NEW d \in Days PROVE IsPrefix(f[d], g[d])
  <2>1. CASE d = e BY <1>1, <2>1
  <2>2. CASE d # e
    <3>1. g[d] = f[d] BY <2>2
    <3> QED BY <3>1, SameIsPrefix
  <2> QED BY <2>1, <2>2
<1> QED BY <1>2, <1>3

\* Files nobody writes to.
LEMMA FileStays ==
  ASSUME NEW T, NEW f \in [Days -> Seq(T)]
  PROVE  \A d \in Days : IsPrefix(f[d], f[d])
BY SameIsPrefix

-----------------------------------------------------------------------------
(* Types of what is written.                                                 *)

Cell == [rec : [id : Nat, off : Nat, len : Nat], part : Nat]

FileType ==
  /\ today \in Days /\ day \in Days /\ datDay \in Days /\ blobDay \in Days
  /\ point \in [id : Nat, len : Nat, day : Days]
  /\ off \in Nat /\ blobPos \in Nat /\ issued \in Nat
  /\ dat \in [Days -> Seq(Cell)] /\ blob \in [Days -> Seq(Nat)]
  /\ datBuf \in Seq(Cell) /\ blobBuf \in Seq(Nat)

Grows ==
  \A d \in Days : d >= day' - Retention =>
    IsPrefix(dat[d], dat'[d]) /\ IsPrefix(blob[d], blob'[d])

\* What a BufWriter sends to its file and what it keeps.
LEMMA BufferType ==
  ASSUME NEW T, NEW buf \in Seq(T), NEW new \in Seq(T), NEW cap
  PROVE  ToFile(buf, new, cap) \in Seq(T) /\ ToBuffer(buf, new, cap) \in Seq(T)
<1>1. buf \o new \in Seq(T) /\ <<>> \in Seq(T)
  OBVIOUS
<1> QED BY <1>1, Zenon DEF ToFile, ToBuffer

\* A header and a payload are sequences of cells.
LEMMA WrittenType == FileType => Header \in Seq(Cell) /\ Payload \in Seq(Nat)
<1> SUFFICES ASSUME FileType PROVE Header \in Seq(Cell) /\ Payload \in Seq(Nat)
  OBVIOUS
<1>1. Payload \in Seq(Nat)
  BY DEF Payload, FileType
<1> DEFINE rec == [id |-> point.id, off |-> off, len |-> point.len]
<1>2. rec \in [id : Nat, off : Nat, len : Nat]
  BY DEF FileType
<1> HIDE DEF rec
<1>3. Cells(rec) \in Seq(Cell)
  <2>1. \A i \in 1 .. Parts : [rec |-> rec, part |-> i] \in Cell
    BY <1>2 DEF Cell
  <2>2. [i \in 1 .. Parts |-> [rec |-> rec, part |-> i]] \in Seq(Cell)
    BY <2>1
  <2> QED BY <2>2 DEF Cells
<1> QED BY <1>1, <1>3 DEF Header, rec

\* The files start empty.
LEMMA FileTypeInit == Init => FileType
<1> SUFFICES ASSUME Init PROVE FileType
  OBVIOUS
<1>1. \A T : <<>> \in Seq(T)
  OBVIOUS
<1> QED BY <1>1 DEF Init, FileType, NoPoint

-----------------------------------------------------------------------------
(* Steps.  A step that writes no file, one that sweeps, one that writes.     *)

\* A step that touches no file.
LEMMA NoFileStep ==
  ASSUME FileType, UNCHANGED <<dat, blob>>
  PROVE  Grows /\ dat' \in [Days -> Seq(Cell)] /\ blob' \in [Days -> Seq(Nat)]
BY FileStays DEF FileType, Grows

\* The retention sweep removes nothing of the window.
LEMMA SweepStep ==
  ASSUME FileType, NEW d \in Days, SweepAt(d, Retention), day' = d
  PROVE  Grows /\ dat' \in [Days -> Seq(Cell)] /\ blob' \in [Days -> Seq(Nat)]
<1>1. \A T : <<>> \in Seq(T)
  OBVIOUS
<1>2. dat' \in [Days -> Seq(Cell)] /\ blob' \in [Days -> Seq(Nat)]
  BY <1>1 DEF SweepAt, FileType
<1>3. ASSUME NEW s \in Days, s >= day' - Retention
      PROVE  dat'[s] = dat[s] /\ blob'[s] = blob[s]
  <2>1. s \notin Stale(d, Retention)
    BY <1>3 DEF Stale
  <2> QED BY <2>1 DEF SweepAt
<1>4. \A s \in Days : IsPrefix(dat[s], dat[s]) /\ IsPrefix(blob[s], blob[s])
  BY FileStays DEF FileType
<1> QED BY <1>2, <1>3, <1>4 DEF Grows

\* A step that writes to .dat.
LEMMA DatStep ==
  ASSUME FileType, NEW x \in Seq(Cell), dat' = [dat EXCEPT ![datDay] = @ \o x], blob' = blob
  PROVE  Grows /\ dat' \in [Days -> Seq(Cell)] /\ blob' \in [Days -> Seq(Nat)]
<1>1. dat' \in [Days -> Seq(Cell)] /\ \A d \in Days : IsPrefix(dat[d], dat'[d])
  BY FileGrows DEF FileType
<1>2. \A d \in Days : IsPrefix(blob[d], blob'[d])
  BY FileStays DEF FileType
<1> QED BY <1>1, <1>2 DEF Grows, FileType

\* A step that writes to .blob.
LEMMA BlobStep ==
  ASSUME FileType, NEW x \in Seq(Nat), blob' = [blob EXCEPT ![blobDay] = @ \o x], dat' = dat
  PROVE  Grows /\ dat' \in [Days -> Seq(Cell)] /\ blob' \in [Days -> Seq(Nat)]
<1>1. blob' \in [Days -> Seq(Nat)] /\ \A d \in Days : IsPrefix(blob[d], blob'[d])
  BY FileGrows DEF FileType
<1>2. \A d \in Days : IsPrefix(dat[d], dat'[d])
  BY FileStays DEF FileType
<1> QED BY <1>1, <1>2 DEF Grows, FileType

-----------------------------------------------------------------------------
(* One lemma for each kind of action.                                        *)

Kept == FileType' /\ Grows

\* Opening the store and midnight.
LEMMA GrowsOpening == FileType /\ (Open \/ Midnight \/ UNCHANGED vars) => Kept
<1> SUFFICES ASSUME FileType, Open \/ Midnight \/ UNCHANGED vars PROVE Kept
  OBVIOUS
<1>1. CASE Open
  <2>1. Grows /\ dat' \in [Days -> Seq(Cell)] /\ blob' \in [Days -> Seq(Nat)]
    BY <1>1, SweepStep DEF Open, FileType
  <2>2. <<>> \in Seq(Cell) /\ <<>> \in Seq(Nat) /\ Len(blob[today]) \in Nat
    BY DEF FileType
  <2> QED BY <1>1, <2>1, <2>2 DEF Open, FileType, Kept, history
<1>2. CASE Midnight
  <2>1. Grows /\ dat' \in [Days -> Seq(Cell)] /\ blob' \in [Days -> Seq(Nat)]
    BY <1>2, NoFileStep DEF Midnight, files
  <2> QED BY <1>2, <2>1 DEF Midnight, FileType, Kept, history, writers
<1>3. CASE UNCHANGED vars
  <2>1. Grows /\ dat' \in [Days -> Seq(Cell)] /\ blob' \in [Days -> Seq(Nat)]
    BY <1>3, NoFileStep DEF vars, files
  <2> QED BY <1>3, <2>1 DEF vars, FileType, Kept, history, writers
<1> QED BY <1>1, <1>2, <1>3

\* append and its rotation.
LEMMA GrowsWriting == FileType /\ Writing => Kept
<1> SUFFICES ASSUME FileType, Writing PROVE Kept
  OBVIOUS
<1>1. ASSUME NEW len \in BlobLens, AppendPoint(len) PROVE Kept
  <2>1. Grows /\ dat' \in [Days -> Seq(Cell)] /\ blob' \in [Days -> Seq(Nat)]
    BY <1>1, NoFileStep DEF AppendPoint, files
  <2>2. point' \in [id : Nat, len : Nat, day : Days]
    BY <1>1 DEF AppendPoint, FileType
  <2> QED BY <1>1, <2>1, <2>2 DEF AppendPoint, FileType, Kept, writers
<1>2. CASE OpenDat
  <2>1. Grows /\ dat' \in [Days -> Seq(Cell)] /\ blob' \in [Days -> Seq(Nat)]
    BY <1>2, NoFileStep DEF OpenDat
  <2>2. <<>> \in Seq(Cell)
    OBVIOUS
  <2> QED BY <1>2, <2>1, <2>2 DEF OpenDat, FileType, Kept, history
<1>3. CASE OpenBlob
  <2>1. Grows /\ dat' \in [Days -> Seq(Cell)] /\ blob' \in [Days -> Seq(Nat)]
    BY <1>3, SweepStep DEF OpenBlob, FileType
  <2>2. <<>> \in Seq(Nat) /\ Len(blob[datDay]) \in Nat
    BY DEF FileType
  <2> QED BY <1>3, <2>1, <2>2 DEF OpenBlob, FileType, Kept, history
<1>4. CASE WriteBlob
  <2>1. /\ ToFile(blobBuf, Payload, BlobCap) \in Seq(Nat)
        /\ ToBuffer(blobBuf, Payload, BlobCap) \in Seq(Nat)
    BY BufferType, WrittenType DEF FileType
  <2>2. Grows /\ dat' \in [Days -> Seq(Cell)] /\ blob' \in [Days -> Seq(Nat)]
    <3>1. CASE point.len = 0
      BY <1>4, <3>1, NoFileStep DEF WriteBlob
    <3>2. CASE point.len # 0
      BY <1>4, <3>2, <2>1, BlobStep DEF WriteBlob
    <3> QED BY <3>1, <3>2
  <2>3. CASE point.len = 0
    BY <1>4, <2>2, <2>3 DEF WriteBlob, FileType, Kept, history
  <2>4. CASE point.len # 0
    <3>1. /\ off' = blobPos /\ blobPos' = blobPos + point.len
          /\ blobBuf' = ToBuffer(blobBuf, Payload, BlobCap)
      BY <1>4, <2>4, Zenon DEF WriteBlob
    <3>2. blobPos \in Nat /\ point.len \in Nat
      BY DEF FileType
    <3>3. off' \in Nat /\ blobPos' \in Nat /\ blobBuf' \in Seq(Nat)
      BY <2>1, <3>1, <3>2
    <3>4. UNCHANGED <<today, day, datDay, blobDay, point, issued, datBuf>>
      BY <1>4 DEF WriteBlob, history
    <3> QED BY <2>2, <3>3, <3>4 DEF FileType, Kept
  <2> QED BY <2>3, <2>4
<1>5. CASE WriteDat
  <2>1. /\ ToFile(datBuf, Header, DatCap) \in Seq(Cell)
        /\ ToBuffer(datBuf, Header, DatCap) \in Seq(Cell)
    BY BufferType, WrittenType DEF FileType
  <2>2. Grows /\ dat' \in [Days -> Seq(Cell)] /\ blob' \in [Days -> Seq(Nat)]
    BY <1>5, <2>1, DatStep DEF WriteDat
  <2>3. /\ point' \in [id : Nat, len : Nat, day : Days] /\ off' \in Nat
        /\ datBuf' \in Seq(Cell)
    BY <1>5, <2>1 DEF WriteDat, Return, NoPoint
  <2>4. UNCHANGED <<today, day, datDay, blobDay, blobBuf, blobPos, issued>>
    BY <1>5 DEF WriteDat
  <2> QED BY <2>2, <2>3, <2>4 DEF FileType, Kept
<1> QED BY <1>1, <1>2, <1>3, <1>4, <1>5 DEF Writing

\* flush_sync.
LEMMA GrowsFlushing == FileType /\ Flushing => Kept
<1> SUFFICES ASSUME FileType, Flushing PROVE Kept
  OBVIOUS
<1>1. CASE Flush
  <2>1. Grows /\ dat' \in [Days -> Seq(Cell)] /\ blob' \in [Days -> Seq(Nat)]
    BY <1>1, NoFileStep DEF Flush, files
  <2> QED BY <1>1, <2>1 DEF Flush, FileType, Kept, writers, history
<1>2. CASE FlushDat
  <2>1. datBuf \in Seq(Cell) /\ <<>> \in Seq(Cell)
    BY DEF FileType
  <2>2. Grows /\ dat' \in [Days -> Seq(Cell)] /\ blob' \in [Days -> Seq(Nat)]
    BY <1>2, <2>1, DatStep DEF FlushDat
  <2> QED BY <1>2, <2>1, <2>2 DEF FlushDat, FileType, Kept, history
<1>3. CASE FlushBlob
  <2>1. blobBuf \in Seq(Nat) /\ <<>> \in Seq(Nat)
    BY DEF FileType
  <2>2. Grows /\ dat' \in [Days -> Seq(Cell)] /\ blob' \in [Days -> Seq(Nat)]
    BY <1>3, <2>1, BlobStep DEF FlushBlob
  <2> QED BY <1>3, <2>1, <2>2 DEF FlushBlob, FileType, Kept
<1> QED BY <1>1, <1>2, <1>3 DEF Flushing

\* Errors and crashes: what reached a file is the beginning of a buffer.
LEMMA GrowsFailing == FileType /\ Failing => Kept
<1> SUFFICES ASSUME FileType, Failing PROVE Kept
  OBVIOUS
<1>0. <<>> \in Seq(Cell) /\ <<>> \in Seq(Nat) /\ NoPoint \in [id : Nat, len : Nat, day : Days]
  BY DEF NoPoint
<1>1. CASE Kill
  <2>1. \A w \in BOOLEAN : /\ Torn(w, datBuf) \subseteq 0 .. Len(datBuf)
                            /\ Torn(w, blobBuf) \subseteq 0 .. Len(blobBuf)
    BY DEF Torn, FileType
  <2>2. PICK k \in 0 .. Len(datBuf) : dat' = [dat EXCEPT ![datDay] = @ \o SubSeq(datBuf, 1, k)]
    BY <1>1, <2>1 DEF Kill
  <2>3. PICK m \in 0 .. Len(blobBuf) :
          blob' = [blob EXCEPT ![blobDay] = @ \o SubSeq(blobBuf, 1, m)]
    BY <1>1, <2>1 DEF Kill
  <2>4. /\ dat' \in [Days -> Seq(Cell)] /\ \A d \in Days : IsPrefix(dat[d], dat'[d])
        /\ blob' \in [Days -> Seq(Nat)] /\ \A d \in Days : IsPrefix(blob[d], blob'[d])
    <3>1. datBuf \in Seq(Cell) /\ blobBuf \in Seq(Nat)
      BY DEF FileType
    <3>2. SubSeq(datBuf, 1, k) \in Seq(Cell) /\ SubSeq(blobBuf, 1, m) \in Seq(Nat)
      BY <3>1, PartOf
    <3> QED BY <2>2, <2>3, <3>2, FileGrows DEF FileType
  <2>5. Grows
    BY <2>4 DEF Grows
  <2> QED BY <1>0, <1>1, <2>4, <2>5 DEF Kill, FileType, Kept
<1>2. CASE OpenFails
  <2>1. Grows /\ dat' \in [Days -> Seq(Cell)] /\ blob' \in [Days -> Seq(Nat)]
    BY <1>2, NoFileStep DEF OpenFails, files
  <2> QED BY <1>0, <1>2, <2>1 DEF OpenFails, Return, FileType, Kept, writers, history
<1>3. CASE WriteBlobFails
  <2>1. PICK x \in Seq(Nat) : /\ blob' = [blob EXCEPT ![blobDay] = @ \o x]
                              /\ blobBuf' \in Seq(Nat)
    <3>1. ASSUME NEW k \in 0 .. Len(blobBuf) - 1,
                 blob' = [blob EXCEPT ![blobDay] = @ \o SubSeq(blobBuf, 1, k)],
                 blobBuf' = Drop(blobBuf, k)
          PROVE  \E x \in Seq(Nat) : /\ blob' = [blob EXCEPT ![blobDay] = @ \o x]
                                     /\ blobBuf' \in Seq(Nat)
      <4>1. k \in 0 .. Len(blobBuf) /\ blobBuf \in Seq(Nat)
        BY DEF FileType
      <4> QED BY <3>1, <4>1, PartOf
    <3>2. ASSUME NEW k \in 0 .. point.len - 1,
                 blob' = [blob EXCEPT ![blobDay] = @ \o blobBuf \o SubSeq(Payload, 1, k)],
                 blobBuf' = <<>>
          PROVE  \E x \in Seq(Nat) : /\ blob' = [blob EXCEPT ![blobDay] = @ \o x]
                                     /\ blobBuf' \in Seq(Nat)
      <4> DEFINE p == SubSeq(Payload, 1, k)
      <4>1. Payload \in Seq(Nat) /\ k \in 0 .. Len(Payload)
        BY WrittenType DEF Payload, FileType
      <4>2. p \in Seq(Nat)
        BY <4>1, PartOf
      <4>3. blob[blobDay] \in Seq(Nat) /\ blobBuf \in Seq(Nat)
        BY DEF FileType
      <4> HIDE DEF p
      <4>4. (blob[blobDay] \o blobBuf) \o p = blob[blobDay] \o (blobBuf \o p)
        <5>1. ASSUME NEW a \in Seq(Nat) PROVE (a \o blobBuf) \o p = a \o (blobBuf \o p)
          BY <4>2, <4>3, ConcatAssociates, SMTT(30)
        <5> QED BY <4>3, <5>1, Zenon
      <4>5. blobBuf \o p \in Seq(Nat)
        BY <4>2, <4>3
      <4>6. blob' = [blob EXCEPT ![blobDay] = @ \o (blobBuf \o p)]
        BY <3>2, <4>4, Zenon DEF p
      <4> QED BY <1>0, <3>2, <4>5, <4>6
    <3> QED BY <1>3, <3>1, <3>2 DEF WriteBlobFails
  <2>2. Grows /\ dat' \in [Days -> Seq(Cell)] /\ blob' \in [Days -> Seq(Nat)]
    BY <1>3, <2>1, BlobStep DEF WriteBlobFails
  <2> QED BY <1>0, <1>3, <2>1, <2>2 DEF WriteBlobFails, Return, FileType, Kept
<1>4. CASE WriteDatFails
  <2>1. PICK k \in 0 .. Len(datBuf) - 1 :
          /\ dat' = [dat EXCEPT ![datDay] = @ \o SubSeq(datBuf, 1, k)]
          /\ datBuf' = Drop(datBuf, k)
    BY <1>4 DEF WriteDatFails
  <2>2. SubSeq(datBuf, 1, k) \in Seq(Cell) /\ Drop(datBuf, k) \in Seq(Cell)
    <3>1. k \in 0 .. Len(datBuf) /\ datBuf \in Seq(Cell)
      BY DEF FileType
    <3> QED BY <3>1, PartOf
  <2>3. Grows /\ dat' \in [Days -> Seq(Cell)] /\ blob' \in [Days -> Seq(Nat)]
    BY <1>4, <2>1, <2>2, DatStep DEF WriteDatFails
  <2> QED BY <1>0, <1>4, <2>1, <2>2, <2>3 DEF WriteDatFails, Return, FileType, Kept, history
<1>5. CASE FlushDatFails
  <2>1. PICK k \in 0 .. Len(datBuf) - 1 :
          /\ dat' = [dat EXCEPT ![datDay] = @ \o SubSeq(datBuf, 1, k)]
          /\ datBuf' = <<>> \/ datBuf' = Drop(datBuf, k)
          /\ UNCHANGED <<point, off>> \/ Return
    BY <1>5 DEF FlushDatFails
  <2>2. SubSeq(datBuf, 1, k) \in Seq(Cell) /\ Drop(datBuf, k) \in Seq(Cell)
    <3>1. k \in 0 .. Len(datBuf) /\ datBuf \in Seq(Cell)
      BY DEF FileType
    <3> QED BY <3>1, PartOf
  <2>3. Grows /\ dat' \in [Days -> Seq(Cell)] /\ blob' \in [Days -> Seq(Nat)]
    BY <1>5, <2>1, <2>2, DatStep DEF FlushDatFails
  <2>4. UNCHANGED <<today, day, datDay, blobDay, blobBuf, blobPos, issued>>
    BY <1>5 DEF FlushDatFails
  <2>5. point' \in [id : Nat, len : Nat, day : Days] /\ off' \in Nat
    <3>1. CASE UNCHANGED <<point, off>>
      BY <3>1 DEF FileType
    <3>2. CASE Return
      BY <1>0, <3>2 DEF Return
    <3> QED BY <2>1, <3>1, <3>2
  <2>6. datBuf' \in Seq(Cell)
    BY <1>0, <2>1, <2>2
  <2> QED BY <2>3, <2>4, <2>5, <2>6 DEF FileType, Kept
<1>6. CASE FlushBlobFails
  <2>1. PICK k \in 0 .. Len(blobBuf) - 1 :
          /\ blob' = [blob EXCEPT ![blobDay] = @ \o SubSeq(blobBuf, 1, k)]
          /\ blobBuf' = <<>> \/ blobBuf' = Drop(blobBuf, k)
          /\ UNCHANGED <<point, off>> \/ Return
    BY <1>6 DEF FlushBlobFails
  <2>2. SubSeq(blobBuf, 1, k) \in Seq(Nat) /\ Drop(blobBuf, k) \in Seq(Nat)
    <3>1. k \in 0 .. Len(blobBuf) /\ blobBuf \in Seq(Nat)
      BY DEF FileType
    <3> QED BY <3>1, PartOf
  <2>3. UNCHANGED <<today, day, datDay, blobDay, datBuf, blobPos, issued, dat>>
    BY <1>6 DEF FlushBlobFails
  <2>4. Grows /\ dat' \in [Days -> Seq(Cell)] /\ blob' \in [Days -> Seq(Nat)]
    BY <2>1, <2>2, <2>3, BlobStep
  <2>5. point' \in [id : Nat, len : Nat, day : Days] /\ off' \in Nat
    <3>1. CASE UNCHANGED <<point, off>>
      BY <3>1 DEF FileType
    <3>2. CASE Return
      BY <1>0, <3>2 DEF Return
    <3> QED BY <2>1, <3>1, <3>2
  <2>6. blobBuf' \in Seq(Nat)
    BY <1>0, <2>1, <2>2
  <2> QED BY <2>3, <2>4, <2>5, <2>6 DEF FileType, Kept
<1> QED BY <1>1, <1>2, <1>3, <1>4, <1>5, <1>6 DEF Failing

\* Nothing that happens to the store, errors and crashes included, takes away
\* from a day inside the retention window or overwrites a cell of it.
THEOREM WindowOnlyGrowsHolds == Spec => WindowOnlyGrows
<1>1. FileType /\ [Next]_vars => Kept
  BY GrowsOpening, GrowsWriting, GrowsFlushing, GrowsFailing DEF Next
<1>2. FileType /\ [Next]_vars => FileType' /\ [\A d \in Days : d >= day' - Retention =>
        IsPrefix(dat[d], dat'[d]) /\ IsPrefix(blob[d], blob'[d])]_vars
  BY <1>1 DEF Kept, Grows
<1> QED BY <1>2, FileTypeInit, PTL DEF Spec, WindowOnlyGrows

-----------------------------------------------------------------------------
(* What a flush leaves on disk.                                              *)

\* The last cell of the record of point id is in s.
HasLast(s, id) == \E i \in DOMAIN s : s[i].rec.id = id /\ s[i].part = Parts

\* A cell found in a sequence is found in a longer one.
LEMMA LastGrows ==
  ASSUME NEW s \in Seq(Cell), NEW t \in Seq(Cell), IsPrefix(s, t), NEW id, HasLast(s, id)
  PROVE  HasLast(t, id)
<1>1. PICK i \in 1 .. Len(s) : s[i].rec.id = id /\ s[i].part = Parts
  BY DEF HasLast
<1>2. Len(s) <= Len(t) /\ SubSeq(s, 1, Len(s)) = SubSeq(t, 1, Len(s))
  BY DEF IsPrefix
<1>3. SubSeq(s, 1, Len(s))[i] = s[i] /\ SubSeq(t, 1, Len(s))[i] = t[i]
  BY <1>1, <1>2
<1>4. t[i] = s[i] /\ i \in DOMAIN t
  BY <1>1, <1>2, <1>3
<1> QED BY <1>1, <1>4 DEF HasLast

\* A cell of either part is in the whole.
LEMMA LastConcat ==
  ASSUME NEW s \in Seq(Cell), NEW t \in Seq(Cell), NEW id, HasLast(s, id) \/ HasLast(t, id)
  PROVE  HasLast(s \o t, id)
<1>1. s \o t \in Seq(Cell) /\ Len(s \o t) = Len(s) + Len(t)
  OBVIOUS
<1>2. CASE HasLast(s, id)
  <2>1. PICK i \in 1 .. Len(s) : s[i].rec.id = id /\ s[i].part = Parts
    BY <1>2 DEF HasLast
  <2>2. (s \o t)[i] = s[i] /\ i \in 1 .. Len(s \o t)
    BY <1>1, <2>1
  <2>3. i \in DOMAIN (s \o t)
    BY <1>1, <2>2
  <2> QED BY <2>1, <2>2, <2>3 DEF HasLast
<1>3. CASE HasLast(t, id)
  <2>1. PICK i \in 1 .. Len(t) : t[i].rec.id = id /\ t[i].part = Parts
    BY <1>3 DEF HasLast
  <2>2. (s \o t)[Len(s) + i] = t[i] /\ Len(s) + i \in 1 .. Len(s \o t)
    BY <1>1, <2>1
  <2>3. Len(s) + i \in DOMAIN (s \o t)
    BY <1>1, <2>2
  <2> QED BY <2>1, <2>2, <2>3 DEF HasLast
<1> QED BY <1>2, <1>3

\* Writing part of a buffer leaves each cell in the part written or in the rest.
LEMMA LastSplits ==
  ASSUME NEW s \in Seq(Cell), NEW k \in 0 .. Len(s), NEW id, HasLast(s, id)
  PROVE  /\ HasLast(SubSeq(s, 1, k), id) \/ HasLast(Drop(s, k), id)
         /\ HasLast(SubSeq(s, 1, k), id) \/ id \in {s[i].rec.id : i \in k + 1 .. Len(s)}
<1>1. PICK i \in 1 .. Len(s) : s[i].rec.id = id /\ s[i].part = Parts
  BY DEF HasLast
<1>2. CASE i <= k
  <2>1. SubSeq(s, 1, k)[i] = s[i] /\ i \in DOMAIN SubSeq(s, 1, k)
    BY <1>1, <1>2
  <2> QED BY <1>1, <2>1 DEF HasLast
<1>3. CASE i > k
  <2>1. i \in k + 1 .. Len(s)
    BY <1>1, <1>3
  <2>2. Drop(s, k) \in Seq(Cell) /\ Len(Drop(s, k)) = Len(s) - k
    BY DEF Drop
  <2>3. Drop(s, k)[i - k] = s[i] /\ i - k \in 1 .. Len(s) - k
    BY <2>1 DEF Drop
  <2>4. i - k \in DOMAIN Drop(s, k)
    BY <2>2, <2>3
  <2> QED BY <1>1, <2>1, <2>3, <2>4 DEF HasLast
<1> QED BY <1>2, <1>3

\* A BufWriter loses nothing: what it held and what is written are in the file's
\* part or in the buffer afterwards, and the buffer stays within its capacity.
LEMMA WriterKeeps ==
  ASSUME NEW buf \in Seq(Cell), NEW new \in Seq(Cell), NEW cap, NEW id,
         HasLast(buf, id) \/ HasLast(new, id)
  PROVE  HasLast(ToFile(buf, new, cap), id) \/ HasLast(ToBuffer(buf, new, cap), id)
  BY LastConcat, Zenon DEF ToFile, ToBuffer

\* A BufWriter keeps to its capacity.
LEMMA WriterFits ==
  ASSUME NEW T, NEW buf \in Seq(T), NEW new \in Seq(T), NEW cap \in Nat, Len(buf) <= cap
  PROVE  Len(ToBuffer(buf, new, cap)) <= cap
<1>1. Len(buf \o new) = Len(buf) + Len(new) /\ Len(<<>>) = 0 /\ Len(new) \in Nat
  OBVIOUS
<1>2. CASE ~Spills(buf, new, cap)
  BY <1>1, <1>2 DEF ToBuffer, Spills
<1>3. CASE Spills(buf, new, cap) /\ Direct(new, cap)
  BY <1>1, <1>3 DEF ToBuffer
<1>4. CASE Spills(buf, new, cap) /\ ~Direct(new, cap)
  BY <1>1, <1>4 DEF ToBuffer, Direct
<1> QED BY <1>2, <1>3, <1>4

\* What a writer holds afterwards was in it or is new.
LEMMA WriterHolds ==
  ASSUME NEW buf \in Seq(Cell), NEW new \in Seq(Cell), NEW cap, NEW S,
         \A i \in DOMAIN buf : buf[i].rec.id \in S, \A i \in DOMAIN new : new[i].rec.id \in S
  PROVE  \A i \in DOMAIN ToBuffer(buf, new, cap) : ToBuffer(buf, new, cap)[i].rec.id \in S
<1>1. \A i \in DOMAIN (buf \o new) : (buf \o new)[i].rec.id \in S
  <2> SUFFICES ASSUME NEW i \in 1 .. Len(buf) + Len(new) PROVE (buf \o new)[i].rec.id \in S
    OBVIOUS
  <2>1. CASE i <= Len(buf)
    BY <2>1
  <2>2. CASE i > Len(buf)
    <3>1. (buf \o new)[i] = new[i - Len(buf)] /\ i - Len(buf) \in DOMAIN new
      BY <2>2
    <3> QED BY <3>1
  <2> QED BY <2>1, <2>2
<1>2. CASE ~Spills(buf, new, cap)
  BY <1>1, <1>2, Zenon DEF ToBuffer
<1>3. CASE Spills(buf, new, cap)
  BY <1>3 DEF ToBuffer
<1> QED BY <1>2, <1>3
-----------------------------------------------------------------------------
(* The strengthening, in parts    .                                         *)

Calendar ==
  /\ hasBlob \in BlobKinds /\ faults \in 0 .. MaxFaults
  /\ datDay <= today /\ blobDay <= today
  /\ days \subseteq Days /\ torn \subseteq Days /\ astray \subseteq Days

\* The point append works on has its number; the offset is set for its header only.
Places == {"closed", "idle", "openDat", "openBlob", "blob", "dat", "flushDat", "flushBlob"}
Control ==
  /\ pc \in Places /\ next \in {"idle", "closed", "openDat"}
  /\ issued \in 0 .. MaxRecs /\ point.id \in 0 .. issued /\ point.day \in Days
  /\ pc \in {"openDat", "openBlob", "blob", "dat"}
       \/ (pc \in {"flushDat", "flushBlob"} /\ next = "openDat") => point.id # 0
  /\ off \in 0 .. blobPos /\ (pc # "dat" => off = 0)

\* The writers stay within their capacity; what the one of .dat holds was accepted,
\* and it is empty whenever its file is about to change.
Buffers ==
  /\ Len(datBuf) <= DatCap /\ Len(blobBuf) <= BlobCap
  /\ \A i \in DOMAIN datBuf : datBuf[i].rec.id \in Ids(accepted)
  /\ pc \in {"closed", "flushBlob", "openDat", "openBlob"} => datBuf = <<>>

Ledger ==
  /\ accepted \in Seq([id : Nat, day : Days]) /\ Ids(accepted) \subseteq 1 .. issued
  /\ lost \subseteq 1 .. issued /\ synced \subseteq Ids(accepted)

\* A point is accepted once.
Fresh == point.id \notin Ids(accepted)

StoreInv == DayInv /\ FileType /\ Calendar /\ Control /\ Buffers /\ Ledger /\ Fresh

USE DEF writers, files, history

\* The days: a rotation goes to a day that has begun.
LEMMA CalendarStep == ASSUME StoreInv, [Next]_vars PROVE Calendar'
<1> USE DEF StoreInv, Calendar
<1>1. hasBlob' \in BlobKinds /\ faults' \in 0 .. MaxFaults
  <2>1. hasBlob' = hasBlob /\ (faults' = faults \/ MayFail)
    BY DEF Next, Writing, Flushing, Failing, Open, Midnight, AppendPoint, OpenDat, OpenBlob,
       WriteBlob, WriteDat, Flush, FlushDat, FlushBlob, Kill, OpenFails, WriteBlobFails,
       WriteDatFails, FlushDatFails, FlushBlobFails, vars
  <2> QED BY <2>1 DEF MayFail
<1>2. datDay' <= today' /\ blobDay' <= today'
  <2>1. today \in Days /\ point.day \in Days /\ datDay \in Days
    BY DEF FileType
  <2>2. CASE Open \/ Midnight
    <3>1. CASE Open
      BY <2>1, <3>1 DEF Open
    <3>2. CASE Midnight
      <4>1. today' = today + 1 /\ datDay' = datDay /\ blobDay' = blobDay
        BY <3>2 DEF Midnight
      <4>2. blobDay \in Days
        BY DEF FileType
      <4> QED BY <2>1, <4>1, <4>2
    <3> QED BY <2>2, <3>1, <3>2
  <2>3. CASE OpenDat
    <3>1. point.day <= today
      BY <2>3 DEF OpenDat, DayInv, Forward, Rotating
    <3> QED BY <2>3, <3>1 DEF OpenDat
  <2>4. CASE OpenBlob
    BY <2>4 DEF OpenBlob
  <2>5. CASE UNCHANGED <<today, datDay, blobDay>>
    BY <2>5
  <2> QED
    BY <2>2, <2>3, <2>4, <2>5 DEF Next, Writing, Flushing, Failing, AppendPoint, WriteBlob,
       WriteDat, Flush, FlushDat, FlushBlob, Kill, OpenFails, WriteBlobFails, WriteDatFails,
       FlushDatFails, FlushBlobFails, vars
<1>3. days' \subseteq Days
  <2>1. today \in Days /\ point.day \in Days /\ datDay \in Days
    BY DEF FileType
  <2>2. CASE Open
    BY <2>1, <2>2 DEF Open, SweepAt
  <2>3. CASE OpenDat
    BY <2>1, <2>3 DEF OpenDat
  <2>4. CASE OpenBlob
    BY <2>1, <2>4 DEF OpenBlob, SweepAt
  <2>5. CASE UNCHANGED days
    BY <2>5
  <2> QED
    BY <2>2, <2>3, <2>4, <2>5 DEF Next, Writing, Flushing, Failing, Midnight, AppendPoint,
       WriteBlob, WriteDat, Flush, FlushDat, FlushBlob, Kill, OpenFails, WriteBlobFails,
       WriteDatFails, FlushDatFails, FlushBlobFails, vars
<1>4. torn' \subseteq Days /\ astray' \subseteq Days
  <2>1. datDay \in Days /\ blobDay \in Days
    BY DEF FileType
  <2>2. CASE Kill
    <3>1. torn' = torn \cup {d \in Days : Len(dat'[d]) % Parts # 0}
      BY <2>2 DEF Kill
    <3>2. astray' = astray \cup {d \in Days : Dangling(d, dat', blob')}
      BY <2>2 DEF Kill
    <3> QED BY <3>1, <3>2
  <2>3. CASE WriteBlobFails
    <3>1. torn' = torn /\ (astray' = astray \/ astray' = astray \cup {blobDay})
      BY <2>3 DEF WriteBlobFails
    <3> QED BY <2>1, <3>1
  <2>4. CASE FlushDatFails
    <3>1. astray' = astray /\ (torn' = torn \/ torn' = torn \cup {datDay})
      BY <2>4 DEF FlushDatFails
    <3> QED BY <2>1, <3>1
  <2>5. CASE FlushBlobFails
    <3>1. torn' = torn /\ \/ astray' = astray
                          \/ astray' = astray \cup {d \in Days : Dangling(d, dat, blob')}
      BY <2>5 DEF FlushBlobFails
    <3> QED BY <3>1
  <2>6. CASE UNCHANGED <<torn, astray>>
    BY <2>6
  <2> QED
    BY <2>2, <2>3, <2>4, <2>5, <2>6 DEF Next, Writing, Flushing, Failing, Open, Midnight,
       AppendPoint, OpenDat, OpenBlob, WriteBlob, WriteDat, Flush, FlushDat, FlushBlob,
       OpenFails, WriteDatFails, vars
<1> QED BY <1>1, <1>2, <1>3, <1>4

\* Where the store is, and the point it works on.
LEMMA ControlStep == ASSUME StoreInv, [Next]_vars PROVE Control'
<1> USE DEF StoreInv, Control, Places
<1>0. /\ \A d \in Days : Len(blob[d]) \in Nat
      /\ blobPos \in Nat /\ point.len \in Nat
      /\ today \in Days /\ day \in Days /\ datDay \in Days
  BY DEF FileType
<1>1. CASE Open
  BY <1>0, <1>1 DEF Open
<1>2. CASE Midnight
  BY <1>2 DEF Midnight
<1>3. ASSUME NEW len \in BlobLens, AppendPoint(len) PROVE Control'
  <2>1. CASE today = day
    BY <1>0, <1>3, <2>1 DEF AppendPoint
  <2>2. CASE today # day
    BY <1>0, <1>3, <2>2 DEF AppendPoint
  <2> QED BY <2>1, <2>2
<1>4. CASE OpenDat
  BY <1>4 DEF OpenDat
<1>5. CASE OpenBlob
  BY <1>0, <1>5 DEF OpenBlob
<1>6. CASE WriteBlob
  <2>1. CASE point.len = 0
    BY <1>6, <2>1 DEF WriteBlob
  <2>2. CASE point.len # 0
    <3>1. /\ off' = blobPos /\ blobPos' = blobPos + point.len /\ pc' = "dat" /\ pc = "blob"
          /\ UNCHANGED <<next, point, issued>>
      BY <1>6, <2>2 DEF WriteBlob
    <3> QED BY <1>0, <3>1
  <2> QED BY <2>1, <2>2
<1>7. CASE WriteDat
  BY <1>0, <1>7 DEF WriteDat, Return, NoPoint
<1>8. CASE Flush \/ FlushDat \/ FlushBlob
  BY <1>8 DEF Flush, FlushDat, FlushBlob
<1>9. CASE Kill
  <2>1. /\ pc' = "closed" /\ next' = "idle" /\ point' = NoPoint /\ off' = 0
        /\ UNCHANGED <<issued, blobPos>>
    BY <1>9 DEF Kill
  <2> QED BY <1>0, <2>1 DEF NoPoint
<1>10. CASE OpenFails \/ WriteBlobFails \/ WriteDatFails
  <2>1. /\ pc' = "idle" /\ next' \in {next, "idle"} /\ point' = NoPoint /\ off' = 0
        /\ UNCHANGED <<issued, blobPos>>
    BY <1>10 DEF OpenFails, WriteBlobFails, WriteDatFails, Return
  <2> QED BY <1>0, <2>1 DEF NoPoint
<1>11. CASE FlushDatFails
  <2>1. CASE next = "closed"
    BY <1>11, <2>1 DEF FlushDatFails
  <2>2. CASE next # "closed"
    BY <1>0, <1>11, <2>2 DEF FlushDatFails, Return, NoPoint
  <2> QED BY <2>1, <2>2
<1>12. CASE FlushBlobFails
  <2>1. CASE next = "closed"
    BY <1>12, <2>1 DEF FlushBlobFails
  <2>2. CASE next # "closed"
    BY <1>0, <1>12, <2>2 DEF FlushBlobFails, Return, NoPoint
  <2> QED BY <2>1, <2>2
<1>13. CASE UNCHANGED vars
  BY <1>13 DEF vars
<1> QED
  BY <1>1, <1>2, <1>3, <1>4, <1>5, <1>6, <1>7, <1>8, <1>9, <1>10, <1>11, <1>12, <1>13
  DEF Next, Writing, Flushing, Failing

\* One more point accepted.
LEMMA AcceptedGrows ==
  ASSUME NEW T, NEW s \in Seq(T), NEW e \in T
  PROVE  Append(s, e) \in Seq(T) /\ Ids(Append(s, e)) = Ids(s) \cup {e.id}
<1>1. /\ Append(s, e) \in Seq(T) /\ Len(Append(s, e)) = Len(s) + 1
      /\ Append(s, e)[Len(s) + 1] = e
      /\ \A i \in 1 .. Len(s) : Append(s, e)[i] = s[i]
  OBVIOUS
<1>2. DOMAIN Append(s, e) = DOMAIN s \cup {Len(s) + 1}
  BY <1>1
<1> QED BY <1>1, <1>2 DEF Ids

\* A header holds the record of the point append works on, its last cell included.
LEMMA HeaderCells ==
  /\ \A i \in DOMAIN Header : Header[i].rec.id = point.id
  /\ HasLast(Header, point.id)
<1>1. DOMAIN Header = 1 .. Parts /\ \A i \in 1 .. Parts :
        Header[i].rec.id = point.id /\ Header[i].part = i
  BY DEF Header, Cells
<1> QED BY <1>1 DEF HasLast

\* Parts of a buffer hold what it held.
LEMMA PartHolds ==
  ASSUME NEW T, NEW s \in Seq(T), NEW k \in 0 .. Len(s)
  PROVE  /\ Len(Drop(s, k)) <= Len(s)
         /\ \A i \in DOMAIN Drop(s, k) : \E j \in DOMAIN s : Drop(s, k)[i] = s[j]
<1>1. Len(Drop(s, k)) = Len(s) - k /\ DOMAIN Drop(s, k) = 1 .. Len(s) - k
  BY DEF Drop
<1>2. \A i \in 1 .. Len(s) - k : Drop(s, k)[i] = s[i + k] /\ i + k \in DOMAIN s
  BY DEF Drop
<1> QED BY <1>1, <1>2

\* What was accepted, lost and synced.
LEMMA LedgerStep == ASSUME StoreInv, [Next]_vars PROVE Ledger'
<1> USE DEF StoreInv, Ledger
<1>0. issued \in Nat
  BY DEF FileType
<1>1. CASE Open \/ Midnight \/ UNCHANGED vars
  BY <1>1 DEF Open, Midnight, vars
<1>2. ASSUME NEW len \in BlobLens, AppendPoint(len) PROVE Ledger'
  <2>1. issued' = issued + 1 /\ UNCHANGED <<accepted, lost, synced>>
    BY <1>2 DEF AppendPoint
  <2> QED BY <1>0, <2>1
<1>3. CASE OpenDat \/ OpenBlob \/ WriteBlob \/ Flush \/ FlushDat
  BY <1>3 DEF OpenDat, OpenBlob, WriteBlob, Flush, FlushDat
<1>4. CASE WriteDat
  <2> DEFINE e == [id |-> point.id, day |-> day]
  <2>1. e \in [id : Nat, day : Days] /\ point.id \in 1 .. issued
    <3>1. pc = "dat" /\ day \in Days
      BY <1>4 DEF WriteDat, FileType
    <3>2. point.id \in 0 .. issued /\ point.id # 0 /\ issued \in Nat
      BY <3>1 DEF Control
    <3>3. point.id \in 1 .. issued /\ point.id \in Nat
      BY <3>2
    <3> QED BY <3>1, <3>3
  <2>2. accepted' = Append(accepted, e) /\ UNCHANGED <<issued, lost, synced>>
    BY <1>4 DEF WriteDat
  <2>3. e.id = point.id
    OBVIOUS
  <2> HIDE DEF e
  <2>4. accepted' \in Seq([id : Nat, day : Days]) /\ Ids(accepted') = Ids(accepted) \cup {e.id}
    <3> DEFINE T == [id : Nat, day : Days]
    <3>1. accepted \in Seq(T) /\ e \in T
      BY <2>1
    <3> HIDE DEF T
    <3>2. Append(accepted, e) \in Seq(T) /\ Ids(Append(accepted, e)) = Ids(accepted) \cup {e.id}
      BY <3>1, AcceptedGrows, ZenonT(40)
    <3> QED BY <2>2, <3>2 DEF T
  <2> QED BY <2>1, <2>2, <2>3, <2>4
<1>5. CASE FlushBlob
  <2>1. synced' \subseteq Ids(accepted)
    BY <1>5 DEF FlushBlob, Ids
  <2>2. UNCHANGED <<accepted, issued, lost>>
    BY <1>5 DEF FlushBlob
  <2>3. accepted \in Seq([id : Nat, day : Days]) /\ Ids(accepted) \subseteq 1 .. issued
        /\ lost \subseteq 1 .. issued
    OBVIOUS
  <2> HIDE DEF Ids
  <2> QED BY <2>1, <2>2, <2>3
<1>6. ASSUME UNCHANGED <<issued, accepted, synced>>,
             lost' \subseteq lost \cup {datBuf[i].rec.id : i \in DOMAIN datBuf}
      PROVE  Ledger'
  <2>1. {datBuf[i].rec.id : i \in DOMAIN datBuf} \subseteq 1 .. issued
    BY DEF Buffers
  <2> QED BY <1>6, <2>1
<1>7. CASE Kill
  <2>1. PICK k \in Torn(pc = "flushDat" \/ (pc = "dat" /\ Len(datBuf) + Parts > DatCap), datBuf) :
          lost' = lost \cup {datBuf[i].rec.id : i \in k + 1 .. Len(datBuf)}
    BY <1>7 DEF Kill
  <2>2. Len(datBuf) \in Nat /\ DOMAIN datBuf = 1 .. Len(datBuf)
    BY DEF FileType
  <2>3. k \in 0 .. Len(datBuf)
    BY <2>1, <2>2 DEF Torn
  <2>4. \A i \in k + 1 .. Len(datBuf) : i \in DOMAIN datBuf
    BY <2>2, <2>3
  <2> QED BY <1>6, <1>7, <2>1, <2>4 DEF Kill
<1>8. CASE OpenFails \/ WriteBlobFails \/ WriteDatFails \/ FlushBlobFails
  BY <1>8 DEF OpenFails, WriteBlobFails, WriteDatFails, FlushBlobFails
<1>9. CASE FlushDatFails
  <2>1. PICK k \in 0 .. Len(datBuf) - 1 :
          lost' = lost \/ lost' = lost \cup {datBuf[i].rec.id : i \in k + 1 .. Len(datBuf)}
    BY <1>9 DEF FlushDatFails
  <2>2. Len(datBuf) \in Nat /\ DOMAIN datBuf = 1 .. Len(datBuf)
    BY DEF FileType
  <2>3. \A i \in k + 1 .. Len(datBuf) : i \in DOMAIN datBuf
    BY <2>2
  <2>4. lost' \subseteq lost \cup {datBuf[i].rec.id : i \in DOMAIN datBuf}
    BY <2>1, <2>3
  <2>5. UNCHANGED <<issued, accepted, synced>>
    BY <1>9 DEF FlushDatFails
  <2> QED BY <1>6, <2>4, <2>5
<1> QED
  BY <1>1, <1>2, <1>3, <1>4, <1>5, <1>7, <1>8, <1>9 DEF Next, Writing, Flushing, Failing

\* No point is accepted twice.
LEMMA FreshStep == ASSUME StoreInv, [Next]_vars PROVE Fresh'
<1> USE DEF StoreInv, Fresh
<1>0. issued \in Nat /\ 0 \notin Ids(accepted) /\ issued + 1 \notin Ids(accepted)
  BY DEF FileType, Ledger
<1>1. ASSUME NEW len \in BlobLens, AppendPoint(len) PROVE Fresh'
  BY <1>0, <1>1 DEF AppendPoint
<1>2. CASE WriteDat
  <2> DEFINE e == [id |-> point.id, day |-> day]
  <2>1. accepted' = Append(accepted, e) /\ point'.id = 0
    BY <1>2 DEF WriteDat, Return, NoPoint
  <2>2. e.id = point.id /\ point.id # 0 /\ e \in [id : Nat, day : Days]
    <3>1. pc = "dat" /\ day \in Days
      BY <1>2 DEF WriteDat, FileType
    <3>2. point.id \in 0 .. issued /\ point.id # 0 /\ issued \in Nat
      BY <3>1 DEF Control
    <3>3. point.id \in Nat
      BY <3>2
    <3> QED BY <3>1, <3>2, <3>3
  <2> HIDE DEF e
  <2>3. Ids(accepted') = Ids(accepted) \cup {e.id}
    <3> DEFINE T == [id : Nat, day : Days]
    <3>1. accepted \in Seq(T) /\ e \in T
      BY <2>2 DEF Ledger
    <3> HIDE DEF T
    <3> QED BY <2>1, <3>1, AcceptedGrows, Zenon
  <2> QED BY <1>0, <2>1, <2>2, <2>3
<1>3. CASE UNCHANGED accepted /\ (point' = point \/ point' = NoPoint)
  BY <1>0, <1>3 DEF NoPoint
<1>4. \/ UNCHANGED accepted /\ (point' = point \/ point' = NoPoint)
      \/ WriteDat
      \/ \E len \in BlobLens : AppendPoint(len)
  BY DEF Next, Writing, Flushing, Failing, Open, Midnight, OpenDat, OpenBlob, WriteBlob,
     Flush, FlushDat, FlushBlob, Kill, OpenFails, WriteBlobFails, WriteDatFails,
     FlushDatFails, FlushBlobFails, vars, Return
<1> QED BY <1>1, <1>2, <1>3, <1>4

\* The writers stay within their capacity, and empty when their file changes.
LEMMA BuffersStep == ASSUME StoreInv, [Next]_vars PROVE Buffers'
<1> USE DEF StoreInv, Buffers
<1>0. /\ datBuf \in Seq(Cell) /\ blobBuf \in Seq(Nat)
      /\ Header \in Seq(Cell) /\ Payload \in Seq(Nat)
      /\ Len(datBuf) \in Nat /\ Len(blobBuf) \in Nat
  BY WrittenType DEF FileType
<1>1. Len(datBuf') <= DatCap
  <2>1. CASE WriteDat
    BY <1>0, <2>1, WriterFits DEF WriteDat
  <2>2. ASSUME NEW k \in 0 .. Len(datBuf) - 1, datBuf' = Drop(datBuf, k)
        PROVE  Len(datBuf') <= DatCap
    BY <1>0, <2>2, PartHolds
  <2>3. CASE datBuf' = datBuf \/ datBuf' = <<>>
    BY <2>3
  <2> QED
    BY <2>1, <2>2, <2>3 DEF Next, Writing, Flushing, Failing, Open, Midnight, AppendPoint,
       OpenDat, OpenBlob, WriteBlob, Flush, FlushDat, FlushBlob, Kill, OpenFails,
       WriteBlobFails, WriteDatFails, FlushDatFails, FlushBlobFails, vars
<1>2. Len(blobBuf') <= BlobCap
  <2>1. CASE WriteBlob
    BY <1>0, <2>1, WriterFits DEF WriteBlob
  <2>2. ASSUME NEW k \in 0 .. Len(blobBuf) - 1, blobBuf' = Drop(blobBuf, k)
        PROVE  Len(blobBuf') <= BlobCap
    <3>1. k \in 0 .. Len(blobBuf)
      BY <1>0
    <3>2. Len(Drop(blobBuf, k)) <= Len(blobBuf) /\ Len(Drop(blobBuf, k)) \in Nat
      BY <1>0, <3>1 DEF Drop
    <3> QED BY <1>0, <2>2, <3>2
  <2>3. CASE blobBuf' = blobBuf \/ blobBuf' = <<>>
    BY <2>3
  <2> QED
    BY <2>1, <2>2, <2>3 DEF Next, Writing, Flushing, Failing, Open, Midnight, AppendPoint,
       OpenDat, OpenBlob, WriteDat, Flush, FlushDat, FlushBlob, Kill, OpenFails,
       WriteBlobFails, WriteDatFails, FlushDatFails, FlushBlobFails, vars
<1>3. \A i \in DOMAIN datBuf' : datBuf'[i].rec.id \in Ids(accepted')
  <2>1. CASE WriteDat
    <3> DEFINE e == [id |-> point.id, day |-> day]
    <3>1. accepted' = Append(accepted, e) /\ datBuf' = ToBuffer(datBuf, Header, DatCap)
      BY <2>1 DEF WriteDat
    <3>2. e.id = point.id /\ e \in [id : Nat, day : Days]
      BY DEF FileType
    <3> HIDE DEF e
    <3>3. Ids(accepted') = Ids(accepted) \cup {e.id}
      <4> DEFINE T == [id : Nat, day : Days]
      <4>1. accepted \in Seq(T) /\ e \in T
        BY <3>2 DEF Ledger
      <4> HIDE DEF T
      <4> QED BY <3>1, <4>1, AcceptedGrows, Zenon
    <3>4. /\ \A i \in DOMAIN datBuf : datBuf[i].rec.id \in Ids(accepted')
          /\ \A i \in DOMAIN Header : Header[i].rec.id \in Ids(accepted')
      BY <3>2, <3>3, HeaderCells
    <3> QED BY <1>0, <3>1, <3>4, WriterHolds, Zenon
  <2>2. ASSUME NEW k \in 0 .. Len(datBuf) - 1, datBuf' = Drop(datBuf, k), accepted' = accepted
        PROVE  \A i \in DOMAIN datBuf' : datBuf'[i].rec.id \in Ids(accepted')
    <3>1. \A i \in DOMAIN Drop(datBuf, k) : \E j \in DOMAIN datBuf : Drop(datBuf, k)[i] = datBuf[j]
      BY <1>0, PartHolds
    <3> QED BY <2>2, <3>1
  <2>3. CASE accepted' = accepted /\ (datBuf' = datBuf \/ datBuf' = <<>>)
    BY <2>3
  <2> QED
    BY <2>1, <2>2, <2>3 DEF Next, Writing, Flushing, Failing, Open, Midnight, AppendPoint,
       OpenDat, OpenBlob, WriteBlob, Flush, FlushDat, FlushBlob, Kill, OpenFails,
       WriteBlobFails, WriteDatFails, FlushDatFails, FlushBlobFails, vars
<1>4. pc' \in {"closed", "flushBlob", "openDat", "openBlob"} => datBuf' = <<>>
  BY DEF Next, Writing, Flushing, Failing, Open, Midnight, AppendPoint, OpenDat, OpenBlob,
     WriteBlob, WriteDat, Flush, FlushDat, FlushBlob, Kill, OpenFails, WriteBlobFails,
     WriteDatFails, FlushDatFails, FlushBlobFails, vars, Return
<1> QED BY <1>1, <1>2, <1>3, <1>4

-----------------------------------------------------------------------------
\* The parts of the strengthening hold at the start ...
LEMMA StoreInvInit == Init => StoreInv
<1> SUFFICES ASSUME Init PROVE StoreInv
  OBVIOUS
<1>1. DayInv /\ FileType
  BY DayInvInit, FileTypeInit
<1>2. Calendar /\ Control
  BY DEF Init, Calendar, Control, Places, NoPoint
<1>3. Ids(<<>>) = {}
  BY DEF Ids
<1>4. <<>> \in Seq([id : Nat, day : Days])
  OBVIOUS
<1>5. Ledger /\ Fresh
  BY <1>3, <1>4 DEF Init, Ledger, Fresh, NoPoint
<1>6. Buffers
  BY DEF Init, Buffers
<1> QED BY <1>1, <1>2, <1>5, <1>6 DEF StoreInv

\* ... and every step keeps them and takes nothing from the window.
LEMMA StoreInvStep == StoreInv /\ [Next]_vars => StoreInv' /\ Grows
<1> SUFFICES ASSUME StoreInv, [Next]_vars PROVE StoreInv' /\ Grows
  OBVIOUS
<1>1. DayInv'
  BY DayInvStep DEF StoreInv
<1>2. Kept
  BY GrowsOpening, GrowsWriting, GrowsFlushing, GrowsFailing DEF StoreInv, Next
<1>3. Calendar' /\ Control' /\ Buffers' /\ Ledger' /\ Fresh'
  BY CalendarStep, ControlStep, BuffersStep, LedgerStep, FreshStep
<1> QED BY <1>1, <1>2, <1>3 DEF StoreInv, Kept

\* The strengthening is inductive.
THEOREM StoreInvHolds == Spec => []StoreInv
<1>1. StoreInv /\ [Next]_vars => StoreInv'
  BY StoreInvStep
<1> QED BY <1>1, StoreInvInit, PTL DEF Spec

\* The buffers never hold more than their capacity, a point's number and offset are
\* in range, and the days of the writers have begun.
THEOREM StoreTypeCorrect == Spec => []TypeOK
<1>1. ASSUME StoreInv PROVE TypeOK
  <2>1. hasBlob \in BlobKinds /\ today \in Days /\ faults \in 0 .. MaxFaults
    BY <1>1 DEF StoreInv, Calendar, FileType
  <2>2. {day, datDay, blobDay} \subseteq 1 .. today
    <3>1. day \in Days /\ datDay \in Days /\ blobDay \in Days /\ today \in Days
      BY <1>1 DEF StoreInv, FileType
    <3>2. day <= today /\ datDay <= today /\ blobDay <= today
      BY <1>1 DEF StoreInv, DayInv, Forward, Calendar
    <3> QED BY <3>1, <3>2
  <2>3. /\ pc \in {"closed", "idle", "openDat", "openBlob", "blob", "dat", "flushDat", "flushBlob"}
        /\ next \in {"idle", "closed", "openDat"}
        /\ point.id \in 0 .. issued /\ point.day \in Days
        /\ issued \in 0 .. MaxRecs /\ off \in 0 .. blobPos
    BY <1>1 DEF StoreInv, Control, Places
  <2>4. blobPos \in Nat
    BY <1>1 DEF StoreInv, FileType
  <2>5. days \subseteq Days /\ torn \subseteq Days /\ astray \subseteq Days
    BY <1>1 DEF StoreInv, Calendar
  <2>6. /\ Len(datBuf) <= DatCap /\ Len(blobBuf) <= BlobCap
        /\ Ids(accepted) \subseteq 1 .. issued
        /\ lost \subseteq 1 .. issued /\ synced \subseteq Ids(accepted)
    BY <1>1 DEF StoreInv, Buffers, Ledger
  <2> QED BY <2>1, <2>2, <2>3, <2>4, <2>5, <2>6 DEF TypeOK
<1> QED BY <1>1, StoreInvHolds, PTL

-----------------------------------------------------------------------------
(* Every accepted point is somewhere.                                        *)

\* An accepted point that no crash took is on disk, in the file of its day, or in
\* the writer of that file, until retention sweeps its day.
OnDisk(a) == HasLast(dat[a.day], a.id)
InBuffer(a) == a.day = datDay /\ HasLast(datBuf, a.id)
Accounted ==
  \A n \in DOMAIN accepted :
    accepted[n].id \notin lost /\ accepted[n].day >= day - Retention =>
      OnDisk(accepted[n]) \/ InBuffer(accepted[n])

\* current_day never goes back.
LEMMA DayForward == ASSUME StoreInv, [Next]_vars PROVE day' >= day
<1>1. day \in Days /\ datDay \in Days /\ today \in Days /\ point.day \in Days
  BY DEF StoreInv, FileType
<1>2. CASE Open
  BY <1>1, <1>2 DEF Open, StoreInv, DayInv, Forward
<1>3. CASE OpenBlob
  <2>1. day' = datDay /\ datDay = point.day /\ day < point.day
    BY <1>3 DEF OpenBlob, StoreInv, DayInv, Forward, HalfDone, Rotating
  <2> QED BY <1>1, <2>1
<1>4. CASE day' = day
  BY <1>1, <1>4
<1> QED
  BY <1>2, <1>3, <1>4 DEF Next, Writing, Flushing, Failing, Midnight, AppendPoint, OpenDat,
     WriteBlob, WriteDat, Flush, FlushDat, FlushBlob, Kill, OpenFails, WriteBlobFails,
     WriteDatFails, FlushDatFails, FlushBlobFails, vars

\* What is on disk stays there as long as its day is in the window.
LEMMA DiskKeeps ==
  ASSUME StoreInv, [Next]_vars, NEW d \in Days, d >= day' - Retention, NEW id,
         HasLast(dat[d], id)
  PROVE  HasLast(dat'[d], id)
<1>1. IsPrefix(dat[d], dat'[d])
  BY StoreInvStep DEF Grows
<1>2. dat[d] \in Seq(Cell) /\ dat'[d] \in Seq(Cell)
  BY StoreInvStep DEF StoreInv, FileType
<1> QED BY <1>1, <1>2, LastGrows

\* The file of the writer's day after x was written to it.
LEMMA DatAfter ==
  ASSUME StoreInv, NEW x, dat' = [dat EXCEPT ![datDay] = @ \o x]
  PROVE  dat'[datDay] = dat[datDay] \o x /\ dat[datDay] \in Seq(Cell)
BY DEF StoreInv, FileType

\* Nothing leaves the writer but for its file or, with a crash, for the lost.
LEMMA BufferMoves ==
  ASSUME StoreInv, [Next]_vars, NEW id, HasLast(datBuf, id), id \notin lost'
  PROVE  HasLast(dat'[datDay], id) \/ (datDay' = datDay /\ HasLast(datBuf', id))
<1>0. datBuf \in Seq(Cell) /\ datBuf # <<>> /\ Header \in Seq(Cell)
  <2>1. datBuf \in Seq(Cell) /\ Header \in Seq(Cell)
    BY WrittenType DEF StoreInv, FileType
  <2>2. datBuf # <<>>
    BY DEF HasLast
  <2> QED BY <2>1, <2>2
<1>1. ASSUME NEW k \in 0 .. Len(datBuf), HasLast(SubSeq(datBuf, 1, k), id),
             dat' = [dat EXCEPT ![datDay] = @ \o SubSeq(datBuf, 1, k)]
      PROVE  HasLast(dat'[datDay], id)
  <2>1. SubSeq(datBuf, 1, k) \in Seq(Cell)
    BY <1>0, PartOf
  <2>2. dat'[datDay] = dat[datDay] \o SubSeq(datBuf, 1, k) /\ dat[datDay] \in Seq(Cell)
    BY <1>1, DatAfter
  <2> QED BY <1>1, <2>1, <2>2, LastConcat
<1>2. CASE Open \/ OpenDat
  BY <1>0, <1>2 DEF Open, OpenDat, StoreInv, Buffers
<1>3. CASE WriteDat
  <2> DEFINE x == ToFile(datBuf, Header, DatCap)
  <2>1. /\ dat' = [dat EXCEPT ![datDay] = @ \o x]
        /\ datBuf' = ToBuffer(datBuf, Header, DatCap) /\ datDay' = datDay
    BY <1>3 DEF WriteDat
  <2>2. HasLast(x, id) \/ HasLast(datBuf', id)
    BY <1>0, <2>1, WriterKeeps
  <2>3. x \in Seq(Cell)
    BY <1>0, BufferType
  <2> HIDE DEF x
  <2>4. dat'[datDay] = dat[datDay] \o x /\ dat[datDay] \in Seq(Cell)
    BY <2>1, DatAfter
  <2> QED BY <2>1, <2>2, <2>3, <2>4, LastConcat
<1>4. CASE FlushDat
  <2>1. dat' = [dat EXCEPT ![datDay] = @ \o datBuf]
    BY <1>4 DEF FlushDat
  <2>2. dat'[datDay] = dat[datDay] \o datBuf /\ dat[datDay] \in Seq(Cell)
    BY <2>1, DatAfter
  <2> QED BY <1>0, <2>2, LastConcat
<1>5. CASE Kill
  <2>1. PICK k \in Torn(pc = "flushDat" \/ (pc = "dat" /\ Len(datBuf) + Parts > DatCap), datBuf) :
          /\ dat' = [dat EXCEPT ![datDay] = @ \o SubSeq(datBuf, 1, k)]
          /\ lost' = lost \cup {datBuf[i].rec.id : i \in k + 1 .. Len(datBuf)}
    BY <1>5 DEF Kill
  <2>2. k \in 0 .. Len(datBuf)
    BY <1>0, <2>1 DEF Torn
  <2>3. HasLast(SubSeq(datBuf, 1, k), id)
    BY <1>0, <2>1, <2>2, LastSplits
  <2> QED BY <1>1, <2>1, <2>2, <2>3
<1>6. CASE WriteDatFails
  <2>1. PICK k \in 0 .. Len(datBuf) - 1 :
          /\ dat' = [dat EXCEPT ![datDay] = @ \o SubSeq(datBuf, 1, k)]
          /\ datBuf' = Drop(datBuf, k)
    BY <1>6 DEF WriteDatFails
  <2>2. k \in 0 .. Len(datBuf) /\ datDay' = datDay
    BY <1>0, <1>6 DEF WriteDatFails
  <2>3. HasLast(SubSeq(datBuf, 1, k), id) \/ HasLast(Drop(datBuf, k), id)
    BY <1>0, <2>2, LastSplits
  <2> QED BY <1>1, <2>1, <2>2, <2>3
<1>7. CASE FlushDatFails
  <2>1. PICK k \in 0 .. Len(datBuf) - 1 :
          /\ dat' = [dat EXCEPT ![datDay] = @ \o SubSeq(datBuf, 1, k)]
          /\ \/ lost' = lost \cup {datBuf[i].rec.id : i \in k + 1 .. Len(datBuf)}
             \/ datBuf' = Drop(datBuf, k)
    BY <1>7 DEF FlushDatFails
  <2>2. k \in 0 .. Len(datBuf) /\ datDay' = datDay
    BY <1>0, <1>7 DEF FlushDatFails
  <2>3. /\ HasLast(SubSeq(datBuf, 1, k), id) \/ HasLast(Drop(datBuf, k), id)
        /\ HasLast(SubSeq(datBuf, 1, k), id) \/ id \in {datBuf[i].rec.id : i \in k + 1 .. Len(datBuf)}
    BY <1>0, <2>2, LastSplits
  <2> QED BY <1>1, <2>1, <2>2, <2>3
<1>8. CASE UNCHANGED <<datDay, datBuf>>
  BY <1>8
<1> QED
  BY <1>2, <1>3, <1>4, <1>5, <1>6, <1>7, <1>8 DEF Next, Writing, Flushing, Failing, Midnight,
     AppendPoint, OpenBlob, WriteBlob, Flush, FlushBlob, OpenFails, WriteBlobFails,
     FlushBlobFails, vars

\* What append did to the ledger: nothing, or one point more, of the day it was
\* called on, whose header is in the file or the writer.
LEMMA WhatIsNew ==
  ASSUME StoreInv, [Next]_vars, NEW n \in DOMAIN accepted'
  PROVE  \/ n \in DOMAIN accepted /\ accepted'[n] = accepted[n]
         \/ /\ accepted'[n].id = point.id /\ synced' = synced
            /\ OnDisk(accepted[n])' \/ InBuffer(accepted[n])'
<1>1. CASE WriteDat
  <2> DEFINE e == [id |-> point.id, day |-> day]
             x == ToFile(datBuf, Header, DatCap)
  <2>1. accepted \in Seq([id : Nat, day : Days]) /\ e \in [id : Nat, day : Days]
    BY DEF StoreInv, Ledger, FileType
  <2>2. /\ accepted' = Append(accepted, e) /\ synced' = synced /\ datDay' = datDay
        /\ dat' = [dat EXCEPT ![datDay] = @ \o x]
        /\ datBuf' = ToBuffer(datBuf, Header, DatCap)
    BY <1>1 DEF WriteDat
  <2>3. e.id = point.id /\ e.day = day /\ datDay = day
    BY <1>1 DEF WriteDat, StoreInv, DayInv, OneDay
  <2>4. HasLast(dat'[datDay], point.id) \/ HasLast(datBuf', point.id)
    <3>1. datBuf \in Seq(Cell) /\ Header \in Seq(Cell)
      BY WrittenType DEF StoreInv, FileType
    <3>2. HasLast(x, point.id) \/ HasLast(datBuf', point.id)
      BY <2>2, <3>1, HeaderCells, WriterKeeps
    <3>3. x \in Seq(Cell)
      BY <3>1, BufferType
    <3> HIDE DEF x
    <3>4. dat'[datDay] = dat[datDay] \o x /\ dat[datDay] \in Seq(Cell)
      BY <2>2, DatAfter
    <3> QED BY <3>2, <3>3, <3>4, LastConcat
  <2> HIDE DEF e
  <2>5. CASE n = Len(accepted) + 1
    <3>1. accepted'[n] = e
      BY <2>1, <2>2, <2>5
    <3> QED BY <2>2, <2>3, <2>4, <3>1 DEF OnDisk, InBuffer
  <2>6. CASE n # Len(accepted) + 1
    BY <2>1, <2>2, <2>6
  <2> QED BY <2>5, <2>6
<1>2. CASE accepted' = accepted
  BY <1>2
<1> QED
  BY <1>1, <1>2 DEF Next, Writing, Flushing, Failing, Open, Midnight, AppendPoint, OpenDat,
     OpenBlob, WriteBlob, Flush, FlushDat, FlushBlob, Kill, OpenFails, WriteBlobFails,
     WriteDatFails, FlushDatFails, FlushBlobFails, vars

\* What a crash took stays lost.
LEMMA LostGrows == [Next]_vars => lost \subseteq lost'
BY DEF Next, Writing, Flushing, Failing, Open, Midnight, AppendPoint, OpenDat, OpenBlob,
       WriteBlob, WriteDat, Flush, FlushDat, FlushBlob, Kill, OpenFails, WriteBlobFails,
       WriteDatFails, FlushDatFails, FlushBlobFails, vars

\* A point is accepted on some day.
LEMMA DaysOfDays == StoreInv => \A n \in DOMAIN accepted : accepted[n].day \in Days
<1> DEFINE T == [id : Nat, day : Days]
<1> SUFFICES ASSUME StoreInv, NEW n \in DOMAIN accepted PROVE accepted[n].day \in Days
  OBVIOUS
<1>1. accepted \in Seq(T)
  BY DEF StoreInv, Ledger
<1>2. \A t \in T : t.day \in Days
  OBVIOUS
<1> HIDE DEF T
<1>3. accepted[n] \in T
  BY <1>1
<1> QED BY <1>2, <1>3

\* Every accepted point stays on disk, in the writer, or is lost to a crash.
LEMMA AccountedStep ==
  ASSUME StoreInv, Accounted, [Next]_vars
  PROVE  Accounted'
<1> SUFFICES ASSUME NEW n \in DOMAIN accepted',
                    accepted'[n].id \notin lost', accepted'[n].day >= day' - Retention
             PROVE  OnDisk(accepted[n])' \/ InBuffer(accepted[n])'
  BY DEF Accounted
<1>1. CASE n \in DOMAIN accepted /\ accepted'[n] = accepted[n]
  <2> DEFINE a == accepted[n]
  <2>1. a.day \in Days /\ day \in Days /\ day' \in Days /\ day' >= day
    BY <1>1, DayForward, DaysOfDays, StoreInvStep DEF StoreInv, FileType
  <2>2. a.day >= day - Retention /\ a.id \notin lost /\ a.id \notin lost'
    BY <1>1, <2>1, LostGrows
  <2>3. OnDisk(a) \/ InBuffer(a)
    BY <1>1, <2>2 DEF Accounted
  <2>4. ASSUME OnDisk(a) PROVE OnDisk(accepted[n])'
    BY <1>1, <2>1, <2>4, DiskKeeps DEF OnDisk
  <2>5. ASSUME InBuffer(a) PROVE OnDisk(accepted[n])' \/ InBuffer(accepted[n])'
    <3>1. HasLast(dat'[datDay], a.id) \/ (datDay' = datDay /\ HasLast(datBuf', a.id))
      BY <2>2, <2>5, BufferMoves DEF InBuffer
    <3> QED BY <1>1, <2>5, <3>1 DEF OnDisk, InBuffer
  <2> QED BY <2>3, <2>4, <2>5
<1> QED BY <1>1, WhatIsNew

\* What a flush said is stored was on disk by then and stays there.
LEMMA FlushedStep ==
  ASSUME StoreInv, Accounted, FlushedIsStored, [Next]_vars
  PROVE  FlushedIsStored'
<1> SUFFICES ASSUME NEW n \in DOMAIN accepted',
                    accepted'[n].id \in synced', accepted'[n].day >= day' - Retention
             PROVE  OnDisk(accepted[n])'
  BY DEF FlushedIsStored, OnDisk, HasLast
<1>1. CASE n \in DOMAIN accepted /\ accepted'[n] = accepted[n]
  <2> DEFINE a == accepted[n]
  <2>1. a.day \in Days /\ day \in Days /\ day' \in Days /\ day' >= day
    BY <1>1, DayForward, DaysOfDays, StoreInvStep DEF StoreInv, FileType
  <2>2. a.day >= day - Retention
    BY <1>1, <2>1
  <2>3. OnDisk(a)
    <3>1. CASE synced' = synced
      BY <1>1, <2>2, <3>1 DEF FlushedIsStored, OnDisk, HasLast
    <3>2. CASE FlushBlob /\ synced' # synced
      <4>1. a.id \notin lost
        BY <1>1, <3>2 DEF FlushBlob
      <4>2. ~InBuffer(a)
        BY <3>2 DEF FlushBlob, StoreInv, Buffers, InBuffer, HasLast
      <4> QED BY <1>1, <2>2, <4>1, <4>2 DEF Accounted
    <3> QED
      BY <3>1, <3>2 DEF Next, Writing, Flushing, Failing, Open, Midnight, AppendPoint, OpenDat,
         OpenBlob, WriteBlob, WriteDat, Flush, FlushDat, Kill, OpenFails, WriteBlobFails,
         WriteDatFails, FlushDatFails, FlushBlobFails, vars
  <2> QED BY <1>1, <2>1, <2>3, DiskKeeps DEF OnDisk
<1>2. CASE accepted'[n].id = point.id /\ synced' = synced
  BY <1>2 DEF StoreInv, Ledger, Fresh
<1> QED BY <1>1, <1>2, WhatIsNew

\* Once a flush returned Ok, what was appended before it is in its day's file until
\* retention sweeps that day, whatever errors, rotations and crashes follow.
THEOREM FlushedHolds == Spec => []FlushedIsStored
<1>1. Init => StoreInv /\ Accounted /\ FlushedIsStored
  BY StoreInvInit DEF Init, Accounted, FlushedIsStored
<1>2. StoreInv /\ Accounted /\ FlushedIsStored /\ [Next]_vars
        => (StoreInv /\ Accounted /\ FlushedIsStored)'
  BY StoreInvStep, AccountedStep, FlushedStep
<1> QED BY <1>1, <1>2, PTL DEF Spec
=============================================================================
