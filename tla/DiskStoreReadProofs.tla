----------------------- MODULE DiskStoreReadProofs ------------------------
(***************************************************************************)
(* What is read from a DiskStore, for every retention, capacity of the     *)
(* writers, limit, number of days, points, crashes and disk errors: a      *)
(* payload is its own point's, and a warm start gets the newest points in  *)
(* order.                                                                  *)
(***************************************************************************)
EXTENDS DiskStoreLogProofs

USE StoreAssumption DEF Days, StoreAssumption
USE DEF writers, files, history

\* .blob of a day together with what the writer still holds of it.
Virtual(d) == blob[d] \o (IF d = blobDay THEN blobBuf ELSE <<>>)

\* The range of a header holds the payload of its own point.
OwnIn(rec, v) ==
  rec.off + rec.len <= Len(v) /\ \A k \in 1 .. rec.len : v[rec.off + k] = rec.id
CellsOwn(s, v) == \A i \in DOMAIN s : OwnIn(s[i].rec, v)
Record == [id : Nat, off : Nat, len : Nat]

\* A cell is a part of a record.
LEMMA CellRecord == \A s \in Seq(Cell) : \A i \in DOMAIN s : s[i].rec \in Record
<1> SUFFICES ASSUME NEW s \in Seq(Cell), NEW i \in DOMAIN s PROVE s[i].rec \in Record
  OBVIOUS
<1>1. s[i] \in Cell
  OBVIOUS
<1> QED BY <1>1 DEF Cell, Record

\* A payload stays where it is when .blob is appended to.
LEMMA OwnGrows ==
  ASSUME NEW rec \in Record, NEW v \in Seq(Nat), NEW x \in Seq(Nat), OwnIn(rec, v)
  PROVE  OwnIn(rec, v \o x)
<1>1. /\ v \o x \in Seq(Nat) /\ Len(v \o x) = Len(v) + Len(x) /\ Len(v) \in Nat /\ Len(x) \in Nat
      /\ \A i \in 1 .. Len(v) : (v \o x)[i] = v[i]
  BY ConcatParts
<1>2. rec.off \in Nat /\ rec.len \in Nat
  BY DEF Record
<1>3. rec.off + rec.len <= Len(v)
  BY DEF OwnIn
<1>4. \A k \in 1 .. rec.len : rec.off + k \in 1 .. Len(v)
  BY <1>1, <1>2, <1>3
<1>5. \A k \in 1 .. rec.len : (v \o x)[rec.off + k] = rec.id
  BY <1>1, <1>4 DEF OwnIn
<1>6. rec.off + rec.len <= Len(v \o x)
  BY <1>1, <1>2, <1>3
<1> QED BY <1>5, <1>6 DEF OwnIn

\* A payload within the first part of .blob is in that part.
LEMMA OwnShort ==
  ASSUME NEW rec \in Record, NEW v \in Seq(Nat), NEW x \in Seq(Nat), OwnIn(rec, v \o x),
         rec.off + rec.len <= Len(v)
  PROVE  OwnIn(rec, v)
<1>1. Len(v) \in Nat /\ \A i \in 1 .. Len(v) : (v \o x)[i] = v[i]
  BY ConcatParts
<1>2. rec.off \in Nat /\ rec.len \in Nat
  BY DEF Record
<1>4. \A k \in 1 .. rec.len : rec.off + k \in 1 .. Len(v)
  BY <1>1, <1>2
<1> QED BY <1>1, <1>4 DEF OwnIn

\* The same for the payloads of all the headers in s.
LEMMA CellsGrow ==
  ASSUME NEW s \in Seq(Cell), NEW v \in Seq(Nat), NEW x \in Seq(Nat), CellsOwn(s, v)
  PROVE  CellsOwn(s, v \o x)
<1> SUFFICES ASSUME NEW i \in DOMAIN s PROVE OwnIn(s[i].rec, v \o x)
  BY DEF CellsOwn
<1>1. s[i].rec \in Record /\ OwnIn(s[i].rec, v)
  BY CellRecord DEF CellsOwn
<1> QED BY <1>1, OwnGrows

\* Headers written one after the other.
LEMMA CellsConcat ==
  ASSUME NEW s \in Seq(Cell), NEW t \in Seq(Cell), NEW v, CellsOwn(s, v), CellsOwn(t, v)
  PROVE  CellsOwn(s \o t, v)
<1>1. /\ s \o t \in Seq(Cell) /\ Len(s \o t) = Len(s) + Len(t)
      /\ Len(s) \in Nat /\ Len(t) \in Nat
      /\ \A i \in 1 .. Len(s) : (s \o t)[i] = s[i]
      /\ \A i \in 1 .. Len(t) : (s \o t)[Len(s) + i] = t[i]
  BY ConcatParts
<1> SUFFICES ASSUME NEW i \in 1 .. Len(s) + Len(t) PROVE OwnIn((s \o t)[i].rec, v)
  BY <1>1 DEF CellsOwn
<1>2. CASE i <= Len(s)
  BY <1>1, <1>2 DEF CellsOwn
<1>3. CASE i > Len(s)
  <2>1. i - Len(s) \in 1 .. Len(t) /\ Len(s) + (i - Len(s)) = i
    BY <1>1, <1>3
  <2>2. (s \o t)[i] = t[i - Len(s)] /\ i - Len(s) \in DOMAIN t
    BY <1>1, <2>1
  <2> QED BY <2>2 DEF CellsOwn
<1> QED BY <1>1, <1>2, <1>3

\* Headers of which a part has reached the file.
LEMMA CellsSplit ==
  ASSUME NEW s \in Seq(Cell), NEW k \in 0 .. Len(s), NEW v, CellsOwn(s, v)
  PROVE  CellsOwn(SubSeq(s, 1, k), v) /\ CellsOwn(Drop(s, k), v)
<1>1. DOMAIN s = 1 .. Len(s) /\ Len(s) \in Nat
  OBVIOUS
<1>2. \A i \in DOMAIN SubSeq(s, 1, k) : i \in DOMAIN s /\ SubSeq(s, 1, k)[i] = s[i]
  BY <1>1
<1>3. \A i \in DOMAIN Drop(s, k) : \E j \in DOMAIN s : Drop(s, k)[i] = s[j]
  BY PartHolds
<1> QED BY <1>2, <1>3 DEF CellsOwn

-----------------------------------------------------------------------------
StoredOwn == \A d \in Days \ astray : CellsOwn(dat[d], Virtual(d))
BufferedOwn == datDay \notin astray => CellsOwn(datBuf, Virtual(datDay))
PosIsEnd == pc # "closed" /\ blobDay \notin astray => blobPos = Len(Virtual(blobDay))
PointOwn ==
  pc = "dat" /\ blobDay \notin astray =>
    OwnIn([id |-> point.id, off |-> off, len |-> point.len], Virtual(blobDay))
BlobEmpty == pc \in {"closed", "openDat", "openBlob"} => blobBuf = <<>>
PayInv == StoredOwn /\ BufferedOwn /\ PosIsEnd /\ PointOwn /\ BlobEmpty

\* .blob of a day with what the writer still holds for it.
LEMMA VirtualType ==
  ASSUME FileType
  PROVE  \A d \in Days : /\ Virtual(d) \in Seq(Nat)
                         /\ d # blobDay \/ blobBuf = <<>> => Virtual(d) = blob[d]
<1> SUFFICES ASSUME NEW d \in Days
             PROVE  /\ Virtual(d) \in Seq(Nat)
                    /\ d # blobDay \/ blobBuf = <<>> => Virtual(d) = blob[d]
  OBVIOUS
<1>1. blob[d] \in Seq(Nat) /\ blobBuf \in Seq(Nat) /\ <<>> \in Seq(Nat)
  BY DEF FileType
<1>2. blob[d] \o <<>> = blob[d] /\ blob[d] \o blobBuf \in Seq(Nat)
  BY <1>1
<1> QED BY <1>1, <1>2, Zenon DEF Virtual

\* A step that leaves .blob and its writer alone.
LEMMA VirtualStays ==
  ASSUME UNCHANGED <<blob, blobBuf, blobDay>>
  PROVE  \A d \in Days : Virtual(d)' = Virtual(d)
BY DEF Virtual

\* Payload cells written in three parts.
LEMMA CellsAssociate == \A u, v, w \in Seq(Nat) : (u \o v) \o w = u \o (v \o w)
<1> DEFINE T == Nat
<1> HIDE DEF T
<1>1. \A u, v, w \in Seq(T) : (u \o v) \o w = u \o (v \o w)
  <2>1. Associates(T)
    BY AnyConcatAssociates, Zenon
  <2> QED BY <2>1, Zenon DEF Associates
<1> QED BY <1>1 DEF T

\* A step that moves cells from the writer to .blob, after z was added to it.
LEMMA VirtualMoves ==
  ASSUME FileType, NEW x \in Seq(Nat), NEW y \in Seq(Nat), NEW z \in Seq(Nat),
         x \o y = blobBuf \o z, blobDay' = blobDay,
         blob' = [blob EXCEPT ![blobDay] = @ \o x], blobBuf' = y
  PROVE  /\ \A d \in Days : d = blobDay => Virtual(d)' = Virtual(d) \o z
         /\ \A d \in Days : d # blobDay => Virtual(d)' = Virtual(d)
<1>a. \A u, v, w \in Seq(Nat) : (u \o v) \o w = u \o (v \o w)
  BY CellsAssociate, Zenon
<1>1. blob[blobDay] \in Seq(Nat) /\ blobDay \in Days /\ blobBuf \in Seq(Nat)
      /\ blob \in [Days -> Seq(Nat)]
  BY DEF FileType
<1>2. blob'[blobDay] = blob[blobDay] \o x /\ \A d \in Days : d # blobDay => blob'[d] = blob[d]
  BY <1>1
<1>3. (blob[blobDay] \o x) \o y = blob[blobDay] \o (x \o y)
  BY <1>1, <1>a, ZenonT(40)
<1>4. (blob[blobDay] \o blobBuf) \o z = blob[blobDay] \o (blobBuf \o z)
  BY <1>1, <1>a, ZenonT(40)
<1>5. Virtual(blobDay)' = blob'[blobDay] \o y
  BY Zenon DEF Virtual
<1>6. Virtual(blobDay) = blob[blobDay] \o blobBuf
  BY Zenon DEF Virtual
<1>7. Virtual(blobDay)' = Virtual(blobDay) \o z
  BY <1>2, <1>3, <1>4, <1>5, <1>6, Zenon
<1>8. \A d \in Days : d # blobDay => Virtual(d)' = Virtual(d)
  BY <1>2, Zenon DEF Virtual
<1>9. \A d \in Days : d = blobDay => Virtual(d)' = Virtual(d) \o z
  BY <1>7, Zenon
<1> QED BY <1>8, <1>9

\* What reaches .dat refers to payloads that are there.
LEMMA PayKeeps ==
  ASSUME StoreInv, PayInv, StoreInv', NEW x \in Seq(Cell), NEW y \in Seq(Cell),
         dat' = [dat EXCEPT ![datDay] = @ \o x], datBuf' = y, datDay' = datDay,
         astray \subseteq astray',
         datDay \notin astray => CellsOwn(x, Virtual(datDay)) /\ CellsOwn(y, Virtual(datDay)),
         \A d \in Days \ astray : \E z \in Seq(Nat) : Virtual(d)' = Virtual(d) \o z
  PROVE  StoredOwn' /\ BufferedOwn'
<1>0. /\ dat \in [Days -> Seq(Cell)] /\ datDay \in Days
      /\ \A d \in Days : Virtual(d) \in Seq(Nat)
  BY VirtualType DEF StoreInv, FileType
<1>1. ASSUME NEW d \in Days, d \notin astray' PROVE CellsOwn(dat'[d], Virtual(d)')
  <2>1. d \in Days \ astray
    BY <1>1
  <2>2. PICK z \in Seq(Nat) : Virtual(d)' = Virtual(d) \o z
    BY <2>1
  <2>3. CellsOwn(dat[d], Virtual(d)) /\ dat[d] \in Seq(Cell)
    BY <1>0, <2>1 DEF PayInv, StoredOwn
  <2>4. CellsOwn(dat'[d], Virtual(d)) /\ dat'[d] \in Seq(Cell)
    <3>1. CASE d = datDay
      <4>1. dat'[d] = dat[d] \o x
        BY <1>0, <3>1
      <4>2. CellsOwn(x, Virtual(d))
        BY <2>1, <3>1
      <4>3. CellsOwn(dat[d] \o x, Virtual(d)) /\ dat[d] \o x \in Seq(Cell)
        BY <2>3, <4>2, CellsConcat, ConcatParts
      <4> QED BY <4>1, <4>3
    <3>2. CASE d # datDay
      BY <1>0, <2>3, <3>2
    <3> QED BY <3>1, <3>2
  <2>5. CellsOwn(dat'[d], Virtual(d) \o z)
    BY <1>0, <2>4, CellsGrow
  <2> QED BY <2>2, <2>5
<1>2. ASSUME datDay \notin astray' PROVE CellsOwn(y, Virtual(datDay)')
  <2>1. datDay \in Days \ astray
    BY <1>0, <1>2
  <2>2. PICK z \in Seq(Nat) : Virtual(datDay)' = Virtual(datDay) \o z
    BY <2>1
  <2>3. CellsOwn(y, Virtual(datDay))
    BY <2>1
  <2>4. CellsOwn(y, Virtual(datDay) \o z)
    BY <1>0, <2>3, CellsGrow
  <2> QED BY <2>2, <2>4
<1>3. StoredOwn'
  BY <1>1 DEF StoredOwn
<1>4. BufferedOwn'
  BY <1>2 DEF BufferedOwn
<1> QED BY <1>3, <1>4

\* A process that ends leaves on the days that are not astray only headers whose
\* payloads are in the file.
LEMMA PayEnds ==
  ASSUME StoreInv, PayInv, StoreInv', NEW x \in Seq(Cell),
         dat' = [dat EXCEPT ![datDay] = @ \o x], datBuf' = <<>>, blobBuf' = <<>>,
         datDay \notin astray => CellsOwn(x, Virtual(datDay)),
         astray' = astray \cup {d \in Days : Dangling(d, dat', blob')},
         \A d \in Days : \E z \in Seq(Nat) : Virtual(d) = blob'[d] \o z
  PROVE  StoredOwn' /\ BufferedOwn'
<1>0. /\ dat \in [Days -> Seq(Cell)] /\ datDay \in Days /\ blob' \in [Days -> Seq(Nat)]
      /\ dat' \in [Days -> Seq(Cell)]
      /\ \A d \in Days : Virtual(d) \in Seq(Nat) /\ Virtual(d)' = blob'[d]
  <2>1. FileType /\ FileType'
    BY DEF StoreInv
  <2>2. \A d \in Days : Virtual(d) \in Seq(Nat)
    BY <2>1, VirtualType
  <2>3. \A d \in Days : Virtual(d)' = blob'[d]
    <3>1. \A d \in Days : blob'[d] \o <<>> = blob'[d]
      BY <2>1 DEF FileType
    <3> QED BY <3>1, Zenon DEF Virtual
  <2> QED BY <2>1, <2>2, <2>3 DEF FileType
<1>1. ASSUME NEW d \in Days, d \notin astray' PROVE CellsOwn(dat'[d], Virtual(d)')
  <2>1. d \in Days \ astray /\ ~Dangling(d, dat', blob')
    BY <1>1
  <2>2. PICK z \in Seq(Nat) : Virtual(d) = blob'[d] \o z
    OBVIOUS
  <2>3. CellsOwn(dat[d], Virtual(d)) /\ dat[d] \in Seq(Cell)
    BY <1>0, <2>1 DEF PayInv, StoredOwn
  <2>4. CellsOwn(dat'[d], Virtual(d)) /\ dat'[d] \in Seq(Cell)
    <3>1. CASE d = datDay
      <4>1. dat'[d] = dat[d] \o x
        BY <1>0, <3>1
      <4>2. CellsOwn(x, Virtual(d))
        BY <2>1, <3>1
      <4>3. CellsOwn(dat[d] \o x, Virtual(d)) /\ dat[d] \o x \in Seq(Cell)
        BY <2>3, <4>2, CellsConcat, ConcatParts
      <4> QED BY <4>1, <4>3
    <3>2. CASE d # datDay
      BY <1>0, <2>3, <3>2
    <3> QED BY <3>1, <3>2
  <2>5. ASSUME NEW i \in DOMAIN dat'[d] PROVE OwnIn(dat'[d][i].rec, blob'[d])
    <3> DEFINE rec == dat'[d][i].rec
    <3>1. rec \in Record /\ OwnIn(rec, blob'[d] \o z)
      BY <2>2, <2>4, CellRecord DEF CellsOwn
    <3>2. blob'[d] \in Seq(Nat)
      BY <1>0
    <3>3. ~(rec.off + rec.len > Len(blob'[d]))
      BY <2>1 DEF Dangling
    <3> HIDE DEF rec
    <3>4. rec.off + rec.len <= Len(blob'[d])
      BY <3>1, <3>2, <3>3 DEF Record
    <3>5. OwnIn(rec, blob'[d])
      BY <3>1, <3>2, <3>4, OwnShort
    <3> QED BY <3>5 DEF rec
  <2> QED BY <1>0, <2>5 DEF CellsOwn
<1>2. StoredOwn'
  BY <1>1 DEF StoredOwn
<1>3. BufferedOwn'
  BY DEF BufferedOwn, CellsOwn
<1> QED BY <1>2, <1>3

\* A sweep, while both writers are empty.
LEMMA PaySweeps ==
  ASSUME StoreInv, PayInv, StoreInv', NEW d \in Days, SweepAt(d, Retention),
         blobBuf = <<>>, blobBuf' = <<>>, datBuf' = <<>>, UNCHANGED astray
  PROVE  StoredOwn' /\ BufferedOwn'
<1>0. \A s \in Days : Virtual(s) = blob[s] /\ Virtual(s)' = blob'[s]
  <2>1. FileType /\ FileType'
    BY DEF StoreInv
  <2>2. \A s \in Days : Virtual(s) = blob[s]
    BY <2>1, VirtualType
  <2>3. \A s \in Days : blob'[s] \o <<>> = blob'[s]
    BY <2>1 DEF FileType
  <2>4. \A s \in Days : Virtual(s)' = blob'[s]
    BY <2>3, Zenon DEF Virtual
  <2> QED BY <2>2, <2>4
<1>1. ASSUME NEW s \in Days, s \notin astray PROVE CellsOwn(dat'[s], blob'[s])
  <2>1. CASE s \in Stale(d, Retention)
    BY <2>1 DEF SweepAt, CellsOwn
  <2>2. CASE s \notin Stale(d, Retention)
    <3>1. dat'[s] = dat[s] /\ blob'[s] = blob[s]
      BY <2>2 DEF SweepAt
    <3> QED BY <1>0, <1>1, <3>1 DEF PayInv, StoredOwn
  <2> QED BY <2>1, <2>2
<1>2. StoredOwn'
  BY <1>0, <1>1 DEF StoredOwn
<1>3. BufferedOwn'
  BY DEF BufferedOwn, CellsOwn
<1> QED BY <1>2, <1>3

\* What a writer sends and keeps is what it held and what is new.
LEMMA WriterWhole ==
  ASSUME NEW T, NEW buf \in Seq(T), NEW new \in Seq(T), NEW cap
  PROVE  /\ ToFile(buf, new, cap) \in Seq(T) /\ ToBuffer(buf, new, cap) \in Seq(T)
         /\ ToFile(buf, new, cap) \o ToBuffer(buf, new, cap) = buf \o new
<1>1. \A s \in Seq(T) : <<>> \o s = s /\ s \o <<>> = s
  OBVIOUS
<1>2. buf \o new \in Seq(T)
  BY ConcatParts
<1>3. ToFile(buf, new, cap) \in Seq(T) /\ ToBuffer(buf, new, cap) \in Seq(T)
  BY BufferType
<1> QED BY <1>1, <1>2, <1>3, Zenon DEF ToFile, ToBuffer

\* What is unchanged is extended by nothing.
LEMMA SameExtends ==
  ASSUME FileType, \A d \in Days : Virtual(d)' = Virtual(d)
  PROVE  \A d \in Days : \E z \in Seq(Nat) : Virtual(d)' = Virtual(d) \o z
<1> SUFFICES ASSUME NEW d \in Days PROVE \E z \in Seq(Nat) : Virtual(d)' = Virtual(d) \o z
  OBVIOUS
<1>1. Virtual(d) \in Seq(Nat) /\ <<>> \in Seq(Nat)
  BY VirtualType
<1>2. Virtual(d) \o <<>> = Virtual(d)
  BY <1>1
<1> QED BY <1>1, <1>2, Zenon

\* A step that writes nothing to .dat.
LEMMA PayQuiet ==
  ASSUME StoreInv, PayInv, StoreInv', UNCHANGED <<dat, datBuf, datDay>>, astray \subseteq astray',
         \A d \in Days : \E z \in Seq(Nat) : Virtual(d)' = Virtual(d) \o z
  PROVE  StoredOwn' /\ BufferedOwn'
<1> DEFINE x == <<>>
<1>1. x \in Seq(Cell) /\ datBuf \in Seq(Cell) /\ CellsOwn(x, Virtual(datDay))
  BY DEF StoreInv, FileType, CellsOwn
<1>2. dat' = [dat EXCEPT ![datDay] = @ \o x]
  <2>1. dat \in [Days -> Seq(Cell)]
    BY DEF StoreInv, FileType
  <2>2. \A s \in Seq(Cell) : s \o x = s
    OBVIOUS
  <2> HIDE DEF x
  <2> QED BY <2>1, <2>2
<1>3. datDay \notin astray => CellsOwn(datBuf, Virtual(datDay))
  BY DEF PayInv, BufferedOwn
<1>4. datBuf' = datBuf /\ datDay' = datDay
  OBVIOUS
<1> HIDE DEF x
<1>5. \A d \in Days \ astray : \E z \in Seq(Nat) : Virtual(d)' = Virtual(d) \o z
  OBVIOUS
<1> QED BY <1>1, <1>2, <1>3, <1>4, <1>5, PayKeeps

\* The payload goes behind what .blob and its writer hold.
LEMMA PayloadGoesLast ==
  ASSUME StoreInv, WriteBlob
  PROVE  /\ \A d \in Days : d # blobDay => Virtual(d)' = Virtual(d)
         /\ \A d \in Days : d = blobDay => Virtual(d)' = Virtual(d) \o Payload
         /\ Payload \in Seq(Nat) /\ Len(Payload) = point.len
<1>0. FileType
  BY DEF StoreInv
<1>1. /\ Payload \in Seq(Nat) /\ Len(Payload) = point.len
      /\ blobBuf \in Seq(Nat) /\ blobDay \in Days /\ point.len \in Nat
  BY <1>0, WrittenType DEF FileType, Payload
<1>2. CASE point.len = 0
  <2>1. Payload = <<>>
    BY <1>1, <1>2
  <2>2. \A d \in Days : Virtual(d)' = Virtual(d)
    BY <1>2, VirtualStays DEF WriteBlob
  <2>3. \A d \in Days : Virtual(d) \o <<>> = Virtual(d)
    BY <1>0, VirtualType
  <2> QED BY <1>1, <2>1, <2>2, <2>3, Zenon
<1>3. CASE point.len # 0
  <2> DEFINE x == ToFile(blobBuf, Payload, BlobCap)
             y == ToBuffer(blobBuf, Payload, BlobCap)
  <2>1. x \in Seq(Nat) /\ y \in Seq(Nat) /\ x \o y = blobBuf \o Payload
    <3>1. blobBuf \in Seq(Nat) /\ Payload \in Seq(Nat)
      BY <1>1
    <3> DEFINE T == Nat
    <3>2. blobBuf \in Seq(T) /\ Payload \in Seq(T)
      BY <3>1
    <3> HIDE DEF T, x, y
    <3>3. x \in Seq(T) /\ y \in Seq(T) /\ x \o y = blobBuf \o Payload
      BY <3>2, WriterWhole, SMTT(30) DEF x, y
    <3> QED BY <3>3 DEF T
  <2>2. blob' = [blob EXCEPT ![blobDay] = @ \o x] /\ blobBuf' = y /\ blobDay' = blobDay
    BY <1>3 DEF WriteBlob
  <2> HIDE DEF x, y
  <2>3. /\ \A d \in Days : d = blobDay => Virtual(d)' = Virtual(d) \o Payload
        /\ \A d \in Days : d # blobDay => Virtual(d)' = Virtual(d)
    BY <1>0, <1>1, <2>1, <2>2, VirtualMoves
  <2> QED BY <1>1, <2>3
<1> QED BY <1>2, <1>3

\* A payload that could not be written leaves .blob as it was, or part of the payload
\* behind it, and then the day is astray.
LEMMA PayloadFails ==
  ASSUME StoreInv, WriteBlobFails
  PROVE  /\ \A d \in Days : \E z \in Seq(Nat) : Virtual(d)' = Virtual(d) \o z
         /\ \A d \in Days : d = blobDay /\ d \notin astray' => Virtual(d)' = Virtual(d)
<1>1. /\ Payload \in Seq(Nat) /\ Len(Payload) = point.len /\ FileType
      /\ blobBuf \in Seq(Nat) /\ blobDay \in Days /\ point.len \in Nat
      /\ blob \in [Days -> Seq(Nat)]
      /\ blobDay' = blobDay /\ <<>> \in Seq(Nat)
      /\ \A s \in Seq(Nat) : s \o <<>> = s /\ <<>> \o s = s
  <2>1. FileType
    BY DEF StoreInv
  <2>2. \A s \in Seq(Nat) : s \o <<>> = s /\ <<>> \o s = s
    OBVIOUS
  <2>3. Payload \in Seq(Nat)
    BY <2>1, WrittenType
  <2>4. Len(Payload) = point.len
    BY <2>1 DEF FileType, Payload
  <2>5. <<>> \in Seq(Nat) /\ blobDay' = blobDay
    BY DEF WriteBlobFails
  <2> QED BY <2>1, <2>2, <2>3, <2>4, <2>5 DEF FileType
<1>2. ASSUME NEW k \in 0 .. Len(blobBuf) - 1,
             blob' = [blob EXCEPT ![blobDay] = @ \o SubSeq(blobBuf, 1, k)],
             blobBuf' = Drop(blobBuf, k)
      PROVE  \A d \in Days : Virtual(d)' = Virtual(d)
  <2> DEFINE x == SubSeq(blobBuf, 1, k)
             y == Drop(blobBuf, k)
  <2>1. k \in 0 .. Len(blobBuf)
    BY <1>1
  <2>2. x \in Seq(Nat) /\ y \in Seq(Nat) /\ x \o y = blobBuf
    BY <1>1, <2>1, PartsOfBuffer
  <2>3. blob' = [blob EXCEPT ![blobDay] = @ \o x] /\ blobBuf' = y
    BY <1>2
  <2> HIDE DEF x, y
  <2>4. x \o y = blobBuf \o <<>>
    BY <1>1, <2>2
  <2>5. /\ \A d \in Days : d = blobDay => Virtual(d)' = Virtual(d) \o <<>>
        /\ \A d \in Days : d # blobDay => Virtual(d)' = Virtual(d)
    BY <1>1, <2>2, <2>3, <2>4, VirtualMoves
  <2>6. \A d \in Days : Virtual(d) \o <<>> = Virtual(d)
    BY <1>1, VirtualType
  <2> QED BY <2>5, <2>6, Zenon
<1>3. ASSUME NEW k \in 0 .. point.len - 1,
             blob' = [blob EXCEPT ![blobDay] = @ \o blobBuf \o SubSeq(Payload, 1, k)],
             blobBuf' = <<>>
      PROVE  /\ SubSeq(Payload, 1, k) \in Seq(Nat)
             /\ \A d \in Days : d = blobDay => Virtual(d)' = Virtual(d) \o SubSeq(Payload, 1, k)
             /\ \A d \in Days : d # blobDay => Virtual(d)' = Virtual(d)
  <2> DEFINE z == SubSeq(Payload, 1, k)
             x == blobBuf \o z
  <2>1. z \in Seq(Nat)
    <3>1. k \in 0 .. Len(Payload)
      BY <1>1
    <3> QED BY <1>1, <3>1, PartOf
  <2>2. x \in Seq(Nat) /\ x \o <<>> = blobBuf \o z
    BY <1>1, <2>1, ConcatParts
  <2>3. blob' = [blob EXCEPT ![blobDay] = @ \o x]
    <3>1. (blob[blobDay] \o blobBuf) \o z = blob[blobDay] \o (blobBuf \o z)
      <4>1. blob[blobDay] \in Seq(Nat)
        BY <1>1
      <4> QED BY <1>1, <2>1, <4>1, CellsAssociate, ZenonT(40)
    <3>2. blob' = [blob EXCEPT ![blobDay] = blob[blobDay] \o blobBuf \o z]
      BY <1>1, <1>3
    <3> QED BY <1>1, <3>1, <3>2
  <2> HIDE DEF x, z
  <2>4. /\ \A d \in Days : d = blobDay => Virtual(d)' = Virtual(d) \o z
        /\ \A d \in Days : d # blobDay => Virtual(d)' = Virtual(d)
    BY <1>1, <1>3, <2>1, <2>2, <2>3, VirtualMoves, ZenonT(40)
  <2> QED BY <2>1, <2>4 DEF z
<1>4. CASE \E k \in 0 .. Len(blobBuf) - 1 :
             /\ blob' = [blob EXCEPT ![blobDay] = @ \o SubSeq(blobBuf, 1, k)]
             /\ blobBuf' = Drop(blobBuf, k)
  <2>1. \A d \in Days : Virtual(d)' = Virtual(d)
    BY <1>2, <1>4
  <2> QED BY <1>1, <2>1, SameExtends
<1>5. CASE \E k \in 0 .. point.len - 1 :
             /\ blob' = [blob EXCEPT ![blobDay] = @ \o blobBuf \o SubSeq(Payload, 1, k)]
             /\ blobBuf' = <<>>
             /\ astray' = IF k = 0 THEN astray ELSE astray \cup {blobDay}
  <2>1. PICK k \in 0 .. point.len - 1 :
             /\ blob' = [blob EXCEPT ![blobDay] = @ \o blobBuf \o SubSeq(Payload, 1, k)]
             /\ blobBuf' = <<>>
             /\ astray' = IF k = 0 THEN astray ELSE astray \cup {blobDay}
    BY <1>5
  <2> DEFINE z == SubSeq(Payload, 1, k)
  <2>2. /\ z \in Seq(Nat) /\ \A d \in Days : d = blobDay => Virtual(d)' = Virtual(d) \o z
        /\ \A d \in Days : d # blobDay => Virtual(d)' = Virtual(d)
    BY <1>3, <2>1
  <2>3. \A d \in Days : Virtual(d) \o <<>> = Virtual(d)
    BY <1>1, VirtualType
  <2>4. k = 0 => z = <<>>
    BY <1>1
  <2> HIDE DEF z
  <2>5. \A d \in Days : \E w \in Seq(Nat) : Virtual(d)' = Virtual(d) \o w
    BY <1>1, <2>2, <2>3, Zenon
  <2>6. \A d \in Days : d = blobDay /\ d \notin astray' => Virtual(d)' = Virtual(d)
    <3>1. blobDay \notin astray' => k = 0
      BY <2>1
    <3> QED BY <1>1, <2>2, <2>3, <2>4, <3>1, Zenon
  <2> QED BY <2>5, <2>6
<1> QED BY <1>4, <1>5 DEF WriteBlobFails

\* Cells that move from the writer to .blob.
LEMMA BlobMoves ==
  ASSUME StoreInv, NEW x \in Seq(Nat), NEW y \in Seq(Nat), x \o y = blobBuf,
         blobDay' = blobDay, blob' = [blob EXCEPT ![blobDay] = @ \o x], blobBuf' = y
  PROVE  \A d \in Days : Virtual(d)' = Virtual(d)
<1> DEFINE z == <<>>
<1>1. FileType /\ z \in Seq(Nat) /\ x \o y = blobBuf \o z
  <2>1. FileType /\ blobBuf \in Seq(Nat)
    BY DEF StoreInv, FileType
  <2>2. z \in Seq(Nat) /\ \A u \in Seq(Nat) : u \o z = u
    OBVIOUS
  <2> QED BY <2>1, <2>2, Zenon
<1>2. \A d \in Days : Virtual(d) \o z = Virtual(d)
  BY <1>1, VirtualType
<1> HIDE DEF z
<1>3. /\ \A d \in Days : d = blobDay => Virtual(d)' = Virtual(d) \o z
      /\ \A d \in Days : d # blobDay => Virtual(d)' = Virtual(d)
  BY <1>1, VirtualMoves
<1> QED BY <1>2, <1>3, Zenon

\* flush_sync on .blob, unless it is Drop that fails.
LEMMA FlushMoves ==
  ASSUME StoreInv, FlushBlob \/ (FlushBlobFails /\ next # "closed")
  PROVE  \A d \in Days : Virtual(d)' = Virtual(d)
<1>1. blobBuf \in Seq(Nat) /\ <<>> \in Seq(Nat) /\ blobBuf \o <<>> = blobBuf
  BY DEF StoreInv, FileType
<1>2. CASE FlushBlob
  BY <1>1, <1>2, BlobMoves DEF FlushBlob
<1>3. CASE FlushBlobFails /\ next # "closed"
  <2>1. PICK k \in 0 .. Len(blobBuf) - 1 :
          /\ blob' = [blob EXCEPT ![blobDay] = @ \o SubSeq(blobBuf, 1, k)]
          /\ blobBuf' = Drop(blobBuf, k)
    BY <1>3 DEF FlushBlobFails
  <2>2. k \in 0 .. Len(blobBuf)
    BY <1>1
  <2>3. /\ SubSeq(blobBuf, 1, k) \in Seq(Nat) /\ Drop(blobBuf, k) \in Seq(Nat)
        /\ SubSeq(blobBuf, 1, k) \o Drop(blobBuf, k) = blobBuf
    BY <1>1, <2>2, PartsOfBuffer
  <2>4. blobDay' = blobDay
    BY <1>3 DEF FlushBlobFails
  <2> QED BY <2>1, <2>3, <2>4, BlobMoves
<1> QED BY <1>2, <1>3

\* What a crash leaves of .blob.
LEMMA BlobCut ==
  ASSUME FileType, NEW m \in 0 .. Len(blobBuf),
         blob' = [blob EXCEPT ![blobDay] = @ \o SubSeq(blobBuf, 1, m)]
  PROVE  \A d \in Days : \E z \in Seq(Nat) : Virtual(d) = blob'[d] \o z
<1> DEFINE x == SubSeq(blobBuf, 1, m)
           y == Drop(blobBuf, m)
<1>1. /\ blobBuf \in Seq(Nat) /\ blob \in [Days -> Seq(Nat)] /\ blobDay \in Days
      /\ <<>> \in Seq(Nat)
  BY DEF FileType
<1>2. x \in Seq(Nat) /\ y \in Seq(Nat) /\ x \o y = blobBuf
  BY <1>1, PartsOfBuffer
<1>3. blob' = [blob EXCEPT ![blobDay] = @ \o x]
  OBVIOUS
<1> HIDE DEF x, y
<1>4. blob'[blobDay] = blob[blobDay] \o x /\ \A d \in Days : d # blobDay => blob'[d] = blob[d]
  BY <1>1, <1>3
<1>5. (blob[blobDay] \o x) \o y = blob[blobDay] \o blobBuf
  <2>1. blob[blobDay] \in Seq(Nat)
    BY <1>1
  <2> QED BY <1>2, <2>1, CellsAssociate, Zenon
<1>6. \A d \in Days : d = blobDay => Virtual(d) = blob'[d] \o y
  BY <1>4, <1>5, Zenon DEF Virtual
<1>7. \A d \in Days : d # blobDay => Virtual(d) = blob'[d] \o <<>>
  BY <1>4, Zenon DEF Virtual
<1> QED BY <1>1, <1>2, <1>6, <1>7, Zenon

\* The header of the point append works on, when .dat and .blob are those of its day.
LEMMA HeaderOwn ==
  ASSUME StoreInv, PayInv, pc = "dat", datDay \notin astray
  PROVE  CellsOwn(Header, Virtual(datDay))
<1> DEFINE rec == [id |-> point.id, off |-> off, len |-> point.len]
<1>1. datDay = blobDay
  BY DEF StoreInv, DayInv, OneDay
<1>2. OwnIn(rec, Virtual(blobDay))
  BY <1>1 DEF PayInv, PointOwn
<1> HIDE DEF rec
<1>3. \A i \in DOMAIN Header : Header[i].rec = rec
  BY DEF Header, Cells, rec
<1> QED BY <1>1, <1>2, <1>3 DEF CellsOwn

\* Every header in a file or on its way there has its own payload in .blob, or on its
\* way there.
LEMMA OwnStep == ASSUME StoreInv, PayInv, [Next]_vars PROVE StoredOwn' /\ BufferedOwn'
<1>0. /\ StoreInv' /\ FileType /\ datBuf \in Seq(Cell) /\ blobBuf \in Seq(Nat)
      /\ <<>> \in Seq(Cell) /\ datDay \in Days /\ Header \in Seq(Cell)
      /\ Len(datBuf) \in Nat
  <2>1. StoreInv' /\ FileType
    BY StoreInvStep DEF StoreInv
  <2> QED BY <2>1, WrittenType DEF FileType
<1>a. datDay \notin astray => CellsOwn(datBuf, Virtual(datDay))
  BY DEF PayInv, BufferedOwn
<1>b. \A v : CellsOwn(<<>>, v)
  BY DEF CellsOwn
<1>c. ASSUME UNCHANGED <<blob, blobBuf, blobDay>>
      PROVE  \A d \in Days : \E z \in Seq(Nat) : Virtual(d)' = Virtual(d) \o z
  BY <1>0, <1>c, VirtualStays, SameExtends
<1>1. CASE Open
  <2>1. blobBuf = <<>> /\ today \in Days
    BY <1>0, <1>1 DEF Open, PayInv, BlobEmpty, FileType
  <2> QED BY <1>0, <1>1, <2>1, PaySweeps DEF Open
<1>2. CASE OpenBlob
  <2>1. blobBuf = <<>> /\ datBuf = <<>>
    BY <1>2 DEF OpenBlob, PayInv, BlobEmpty, StoreInv, Buffers
  <2> QED BY <1>0, <1>2, <2>1, PaySweeps DEF OpenBlob
<1>3. CASE OpenDat
  <2>1. /\ \A d \in Days : Virtual(d)' = Virtual(d)
        /\ dat' = dat /\ datBuf' = <<>> /\ astray' = astray
    BY <1>3, VirtualStays DEF OpenDat
  <2>2. StoredOwn'
    BY <2>1 DEF PayInv, StoredOwn
  <2>3. BufferedOwn'
    BY <1>b, <2>1 DEF BufferedOwn
  <2> QED BY <2>2, <2>3
<1>4. CASE WriteBlob
  <2>1. \A d \in Days : \E z \in Seq(Nat) : Virtual(d)' = Virtual(d) \o z
    <3>1. \A d \in Days : Virtual(d) \o <<>> = Virtual(d)
      BY <1>0, VirtualType
    <3>2. <<>> \in Seq(Nat)
      OBVIOUS
    <3> QED BY <1>4, <3>1, <3>2, PayloadGoesLast, Zenon
  <2> QED BY <1>0, <1>4, <2>1, PayQuiet DEF WriteBlob
<1>5. CASE WriteBlobFails
  <2>1. astray \subseteq astray' /\ UNCHANGED <<dat, datBuf, datDay>>
    BY <1>5 DEF WriteBlobFails
  <2> QED BY <1>0, <1>5, <2>1, PayloadFails, PayQuiet
<1>6. CASE FlushBlob
  BY <1>0, <1>6, FlushMoves, SameExtends, PayQuiet DEF FlushBlob
<1>7. CASE FlushBlobFails
  <2>1. CASE next # "closed"
    BY <1>0, <1>7, <2>1, FlushMoves, SameExtends, PayQuiet DEF FlushBlobFails
  <2>2. CASE next = "closed"
    <3>1. PICK k \in 0 .. Len(blobBuf) - 1 :
            /\ blob' = [blob EXCEPT ![blobDay] = @ \o SubSeq(blobBuf, 1, k)]
            /\ blobBuf' = <<>> /\ astray' = astray \cup {d \in Days : Dangling(d, dat, blob')}
      BY <1>7, <2>2 DEF FlushBlobFails
    <3>2. k \in 0 .. Len(blobBuf)
      BY <1>0
    <3>3. datBuf = <<>> /\ datBuf' = <<>> /\ dat' = dat
      BY <1>7 DEF FlushBlobFails, StoreInv, Buffers
    <3>4. dat' = [dat EXCEPT ![datDay] = @ \o <<>>]
      <4>1. \A s \in Seq(Cell) : s \o <<>> = s
        OBVIOUS
      <4> QED BY <1>0, <3>3, <4>1 DEF FileType
    <3>5. \A d \in Days : \E z \in Seq(Nat) : Virtual(d) = blob'[d] \o z
      BY <1>0, <3>1, <3>2, BlobCut
    <3>6. astray' = astray \cup {d \in Days : Dangling(d, dat', blob')}
      BY <3>1, <3>3
    <3> QED BY <1>0, <1>b, <3>1, <3>3, <3>4, <3>5, <3>6, PayEnds
  <2> QED BY <2>1, <2>2
<1>8. CASE Kill
  <2>1. PICK k \in Torn(pc = "flushDat" \/ (pc = "dat" /\ Len(datBuf) + Parts > DatCap), datBuf) :
          dat' = [dat EXCEPT ![datDay] = @ \o SubSeq(datBuf, 1, k)]
    BY <1>8 DEF Kill
  <2>2. PICK m \in Torn(pc = "flushBlob", blobBuf) :
          blob' = [blob EXCEPT ![blobDay] = @ \o SubSeq(blobBuf, 1, m)]
    BY <1>8 DEF Kill
  <2>3. k \in 0 .. Len(datBuf) /\ m \in 0 .. Len(blobBuf)
    BY <1>0, <2>1, <2>2 DEF Torn
  <2> DEFINE x == SubSeq(datBuf, 1, k)
  <2>4. x \in Seq(Cell) /\ (datDay \notin astray => CellsOwn(x, Virtual(datDay)))
    BY <1>0, <1>a, <2>3, PartOf, CellsSplit
  <2>5. \A d \in Days : \E z \in Seq(Nat) : Virtual(d) = blob'[d] \o z
    BY <1>0, <2>2, <2>3, BlobCut
  <2>6. dat' = [dat EXCEPT ![datDay] = @ \o x]
    BY <2>1
  <2> HIDE DEF x
  <2>7. /\ datBuf' = <<>> /\ blobBuf' = <<>>
        /\ astray' = astray \cup {d \in Days : Dangling(d, dat', blob')}
    BY <1>8 DEF Kill
  <2> QED BY <1>0, <2>4, <2>5, <2>6, <2>7, PayEnds
<1>9. CASE WriteDat
  <2> DEFINE x == ToFile(datBuf, Header, DatCap)
             y == ToBuffer(datBuf, Header, DatCap)
  <2>1. x \in Seq(Cell) /\ y \in Seq(Cell)
    BY <1>0, BufferType
  <2>2. ASSUME datDay \notin astray
        PROVE  CellsOwn(x, Virtual(datDay)) /\ CellsOwn(y, Virtual(datDay))
    <3>1. CellsOwn(Header, Virtual(datDay)) /\ CellsOwn(datBuf, Virtual(datDay))
      BY <1>9, <1>a, <2>2, HeaderOwn DEF WriteDat
    <3>2. CellsOwn(datBuf \o Header, Virtual(datDay))
      BY <1>0, <3>1, CellsConcat
    <3> QED BY <1>b, <3>1, <3>2, Zenon DEF ToFile, ToBuffer
  <2>3. /\ dat' = [dat EXCEPT ![datDay] = @ \o x] /\ datBuf' = y
        /\ datDay' = datDay /\ astray' = astray
    BY <1>9 DEF WriteDat
  <2>4. \A d \in Days : \E z \in Seq(Nat) : Virtual(d)' = Virtual(d) \o z
    BY <1>c, <1>9 DEF WriteDat
  <2> HIDE DEF x, y
  <2> QED BY <1>0, <2>1, <2>2, <2>3, <2>4, PayKeeps
<1>10. CASE FlushDat
  <2>1. \A d \in Days : \E z \in Seq(Nat) : Virtual(d)' = Virtual(d) \o z
    BY <1>c, <1>10 DEF FlushDat
  <2> QED BY <1>0, <1>a, <1>b, <1>10, <2>1, PayKeeps DEF FlushDat
<1>11. CASE WriteDatFails \/ FlushDatFails
  <2>1. PICK k \in 0 .. Len(datBuf) - 1 :
          /\ dat' = [dat EXCEPT ![datDay] = @ \o SubSeq(datBuf, 1, k)]
          /\ datBuf' = <<>> \/ datBuf' = Drop(datBuf, k)
    BY <1>11 DEF WriteDatFails, FlushDatFails
  <2>2. k \in 0 .. Len(datBuf)
    BY <1>0
  <2> DEFINE x == SubSeq(datBuf, 1, k)
  <2>3. x \in Seq(Cell) /\ Drop(datBuf, k) \in Seq(Cell)
    BY <1>0, <2>2, PartOf
  <2>4. datDay \notin astray => CellsOwn(x, Virtual(datDay)) /\ CellsOwn(datBuf', Virtual(datDay))
    BY <1>0, <1>a, <1>b, <2>1, <2>2, CellsSplit
  <2>5. datBuf' \in Seq(Cell)
    BY <1>0, <2>1, <2>3
  <2>6. dat' = [dat EXCEPT ![datDay] = @ \o x]
    BY <2>1
  <2>7. \A d \in Days : \E z \in Seq(Nat) : Virtual(d)' = Virtual(d) \o z
    BY <1>c, <1>11 DEF WriteDatFails, FlushDatFails
  <2>8. datDay' = datDay /\ astray' = astray
    BY <1>11 DEF WriteDatFails, FlushDatFails
  <2> HIDE DEF x
  <2> QED BY <1>0, <2>3, <2>4, <2>5, <2>6, <2>7, <2>8, PayKeeps
<1>12. CASE UNCHANGED <<dat, datBuf, datDay, astray, blob, blobBuf, blobDay>>
  BY <1>0, <1>c, <1>12, PayQuiet
<1> QED
  BY <1>1, <1>2, <1>3, <1>4, <1>5, <1>6, <1>7, <1>8, <1>9, <1>10, <1>11, <1>12 DEF Next, Writing,
     Flushing, Failing, Midnight, AppendPoint, Flush, OpenFails, vars

\* blob_pos is where the next payload goes.
LEMMA PosIsEndStep == ASSUME StoreInv, PayInv, [Next]_vars PROVE PosIsEnd'
<1>0. /\ FileType /\ FileType' /\ blobDay \in Days /\ datDay \in Days /\ today \in Days
      /\ blobPos \in Nat /\ point.len \in Nat /\ Retention \in Nat
  <2>1. FileType /\ FileType'
    BY StoreInvStep DEF StoreInv
  <2> QED BY <2>1 DEF FileType
<1>1. ASSUME NEW d \in Days, SweepAt(d, Retention), blobBuf' = <<>>, blobDay' = d,
             blobPos' = Len(blob[d])
      PROVE  PosIsEnd'
  <2>1. d \notin Stale(d, Retention)
    BY <1>0 DEF Stale
  <2>2. blob'[d] = blob[d]
    <3>1. \A s \in Days : s \notin Stale(d, Retention) => blob'[s] = blob[s]
      BY <1>1 DEF SweepAt
    <3> QED BY <2>1, <3>1
  <2>3. blob'[d] \o <<>> = blob'[d]
    BY <1>0 DEF FileType
  <2>4. Virtual(blobDay)' = blob'[d]
    BY <1>1, <2>3, Zenon DEF Virtual
  <2> QED BY <1>1, <2>2, <2>4 DEF PosIsEnd
<1>2. ASSUME \A d \in Days : d = blobDay /\ d \notin astray' => Virtual(d)' = Virtual(d),
             astray \subseteq astray', blobDay' = blobDay, blobPos' = blobPos, pc # "closed"
      PROVE  PosIsEnd'
  <2>1. SUFFICES ASSUME blobDay \notin astray' PROVE blobPos' = Len(Virtual(blobDay)')
    BY <1>2 DEF PosIsEnd
  <2>2. blobPos = Len(Virtual(blobDay))
    BY <1>2, <2>1 DEF PayInv, PosIsEnd
  <2>3. Virtual(blobDay)' = Virtual(blobDay)
    BY <1>0, <1>2, <2>1, Zenon
  <2> QED BY <1>2, <2>2, <2>3
<1>3. CASE Open
  BY <1>0, <1>1, <1>3 DEF Open
<1>4. CASE OpenBlob
  BY <1>0, <1>1, <1>4 DEF OpenBlob
<1>5. CASE WriteBlob
  <2> SUFFICES ASSUME blobDay \notin astray PROVE blobPos' = Len(Virtual(blobDay)')
    BY <1>5 DEF WriteBlob, PosIsEnd
  <2>1. blobPos = Len(Virtual(blobDay)) /\ blobPos' = blobPos + point.len /\ blobDay' = blobDay
    BY <1>0, <1>5 DEF WriteBlob, PayInv, PosIsEnd
  <2>2. /\ \A d \in Days : d = blobDay => Virtual(d)' = Virtual(d) \o Payload
        /\ Payload \in Seq(Nat) /\ Len(Payload) = point.len
    BY <1>5, PayloadGoesLast
  <2>3. Virtual(blobDay)' = Virtual(blobDay) \o Payload
    BY <1>0, <2>1, <2>2, Zenon
  <2>4. Virtual(blobDay) \in Seq(Nat)
    BY <1>0, VirtualType
  <2>5. Len(Virtual(blobDay) \o Payload) = Len(Virtual(blobDay)) + Len(Payload)
    BY <2>2, <2>4, ConcatParts
  <2> QED BY <2>1, <2>2, <2>3, <2>5
<1>6. CASE WriteBlobFails
  <2>1. \A d \in Days : d = blobDay /\ d \notin astray' => Virtual(d)' = Virtual(d)
    BY <1>6, PayloadFails
  <2>2. astray \subseteq astray' /\ blobDay' = blobDay /\ blobPos' = blobPos /\ pc # "closed"
    BY <1>6 DEF WriteBlobFails
  <2> QED BY <1>2, <2>1, <2>2
<1>7. CASE FlushBlob
  <2>1. astray \subseteq astray' /\ blobDay' = blobDay /\ blobPos' = blobPos /\ pc # "closed"
    BY <1>7 DEF FlushBlob
  <2>2. \A d \in Days : Virtual(d)' = Virtual(d)
    BY <1>7, FlushMoves
  <2> QED BY <1>2, <2>1, <2>2
<1>8. CASE FlushBlobFails
  <2>1. CASE next # "closed"
    <3>1. astray \subseteq astray' /\ blobDay' = blobDay /\ blobPos' = blobPos /\ pc # "closed"
      BY <1>8, <2>1 DEF FlushBlobFails
    <3>2. \A d \in Days : Virtual(d)' = Virtual(d)
      BY <1>8, <2>1, FlushMoves
    <3> QED BY <1>2, <3>1, <3>2
  <2>2. CASE next = "closed"
    BY <1>8, <2>2 DEF FlushBlobFails, PosIsEnd
  <2> QED BY <2>1, <2>2
<1>9. CASE Kill
  BY <1>9 DEF Kill, PosIsEnd
<1>10. ASSUME UNCHANGED <<blob, blobBuf, blobDay, blobPos, astray>>, pc # "closed" \/ pc' = pc
       PROVE  PosIsEnd'
  <2>1. \A d \in Days : Virtual(d)' = Virtual(d)
    BY <1>10, VirtualStays
  <2>2. CASE pc # "closed"
    BY <1>2, <1>10, <2>1, <2>2
  <2>3. CASE pc' = "closed"
    BY <2>3 DEF PosIsEnd
  <2> QED BY <1>10, <2>2, <2>3
<1> QED
  BY <1>3, <1>4, <1>5, <1>6, <1>7, <1>8, <1>9, <1>10 DEF Next, Writing, Flushing, Failing,
     Midnight, AppendPoint, OpenDat, WriteDat, Flush, FlushDat, OpenFails, WriteDatFails,
     FlushDatFails, vars

\* The header append is about to write has its payload behind it.
LEMMA PointOwnStep == ASSUME StoreInv, PayInv, [Next]_vars PROVE PointOwn'
<1>0. /\ FileType /\ blobDay \in Days /\ blobPos \in Nat /\ point.len \in Nat /\ point.id \in Nat
      /\ off \in Nat
  <2>1. FileType
    BY DEF StoreInv
  <2> QED BY <2>1 DEF FileType
<1>1. CASE WriteBlob
  <2> DEFINE rec == [id |-> point.id, off |-> off', len |-> point.len]
             v == Virtual(blobDay)
  <2> SUFFICES ASSUME blobDay \notin astray PROVE OwnIn(rec, Virtual(blobDay)')
    BY <1>1 DEF WriteBlob, PointOwn
  <2>1. blobPos = Len(v) /\ blobDay' = blobDay /\ off = 0
    BY <1>1 DEF WriteBlob, PayInv, PosIsEnd, StoreInv, Control
  <2>2. /\ \A d \in Days : d = blobDay => Virtual(d)' = Virtual(d) \o Payload
        /\ Payload \in Seq(Nat) /\ Len(Payload) = point.len
    BY <1>1, PayloadGoesLast
  <2>3. Virtual(blobDay)' = v \o Payload /\ v \in Seq(Nat)
    BY <1>0, <2>1, <2>2, VirtualType, Zenon
  <2>4. /\ Len(v \o Payload) = Len(v) + point.len /\ Len(v) \in Nat
        /\ \A i \in 1 .. Len(Payload) : (v \o Payload)[Len(v) + i] = Payload[i]
    BY <2>2, <2>3, ConcatParts
  <2>5. \A i \in 1 .. point.len : Payload[i] = point.id
    BY DEF Payload
  <2> HIDE DEF v
  <2>6. rec.off + rec.len <= Len(v \o Payload)
    <3>1. CASE point.len = 0
      BY <1>0, <1>1, <2>1, <2>4, <3>1 DEF WriteBlob
    <3>2. CASE point.len # 0
      BY <1>0, <1>1, <2>1, <2>4, <3>2 DEF WriteBlob
    <3> QED BY <3>1, <3>2
  <2>7. ASSUME NEW k \in 1 .. rec.len PROVE (v \o Payload)[rec.off + k] = rec.id
    <3>1. point.len # 0 /\ k \in 1 .. point.len
      BY <1>0, <2>7
    <3>2. rec.off = Len(v)
      BY <1>1, <2>1, <3>1 DEF WriteBlob
    <3>3. (v \o Payload)[Len(v) + k] = Payload[k] /\ Payload[k] = point.id
      BY <2>2, <2>4, <2>5, <3>1
    <3> QED BY <3>2, <3>3
  <2> QED BY <2>3, <2>6, <2>7 DEF OwnIn
<1>2. CASE UNCHANGED <<blob, blobBuf, blobDay, point, off, pc, astray>>
  BY <1>2 DEF PayInv, PointOwn, Virtual
<1>3. CASE pc' # "dat"
  BY <1>3 DEF PointOwn
<1> QED
  BY <1>1, <1>2, <1>3 DEF Next, Writing, Flushing, Failing, Open, Midnight, AppendPoint, OpenDat,
     OpenBlob, WriteDat, Flush, FlushDat, FlushBlob, Kill, OpenFails, WriteBlobFails,
     WriteDatFails, FlushDatFails, FlushBlobFails, vars, Return, StoreInv, Control

\* The writer of .blob is empty when its file is about to change.
LEMMA BlobEmptyStep == ASSUME StoreInv, PayInv, [Next]_vars PROVE BlobEmpty'
BY DEF Next, Writing, Flushing, Failing, Open, Midnight, AppendPoint, OpenDat, OpenBlob,
   WriteBlob, WriteDat, Flush, FlushDat, FlushBlob, Kill, OpenFails, WriteBlobFails,
   WriteDatFails, FlushDatFails, FlushBlobFails, vars, Return, PayInv, BlobEmpty, StoreInv, Control

\* ... at the start as well.
LEMMA PayInit == Init => PayInv
<1> SUFFICES ASSUME Init PROVE PayInv
  OBVIOUS
<1>1. \A d \in Days : CellsOwn(dat[d], Virtual(d))
  BY DEF Init, CellsOwn
<1>2. CellsOwn(datBuf, Virtual(datDay))
  BY DEF Init, CellsOwn
<1>3. pc = "closed" /\ blobBuf = <<>>
  BY DEF Init
<1> QED BY <1>1, <1>2, <1>3 DEF PayInv, StoredOwn, BufferedOwn, PosIsEnd, PointOwn, BlobEmpty

\* Headers and payloads belong together in every reachable state.
THEOREM PayInvHolds == Spec => [](StoreInv /\ PayInv)
<1>1. StoreInv /\ PayInv /\ [Next]_vars => (StoreInv /\ PayInv)'
  BY StoreInvStep, OwnStep, PosIsEndStep, PointOwnStep, BlobEmptyStep DEF PayInv
<1> QED BY <1>1, StoreInvInit, PayInit, PTL DEF Spec

\* Products grow with their factors.
LEMMA ProductGrows ==
  ASSUME NEW a \in Nat, NEW b \in Nat, NEW p \in Nat, a <= b
  PROVE  a * p <= b * p
<1>1. PICK c \in Nat : b = a + c
  <2>1. b - a \in Nat /\ b = a + (b - a)
    OBVIOUS
  <2> QED BY <2>1
<1>2. (a + c) * p = a * p + c * p /\ a * p \in Nat /\ c * p \in Nat
  OBVIOUS
<1> QED BY <1>1, <1>2

\* One more.
LEMMA ProductNext ==
  ASSUME NEW a \in Int, NEW p \in Int
  PROVE  (a - 1) * p = a * p - p /\ a * p \in Int
OBVIOUS

\* A quotient times the divisor.
LEMMA WholeParts ==
  ASSUME NEW n \in Nat, NEW p \in Nat, p > 0
  PROVE  /\ n \div p \in Nat /\ (n \div p) * p <= n
         /\ \A m \in Nat : n = m * p => n \div p = m
<1>1. n \div p \in Nat
  OBVIOUS
<1>2. (n \div p) * p <= n /\ n < (n \div p) * p + p
  OBVIOUS
<1>3. ASSUME NEW m \in Nat, n = m * p PROVE n \div p = m
  <2> DEFINE q == n \div p
  <2> HIDE DEF q
  <2>1. q \in Nat /\ q * p <= m * p /\ m * p < q * p + p
    BY <1>1, <1>2, <1>3 DEF q
  <2>2. ~(q + 1 <= m)
    <3>1. q + 1 <= m => (q + 1) * p <= m * p
      BY <2>1, ProductGrows
    <3>2. (q + 1) * p = q * p + p
      BY <2>1
    <3> QED BY <2>1, <3>1, <3>2
  <2>3. ~(m + 1 <= q)
    <3>1. m + 1 <= q => (m + 1) * p <= q * p
      BY <2>1, ProductGrows
    <3>2. (m + 1) * p = m * p + p
      BY <2>1
    <3> QED BY <2>1, <3>1, <3>2
  <2> QED BY <2>1, <2>2, <2>3 DEF q
<1> QED BY <1>1, <1>2, <1>3

\* Part of a sequence, cell by cell.
LEMMA SubSeqIs ==
  ASSUME NEW T, NEW s \in Seq(T), NEW m \in Nat, NEW n \in Nat, m <= n, n <= Len(s)
  PROVE  /\ SubSeq(s, m + 1, n) \in Seq(T) /\ Len(SubSeq(s, m + 1, n)) = n - m
         /\ \A i \in 1 .. n - m : m + i \in 1 .. Len(s) /\ SubSeq(s, m + 1, n)[i] = s[m + i]
<1>1. \A i \in m + 1 .. n : i \in 1 .. Len(s)
  OBVIOUS
<1>2. SubSeq(s, m + 1, n) \in Seq(T) /\ Len(SubSeq(s, m + 1, n)) = n - (m + 1) + 1
  BY <1>1
<1>3. \A i \in 1 .. n - m : SubSeq(s, m + 1, n)[i] = s[m + 1 + i - 1]
  BY <1>1
<1>4. \A i \in 1 .. n - m : m + i \in 1 .. Len(s) /\ m + 1 + i - 1 = m + i
  OBVIOUS
<1>5. n - (m + 1) + 1 = n - m
  OBVIOUS
<1> QED BY <1>2, <1>3, <1>4, <1>5

-----------------------------------------------------------------------------
(* How the tail of a day is read.                                            *)

\* The number of records read, the cell before the first, and the cells of each.
Take(d, limit) ==
  IF limit < Len(dat[d]) \div Parts THEN limit ELSE Len(dat[d]) \div Parts
First(d, limit) == Len(dat[d]) - Take(d, limit) * Parts
Chunk(d, limit, i) ==
  SubSeq(dat[d], First(d, limit) + (i - 1) * Parts + 1, First(d, limit) + i * Parts)
Chunks(d, limit) == [i \in 1 .. Take(d, limit) |-> ReadChunk(Chunk(d, limit, i), blob[d])]

\* read_day_tail puts the chunks together.
LEMMA ReadIs == \A d, limit : ReadDayTail(d, limit) = FlattenSeq(Chunks(d, limit))
BY DEF ReadDayTail, Chunks, Chunk, First, Take

\* The records are read in full from the end of the file.
LEMMA ChunkIs ==
  ASSUME FileType, NEW d \in Days, NEW limit \in Int
  PROVE  /\ Take(d, limit) \in Int /\ Take(d, limit) <= limit
         /\ Take(d, limit) <= Len(dat[d]) \div Parts
         /\ \A i \in 1 .. Take(d, limit) :
              LET c == Chunk(d, limit, i)
                  o == First(d, limit) + (i - 1) * Parts
              IN  /\ o \in Nat /\ c \in Seq(Cell) /\ Len(c) = Parts
                  /\ \A j \in 1 .. Parts : o + j \in 1 .. Len(dat[d]) /\ c[j] = dat[d][o + j]
<1> DEFINE s == dat[d]
           L == Len(s)
           t == Take(d, limit)
           f == First(d, limit)
<1>1. s \in Seq(Cell) /\ L \in Nat /\ Parts \in Nat /\ Parts > 0
  BY DEF FileType
<1>2. L \div Parts \in Nat /\ (L \div Parts) * Parts <= L
  BY <1>1, WholeParts
<1>3. t \in Int /\ t <= limit /\ t <= L \div Parts
  <2> DEFINE q == L \div Parts
  <2>1. q \in Nat /\ t = IF limit < q THEN limit ELSE q
    BY <1>2 DEF Take
  <2> HIDE DEF q, t
  <2>2. t \in Int /\ t <= limit /\ t <= q
    BY <2>1
  <2> QED BY <2>2 DEF q
<1> SUFFICES ASSUME NEW i \in 1 .. t
             PROVE  LET c == Chunk(d, limit, i)
                        o == f + (i - 1) * Parts
                    IN  /\ o \in Nat /\ c \in Seq(Cell) /\ Len(c) = Parts
                        /\ \A j \in 1 .. Parts : o + j \in 1 .. L /\ c[j] = s[o + j]
  BY <1>3
<1>4. t \in Nat /\ t * Parts <= (L \div Parts) * Parts /\ i * Parts <= t * Parts
  <2> DEFINE q == L \div Parts
  <2> HIDE DEF q, t
  <2>1. t \in Nat /\ i \in Nat /\ i <= t /\ q \in Nat /\ t <= q
    <3>1. q \in Nat /\ t \in Int /\ t <= q
      BY <1>2, <1>3 DEF q
    <3> QED BY <3>1
  <2>2. t * Parts <= q * Parts /\ i * Parts <= t * Parts
    BY <1>1, <2>1, ProductGrows
  <2> QED BY <2>1, <2>2 DEF q
<1>5. f = L - t * Parts
  BY DEF First
<1> DEFINE o == f + (i - 1) * Parts
           e == f + i * Parts
           c == Chunk(d, limit, i)
<1>6. c = SubSeq(s, o + 1, e)
  BY DEF Chunk
<1>7. o \in Nat /\ e \in Nat /\ e = o + Parts /\ e <= L
  <2>1. (i - 1) * Parts = i * Parts - Parts /\ i * Parts \in Int /\ t * Parts \in Int
    BY <1>1, <1>3, ProductNext
  <2>2. 0 <= (i - 1) * Parts
    <3>1. 0 * Parts <= (i - 1) * Parts /\ 0 * Parts = 0
      BY <1>1, ProductGrows
    <3> QED BY <3>1
  <2> HIDE DEF t, f, L
  <2>3. f \in Nat
    BY <1>1, <1>2, <1>4, <1>5, <2>1
  <2> QED BY <1>1, <1>2, <1>4, <1>5, <2>1, <2>2, <2>3
<1> HIDE DEF o, e, c, f, t
<1>8. /\ c \in Seq(Cell) /\ Len(c) = Parts
      /\ \A j \in 1 .. Parts : o + j \in 1 .. L /\ c[j] = s[o + j]
  <2>1. e - o = Parts /\ o <= e
    BY <1>1, <1>7
  <2> QED BY <1>1, <1>6, <1>7, <2>1, SubSeqIs
<1> QED BY <1>7, <1>8 DEF o, c

\* What a chunk decodes to: the record of its first cell, or garbage without payload.
LEMMA DecodeIs ==
  ASSUME NEW c \in Seq(Cell), Len(c) = Parts
  PROVE  Decode(c) \in Record /\ (Decode(c) = c[1].rec \/ Decode(c) = Garbled)
<1>1. c[1].rec \in Record
  <2>1. 1 \in DOMAIN c
    OBVIOUS
  <2> QED BY <2>1, CellRecord
<1>2. Garbled \in Record
  BY DEF Garbled, Record
<1> QED BY <1>1, <1>2 DEF Decode

\* A payload that is where its header says.
LEMMA StitchedOwn ==
  ASSUME NEW rec \in Record, NEW b \in Seq(Nat), OwnIn(rec, b)
  PROVE  Stitched(rec, b).payload = [i \in 1 .. rec.len |-> rec.id]
<1> DEFINE p == SubSeq(b, rec.off + 1, rec.off + rec.len)
           q == [i \in 1 .. rec.len |-> rec.id]
<1>1. rec.off \in Nat /\ rec.len \in Nat /\ rec.id \in Nat /\ rec.off + rec.len <= Len(b)
  BY DEF Record, OwnIn
<1>2. p \in Seq(Nat) /\ Len(p) = rec.len /\ \A i \in 1 .. rec.len : p[i] = b[rec.off + i]
  <2> DEFINE n == rec.off + rec.len
             m == rec.off
  <2>1. m \in Nat /\ n \in Nat /\ m <= n /\ n <= Len(b) /\ n - m = rec.len
    BY <1>1
  <2>2. p = SubSeq(b, m + 1, n)
    OBVIOUS
  <2> HIDE DEF m, n, p
  <2>3. p \in Seq(Nat) /\ Len(p) = n - m /\ \A i \in 1 .. n - m : p[i] = b[m + i]
    BY <2>1, <2>2, SubSeqIs, SMTT(30)
  <2> QED BY <2>1, <2>3 DEF m
<1>3. q \in Seq(Nat) /\ Len(q) = rec.len /\ \A i \in 1 .. rec.len : q[i] = rec.id
  BY <1>1
<1> HIDE DEF p, q
<1>4. \A i \in 1 .. Len(p) : p[i] = q[i]
  BY <1>2, <1>3 DEF OwnIn
<1>5. p = q
  BY <1>2, <1>3, <1>4, SameSeq
<1> QED BY <1>5 DEF p, q, Stitched

\* A header without payload, wherever it points.
LEMMA StitchedEmpty ==
  ASSUME NEW rec \in Record, NEW b \in Seq(Nat), rec.len = 0
  PROVE  Stitched(rec, b).payload = [i \in 1 .. rec.len |-> rec.id]
<1> DEFINE p == SubSeq(b, rec.off + 1, rec.off + rec.len)
           q == [i \in 1 .. rec.len |-> rec.id]
<1>1. rec.off \in Nat /\ rec.id \in Nat /\ rec.off + rec.len = rec.off
  BY DEF Record
<1>2. p \in Seq(Nat) /\ Len(p) = 0
  <2> DEFINE m == rec.off
  <2>1. m \in Nat /\ p = SubSeq(b, m + 1, m)
    BY <1>1
  <2> HIDE DEF m, p
  <2>2. SubSeq(b, m + 1, m) \in Seq(Nat) /\ Len(SubSeq(b, m + 1, m)) = 0
    BY <2>1
  <2> QED BY <2>1, <2>2
<1>3. q \in Seq(Nat) /\ Len(q) = 0
  BY <1>1
<1> HIDE DEF p, q
<1>4. p = q
  BY <1>2, <1>3, SameSeq
<1> QED BY <1>4 DEF p, q, Stitched

\* Every record read from the tail of a day was in a chunk of its file.
LEMMA ReadFrom ==
  ASSUME FileType, NEW d \in Days, NEW limit \in Int, NEW r \in ToSet(ReadDayTail(d, limit))
  PROVE  \E i \in 1 .. Take(d, limit) :
           /\ InBounds(Decode(Chunk(d, limit, i)), blob[d])
           /\ r = Stitched(Decode(Chunk(d, limit, i)), blob[d])
<1> DEFINE ss == Chunks(d, limit)
           N == Take(d, limit)
           st(i) == Stitched(Decode(Chunk(d, limit, i)), blob[d])
           T == {st(i) : i \in 1 .. N}
<1>1. \A i \in 1 .. N : /\ ss[i] = ReadChunk(Chunk(d, limit, i), blob[d])
                        /\ ss[i] = <<>> \/ ss[i] = <<st(i)>>
  BY DEF Chunks, ReadChunk
<1>2. N \in Int
  BY ChunkIs
<1>3. ss \in Seq(Seq(T)) /\ DOMAIN ss = 1 .. N
  <2>1. \A i \in 1 .. N : ss[i] \in Seq(T)
    <3>1. \A i \in 1 .. N : st(i) \in T
      OBVIOUS
    <3> HIDE DEF T, st, ss
    <3>2. \A t \in T : <<t>> \in Seq(T)
      OBVIOUS
    <3>3. <<>> \in Seq(T)
      OBVIOUS
    <3> QED BY <1>1, <3>1, <3>2, <3>3, Zenon
  <2>2. ss = [i \in 1 .. N |-> ss[i]]
    BY DEF Chunks
  <2> HIDE DEF ss, T
  <2>3. DOMAIN ss = 1 .. N
    BY <2>2
  <2>4. CASE N \in Nat
    <3> DEFINE U == Seq(T)
    <3>1. \A i \in 1 .. N : ss[i] \in U
      BY <2>1
    <3> HIDE DEF U
    <3>2. [i \in 1 .. N |-> ss[i]] \in Seq(U)
      BY <2>4, <3>1
    <3>3. ss \in Seq(U)
      BY <2>2, <3>2, Zenon
    <3> QED BY <2>3, <3>3 DEF U
  <2>5. CASE N \notin Nat
    <3>1. 1 .. N = 1 .. 0
      BY <1>2, <2>5
    <3>2. ss = [i \in 1 .. 0 |-> ss[i]]
      BY <2>2, <3>1, Zenon
    <3>3. [i \in 1 .. 0 |-> ss[i]] = <<>>
      OBVIOUS
    <3>4. <<>> \in Seq(Seq(T))
      OBVIOUS
    <3> QED BY <2>3, <3>2, <3>3, <3>4, Zenon
  <2> QED BY <2>3, <2>4, <2>5
<1> HIDE DEF T
<1>4. PICK j \in 1 .. Len(FlattenSeq(ss)) : r = FlattenSeq(ss)[j]
  <2>1. FlattenSeq(ss) \in Seq(T)
    <3> HIDE DEF ss
    <3> QED BY <1>3, FlattenType
  <2>2. r \in ToSet(FlattenSeq(ss))
    BY ReadIs
  <2> HIDE DEF ss
  <2> QED BY <2>1, <2>2 DEF ToSet
<1> HIDE DEF ss, N, st
<1>5. PICK i \in 1 .. Len(ss) : \E k \in 1 .. Len(ss[i]) : FlattenSeq(ss)[j] = ss[i][k]
  BY <1>3, <1>4, FlattenElements
<1>6. i \in 1 .. N /\ ss[i] # <<>>
  <2>1. i \in 1 .. N
    <3>1. DOMAIN ss = 1 .. Len(ss)
      BY <1>3
    <3> QED BY <1>3, <1>5, <3>1, Zenon
  <2> QED BY <1>5, <2>1
<1>7. ss[i] = <<st(i)>> /\ r = st(i)
  BY <1>1, <1>4, <1>5, <1>6
<1>8. InBounds(Decode(Chunk(d, limit, i)), blob[d])
  BY <1>1, <1>6 DEF ReadChunk
<1> QED BY <1>6, <1>7, <1>8 DEF N, st

-----------------------------------------------------------------------------
\* A point read back has the payload it was appended with, unless its day is astray.
LEMMA PayloadOwn == StoreInv /\ PayInv => PayloadIsOwnUnlessAstray
<1> SUFFICES ASSUME StoreInv, PayInv, NEW d \in Days \ (torn \cup astray),
                    NEW r \in ToSet(ReadDayTail(d, Limit))
             PROVE  r.payload = [i \in 1 .. r.len |-> r.id]
  BY DEF PayloadIsOwnUnlessAstray
<1>1. FileType /\ blob[d] \in Seq(Nat) /\ blobBuf \in Seq(Nat) /\ Limit \in Int
  BY DEF StoreInv, FileType
<1>2. PICK n \in 1 .. Take(d, Limit) :
        /\ InBounds(Decode(Chunk(d, Limit, n)), blob[d])
        /\ r = Stitched(Decode(Chunk(d, Limit, n)), blob[d])
  BY <1>1, ReadFrom
<1> DEFINE c == Chunk(d, Limit, n)
           rec == Decode(c)
<1>3. c \in Seq(Cell) /\ Len(c) = Parts /\ \E m \in DOMAIN dat[d] : c[1] = dat[d][m]
  <2> DEFINE o == First(d, Limit) + (n - 1) * Parts
  <2>1. /\ o \in Nat /\ c \in Seq(Cell) /\ Len(c) = Parts
        /\ \A j \in 1 .. Parts : o + j \in 1 .. Len(dat[d]) /\ c[j] = dat[d][o + j]
    BY <1>1, ChunkIs, ZenonT(40)
  <2>2. 1 \in 1 .. Parts /\ DOMAIN dat[d] = 1 .. Len(dat[d])
    BY <1>1 DEF FileType
  <2> HIDE DEF o, c
  <2> QED BY <2>1, <2>2
<1> HIDE DEF c
<1>4. rec \in Record /\ (rec = c[1].rec \/ rec = Garbled)
  BY <1>3, DecodeIs
<1>5. rec.len = 0 \/ rec.off + rec.len <= Len(blob[d])
  BY <1>2 DEF InBounds, c
<1> HIDE DEF rec
<1>6. rec.len # 0 => OwnIn(rec, blob[d])
  <2> SUFFICES ASSUME rec.len # 0 PROVE OwnIn(rec, blob[d])
    OBVIOUS
  <2>1. CASE rec = Garbled
    <3>1. Len(blob[d]) \in Nat
      BY <1>1
    <3> QED BY <2>1, <3>1 DEF Garbled, OwnIn
  <2>2. CASE rec = c[1].rec
    <3>1. OwnIn(rec, Virtual(d))
      BY <1>3, <2>2 DEF PayInv, StoredOwn, CellsOwn
    <3>2. PICK z \in Seq(Nat) : Virtual(d) = blob[d] \o z
      <4>1. <<>> \in Seq(Nat)
        OBVIOUS
      <4> QED BY <1>1, <4>1, Zenon DEF Virtual
    <3> QED BY <1>1, <1>4, <1>5, <3>1, <3>2, OwnShort
  <2> QED BY <1>4, <2>1, <2>2
<1>7. r.payload = [i \in 1 .. rec.len |-> rec.id]
  <2>1. Stitched(rec, blob[d]).payload = [i \in 1 .. rec.len |-> rec.id]
    BY <1>1, <1>4, <1>6, StitchedOwn, StitchedEmpty
  <2> QED BY <1>2, <2>1 DEF rec, c
<1>8. r.len = rec.len /\ r.id = rec.id
  BY <1>2 DEF Stitched, rec, c
<1> QED BY <1>7, <1>8

\* Whatever failed and whenever the store was reopened, a point read back has the payload
\* it was appended with, on every day but those a crash or a failed direct write led astray.
THEOREM PayloadOwnHolds == Spec => []PayloadIsOwnUnlessAstray
BY PayloadOwn, PayInvHolds, PTL

-----------------------------------------------------------------------------
(* Records laid out one after the other.                                     *)

\* The cell j of record i, counted through.
At(i, j) == (i - 1) * Parts + j

Laid(s, r) ==
  /\ Len(s) = Len(r) * Parts
  /\ \A i \in 1 .. Len(r) : \A j \in 1 .. Parts : s[At(i, j)] = [rec |-> r[i], part |-> j]

\* Every cell belongs to one of the records.
LEMMA AtIs ==
  ASSUME NEW n \in Nat
  PROVE  /\ \A i \in 1 .. n : \A j \in 1 .. Parts : At(i, j) \in 1 .. n * Parts
         /\ \A c \in 1 .. n * Parts : \E i \in 1 .. n : \E j \in 1 .. Parts : c = At(i, j)
<1>0. Parts \in Nat /\ Parts > 0 /\ n * Parts \in Nat
  OBVIOUS
<1>1. ASSUME NEW i \in 1 .. n, NEW j \in 1 .. Parts PROVE At(i, j) \in 1 .. n * Parts
  <2>1. (i - 1) * Parts = i * Parts - Parts /\ i * Parts \in Int
    BY <1>0, ProductNext
  <2>2. i * Parts <= n * Parts
    BY <1>0, ProductGrows
  <2>3. (i - 1) * Parts >= 0
    <3>1. 0 * Parts <= (i - 1) * Parts /\ 0 * Parts = 0
      BY <1>0, ProductGrows
    <3> QED BY <3>1
  <2> QED BY <1>0, <2>1, <2>2, <2>3 DEF At
<1>2. ASSUME NEW c \in 1 .. n * Parts
      PROVE  \E i \in 1 .. n : \E j \in 1 .. Parts : c = At(i, j)
  <2> DEFINE q == (c - 1) \div Parts
  <2>1. q \in Nat /\ q * Parts <= c - 1 /\ c - 1 < q * Parts + Parts
    <3>1. c - 1 \in Nat
      BY <1>0
    <3> QED BY <1>0, <3>1, WholeParts
  <2> HIDE DEF q
  <2>2. q * Parts \in Nat
    BY <1>0, <2>1
  <2>3. c - q * Parts \in 1 .. Parts /\ c = q * Parts + (c - q * Parts)
    BY <1>0, <2>1, <2>2
  <2>4. q + 1 \in 1 .. n
    <3>1. ~(n <= q)
      <4>1. n <= q => n * Parts <= q * Parts
        BY <1>0, <2>1, ProductGrows
      <4> QED BY <1>0, <2>1, <2>2, <4>1
    <3> QED BY <2>1, <3>1
  <2>5. q + 1 - 1 = q
    BY <2>1
  <2>6. c = At(q + 1, c - q * Parts)
    <3> DEFINE k == q + 1
               j == c - q * Parts
    <3>1. At(k, j) = (k - 1) * Parts + j
      BY DEF At
    <3>2. k - 1 = q
      <4>1. q \in Nat
        BY <2>1
      <4> QED BY <4>1
    <3> HIDE DEF k, j
    <3>3. At(k, j) = q * Parts + j
      BY <3>1, <3>2
    <3> QED BY <2>3, <3>3 DEF k, j
  <2> QED BY <2>3, <2>4, <2>6
<1> QED BY <1>1, <1>2

\* One record more.
LEMMA LaidGrows ==
  ASSUME NEW s \in Seq(Cell), NEW r \in Seq(Record), NEW rec \in Record, Laid(s, r)
  PROVE  Laid(s \o Cells(rec), r \o <<rec>>) /\ r \o <<rec>> \in Seq(Record)
<1> DEFINE c == Cells(rec)
           t == s \o c
           one == <<rec>>
           q == r \o one
           n == Len(r)
<1>0. Parts \in Nat /\ Parts > 0 /\ n \in Nat
  OBVIOUS
<1>1. c \in Seq(Cell) /\ Len(c) = Parts /\ \A j \in 1 .. Parts : c[j] = [rec |-> rec, part |-> j]
  BY CompleteCells DEF Cells, Record
<1>2. one \in Seq(Record) /\ Len(one) = 1 /\ one[1] = rec
  OBVIOUS
<1>3. /\ t \in Seq(Cell) /\ Len(t) = Len(s) + Len(c) /\ Len(s) \in Nat
      /\ \A i \in 1 .. Len(s) : t[i] = s[i]
      /\ \A i \in 1 .. Len(c) : t[Len(s) + i] = c[i]
  <2> DEFINE T == Cell
  <2>1. s \in Seq(T) /\ c \in Seq(T)
    BY <1>1
  <2> HIDE DEF T, c
  <2>2. /\ t \in Seq(T) /\ Len(t) = Len(s) + Len(c)
        /\ \A i \in 1 .. Len(s) : t[i] = s[i]
        /\ \A i \in 1 .. Len(c) : t[Len(s) + i] = c[i]
    BY <2>1, ConcatParts
  <2>3. Len(s) \in Nat
    OBVIOUS
  <2> QED BY <2>2, <2>3 DEF T
<1>4. /\ q \in Seq(Record) /\ Len(q) = n + Len(one)
      /\ \A i \in 1 .. n : q[i] = r[i]
      /\ \A i \in 1 .. Len(one) : q[n + i] = one[i]
  <2> DEFINE T == Record
  <2>1. r \in Seq(T) /\ one \in Seq(T)
    BY <1>2
  <2> HIDE DEF T, one
  <2>2. /\ q \in Seq(T) /\ Len(q) = Len(r) + Len(one)
        /\ \A i \in 1 .. Len(r) : q[i] = r[i]
        /\ \A i \in 1 .. Len(one) : q[Len(r) + i] = one[i]
    BY <2>1, ConcatParts
  <2> QED BY <2>2 DEF T
<1> HIDE DEF c, t, one, q, n
<1>5. Len(s) = n * Parts
  BY DEF Laid, n
<1>6. Len(q) = n + 1 /\ q[n + 1] = rec
  BY <1>2, <1>4
<1>7. (n + 1) * Parts = n * Parts + Parts /\ n + 1 - 1 = n
  BY <1>0
<1>8. Len(t) = Len(q) * Parts
  BY <1>1, <1>3, <1>5, <1>6, <1>7
<1>9. ASSUME NEW i \in 1 .. Len(q), NEW j \in 1 .. Parts
      PROVE  t[At(i, j)] = [rec |-> q[i], part |-> j]
  <2>1. CASE i <= n
    <3>1. i \in 1 .. n /\ q[i] = r[i]
      BY <1>0, <1>4, <1>6, <2>1
    <3>2. At(i, j) \in 1 .. Len(s)
      BY <1>0, <1>5, <3>1, AtIs
    <3>3. s[At(i, j)] = [rec |-> r[i], part |-> j]
      BY <3>1 DEF Laid, n
    <3> QED BY <1>3, <3>1, <3>2, <3>3
  <2>2. CASE i > n
    <3>1. i = n + 1
      BY <1>0, <1>6, <2>2
    <3>2. At(i, j) = Len(s) + j
      <4>1. At(i, j) = (i - 1) * Parts + j
        BY DEF At
      <4>2. i - 1 = n
        BY <1>0, <3>1
      <4> QED BY <1>5, <4>1, <4>2
    <3>3. t[Len(s) + j] = c[j] /\ c[j] = [rec |-> rec, part |-> j]
      BY <1>1, <1>3
    <3> QED BY <1>6, <3>1, <3>2, <3>3
  <2> QED BY <1>0, <1>6, <2>1, <2>2
<1>10. Laid(t, q)
  BY <1>8, <1>9 DEF Laid
<1> QED BY <1>4, <1>10 DEF c, t, q, one

\* The first m of the records are in s, the others in t.
CutAt(s, t, r, m) ==
  /\ SubSeq(r, 1, m) \in Seq(Record) /\ Laid(s, SubSeq(r, 1, m))
  /\ \A c \in DOMAIN t : \E i \in m + 1 .. Len(r) : t[c].rec = r[i]

\* What is cut off behind a whole record.
LEMMA LaidCut ==
  ASSUME NEW s \in Seq(Cell), NEW t \in Seq(Cell), NEW r \in Seq(Record), Laid(s \o t, r),
         Len(s) % Parts = 0
  PROVE  \E m \in 0 .. Len(r) : CutAt(s, t, r, m)
<1> DEFINE u == s \o t
           n == Len(r)
           m == Len(s) \div Parts
           q == SubSeq(r, 1, m)
<1>0. Parts \in Nat /\ Parts > 0 /\ n \in Nat /\ Len(s) \in Nat /\ Len(t) \in Nat
      /\ DOMAIN t = 1 .. Len(t)
  OBVIOUS
<1>1. /\ Len(u) = Len(s) + Len(t)
      /\ \A i \in 1 .. Len(s) : u[i] = s[i]
      /\ \A i \in 1 .. Len(t) : u[Len(s) + i] = t[i]
  BY ConcatParts
<1>2. m \in Nat /\ Len(s) = m * Parts
  BY <1>0
<1>3. Len(u) = n * Parts /\ \A i \in 1 .. n : \A j \in 1 .. Parts : u[At(i, j)] = [rec |-> r[i], part |-> j]
  BY DEF Laid
<1> HIDE DEF u, n, m
<1>4. m <= n
  <2>1. ~(n + 1 <= m)
    <3>1. n + 1 <= m => (n + 1) * Parts <= m * Parts
      BY <1>0, <1>2, ProductGrows
    <3>2. (n + 1) * Parts = n * Parts + Parts /\ n * Parts \in Nat /\ m * Parts \in Nat
      BY <1>0, <1>2
    <3> QED BY <1>0, <1>1, <1>2, <1>3, <3>1, <3>2, SMTT(30)
  <2> QED BY <1>0, <1>2, <2>1
<1>5. q \in Seq(Record) /\ Len(q) = m /\ \A i \in 1 .. m : q[i] = r[i] /\ i \in 1 .. n
  BY <1>2, <1>4 DEF n
<1> HIDE DEF q
<1>6. Laid(s, q)
  <2>1. ASSUME NEW i \in 1 .. m, NEW j \in 1 .. Parts PROVE s[At(i, j)] = [rec |-> q[i], part |-> j]
    <3>1. At(i, j) \in 1 .. Len(s)
      <4>1. At(i, j) \in 1 .. m * Parts
        BY <1>2, AtIs, Zenon
      <4> QED BY <1>2, <4>1
    <3>2. i \in 1 .. n /\ q[i] = r[i]
      BY <1>5
    <3>3. u[At(i, j)] = s[At(i, j)]
      BY <1>1, <3>1
    <3>4. u[At(i, j)] = [rec |-> r[i], part |-> j]
      BY <1>3, <3>2, Zenon
    <3> QED BY <3>2, <3>3, <3>4, Zenon
  <2>2. Len(s) = Len(q) * Parts
    BY <1>2, <1>5
  <2>3. \A i \in 1 .. Len(q) : i \in 1 .. m
    BY <1>5
  <2> QED BY <2>1, <2>2, <2>3, Zenon DEF Laid
<1>7. ASSUME NEW c \in 1 .. Len(t) PROVE \E i \in m + 1 .. n : t[c].rec = r[i]
  <2> DEFINE e == Len(s) + c
  <2>1. e \in 1 .. n * Parts
    BY <1>0, <1>1, <1>3
  <2>2. PICK i \in 1 .. n, j \in 1 .. Parts : e = At(i, j)
    BY <1>0, <2>1, AtIs
  <2>3. ~(i <= m)
    <3>1. i <= m => At(i, j) \in 1 .. m * Parts
      <4>1. i <= m => i \in 1 .. m
        BY <1>0, <1>2
      <4> QED BY <1>2, <4>1, AtIs
    <3>2. At(i, j) = Len(s) + c /\ m * Parts = Len(s)
      BY <1>2, <2>2
    <3> QED BY <1>0, <3>1, <3>2
  <2>4. u[e] = t[c] /\ u[e] = [rec |-> r[i], part |-> j]
    <3>1. u[e] = t[c]
      BY <1>1
    <3>2. u[At(i, j)] = [rec |-> r[i], part |-> j]
      BY <1>3, Zenon
    <3> HIDE DEF e
    <3> QED BY <2>2, <3>1, <3>2, Zenon
  <2>5. i \in m + 1 .. n
    BY <1>0, <1>2, <2>3
  <2> HIDE DEF e
  <2>6. t[c].rec = r[i]
    BY <2>4
  <2> QED BY <2>5, <2>6
<1>8. \A c \in DOMAIN t : \E i \in m + 1 .. n : t[c].rec = r[i]
  BY <1>0, <1>7
<1>9. m \in 0 .. n
  BY <1>0, <1>2, <1>4
<1>10. CutAt(s, t, r, m)
  BY <1>5, <1>6, <1>8 DEF q, n, CutAt
<1> QED BY <1>9, <1>10 DEF n

-----------------------------------------------------------------------------
(* The records of a day.                                                     *)

\* What .dat of a day holds or is going to hold.
Written(d) == dat[d] \o (IF d = datDay THEN datBuf ELSE <<>>)

AcceptedOn(id, d) == \E n \in DOMAIN accepted : accepted[n].id = id /\ accepted[n].day = d

\* Points are numbered and accepted in the order of append, and days only go forward.
InOrder ==
  /\ \A i, j \in DOMAIN accepted :
       i < j => accepted[i].id < accepted[j].id /\ accepted[i].day <= accepted[j].day
  /\ \A i \in DOMAIN accepted : accepted[i].day <= day
Numbered == point.id \in {0, issued}

\* The writer of .dat holds points of its own day, and what is lost had been accepted.
OfTheDay == \A i \in DOMAIN datBuf : AcceptedOn(datBuf[i].rec.id, datDay)
LostWere == lost \subseteq Ids(accepted)

\* No day before the retention window has a file.
Window == \A d \in days : d >= day - Retention

\* A day that is not torn is a sequence of whole records, accepted on that day, none of
\* them lost, in order.
RecordsOf(d, r) ==
  /\ Laid(Written(d), r)
  /\ \A i, j \in 1 .. Len(r) : i < j => r[i].id < r[j].id
  /\ \A i \in 1 .. Len(r) : r[i].id \notin lost /\ AcceptedOn(r[i].id, d)
LaidOut == \A d \in Days \ torn : \E r \in Seq(Record) : RecordsOf(d, r)

TailInv == InOrder /\ Numbered /\ OfTheDay /\ LostWere /\ Window /\ LaidOut

\* A point of an earlier day has a smaller number.
LEMMA DaysOrder ==
  ASSUME StoreInv, InOrder, NEW d \in Days, NEW e \in Days, d < e,
         NEW x, NEW y, AcceptedOn(x, d), AcceptedOn(y, e)
  PROVE  x < y
<1>1. PICK i \in DOMAIN accepted : accepted[i].id = x /\ accepted[i].day = d
  BY DEF AcceptedOn
<1>2. PICK j \in DOMAIN accepted : accepted[j].id = y /\ accepted[j].day = e
  BY DEF AcceptedOn
<1>3. i \in Int /\ j \in Int
  BY DEF StoreInv, Ledger
<1>4. ~(j < i) /\ i # j
  BY <1>1, <1>2 DEF InOrder
<1>5. i < j
  BY <1>3, <1>4
<1> QED BY <1>1, <1>2, <1>5 DEF InOrder

\* A point append works on is newer than what was accepted.
LEMMA NewestYet ==
  ASSUME StoreInv, TailInv, pc = "dat"
  PROVE  /\ \A n \in DOMAIN accepted : accepted[n].id < point.id
         /\ \A x, d : AcceptedOn(x, d) => x < point.id
         /\ point.id \notin lost
<1>1. issued \in Nat /\ point.id # 0 /\ point.id = issued
  BY DEF StoreInv, Control, TailInv, Numbered, FileType
<1>2. Ids(accepted) \subseteq 1 .. issued /\ point.id \notin Ids(accepted)
  BY DEF StoreInv, Ledger, Fresh
<1>3. \A n \in DOMAIN accepted : accepted[n].id < point.id
  BY <1>1, <1>2 DEF Ids
<1> QED BY <1>2, <1>3 DEF AcceptedOn, TailInv, LostWere

\* What was accepted stays accepted.
LEMMA AcceptedStays ==
  ASSUME StoreInv, [Next]_vars
  PROVE  /\ \A x, d : AcceptedOn(x, d) => AcceptedOn(x, d)'
         /\ WriteDat => \A x, d : x = point.id /\ d = day => AcceptedOn(x, d)'
         /\ WriteDat => \A n \in DOMAIN accepted' :
              \/ n \in DOMAIN accepted /\ accepted'[n] = accepted[n]
              \/ n = Len(accepted) + 1 /\ accepted'[n] = [id |-> point.id, day |-> day]
         /\ ~WriteDat => UNCHANGED accepted
<1>1. CASE WriteDat
  <2> DEFINE T == [id : Nat, day : Days]
             e == [id |-> point.id, day |-> day]
  <2>1. accepted \in Seq(T) /\ e \in T /\ accepted' = Append(accepted, e)
    BY <1>1 DEF StoreInv, Ledger, FileType, WriteDat
  <2>2. e.id = point.id /\ e.day = day
    OBVIOUS
  <2> HIDE DEF T, e
  <2>3. /\ DOMAIN accepted = 1 .. Len(accepted) /\ DOMAIN accepted' = 1 .. Len(accepted) + 1
        /\ accepted'[Len(accepted) + 1] = e
        /\ \A i \in 1 .. Len(accepted) : accepted'[i] = accepted[i]
        /\ Len(accepted) \in Nat
    BY <2>1
  <2>4. \A n \in DOMAIN accepted : n \in DOMAIN accepted' /\ accepted'[n] = accepted[n]
    BY <2>3
  <2>5. \A x, d : AcceptedOn(x, d) => AcceptedOn(x, d)'
    BY <2>4 DEF AcceptedOn
  <2>6. ASSUME NEW x, NEW d, x = point.id, d = day PROVE AcceptedOn(x, d)'
    <3>1. Len(accepted) + 1 \in DOMAIN accepted'
      BY <2>3
    <3> QED BY <2>2, <2>3, <2>6, <3>1 DEF AcceptedOn
  <2>7. \A n \in DOMAIN accepted' :
          \/ n \in DOMAIN accepted /\ accepted'[n] = accepted[n]
          \/ n = Len(accepted) + 1 /\ accepted'[n] = e
    BY <2>3
  <2> QED BY <1>1, <2>5, <2>6, <2>7 DEF e
<1>2. CASE ~WriteDat
  <2>1. UNCHANGED accepted
    BY <1>2 DEF Next, Writing, Flushing, Failing, Open, Midnight, AppendPoint, OpenDat, OpenBlob,
       WriteBlob, Flush, FlushDat, FlushBlob, Kill, OpenFails, WriteBlobFails,
       WriteDatFails, FlushDatFails, FlushBlobFails, vars
  <2> QED BY <1>2, <2>1 DEF AcceptedOn
<1> QED BY <1>1, <1>2

-----------------------------------------------------------------------------
(* The order of the points, step by step.                                    *)

\* A point is accepted after all that were, on the current day.
LEMMA InOrderStep == ASSUME StoreInv, TailInv, [Next]_vars PROVE InOrder'
<1>0. day \in Days /\ day' \in Days /\ day' >= day
  <2>1. StoreInv'
    BY StoreInvStep
  <2> QED BY <2>1, DayForward DEF StoreInv, FileType
<1>1. CASE ~WriteDat
  <2>1. UNCHANGED accepted
    BY <1>1, AcceptedStays
  <2>2. \A i \in DOMAIN accepted : accepted[i].day \in Days
    BY DaysOfDays
  <2> QED BY <1>0, <2>1, <2>2 DEF TailInv, InOrder
<1>2. CASE WriteDat
  <2>1. pc = "dat" /\ day' = day
    BY <1>2 DEF WriteDat
  <2>2. \A n \in DOMAIN accepted : accepted[n].id < point.id /\ n \in 1 .. Len(accepted)
    BY <2>1, NewestYet DEF StoreInv, Ledger
  <2>3. Len(accepted) \in Nat
    BY DEF StoreInv, Ledger
  <2>4. \A n \in DOMAIN accepted' :
          \/ n \in DOMAIN accepted /\ accepted'[n] = accepted[n]
          \/ n = Len(accepted) + 1 /\ accepted'[n] = [id |-> point.id, day |-> day]
    BY <1>2, AcceptedStays
  <2>5. ASSUME NEW i \in DOMAIN accepted' PROVE accepted'[i].day <= day'
    BY <1>0, <2>1, <2>4 DEF TailInv, InOrder
  <2>6. ASSUME NEW i \in DOMAIN accepted', NEW j \in DOMAIN accepted', i < j
        PROVE  accepted'[i].id < accepted'[j].id /\ accepted'[i].day <= accepted'[j].day
    <3>1. i \in DOMAIN accepted /\ accepted'[i] = accepted[i]
      BY <2>2, <2>3, <2>4, <2>6
    <3>2. CASE j \in DOMAIN accepted /\ accepted'[j] = accepted[j]
      BY <2>6, <3>1, <3>2 DEF TailInv, InOrder
    <3>3. CASE accepted'[j] = [id |-> point.id, day |-> day]
      BY <2>2, <3>1, <3>3 DEF TailInv, InOrder
    <3> QED BY <2>4, <3>2, <3>3
  <2> QED BY <2>5, <2>6 DEF InOrder
<1> QED BY <1>1, <1>2

\* A point is the one handed to append last.
LEMMA NumberedStep == ASSUME StoreInv, TailInv, [Next]_vars PROVE Numbered'
<1>1. ASSUME NEW len \in BlobLens, AppendPoint(len) PROVE Numbered'
  BY <1>1 DEF AppendPoint, Numbered
<1>2. CASE UNCHANGED <<point, issued>>
  BY <1>2 DEF Numbered, TailInv
<1>3. CASE point' = NoPoint
  BY <1>3 DEF NoPoint, Numbered
<1> QED BY <1>1, <1>2, <1>3 DEF Next, Writing, Flushing, Failing, Open, Midnight, OpenDat,
           OpenBlob, WriteBlob, WriteDat, Flush, FlushDat, FlushBlob, Kill, OpenFails,
           WriteBlobFails, WriteDatFails, FlushDatFails, FlushBlobFails, Return, vars

\* Only append adds to the writer of .dat, on the day it accepts the point for.
LEMMA OfTheDayStep == ASSUME StoreInv, TailInv, [Next]_vars PROVE OfTheDay'
<1>0. datBuf \in Seq(Cell) /\ Header \in Seq(Cell)
  BY WrittenType DEF StoreInv, FileType
<1>1. \A x, d : AcceptedOn(x, d) => AcceptedOn(x, d)'
  BY AcceptedStays
<1>2. CASE datBuf' = <<>>
  BY <1>2 DEF OfTheDay
<1>3. CASE UNCHANGED <<datBuf, datDay>>
  BY <1>1, <1>3 DEF OfTheDay, TailInv
<1>4. ASSUME NEW k \in 0 .. Len(datBuf) - 1, datBuf' = Drop(datBuf, k), datDay' = datDay
      PROVE  OfTheDay'
  <2>1. k \in 0 .. Len(datBuf)
    BY <1>0
  <2>2. \A i \in DOMAIN datBuf' : \E j \in DOMAIN datBuf : datBuf'[i] = datBuf[j]
    BY <1>0, <1>4, <2>1, PartHolds
  <2> QED BY <1>1, <1>4, <2>2 DEF OfTheDay, TailInv
<1>5. CASE WriteDat
  <2> DEFINE S == {x \in Nat : AcceptedOn(x, datDay)'}
  <2>1. pc = "dat" /\ datDay' = datDay /\ datBuf' = ToBuffer(datBuf, Header, DatCap)
    BY <1>5 DEF WriteDat
  <2>2. datDay = day
    BY <2>1 DEF StoreInv, DayInv, OneDay
  <2>3. \A i \in DOMAIN datBuf : datBuf[i].rec.id \in S
    <3>1. \A i \in DOMAIN datBuf : datBuf[i].rec.id \in Nat
      BY <1>0, CellRecord DEF Record
    <3>2. \A i \in DOMAIN datBuf : \A d : d = datDay => AcceptedOn(datBuf[i].rec.id, d)
      BY DEF TailInv, OfTheDay
    <3> QED BY <1>1, <2>1, <3>1, <3>2
  <2>4. \A i \in DOMAIN Header : Header[i].rec.id \in S
    <3>1. \A x, d : x = point.id /\ d = day => AcceptedOn(x, d)'
      BY <1>5, AcceptedStays
    <3>2. point.id \in Nat /\ \A i \in DOMAIN Header : Header[i].rec.id = point.id
      BY HeaderCells DEF StoreInv, FileType
    <3> QED BY <2>1, <2>2, <3>1, <3>2
  <2> HIDE DEF S
  <2>5. \A i \in DOMAIN datBuf' : datBuf'[i].rec.id \in S
    BY <1>0, <2>1, <2>3, <2>4, WriterHolds
  <2> QED BY <2>1, <2>5 DEF S, OfTheDay
<1> QED
  BY <1>2, <1>3, <1>4, <1>5 DEF Next, Writing, Flushing, Failing, Open, Midnight, AppendPoint,
     OpenDat, OpenBlob, WriteBlob, Flush, FlushDat, FlushBlob, Kill, OpenFails, WriteBlobFails,
     WriteDatFails, FlushDatFails, FlushBlobFails, vars

\* A crash takes what was accepted.
LEMMA LostWereStep == ASSUME StoreInv, TailInv, [Next]_vars PROVE LostWere'
<1>0. datBuf \in Seq(Cell) /\ \A i \in DOMAIN datBuf : datBuf[i].rec.id \in Ids(accepted)
  BY DEF StoreInv, FileType, Buffers
<1>1. Ids(accepted) \subseteq Ids(accepted)'
  <2>1. CASE WriteDat
    <3> DEFINE T == [id : Nat, day : Days]
               e == [id |-> point.id, day |-> day]
    <3>1. accepted \in Seq(T) /\ e \in T /\ accepted' = Append(accepted, e)
      BY <2>1 DEF StoreInv, Ledger, FileType, WriteDat
    <3> HIDE DEF T, e
    <3>2. Ids(Append(accepted, e)) = Ids(accepted) \cup {e.id}
      BY <3>1, AcceptedGrows
    <3>3. Ids(accepted)' = Ids(Append(accepted, e))
      BY <3>1 DEF Ids
    <3> QED BY <3>2, <3>3
  <2>2. CASE ~WriteDat
    BY <2>2, AcceptedStays DEF Ids
  <2> QED BY <2>1, <2>2
<1>2. ASSUME NEW k \in 0 .. Len(datBuf)
      PROVE  {datBuf[i].rec.id : i \in k + 1 .. Len(datBuf)} \subseteq Ids(accepted)
  BY <1>0
<1>3. CASE UNCHANGED lost
  BY <1>1, <1>3 DEF TailInv, LostWere
<1>4. ASSUME NEW k \in 0 .. Len(datBuf),
             lost' = lost \cup {datBuf[i].rec.id : i \in k + 1 .. Len(datBuf)}
      PROVE  LostWere'
  BY <1>1, <1>2, <1>4 DEF TailInv, LostWere
<1>5. CASE Kill
  <2>1. PICK k \in Torn(pc = "flushDat" \/ (pc = "dat" /\ Len(datBuf) + Parts > DatCap), datBuf) :
          lost' = lost \cup {datBuf[i].rec.id : i \in k + 1 .. Len(datBuf)}
    BY <1>5 DEF Kill
  <2>2. k \in 0 .. Len(datBuf)
    BY <1>0, <2>1 DEF Torn
  <2> QED BY <1>4, <2>1, <2>2
<1>6. CASE FlushDatFails
  <2>1. PICK k \in 0 .. Len(datBuf) - 1 :
          \/ lost' = lost \cup {datBuf[i].rec.id : i \in k + 1 .. Len(datBuf)}
          \/ lost' = lost
    BY <1>6 DEF FlushDatFails
  <2>2. k \in 0 .. Len(datBuf)
    BY <1>0
  <2> QED BY <1>3, <1>4, <2>1, <2>2
<1> QED
  BY <1>3, <1>5, <1>6 DEF Next, Writing, Flushing, Failing, Open, Midnight, AppendPoint,
     OpenDat, OpenBlob, WriteBlob, WriteDat, Flush, FlushDat, FlushBlob, OpenFails,
     WriteBlobFails, WriteDatFails, FlushBlobFails, vars

\* Every change of the current day sweeps.
LEMMA WindowStep == ASSUME StoreInv, TailInv, [Next]_vars PROVE Window'
<1>0. /\ day \in Days /\ datDay \in Days /\ point.day \in Days /\ today \in Days
      /\ Retention \in Nat /\ days \subseteq Days
  BY DEF StoreInv, FileType, Calendar
<1>1. ASSUME NEW d \in Days, SweepAt(d, Retention), day' = d PROVE Window'
  BY <1>0, <1>1 DEF SweepAt, Stale, Window
<1>2. CASE Open \/ OpenBlob
  BY <1>0, <1>1, <1>2 DEF Open, OpenBlob
<1>3. CASE OpenDat
  <2>1. day < point.day
    BY <1>3 DEF OpenDat, StoreInv, DayInv, Forward, Rotating
  <2> QED BY <1>0, <1>3, <2>1 DEF OpenDat, Window, TailInv
<1>4. CASE UNCHANGED <<days, day>>
  BY <1>4 DEF Window, TailInv
<1> QED
  BY <1>2, <1>3, <1>4 DEF Next, Writing, Flushing, Failing, Midnight, AppendPoint,
     WriteBlob, WriteDat, Flush, FlushDat, FlushBlob, Kill, OpenFails,
     WriteBlobFails, WriteDatFails, FlushDatFails, FlushBlobFails, vars

\* Cells written in three parts.
LEMMA FileAssociates == \A u, v, w \in Seq(Cell) : (u \o v) \o w = u \o (v \o w)
<1> DEFINE T == Cell
<1> HIDE DEF T
<1>1. \A u, v, w \in Seq(T) : (u \o v) \o w = u \o (v \o w)
  <2>1. Associates(T)
    BY AnyConcatAssociates, Zenon
  <2> QED BY <2>1, Zenon DEF Associates
<1> QED BY <1>1 DEF T

\* What is written of each day.
LEMMA WrittenIs ==
  ASSUME FileType
  PROVE  \A d \in Days : /\ Written(d) \in Seq(Cell)
                         /\ d = datDay => Written(d) = dat[d] \o datBuf
                         /\ d # datDay \/ datBuf = <<>> => Written(d) = dat[d]
<1> SUFFICES ASSUME NEW d \in Days
             PROVE  /\ Written(d) \in Seq(Cell)
                    /\ d = datDay => Written(d) = dat[d] \o datBuf
                    /\ d # datDay \/ datBuf = <<>> => Written(d) = dat[d]
  OBVIOUS
<1>1. dat[d] \in Seq(Cell) /\ datBuf \in Seq(Cell) /\ <<>> \in Seq(Cell)
  BY DEF FileType
<1>2. \A u, v \in Seq(Cell) : u \o v \in Seq(Cell) /\ u \o <<>> = u
  OBVIOUS
<1> QED BY <1>1, <1>2, Zenon DEF Written

\* A step that moves cells from the writer to .dat, after z was added to it.
LEMMA WrittenMoves ==
  ASSUME FileType, NEW x \in Seq(Cell), NEW y \in Seq(Cell), NEW z \in Seq(Cell),
         x \o y = datBuf \o z, datDay' = datDay,
         dat' = [dat EXCEPT ![datDay] = @ \o x], datBuf' = y
  PROVE  /\ \A d \in Days : d = datDay => Written(d)' = Written(d) \o z
         /\ \A d \in Days : d # datDay => Written(d)' = Written(d)
<1>1. datBuf \in Seq(Cell) /\ datDay \in Days /\ dat \in [Days -> Seq(Cell)]
  BY DEF FileType
<1>2. ASSUME NEW d \in Days, d = datDay PROVE Written(d)' = Written(d) \o z
  <2>1. Written(d)' = (dat[d] \o x) \o y /\ Written(d) = dat[d] \o datBuf
    <3>1. dat'[d] = dat[d] \o x
      BY <1>1, <1>2
    <3> QED BY <1>2, <3>1 DEF Written
  <2>2. dat[d] \in Seq(Cell)
    BY <1>1
  <2>3. (dat[d] \o x) \o y = dat[d] \o (x \o y)
    BY <2>2, FileAssociates, Zenon
  <2>4. dat[d] \o (datBuf \o z) = (dat[d] \o datBuf) \o z
    BY <1>1, <2>2, FileAssociates, Zenon
  <2> QED BY <2>1, <2>3, <2>4, Zenon
<1>3. ASSUME NEW d \in Days, d # datDay PROVE Written(d)' = Written(d)
  <2>1. dat'[d] = dat[d]
    BY <1>1, <1>3
  <2> QED BY <1>3, <2>1, Zenon DEF Written
<1> QED BY <1>2, <1>3

\* A day is laid out as long as what is written of it stays, or goes altogether.
LEMMA LaidKeeps ==
  ASSUME StoreInv, TailInv, [Next]_vars, lost' = lost, torn \subseteq torn',
         \A d \in Days : Written(d)' = Written(d) \/ Written(d)' = <<>>
  PROVE  LaidOut'
<1> SUFFICES ASSUME NEW d \in Days \ torn' PROVE \E r \in Seq(Record) : RecordsOf(d, r)'
  BY DEF LaidOut
<1>1. CASE Written(d)' = Written(d)
  <2>1. PICK r \in Seq(Record) : RecordsOf(d, r)
    BY DEF TailInv, LaidOut
  <2>2. RecordsOf(d, r)'
    BY <1>1, <2>1, AcceptedStays DEF RecordsOf, Laid
  <2> QED BY <2>1, <2>2
<1>2. CASE Written(d)' = <<>>
  <2>1. <<>> \in Seq(Record) /\ Len(<<>>) = 0 /\ 0 * Parts = 0
    OBVIOUS
  <2>2. RecordsOf(d, <<>>)'
    BY <1>2, <2>1 DEF RecordsOf, Laid
  <2> QED BY <2>1, <2>2
<1> QED BY <1>1, <1>2

\* A header is one record more for its day.
LEMMA LaidWrites == ASSUME StoreInv, TailInv, WriteDat PROVE LaidOut'
<1> DEFINE rec == [id |-> point.id, off |-> off, len |-> point.len]
           x == ToFile(datBuf, Header, DatCap)
           y == ToBuffer(datBuf, Header, DatCap)
<1>1. /\ FileType /\ datBuf \in Seq(Cell) /\ Header \in Seq(Cell) /\ Header = Cells(rec)
      /\ rec \in Record /\ rec.id = point.id
  BY WrittenType DEF StoreInv, FileType, Header, Record
<1>2. /\ pc = "dat" /\ datDay' = datDay /\ dat' = [dat EXCEPT ![datDay] = @ \o x] /\ datBuf' = y
      /\ UNCHANGED <<lost, torn>>
  BY DEF WriteDat
<1>3. datDay = day
  BY <1>2 DEF StoreInv, DayInv, OneDay
<1>4. x \in Seq(Cell) /\ y \in Seq(Cell) /\ x \o y = datBuf \o Header
  <2> DEFINE T == Cell
  <2>1. datBuf \in Seq(T) /\ Header \in Seq(T)
    BY <1>1
  <2> HIDE DEF T
  <2>2. x \in Seq(T) /\ y \in Seq(T) /\ x \o y = datBuf \o Header
    BY <2>1, WriterWhole, SMTT(30)
  <2> QED BY <2>2 DEF T
<1> HIDE DEF x, y, rec
<1>5. /\ \A d \in Days : d = datDay => Written(d)' = Written(d) \o Header
      /\ \A d \in Days : d # datDay => Written(d)' = Written(d)
  BY <1>1, <1>2, <1>4, WrittenMoves
<1>6. /\ \A id, d : AcceptedOn(id, d) => AcceptedOn(id, d)'
      /\ \A id, d : id = point.id /\ d = day => AcceptedOn(id, d)'
  <2>1. [Next]_vars
    BY DEF Next, Writing
  <2> QED BY <2>1, AcceptedStays
<1> SUFFICES ASSUME NEW d \in Days \ torn' PROVE \E r \in Seq(Record) : RecordsOf(d, r)'
  BY DEF LaidOut
<1>7. PICK r \in Seq(Record) : RecordsOf(d, r)
  BY <1>2 DEF TailInv, LaidOut
<1>8. CASE d # datDay
  <2>1. RecordsOf(d, r)'
    BY <1>2, <1>5, <1>6, <1>7, <1>8 DEF RecordsOf, Laid
  <2> QED BY <2>1
<1>9. CASE d = datDay
  <2> DEFINE longer == r \o <<rec>>
  <2>0. PICK q : q = longer
    OBVIOUS
  <2>1. Laid(Written(d) \o Cells(rec), q) /\ q \in Seq(Record)
    <3>1. Written(d) \in Seq(Cell)
      BY <1>1, WrittenIs
    <3> QED BY <1>1, <1>7, <2>0, <3>1, LaidGrows DEF RecordsOf
  <2>2. /\ Len(q) = Len(r) + 1 /\ Len(r) \in Nat /\ q[Len(r) + 1] = rec
        /\ \A i \in 1 .. Len(r) : q[i] = r[i]
    <3> DEFINE one == <<rec>>
    <3>1. one \in Seq(Record) /\ Len(one) = 1 /\ one[1] = rec
      BY <1>1
    <3> DEFINE T == Record
    <3>2. r \in Seq(T) /\ one \in Seq(T)
      BY <3>1
    <3> HIDE DEF one, T
    <3>3. /\ Len(r \o one) = Len(r) + Len(one) /\ Len(r) \in Nat
          /\ \A i \in 1 .. Len(r) : (r \o one)[i] = r[i]
          /\ \A i \in 1 .. Len(one) : (r \o one)[Len(r) + i] = one[i]
      BY <3>2, ConcatParts
    <3>4. 1 \in 1 .. Len(one)
      BY <3>1
    <3>5. (r \o one)[Len(r) + 1] = rec
      BY <3>1, <3>3, <3>4
    <3>6. q = r \o one
      BY <2>0 DEF one
    <3> QED BY <3>1, <3>3, <3>5, <3>6
  <2> HIDE DEF longer
  <2>3. Laid(Written(d)', q)
    <3>1. Written(d)' = Written(d) \o Cells(rec)
      BY <1>1, <1>5, <1>9
    <3> QED BY <2>1, <3>1, Zenon
  <2>4. \A i \in 1 .. Len(r) : /\ r[i].id < point.id /\ r[i].id \notin lost
                               /\ AcceptedOn(r[i].id, d)'
    BY <1>2, <1>6, <1>7, NewestYet DEF RecordsOf
  <2>5. \A i \in 1 .. Len(q) : i \in 1 .. Len(r) \/ i = Len(r) + 1
    BY <2>2
  <2>6. ASSUME NEW i \in 1 .. Len(q), NEW j \in 1 .. Len(q), i < j PROVE q[i].id < q[j].id
    <3>1. i \in 1 .. Len(r) /\ q[i] = r[i]
      BY <2>2, <2>6
    <3>2. CASE j = Len(r) + 1
      BY <1>1, <2>2, <2>4, <3>1, <3>2
    <3>3. CASE j \in 1 .. Len(r)
      BY <1>7, <2>2, <2>6, <3>1, <3>3 DEF RecordsOf
    <3> QED BY <2>5, <3>2, <3>3
  <2>7. ASSUME NEW i \in 1 .. Len(q) PROVE q[i].id \notin lost' /\ AcceptedOn(q[i].id, d)'
    <3>1. CASE i \in 1 .. Len(r)
      BY <1>2, <2>2, <2>4, <3>1
    <3>2. CASE i = Len(r) + 1
      <4>1. q[i].id = point.id /\ point.id \notin lost
        BY <1>1, <1>2, <2>2, <3>2, NewestYet
      <4> QED BY <1>2, <1>3, <1>6, <1>9, <4>1
    <3> QED BY <2>5, <3>1, <3>2
  <2>8. \A i \in 1 .. Len(q) : AcceptedOn(q[i].id, d)' /\ q[i].id \notin lost'
    BY <2>7
  <2>9. RecordsOf(d, q)'
    BY <2>3, <2>6, <2>8 DEF RecordsOf, Laid
  <2> QED BY <2>1, <2>9
<1> QED BY <1>8, <1>9

\* The process ends, or Drop gives up: what reached the file of an untorn day is whole
\* records, and what is lost comes after them.
LEMMA LaidEnds ==
  ASSUME StoreInv, TailInv, [Next]_vars, ~WriteDat, NEW k \in 0 .. Len(datBuf),
         dat' = [dat EXCEPT ![datDay] = @ \o SubSeq(datBuf, 1, k)], datBuf' = <<>>,
         lost' = lost \cup {datBuf[i].rec.id : i \in k + 1 .. Len(datBuf)},
         torn \subseteq torn', Len(dat'[datDay]) % Parts # 0 => datDay \in torn'
  PROVE  LaidOut'
<1> DEFINE x == SubSeq(datBuf, 1, k)
           y == Drop(datBuf, k)
<1>1. /\ FileType /\ datBuf \in Seq(Cell) /\ datDay \in Days /\ dat \in [Days -> Seq(Cell)]
      /\ <<>> \in Seq(Cell)
  BY DEF StoreInv, FileType
<1>2. /\ x \in Seq(Cell) /\ y \in Seq(Cell) /\ x \o y = datBuf
      /\ \A id : id \in lost' => id \in lost \/ \E c \in DOMAIN y : y[c].rec.id = id
  <2>1. x \in Seq(Cell) /\ y \in Seq(Cell) /\ x \o y = datBuf
    BY <1>1, CompleteSplit
  <2>2. /\ DOMAIN y = 1 .. Len(datBuf) - k /\ k \in Nat /\ Len(datBuf) \in Nat
        /\ \A i \in 1 .. Len(datBuf) - k : y[i] = datBuf[k + i]
    BY <1>1 DEF Drop
  <2>3. ASSUME NEW i \in k + 1 .. Len(datBuf)
        PROVE  \E c \in DOMAIN y : y[c].rec.id = datBuf[i].rec.id
    <3>1. i - k \in 1 .. Len(datBuf) - k /\ k + (i - k) = i
      BY <2>2
    <3> HIDE DEF y
    <3> QED BY <2>2, <3>1
  <2> HIDE DEF y
  <2> QED BY <2>1, <2>3
<1>3. \A d \in Days : d # datDay => dat'[d] = dat[d]
  BY <1>1
<1>4. dat'[datDay] = dat[datDay] \o x
  BY <1>1
<1>5. FileType' /\ \A d \in Days : Written(d)' = dat'[d]
  <2>1. FileType'
    BY StoreInvStep DEF StoreInv
  <2>2. ASSUME NEW d \in Days PROVE Written(d)' = dat'[d]
    <3>1. dat'[d] \in Seq(Cell)
      BY <2>1 DEF FileType
    <3>2. \A u \in Seq(Cell) : u \o <<>> = u
      OBVIOUS
    <3> QED BY <3>1, <3>2, Zenon DEF Written
  <2> QED BY <2>1, <2>2
<1> HIDE DEF x, y
<1> SUFFICES ASSUME NEW d \in Days \ torn' PROVE \E r \in Seq(Record) : RecordsOf(d, r)'
  BY DEF LaidOut
<1>6. PICK r \in Seq(Record) : RecordsOf(d, r)
  BY DEF TailInv, LaidOut
<1>7. \A i \in 1 .. Len(r) : AcceptedOn(r[i].id, d) /\ AcceptedOn(r[i].id, d)' /\ r[i].id \notin lost
  BY <1>6, AcceptedStays DEF RecordsOf
<1>8. CASE d # datDay
  <2>1. Written(d)' = Written(d)
    BY <1>1, <1>3, <1>5, <1>8, WrittenIs
  <2>2. ASSUME NEW i \in 1 .. Len(r) PROVE r[i].id \notin lost'
    <3> SUFFICES ASSUME r[i].id \in lost' PROVE FALSE
      OBVIOUS
    <3>1. PICK c \in k + 1 .. Len(datBuf) : datBuf[c].rec.id = r[i].id
      BY <1>7
    <3>2. c \in DOMAIN datBuf
      BY <1>1
    <3>3. AcceptedOn(r[i].id, datDay)
      BY <3>1, <3>2 DEF TailInv, OfTheDay
    <3>4. r[i].id \in Nat
      <4>1. r[i] \in Record
        BY <1>6
      <4> QED BY <4>1 DEF Record
    <3>5. d < datDay \/ datDay < d
      BY <1>1, <1>8
    <3>6. r[i].id < r[i].id
      BY <1>1, <1>7, <3>3, <3>5, DaysOrder DEF TailInv
    <3> QED BY <3>4, <3>6
  <2>3. RecordsOf(d, r)'
    BY <1>6, <1>7, <2>1, <2>2 DEF RecordsOf, Laid
  <2> QED BY <2>3
<1>9. CASE d = datDay
  <2> DEFINE s == dat[d] \o x
  <2>1. s \in Seq(Cell) /\ Written(d)' = s /\ Written(d) = s \o y
    <3>1. dat[d] \in Seq(Cell)
      BY <1>1
    <3>2. Written(d) = dat[d] \o datBuf
      BY <1>1, <1>9, WrittenIs
    <3>3. dat[d] \o (x \o y) = (dat[d] \o x) \o y
      BY <1>2, <3>1, FileAssociates, Zenon
    <3>4. \A u, v \in Seq(Cell) : u \o v \in Seq(Cell)
      OBVIOUS
    <3>5. Written(d)' = dat[d] \o x
      BY <1>4, <1>5, <1>9
    <3> QED BY <1>2, <3>1, <3>2, <3>3, <3>4, <3>5, Zenon
  <2>2. Len(s) % Parts = 0
    <3>1. dat'[datDay] = s
      BY <1>4, <1>9
    <3> QED BY <1>9, <3>1
  <2> HIDE DEF s
  <2>3. PICK m \in 0 .. Len(r) : CutAt(s, y, r, m)
    <3>1. Laid(s \o y, r)
      BY <1>6, <2>1 DEF RecordsOf
    <3>2. s \in Seq(Cell) /\ y \in Seq(Cell) /\ r \in Seq(Record)
      BY <1>2, <1>6, <2>1
    <3> QED BY <2>2, <3>1, <3>2, LaidCut, Zenon
  <2> DEFINE q == SubSeq(r, 1, m)
  <2>4. Len(q) = m /\ \A i \in 1 .. m : q[i] = r[i] /\ i \in 1 .. Len(r)
    OBVIOUS
  <2> HIDE DEF q
  <2>5. ASSUME NEW i \in 1 .. m PROVE r[i].id \notin lost'
    <3> SUFFICES ASSUME r[i].id \in lost' PROVE FALSE
      OBVIOUS
    <3>1. PICK c \in DOMAIN y : y[c].rec.id = r[i].id
      BY <1>2, <1>7, <2>4
    <3>2. PICK j \in m + 1 .. Len(r) : y[c].rec = r[j]
      BY <2>3 DEF CutAt
    <3>3. Len(r) \in Nat /\ m \in Nat /\ m <= Len(r)
      OBVIOUS
    <3>4. i \in 1 .. Len(r) /\ j \in 1 .. Len(r) /\ i < j
      BY <3>3
    <3>5. r[i].id < r[j].id
      BY <1>6, <3>4 DEF RecordsOf
    <3>6. r[i].id \in Nat
      <4>1. r[i] \in Record
        BY <1>6, <3>4
      <4> QED BY <4>1 DEF Record
    <3> QED BY <3>1, <3>2, <3>5, <3>6
  <2>6. Laid(Written(d)', q)
    BY <2>1, <2>3 DEF q, CutAt
  <2>7. \A i, j \in 1 .. Len(q) : i < j => q[i].id < q[j].id
    BY <1>6, <2>4 DEF RecordsOf
  <2>8. \A i \in 1 .. Len(q) : q[i].id \notin lost' /\ AcceptedOn(q[i].id, d)'
    BY <1>7, <2>4, <2>5
  <2>9. RecordsOf(d, q)'
    BY <2>6, <2>7, <2>8 DEF RecordsOf, Laid
  <2> QED BY <2>3, <2>9 DEF q, CutAt
<1> QED BY <1>8, <1>9

\* Every step leaves whole records on every day that is not torn.
LEMMA LaidOutStep == ASSUME StoreInv, TailInv, [Next]_vars PROVE LaidOut'
<1>0. /\ FileType /\ datBuf \in Seq(Cell) /\ datDay \in Days /\ <<>> \in Seq(Cell)
      /\ dat \in [Days -> Seq(Cell)] /\ Len(datBuf) \in Nat
      /\ \A u \in Seq(Cell) : u \o <<>> = u /\ <<>> \o u = u
  BY DEF StoreInv, FileType
\* What the writer holds goes to its file, or stays.
<1>1. ASSUME NEW x \in Seq(Cell), NEW y \in Seq(Cell), x \o y = datBuf, datDay' = datDay,
             dat' = [dat EXCEPT ![datDay] = @ \o x], datBuf' = y, lost' = lost, torn' = torn
      PROVE  LaidOut'
  <2>1. x \o y = datBuf \o <<>>
    BY <1>0, <1>1
  <2>2. /\ \A d \in Days : d = datDay => Written(d)' = Written(d) \o <<>>
        /\ \A d \in Days : d # datDay => Written(d)' = Written(d)
    BY <1>0, <1>1, <2>1, WrittenMoves
  <2>3. \A d \in Days : Written(d) \o <<>> = Written(d)
    BY <1>0, WrittenIs
  <2>4. \A d \in Days : Written(d)' = Written(d)
    BY <2>2, <2>3
  <2> QED BY <1>1, <2>4, LaidKeeps
<1>2. ASSUME NEW k \in 0 .. Len(datBuf) - 1, datDay' = datDay, datBuf' = Drop(datBuf, k),
             dat' = [dat EXCEPT ![datDay] = @ \o SubSeq(datBuf, 1, k)], lost' = lost, torn' = torn
      PROVE  LaidOut'
  <2>1. k \in 0 .. Len(datBuf)
    BY <1>0
  <2>2. /\ SubSeq(datBuf, 1, k) \in Seq(Cell) /\ Drop(datBuf, k) \in Seq(Cell)
        /\ SubSeq(datBuf, 1, k) \o Drop(datBuf, k) = datBuf
    BY <1>0, <2>1, CompleteSplit
  <2> QED BY <1>1, <1>2, <2>2
<1>3. ASSUME NEW e \in Days, SweepAt(e, Retention), datBuf = <<>>, datBuf' = <<>>,
             lost' = lost, torn' = torn
      PROVE  LaidOut'
  <2>1. \A d \in Days : dat'[d] = dat[d] \/ dat'[d] = <<>>
    BY <1>3 DEF SweepAt
  <2>2. FileType'
    BY StoreInvStep DEF StoreInv
  <2>3. \A d \in Days : Written(d) = dat[d] /\ Written(d)' = dat'[d]
    <3>1. \A d \in Days : dat'[d] \in Seq(Cell)
      BY <2>2 DEF FileType
    <3> QED BY <1>0, <1>3, <3>1, Zenon DEF Written
  <2>4. \A d \in Days : Written(d)' = Written(d) \/ Written(d)' = <<>>
    BY <2>1, <2>3
  <2> QED BY <1>3, <2>4, LaidKeeps
<1>4. ASSUME ~WriteDat, NEW k \in 0 .. Len(datBuf), datBuf' = <<>>,
             dat' = [dat EXCEPT ![datDay] = @ \o SubSeq(datBuf, 1, k)],
             lost' = lost \cup {datBuf[i].rec.id : i \in k + 1 .. Len(datBuf)},
             torn \subseteq torn', Len(dat'[datDay]) % Parts # 0 => datDay \in torn'
      PROVE  LaidOut'
  BY <1>4, LaidEnds
<1>5. CASE Open \/ OpenBlob
  <2>1. datBuf = <<>> /\ datBuf' = <<>> /\ lost' = lost /\ torn' = torn
    BY <1>5 DEF Open, OpenBlob, StoreInv, Buffers
  <2>2. \E e \in Days : SweepAt(e, Retention)
    BY <1>5 DEF Open, OpenBlob, StoreInv, FileType
  <2> QED BY <1>3, <2>1, <2>2
<1>6. CASE OpenDat
  <2>1. datBuf = <<>> /\ datBuf' = <<>> /\ lost' = lost /\ torn' = torn /\ dat' = dat
    BY <1>6 DEF OpenDat, StoreInv, Buffers
  <2>2. \A d \in Days : Written(d)' = Written(d)
    BY <2>1, Zenon DEF Written
  <2> QED BY <2>1, <2>2, LaidKeeps
<1>7. CASE Kill
  <2>1. PICK k \in Torn(pc = "flushDat" \/ (pc = "dat" /\ Len(datBuf) + Parts > DatCap), datBuf) :
          /\ dat' = [dat EXCEPT ![datDay] = @ \o SubSeq(datBuf, 1, k)]
          /\ lost' = lost \cup {datBuf[i].rec.id : i \in k + 1 .. Len(datBuf)}
    BY <1>7 DEF Kill
  <2>2. k \in 0 .. Len(datBuf)
    BY <1>0, <2>1 DEF Torn
  <2>3. /\ datBuf' = <<>> /\ torn \subseteq torn' /\ ~WriteDat
        /\ Len(dat'[datDay]) % Parts # 0 => datDay \in torn'
    BY <1>0, <1>7 DEF Kill, WriteDat, Return
  <2> QED BY <1>4, <2>1, <2>2, <2>3
<1>8. CASE FlushDatFails
  <2>1. PICK k \in 0 .. Len(datBuf) - 1 :
          /\ dat' = [dat EXCEPT ![datDay] = @ \o SubSeq(datBuf, 1, k)]
          /\ IF next = "closed"
               THEN /\ datBuf' = <<>>
                    /\ lost' = lost \cup {datBuf[i].rec.id : i \in k + 1 .. Len(datBuf)}
                    /\ torn' = IF Len(dat'[datDay]) % Parts = 0 THEN torn
                               ELSE torn \cup {datDay}
               ELSE datBuf' = Drop(datBuf, k) /\ lost' = lost /\ torn' = torn
    BY <1>8 DEF FlushDatFails
  <2>2. CASE next = "closed"
    <3>1. k \in 0 .. Len(datBuf)
      BY <1>0
    <3>2. ~WriteDat
      BY <1>8 DEF FlushDatFails, WriteDat
    <3>3. torn \subseteq torn' /\ (Len(dat'[datDay]) % Parts # 0 => datDay \in torn')
      BY <2>1, <2>2
    <3> QED BY <1>4, <2>1, <2>2, <3>1, <3>2, <3>3
  <2>3. CASE next # "closed"
    <3>1. datDay' = datDay
      BY <1>8 DEF FlushDatFails
    <3> QED BY <1>2, <2>1, <2>3, <3>1
  <2> QED BY <2>2, <2>3
<1>9. CASE WriteDatFails
  <2>1. PICK k \in 0 .. Len(datBuf) - 1 :
          /\ dat' = [dat EXCEPT ![datDay] = @ \o SubSeq(datBuf, 1, k)]
          /\ datBuf' = Drop(datBuf, k)
    BY <1>9 DEF WriteDatFails
  <2>2. datDay' = datDay /\ lost' = lost /\ torn' = torn
    BY <1>9 DEF WriteDatFails
  <2> QED BY <1>2, <2>1, <2>2
<1>10. CASE FlushDat
  <2>1. datDay' = datDay /\ lost' = lost /\ torn' = torn /\ datBuf' = <<>>
        /\ dat' = [dat EXCEPT ![datDay] = @ \o datBuf] /\ datBuf \o <<>> = datBuf
    BY <1>0, <1>10 DEF FlushDat
  <2> QED BY <1>0, <1>1, <2>1
<1>11. CASE WriteDat
  BY <1>11, LaidWrites
<1>12. CASE UNCHANGED <<dat, datBuf, datDay, lost, torn>>
  <2>1. \A d \in Days : Written(d)' = Written(d)
    BY <1>12, Zenon DEF Written
  <2> QED BY <1>12, <2>1, LaidKeeps
<1> QED
  BY <1>5, <1>6, <1>7, <1>8, <1>9, <1>10, <1>11, <1>12 DEF Next, Writing, Flushing, Failing,
     Midnight, AppendPoint, WriteBlob, Flush, FlushBlob, OpenFails, WriteBlobFails,
     FlushBlobFails, vars

\* A store that has never been opened has nothing on any day.
LEMMA TailInvInit == Init => TailInv
<1> SUFFICES ASSUME Init PROVE TailInv
  OBVIOUS
<1>1. InOrder /\ Numbered /\ OfTheDay /\ LostWere /\ Window
  BY DEF Init, InOrder, Numbered, OfTheDay, LostWere, Window, NoPoint
<1>2. ASSUME NEW d \in Days PROVE \E r \in Seq(Record) : RecordsOf(d, r)
  <2>1. FileType /\ datBuf = <<>> /\ dat[d] = <<>>
    BY FileTypeInit DEF Init
  <2>2. Written(d) = <<>>
    BY <2>1, WrittenIs
  <2>3. <<>> \in Seq(Record) /\ Len(<<>>) = 0 /\ 0 * Parts = 0
    OBVIOUS
  <2>4. RecordsOf(d, <<>>)
    BY <2>2, <2>3 DEF RecordsOf, Laid
  <2> QED BY <2>3, <2>4
<1> QED BY <1>1, <1>2 DEF TailInv, LaidOut

\* The days are laid out in every reachable state.
THEOREM TailInvHolds == Spec => [](StoreInv /\ TailInv)
<1>1. StoreInv /\ TailInv /\ [Next]_vars => (StoreInv /\ TailInv)'
  BY StoreInvStep, InOrderStep, NumberedStep, OfTheDayStep, LostWereStep, WindowStep, LaidOutStep
     DEF TailInv
<1> QED BY <1>1, StoreInvInit, TailInvInit, PTL DEF Spec

-----------------------------------------------------------------------------
(* The tail of a set of points.                                              *)

\* The points as read_tail returns them.
Points == {Stitched(rec, blob[d]) : rec \in Record, d \in Days}

\* t holds the newest of the points in S, in order, all of them or as many as asked for.
TailOf(t, S, limit) ==
  /\ Len(t) <= limit
  /\ \A i, j \in 1 .. Len(t) : i < j => t[i].id < t[j].id
  /\ \A i \in 1 .. Len(t) : \E a \in S : a.id = t[i].id
  /\ \A a \in S : \/ \E i \in 1 .. Len(t) : t[i].id = a.id
                  \/ Len(t) = limit /\ \A i \in 1 .. Len(t) : a.id < t[i].id

\* The tail of older points before the tail of newer ones.
LEMMA TailsJoin ==
  ASSUME NEW T, NEW t \in Seq(T), NEW u \in Seq(T), NEW A, NEW B, NEW limit \in Int,
         TailOf(t, A, limit), TailOf(u, B, limit - Len(t)),
         \A a \in A, b \in B : b.id < a.id
  PROVE  u \o t \in Seq(T) /\ TailOf(u \o t, A \cup B, limit)
<1> DEFINE v == u \o t
           m == Len(u)
           n == Len(t)
<1>1. /\ v \in Seq(T) /\ Len(v) = m + n /\ m \in Nat /\ n \in Nat
      /\ \A i \in 1 .. m : v[i] = u[i]
      /\ \A i \in 1 .. n : v[m + i] = t[i]
  BY ConcatParts
<1> HIDE DEF v, m, n
<1>2. n <= limit /\ m <= limit - n
  BY DEF TailOf, m, n
<1>3. ASSUME NEW i \in 1 .. m + n
      PROVE  \/ i \in 1 .. m /\ v[i] = u[i]
             \/ \E k \in 1 .. n : i = m + k /\ v[i] = t[k]
  <2>1. CASE i <= m
    BY <1>1, <2>1
  <2>2. CASE ~(i <= m)
    <3>1. i - m \in 1 .. n /\ i = m + (i - m)
      BY <1>1, <2>2
    <3> QED BY <1>1, <3>1
  <2> QED BY <2>1, <2>2
<1>4. /\ \A i \in 1 .. m : \E b \in B : b.id = u[i].id
      /\ \A i \in 1 .. n : \E a \in A : a.id = t[i].id
  BY DEF TailOf, m, n
<1>5. ASSUME NEW i \in 1 .. m, NEW k \in 1 .. n PROVE u[i].id < t[k].id
  BY <1>4
<1>6. ASSUME NEW i \in 1 .. m + n, NEW j \in 1 .. m + n, i < j PROVE v[i].id < v[j].id
  <2>1. CASE i \in 1 .. m /\ v[i] = u[i]
    <3>1. CASE j \in 1 .. m /\ v[j] = u[j]
      BY <1>6, <2>1, <3>1 DEF TailOf, m
    <3>2. CASE \E k \in 1 .. n : j = m + k /\ v[j] = t[k]
      BY <1>5, <2>1, <3>2
    <3> QED BY <1>3, <3>1, <3>2
  <2>2. ASSUME NEW k \in 1 .. n, i = m + k, v[i] = t[k] PROVE v[i].id < v[j].id
    <3>1. CASE j \in 1 .. m /\ v[j] = u[j]
      BY <1>1, <1>6, <2>2, <3>1
    <3>2. ASSUME NEW l \in 1 .. n, j = m + l, v[j] = t[l] PROVE v[i].id < v[j].id
      <4>1. k < l
        BY <1>1, <1>6, <2>2, <3>2
      <4>2. t[k].id < t[l].id
        BY <4>1 DEF TailOf, n
      <4> QED BY <2>2, <3>2, <4>2
    <3> QED BY <1>3, <3>1, <3>2
  <2> QED BY <1>3, <2>1, <2>2
<1>7. ASSUME NEW i \in 1 .. m + n PROVE \E a \in A \cup B : a.id = v[i].id
  BY <1>3, <1>4
<1>8. ASSUME NEW a \in A
      PROVE  \/ \E i \in 1 .. m + n : v[i].id = a.id
             \/ m + n = limit /\ \A i \in 1 .. m + n : a.id < v[i].id
  <2>1. CASE \E i \in 1 .. n : t[i].id = a.id
    <3>1. PICK i \in 1 .. n : t[i].id = a.id
      BY <2>1
    <3>2. m + i \in 1 .. m + n /\ v[m + i] = t[i]
      BY <1>1
    <3> QED BY <3>1, <3>2
  <2>2. CASE n = limit /\ \A i \in 1 .. n : a.id < t[i].id
    <3>1. m = 0
      BY <1>1, <1>2, <2>2
    <3>2. \A i \in 1 .. m + n : \E k \in 1 .. n : v[i] = t[k]
      BY <1>1, <1>3, <3>1
    <3>3. m + n = limit
      BY <1>1, <2>2, <3>1
    <3>4. \A i \in 1 .. m + n : a.id < v[i].id
      BY <2>2, <3>2
    <3> QED BY <3>3, <3>4
  <2> QED BY <2>1, <2>2 DEF TailOf, n
<1>9. ASSUME NEW b \in B
      PROVE  \/ \E i \in 1 .. m + n : v[i].id = b.id
             \/ m + n = limit /\ \A i \in 1 .. m + n : b.id < v[i].id
  <2>1. CASE \E i \in 1 .. m : u[i].id = b.id
    <3>1. PICK i \in 1 .. m : u[i].id = b.id
      BY <2>1
    <3>2. i \in 1 .. m + n /\ v[i] = u[i]
      BY <1>1
    <3> QED BY <3>1, <3>2
  <2>2. CASE m = limit - n /\ \A i \in 1 .. m : b.id < u[i].id
    <3>1. m + n = limit
      BY <1>1, <2>2
    <3>2. \A k \in 1 .. n : b.id < t[k].id
      BY <1>4
    <3> QED BY <1>3, <2>2, <3>1, <3>2
  <2> QED BY <2>1, <2>2 DEF TailOf, m, n
<1>10. TailOf(v, A \cup B, limit)
  <2>1. m + n <= limit
    BY <1>1, <1>2
  <2>2. \A a \in A \cup B :
          \/ \E i \in 1 .. m + n : v[i].id = a.id
          \/ m + n = limit /\ \A i \in 1 .. m + n : a.id < v[i].id
    BY <1>8, <1>9
  <2> QED BY <1>1, <1>6, <1>7, <2>1, <2>2 DEF TailOf
<1> QED BY <1>1, <1>10 DEF v

\* What is read of a day are points.
LEMMA ReadType ==
  ASSUME FileType, NEW d \in Days, NEW limit \in Int
  PROVE  ReadDayTail(d, limit) \in Seq(Points)
<1> DEFINE ss == Chunks(d, limit)
           N == Take(d, limit)
           st(i) == Stitched(Decode(Chunk(d, limit, i)), blob[d])
           T == Points
<1>1. \A i \in 1 .. N : ss[i] = <<>> \/ ss[i] = <<st(i)>>
  BY DEF Chunks, ReadChunk
<1>2. N \in Int
  BY ChunkIs
<1>3. \A i \in 1 .. N : st(i) \in T
  <2> SUFFICES ASSUME NEW i \in 1 .. N PROVE st(i) \in T
    OBVIOUS
  <2>1. Chunk(d, limit, i) \in Seq(Cell) /\ Len(Chunk(d, limit, i)) = Parts
    BY ChunkIs
  <2>2. Decode(Chunk(d, limit, i)) \in Record
    BY <2>1, DecodeIs
  <2> QED BY <2>2 DEF Points
<1>4. \A i \in 1 .. N : ss[i] \in Seq(T)
  <2> HIDE DEF T, st, ss
  <2>1. \A t \in T : <<t>> \in Seq(T)
    OBVIOUS
  <2>2. <<>> \in Seq(T)
    OBVIOUS
  <2> QED BY <1>1, <1>3, <2>1, <2>2, Zenon
<1>5. ss = [i \in 1 .. N |-> ss[i]]
  BY DEF Chunks
<1> HIDE DEF ss, T, N
<1>6. ss \in Seq(Seq(T))
  <2>1. CASE N \in Nat
    <3> DEFINE U == Seq(T)
    <3>1. \A i \in 1 .. N : ss[i] \in U
      BY <1>4
    <3> HIDE DEF U
    <3>2. [i \in 1 .. N |-> ss[i]] \in Seq(U)
      BY <2>1, <3>1
    <3>3. ss \in Seq(U)
      BY <1>5, <3>2, Zenon
    <3> QED BY <3>3 DEF U
  <2>2. CASE N \notin Nat
    <3>1. 1 .. N = 1 .. 0
      BY <1>2, <2>2
    <3>2. ss = [i \in 1 .. 0 |-> ss[i]]
      BY <1>5, <3>1, Zenon
    <3>3. [i \in 1 .. 0 |-> ss[i]] = <<>>
      OBVIOUS
    <3>4. <<>> \in Seq(Seq(T))
      OBVIOUS
    <3> QED BY <3>2, <3>3, <3>4, Zenon
  <2> QED BY <2>1, <2>2
<1>7. FlattenSeq(ss) \in Seq(T)
  BY <1>6, FlattenType
<1> QED BY <1>7, ReadIs, Zenon DEF ss, T

-----------------------------------------------------------------------------
(* The tail of a day.                                                        *)

\* What was accepted on day d and no crash took.
OnDay(d) == {a \in ToSet(accepted) : a.day = d /\ a.id \notin lost}

\* Nothing is buffered, and day d can be read in full.
Readable(d) ==
  /\ StoreInv /\ PayInv /\ TailInv /\ Accounted
  /\ datBuf = <<>> /\ blobBuf = <<>>
  /\ d \in Days \ (torn \cup astray) /\ d >= day - Retention

\* The chunks are the last records.
LEMMA ChunksAre ==
  ASSUME NEW d, Readable(d), NEW r \in Seq(Record), Laid(dat[d], r), NEW limit \in Int
  PROVE  /\ Take(d, limit) = IF limit < Len(r) THEN limit ELSE Len(r)
         /\ \A i \in 1 .. Take(d, limit) :
              ReadChunk(Chunk(d, limit, i), blob[d])
                = <<Stitched(r[Len(r) - Take(d, limit) + i], blob[d])>>
<1> DEFINE n == Len(r)
           t == Take(d, limit)
<1>1. /\ FileType /\ d \in Days /\ dat[d] \in Seq(Cell) /\ blob[d] \in Seq(Nat) /\ n \in Nat
      /\ Parts \in Nat /\ Parts > 0
  BY DEF Readable, StoreInv, FileType
<1>2. Len(dat[d]) = n * Parts
  BY DEF Laid
<1> HIDE DEF n
<1>3. Len(dat[d]) \div Parts = n
  <2>1. Len(dat[d]) \in Nat
    BY <1>1
  <2> QED BY <1>1, <1>2, <2>1, WholeParts
<1>4. t = IF limit < n THEN limit ELSE n
  BY <1>3 DEF Take
<1>5. t \in Int /\ t <= n
  BY <1>1, <1>4
<1>6. ASSUME NEW i \in 1 .. t
      PROVE  ReadChunk(Chunk(d, limit, i), blob[d]) = <<Stitched(r[n - t + i], blob[d])>>
  <2> DEFINE c == Chunk(d, limit, i)
             o == First(d, limit) + (i - 1) * Parts
             e == n - t + i
             rec == r[e]
  <2>1. /\ o \in Nat /\ c \in Seq(Cell) /\ Len(c) = Parts
        /\ \A j \in 1 .. Parts : o + j \in 1 .. Len(dat[d]) /\ c[j] = dat[d][o + j]
    BY <1>1, ChunkIs
  <2> HIDE DEF c
  <2>2. e \in 1 .. n /\ t \in Nat
    <3> HIDE DEF t
    <3> QED BY <1>1, <1>5
  <2>3. o = (e - 1) * Parts
    <3>1. First(d, limit) = n * Parts - t * Parts
      BY <1>2 DEF First
    <3> HIDE DEF t
    <3>2. (n - t + i - 1) * Parts = (n * Parts - t * Parts) + (i - 1) * Parts
      BY <1>1, <1>5
    <3>3. o = (n * Parts - t * Parts) + (i - 1) * Parts
      BY <3>1
    <3>4. e - 1 = n - t + i - 1
      BY <1>1, <1>5
    <3> HIDE DEF o, e
    <3> QED BY <3>2, <3>3, <3>4
  <2>4. \A j \in 1 .. Parts : c[j] = [rec |-> rec, part |-> j]
    <3> SUFFICES ASSUME NEW j \in 1 .. Parts PROVE c[j] = [rec |-> rec, part |-> j]
      OBVIOUS
    <3>1. o + j = At(e, j)
      BY <2>3 DEF At
    <3>2. dat[d][At(e, j)] = [rec |-> rec, part |-> j]
      BY <2>2 DEF Laid, n
    <3> HIDE DEF o, e, rec
    <3> QED BY <2>1, <3>1, <3>2
  <2>5. rec \in Record
    BY <2>2 DEF n
  <2> HIDE DEF rec, o, e
  <2>6. DOMAIN c = 1 .. Parts /\ 1 \in 1 .. Parts
    BY <1>1, <2>1
  <2>7. c[1].rec = rec
    <3>1. c[1] = [rec |-> rec, part |-> 1]
      BY <2>4, <2>6
    <3> QED BY <3>1
  <2>8. Decode(c) = rec
    <3>1. IsWhole(c)
      BY <2>4, <2>6, <2>7 DEF IsWhole
    <3> QED BY <2>7, <3>1 DEF Decode
  <2>9. InBounds(rec, blob[d])
    <3>1. PICK m \in DOMAIN dat[d] : dat[d][m] = c[1]
      <4>1. DOMAIN dat[d] = 1 .. Len(dat[d])
        BY <1>1
      <4> QED BY <2>1, <2>6, <4>1
    <3>2. OwnIn(rec, Virtual(d))
      BY <2>7, <3>1 DEF Readable, PayInv, StoredOwn, CellsOwn
    <3>3. Virtual(d) = blob[d]
      BY <1>1, VirtualType DEF Readable
    <3> QED BY <3>2, <3>3 DEF OwnIn, InBounds
  <2> QED BY <2>8, <2>9 DEF ReadChunk, c, rec, e
<1> QED BY <1>4, <1>6 DEF n

\* What the tail of a day reads, record by record.
LEMMA TailIs ==
  ASSUME NEW d, Readable(d), NEW r \in Seq(Record), Laid(dat[d], r), NEW limit \in Nat
  PROVE  LET n == Len(r)
             k == IF limit < n THEN limit ELSE n
             t == ReadDayTail(d, limit)
         IN  /\ t \in Seq(Points) /\ Len(t) = k
             /\ \A i \in 1 .. k : t[i] = Stitched(r[n - k + i], blob[d])
<1> DEFINE n == Len(r)
           k == IF limit < n THEN limit ELSE n
           f == [i \in 1 .. k |-> Stitched(r[n - k + i], blob[d])]
           ss == Chunks(d, limit)
           T == Points
<1>1. FileType /\ d \in Days /\ n \in Nat /\ \A i \in 1 .. n : r[i] \in Record
  BY DEF Readable, StoreInv
<1>2. Take(d, limit) = k /\ \A i \in 1 .. k : ss[i] = <<Stitched(r[n - k + i], blob[d])>>
  <2>1. Take(d, limit) = k
    BY ChunksAre
  <2>2. \A i \in 1 .. Take(d, limit) :
          ReadChunk(Chunk(d, limit, i), blob[d])
            = <<Stitched(r[Len(r) - Take(d, limit) + i], blob[d])>>
    BY ChunksAre
  <2> HIDE DEF k
  <2> QED BY <2>1, <2>2 DEF Chunks
<1> HIDE DEF n
<1>3. k \in Nat /\ k <= n /\ \A i \in 1 .. k : n - k + i \in 1 .. n
  BY <1>1
<1> HIDE DEF k
<1>4. \A i \in 1 .. k : Stitched(r[n - k + i], blob[d]) \in T
  <2> SUFFICES ASSUME NEW i \in 1 .. k PROVE Stitched(r[n - k + i], blob[d]) \in T
    OBVIOUS
  <2>1. r[n - k + i] \in Record
    BY <1>1, <1>3
  <2> DEFINE rec == r[n - k + i]
  <2>2. rec \in Record /\ d \in Days
    BY <1>1, <2>1
  <2> HIDE DEF rec
  <2>3. Stitched(rec, blob[d]) \in Points
    BY <2>2 DEF Points
  <2> QED BY <2>3 DEF rec
<1> HIDE DEF T
<1>5. f \in Seq(T) /\ Len(f) = k /\ \A i \in 1 .. k : f[i] = Stitched(r[n - k + i], blob[d])
  BY <1>3, <1>4
<1>6. ss \in Seq(Seq(T)) /\ Len(ss) = k
  <2>1. ss = [i \in 1 .. k |-> ss[i]]
    BY <1>2 DEF Chunks
  <2> DEFINE U == Seq(T)
  <2>2. \A i \in 1 .. k : ss[i] \in U
    <3>1. \A x \in T : <<x>> \in U
      OBVIOUS
    <3> HIDE DEF U, ss
    <3> QED BY <1>2, <1>4, <3>1
  <2> HIDE DEF U, ss
  <2>3. [i \in 1 .. k |-> ss[i]] \in Seq(U) /\ Len([i \in 1 .. k |-> ss[i]]) = k
    BY <1>3, <2>2
  <2>4. ss \in Seq(U) /\ Len(ss) = k
    BY <2>1, <2>3, Zenon
  <2> QED BY <2>4 DEF U
<1> HIDE DEF f, ss
<1>7. \A i \in 1 .. Len(f) : ss[i] = <<f[i]>>
  BY <1>2, <1>5
<1>8. FlattenSeq(ss) = f
  BY <1>5, <1>6, <1>7, FlattenSingles
<1>9. ReadDayTail(d, limit) = f
  BY <1>8, ReadIs, Zenon DEF ss
<1> QED BY <1>5, <1>9 DEF k, n, T

\* A readable day: its tail is the newest of what was accepted on it.
LEMMA DayTail ==
  ASSUME NEW d, Readable(d), NEW limit \in Nat
  PROVE  ReadDayTail(d, limit) \in Seq(Points) /\ TailOf(ReadDayTail(d, limit), OnDay(d), limit)
<1>1. /\ FileType /\ StoreInv /\ d \in Days \ torn /\ dat[d] \in Seq(Cell)
      /\ accepted \in Seq([id : Nat, day : Days])
  BY DEF Readable, StoreInv, FileType, Ledger
<1>2. PICK r \in Seq(Record) : RecordsOf(d, r)
  BY <1>1 DEF Readable, TailInv, LaidOut
<1>3. Laid(dat[d], r)
  <2>1. Written(d) = dat[d]
    BY <1>1, WrittenIs DEF Readable
  <2> QED BY <1>2, <2>1 DEF RecordsOf
<1> DEFINE n == Len(r)
           k == IF limit < n THEN limit ELSE n
           t == ReadDayTail(d, limit)
           rec(i) == r[n - k + i]
<1>4. t \in Seq(Points) /\ Len(t) = k /\ \A i \in 1 .. k : t[i] = Stitched(rec(i), blob[d])
  BY <1>2, <1>3, TailIs
<1>5. n \in Nat /\ \A i \in 1 .. n : r[i] \in Record
  BY <1>2
<1> HIDE DEF n, t
<1>6. k \in Nat /\ k <= n /\ k <= limit /\ (k < n => k = limit)
  BY <1>5
<1> HIDE DEF k
<1>7. \A i \in 1 .. k : n - k + i \in 1 .. n /\ t[i].id = rec(i).id
  BY <1>4, <1>5, <1>6 DEF Stitched
<1>8. /\ \A i, j \in 1 .. n : i < j => r[i].id < r[j].id
      /\ \A i \in 1 .. n : r[i].id \notin lost /\ AcceptedOn(r[i].id, d)
  BY <1>2 DEF RecordsOf, n
<1>9. ASSUME NEW i \in 1 .. k, NEW j \in 1 .. k, i < j PROVE t[i].id < t[j].id
  <2>1. n - k + i < n - k + j
    BY <1>5, <1>6, <1>9
  <2> QED BY <1>7, <1>8, <2>1
<1>10. ASSUME NEW i \in 1 .. k PROVE \E a \in OnDay(d) : a.id = t[i].id
  <2>1. t[i].id \notin lost /\ AcceptedOn(t[i].id, d)
    BY <1>7, <1>8
  <2>2. PICK m \in DOMAIN accepted : accepted[m].id = t[i].id /\ accepted[m].day = d
    BY <2>1 DEF AcceptedOn
  <2>3. accepted[m] \in ToSet(accepted)
    BY <1>1, <2>2 DEF ToSet
  <2> QED BY <2>1, <2>2, <2>3 DEF OnDay
<1>11. ASSUME NEW a \in OnDay(d)
       PROVE  \/ \E i \in 1 .. k : t[i].id = a.id
              \/ k = limit /\ \A i \in 1 .. k : a.id < t[i].id
  <2>1. PICK m \in DOMAIN accepted : accepted[m] = a
    BY <1>1 DEF OnDay, ToSet
  <2>2. a.day = d /\ a.id \notin lost
    BY DEF OnDay
  <2>3. OnDisk(a)
    <3>1. ~InBuffer(a)
      BY DEF Readable, InBuffer, HasLast
    <3> QED BY <2>1, <2>2, <3>1 DEF Readable, Accounted
  <2>4. PICK c \in DOMAIN dat[d] : dat[d][c].rec.id = a.id
    BY <2>2, <2>3 DEF OnDisk, HasLast
  <2>5. c \in 1 .. n * Parts
    <3>1. Len(dat[d]) = n * Parts /\ DOMAIN dat[d] = 1 .. Len(dat[d])
      BY <1>1, <1>3 DEF Laid, n
    <3> QED BY <2>4, <3>1
  <2>6. PICK e \in 1 .. n, j \in 1 .. Parts : c = At(e, j)
    BY <1>5, <2>5, AtIs
  <2>7. dat[d][c] = [rec |-> r[e], part |-> j]
    <3>1. dat[d][At(e, j)] = [rec |-> r[e], part |-> j]
      BY <1>3, <2>6 DEF Laid, n
    <3> QED BY <2>6, <3>1
  <2>8. a.id = r[e].id
    BY <2>4, <2>7
  <2>9. CASE e <= n - k
    <3>1. k = limit
      BY <1>5, <1>6, <2>9
    <3>2. ASSUME NEW i \in 1 .. k PROVE a.id < t[i].id
      <4>1. e < n - k + i
        BY <1>5, <1>6, <2>6, <2>9
      <4> QED BY <1>7, <1>8, <2>6, <2>8, <4>1
    <3> QED BY <3>1, <3>2
  <2>10. CASE ~(e <= n - k)
    <3> DEFINE i == e - (n - k)
    <3>1. i \in 1 .. k /\ n - k + i = e
      BY <1>5, <1>6, <2>6, <2>10
    <3> HIDE DEF i
    <3>2. t[i].id = a.id
      BY <1>7, <2>8, <3>1
    <3> QED BY <3>1, <3>2
  <2> QED BY <2>9, <2>10
<1>12. TailOf(t, OnDay(d), limit)
  BY <1>4, <1>6, <1>9, <1>10, <1>11 DEF TailOf
<1> QED BY <1>4, <1>12 DEF t

-----------------------------------------------------------------------------
(* The walk from day to day.                                                 *)

\* One day further back, after x was read.
Back(cur, limit, n, x) ==
  IF cur - n \in OlderDays(cur) THEN ReadDayTail(cur - n, limit - Len(x)) \o x ELSE x

\* c[n] is what has been read n days back.
Walk(c, cur, limit) ==
  \A n \in 0 .. cur - 1 :
    c[n] = IF n = 0 THEN ReadDayTail(cur, limit) ELSE Back(cur, limit, n, c[n - 1])

\* read_tail is such a walk.
LEMMA WalkIs ==
  ASSUME FileType, days \subseteq Days, NEW cur \in Days, NEW limit \in Int
  PROVE  \E c : Walk(c, cur, limit) /\ ReadTail(cur, limit) = c[cur - 1]
<1> DEFINE N == cur - 1
           U == Seq(Points)
           b == ReadDayTail(cur, limit)
           s == [n \in 1 .. N |-> [x \in U |-> Back(cur, limit, n, x)]]
           Eq(h) == h = [n \in 0 .. N |->
                          IF n = 0 THEN ReadDayTail(cur, limit)
                          ELSE IF cur - n \in OlderDays(cur)
                               THEN ReadDayTail(cur - n, limit - Len(h[n - 1])) \o h[n - 1]
                               ELSE h[n - 1]]
           c == CHOOSE h : Eq(h)
<1>1. N \in Nat
  OBVIOUS
<1>2. b \in U
  BY ReadType
<1>3. s \in [1 .. N -> [U -> U]]
  <2>1. ASSUME NEW n \in 1 .. N, NEW x \in U PROVE Back(cur, limit, n, x) \in U
    <3>1. CASE cur - n \in OlderDays(cur)
      <4>1. cur - n \in Days /\ limit - Len(x) \in Int
        BY <3>1 DEF OlderDays
      <4> DEFINE y == ReadDayTail(cur - n, limit - Len(x))
                 T == Points
      <4>2. y \in Seq(T) /\ x \in Seq(T)
        BY <4>1, ReadType
      <4> HIDE DEF y, T
      <4>3. y \o x \in Seq(T)
        BY <4>2
      <4> QED BY <3>1, <4>3 DEF Back, y, T
    <3>2. CASE ~(cur - n \in OlderDays(cur))
      BY <3>2 DEF Back
    <3> QED BY <3>1, <3>2
  <2> HIDE DEF U, N
  <2> QED BY <2>1
<1>4. \E f \in [0 .. N -> U] : Solves(f, N, b, s)
  <2> HIDE DEF N, U, b, s
  <2> QED BY <1>1, <1>2, <1>3, RecursionTo
<1>5. PICK f \in [0 .. N -> U] : Solves(f, N, b, s)
  BY <1>4
<1>6. Eq(f)
  <2> DEFINE F(n) == IF n = 0 THEN ReadDayTail(cur, limit)
                     ELSE IF cur - n \in OlderDays(cur)
                          THEN ReadDayTail(cur - n, limit - Len(f[n - 1])) \o f[n - 1]
                          ELSE f[n - 1]
  <2>1. ASSUME NEW n \in 0 .. N PROVE f[n] = F(n)
    <3>1. CASE n = 0
      BY <1>5, <3>1 DEF Solves
    <3>2. CASE n # 0
      <4>1. n \in 1 .. N /\ n - 1 \in 0 .. N
        BY <1>1, <3>2
      <4>2. f[n] = s[n][f[n - 1]]
        BY <1>5, <4>1 DEF Solves
      <4>3. f[n - 1] \in U
        BY <1>5, <4>1
      <4> HIDE DEF U, N
      <4>4. s[n][f[n - 1]] = Back(cur, limit, n, f[n - 1])
        BY <4>1, <4>3
      <4> QED BY <3>2, <4>2, <4>4 DEF Back
    <3> QED BY <3>1, <3>2
  <2>2. f = [n \in 0 .. N |-> f[n]]
    <3> HIDE DEF N, U
    <3> QED BY <1>5
  <2> HIDE DEF F, N, U
  <2>3. f = [n \in 0 .. N |-> F(n)]
    BY <2>1, <2>2
  <2> QED BY <2>3 DEF F
<1>7. Eq(c)
  <2> HIDE DEF Eq
  <2> QED BY <1>6
<1>8. ReadTail(cur, limit) = c[N]
  BY DEF ReadTail
<1>9. ASSUME NEW n \in 0 .. N
      PROVE  c[n] = IF n = 0 THEN ReadDayTail(cur, limit) ELSE Back(cur, limit, n, c[n - 1])
  <2> HIDE DEF c, N
  <2> QED BY <1>7 DEF Back
<1> HIDE DEF c
<1> QED BY <1>8, <1>9 DEF Walk

\* Every day of the walk can be read in full.
LEMMA VisitedReadable ==
  ASSUME StoreInv, PayInv, TailInv, Accounted, datBuf = <<>>, blobBuf = <<>>,
         Visited \cap (torn \cup astray) = {}
  PROVE  \A d \in Visited : Readable(d)
<1> SUFFICES ASSUME NEW d \in Visited PROVE Readable(d)
  OBVIOUS
<1>1. day \in Days /\ days \subseteq Days /\ Retention \in Nat
  BY DEF StoreInv, FileType, Calendar
<1>2. d \in Days /\ d >= day - Retention
  BY <1>1 DEF Visited, OlderDays, TailInv, Window
<1> QED BY <1>2 DEF Readable

\* What is left on the days from e on.
Since(e) == {a \in Remaining : a.day >= e}

\* The walk reads the newest of what is left on the days it has come to.
LEMMA WalkReads ==
  ASSUME StoreInv, TailInv, \A d \in Visited : Readable(d), NEW c, Walk(c, day, Limit)
  PROVE  \A n \in 0 .. day - 1 : c[n] \in Seq(Points) /\ TailOf(c[n], Since(day - n), Limit)
<1> DEFINE N == day - 1
           S == {n \in 0 .. N : c[n] \in Seq(Points) /\ TailOf(c[n], Since(day - n), Limit)}
<1>0. /\ day \in Days /\ N \in Nat /\ Limit \in Nat /\ days \subseteq Days
      /\ \A d \in Visited : d \in Days /\ d <= day
  BY DEF StoreInv, FileType, Calendar, Visited, OlderDays
<1>1. \A a \in Remaining : /\ a.day \in Visited /\ a.id \notin lost /\ a \in ToSet(accepted)
                           /\ AcceptedOn(a.id, a.day)
  <2>1. accepted \in Seq([id : Nat, day : Days])
    BY DEF StoreInv, Ledger
  <2> QED BY <2>1 DEF Remaining, ToSet, AcceptedOn
<1>2. 0 \in S
  <2>1. 0 \in 0 .. N /\ day \in Visited
    BY <1>0 DEF Visited
  <2>2. c[0] = ReadDayTail(day, Limit)
    BY <2>1 DEF Walk
  <2>3. c[0] \in Seq(Points) /\ TailOf(c[0], OnDay(day), Limit)
    BY <1>0, <2>1, <2>2, DayTail
  <2>4. Since(day - 0) = OnDay(day)
    <3>1. \A a \in Remaining : a.day >= day - 0 <=> a.day = day
      BY <1>0, <1>1
    <3>2. \A a \in ToSet(accepted) : a.day = day /\ a.id \notin lost => a \in Remaining
      BY <2>1 DEF Remaining
    <3> QED BY <1>1, <3>1, <3>2 DEF Since, OnDay
  <2> QED BY <2>1, <2>3, <2>4
<1>3. ASSUME NEW n \in 1 .. N, n - 1 \in S PROVE n \in S
  <2> DEFINE x == c[n - 1]
             e == day - n
             A == Since(day - (n - 1))
  <2>1. x \in Seq(Points) /\ TailOf(x, A, Limit) /\ n \in 0 .. N /\ e \in Days /\ e < day
    BY <1>0, <1>3
  <2>2. c[n] = IF e \in OlderDays(day) THEN ReadDayTail(e, Limit - Len(x)) \o x ELSE x
    BY <1>0, <2>1 DEF Walk, Back
  <2>3. \A a \in Remaining : a.day >= e <=> (a.day >= day - (n - 1) \/ a.day = e)
    BY <1>0, <1>1
  <2>4. CASE e \in OlderDays(day)
    <3> DEFINE y == ReadDayTail(e, Limit - Len(x))
    <3>1. e \in Visited
      BY <2>4 DEF Visited
    <3>2. Limit - Len(x) \in Nat
      BY <1>0, <2>1 DEF TailOf
    <3>3. y \in Seq(Points) /\ TailOf(y, OnDay(e), Limit - Len(x))
      BY <3>1, <3>2, DayTail
    <3>4. \A a \in A, b \in OnDay(e) : b.id < a.id
      <4> SUFFICES ASSUME NEW a \in A, NEW b \in OnDay(e) PROVE b.id < a.id
        OBVIOUS
      <4>1. a.day \in Days /\ e < a.day /\ AcceptedOn(a.id, a.day)
        BY <1>0, <1>1, <2>1 DEF Since
      <4>2. b \in Remaining /\ b.day = e
        BY <3>1 DEF OnDay, Remaining
      <4>3. AcceptedOn(b.id, e)
        BY <1>1, <4>2
      <4> QED BY <2>1, <4>1, <4>3, DaysOrder DEF TailInv
    <3>5. Since(e) = A \cup OnDay(e)
      <4>1. \A a \in ToSet(accepted) : a.day = e /\ a.id \notin lost => a \in Remaining
        BY <3>1 DEF Remaining
      <4> QED BY <1>1, <2>3, <4>1 DEF Since, OnDay
    <3> HIDE DEF x, y, A
    <3>6. y \o x \in Seq(Points) /\ TailOf(y \o x, A \cup OnDay(e), Limit)
      <4> DEFINE T == Points
      <4>1. x \in Seq(T) /\ y \in Seq(T)
        BY <2>1, <3>3
      <4> HIDE DEF T
      <4>2. y \o x \in Seq(T) /\ TailOf(y \o x, A \cup OnDay(e), Limit)
        <5>1. Limit \in Int /\ TailOf(x, A, Limit) /\ TailOf(y, OnDay(e), Limit - Len(x))
          BY <1>0, <2>1, <3>3
        <5> QED BY <3>4, <4>1, <5>1, TailsJoin
      <4> QED BY <4>2 DEF T
    <3>7. c[n] = y \o x
      BY <2>2, <2>4 DEF y
    <3> QED BY <2>1, <3>5, <3>6, <3>7
  <2>5. CASE ~(e \in OlderDays(day))
    <3>1. e \notin Visited
      BY <2>1, <2>5, <1>0 DEF Visited
    <3>2. Since(e) = A
      BY <1>1, <2>3, <3>1 DEF Since
    <3> QED BY <2>1, <2>2, <2>5, <3>2
  <2> QED BY <2>4, <2>5
<1>4. \A n \in 0 .. N : n \in S
  <2> HIDE DEF S
  <2>1. \A n \in 1 .. N : n - 1 \in S => n \in S
    BY <1>3
  <2> HIDE DEF N
  <2> QED BY <1>0, <1>2, <2>1, InductionTo, Zenon
<1> QED BY <1>4

\* A warm start gets the newest points of the days it visits.
LEMMA TailNewest == StoreInv /\ PayInv /\ TailInv /\ Accounted => TailIsNewest
<1> SUFFICES ASSUME StoreInv, PayInv, TailInv, Accounted, datBuf = <<>>, blobBuf = <<>>,
                    Visited \cap (torn \cup astray) = {}
             PROVE  LET tail == ReadTail(day, Limit)
                    IN  /\ Len(tail) <= Limit
                        /\ \A i, j \in DOMAIN tail : i < j => tail[i].id < tail[j].id
                        /\ \A i \in DOMAIN tail : \E a \in Remaining : a.id = tail[i].id
                        /\ \A a \in Remaining :
                             \/ \E i \in DOMAIN tail : tail[i].id = a.id
                             \/ Len(tail) = Limit /\ \A i \in DOMAIN tail : a.id < tail[i].id
  BY DEF TailIsNewest
<1>1. FileType /\ days \subseteq Days /\ day \in Days /\ Limit \in Int
  BY DEF StoreInv, FileType, Calendar
<1>2. PICK c : Walk(c, day, Limit) /\ ReadTail(day, Limit) = c[day - 1]
  BY <1>1, WalkIs
<1> DEFINE tail == ReadTail(day, Limit)
<1>3. tail \in Seq(Points) /\ TailOf(tail, Since(day - (day - 1)), Limit)
  <2>1. day - 1 \in 0 .. day - 1
    BY <1>1
  <2>2. \A d \in Visited : Readable(d)
    BY VisitedReadable
  <2> QED BY <1>2, <2>1, <2>2, WalkReads
<1>4. Since(day - (day - 1)) = Remaining
  <2>1. \A a \in Remaining : a.day \in Days
    BY <1>1 DEF Remaining, Visited, OlderDays
  <2> QED BY <1>1, <2>1 DEF Since
<1> HIDE DEF tail
<1>5. DOMAIN tail = 1 .. Len(tail)
  BY <1>3
<1>6. TailOf(tail, Remaining, Limit)
  BY <1>3, <1>4
<1> QED BY <1>5, <1>6 DEF TailOf, tail

\* ... in every reachable state.
THEOREM TailIsNewestHolds == Spec => []TailIsNewest
<1>1. Init => Accounted
  BY StoreInvInit DEF Init, Accounted
<1>2. StoreInv /\ Accounted /\ [Next]_vars => Accounted'
  BY AccountedStep
<1> QED BY <1>1, <1>2, TailNewest, PayInvHolds, TailInvHolds, PTL DEF Spec
=============================================================================
