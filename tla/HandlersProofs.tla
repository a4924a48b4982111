----------------------------- MODULE HandlersProofs -----------------------------
(***************************************************************************)
(* What holds of the handlers side by side, for strings, files, templates  *)
(* and frames of any length: what each gives back when its request ends,   *)
(* that what a template, a response, a download or a websocket sends over  *)
(* several calls is whole, and what a successful upload has stored.        *)
(* InputProofs has what is made of a request.                              *)
(***************************************************************************)
EXTENDS Handlers, InputProofs, FiniteSetTheorems, SequenceTheorems, TLAPS

-----------------------------------------------------------------------------
(* Files.                                                                   *)

DiskByte == {Hole} \cup ((FConns \cup {"factory"}) \X (1 .. MaxBody + ReadLen))
Bytes == Seq(DiskByte)

FileReq == [kind : {"idle", "espfs", "vfs", "put"},
            st : {"START", "WRITE", "DONE", "ERR"},
            len : 0 .. MaxBody, got : 0 .. MaxBody + ReadLen, written : 0 .. MaxBody,
            served : Bytes, was : Bytes, alone : 0 .. 1]
Held == [file : 0 .. 1, mem : Nat]

\* The blocks that the answers to the uploads of a connection have kept.
Left(c) == fputs[c] .. 2 * fputs[c]

Opens(c) == fheld[c].file = 1
IsWriter(c) == freq[c].kind = "put" /\ Opens(c)
IsReader(c) == freq[c].kind \in {"espfs", "vfs"}

\* What each request holds.
HoldsRight(c) ==
  /\ freq[c].kind = "idle" => fheld[c].file = 0 /\ fheld[c].mem \in Left(c)
  /\ IsReader(c) => fheld[c].file = 1 /\ fheld[c].mem \in Left(c)
  /\ freq[c].kind = "put" => fheld[c].mem - 1 \in Left(c)

\* An upload: how far it is, and, when it is alone, what it has stored.
UploadRight(c) ==
  freq[c].kind = "put" =>
    /\ freq[c].written <= freq[c].got /\ freq[c].got <= freq[c].len
    /\ freq[c].st \in {"WRITE", "DONE"} => Opens(c)
    /\ freq[c].st = "WRITE" => freq[c].written = freq[c].got
    /\ freq[c].st = "DONE" => freq[c].written = freq[c].len
    /\ Opens(c) /\ freq[c].alone = 1 =>
         /\ \A d \in FConns : d # c => ~IsWriter(d)
         /\ freq[c].st \in {"WRITE", "DONE"} => disk = Body(c, freq[c].written)

\* A download: what it has delivered, unless the file was emptied meanwhile.
DownloadRight(c) ==
  IsReader(c) /\ freq[c].alone = 1 =>
    /\ freq[c].was = Content(c)
    /\ freq[c].got <= Len(freq[c].was)
    /\ freq[c].served = SubSeq(freq[c].was, 1, freq[c].got)
    /\ freq[c].kind = "vfs" => \A d \in FConns : ~IsWriter(d)

ConnRight(c) == HoldsRight(c) /\ UploadRight(c) /\ DownloadRight(c)

FilesTypes ==
  /\ disk \in Bytes /\ Len(disk) <= MaxBody + ReadLen
  /\ freq \in [FConns -> FileReq]
  /\ fheld \in [FConns -> Held]
  /\ fcount \in 0 .. MaxRequests
  /\ fputs \in [FConns -> Nat]

FilesInv ==
  /\ FilesTypes
  /\ \A c \in FConns : ConnRight(c)
  /\ ServedWhole
  /\ SuccessIsStored

-----------------------------------------------------------------------------
(* A request whose fields are changed one at a time.                       *)

LEMMA SetKind ==
  ASSUME NEW r \in FileReq, NEW v \in {"idle", "espfs", "vfs", "put"}, NEW q, q = [r EXCEPT !.kind = v]
  PROVE  /\ q \in FileReq /\ q.kind = v
         /\ q.st = r.st /\ q.len = r.len /\ q.got = r.got /\ q.written = r.written
         /\ q.served = r.served /\ q.was = r.was /\ q.alone = r.alone
  BY DEF FileReq

LEMMA SetSt ==
  ASSUME NEW r \in FileReq, NEW v \in {"START", "WRITE", "DONE", "ERR"}, NEW q, q = [r EXCEPT !.st = v]
  PROVE  /\ q \in FileReq /\ q.st = v
         /\ q.kind = r.kind /\ q.len = r.len /\ q.got = r.got /\ q.written = r.written
         /\ q.served = r.served /\ q.was = r.was /\ q.alone = r.alone
  BY DEF FileReq

LEMMA SetLen ==
  ASSUME NEW r \in FileReq, NEW v \in 0 .. MaxBody, NEW q, q = [r EXCEPT !.len = v]
  PROVE  /\ q \in FileReq /\ q.len = v
         /\ q.kind = r.kind /\ q.st = r.st /\ q.got = r.got /\ q.written = r.written
         /\ q.served = r.served /\ q.was = r.was /\ q.alone = r.alone
  BY DEF FileReq

LEMMA SetGot ==
  ASSUME NEW r \in FileReq, NEW v \in 0 .. MaxBody + ReadLen, NEW q, q = [r EXCEPT !.got = v]
  PROVE  /\ q \in FileReq /\ q.got = v
         /\ q.kind = r.kind /\ q.st = r.st /\ q.len = r.len /\ q.written = r.written
         /\ q.served = r.served /\ q.was = r.was /\ q.alone = r.alone
  BY DEF FileReq

LEMMA SetWritten ==
  ASSUME NEW r \in FileReq, NEW v \in 0 .. MaxBody, NEW q, q = [r EXCEPT !.written = v]
  PROVE  /\ q \in FileReq /\ q.written = v
         /\ q.kind = r.kind /\ q.st = r.st /\ q.len = r.len /\ q.got = r.got
         /\ q.served = r.served /\ q.was = r.was /\ q.alone = r.alone
  BY DEF FileReq

LEMMA SetServed ==
  ASSUME NEW r \in FileReq, NEW v \in Bytes, NEW q, q = [r EXCEPT !.served = v]
  PROVE  /\ q \in FileReq /\ q.served = v
         /\ q.kind = r.kind /\ q.st = r.st /\ q.len = r.len /\ q.got = r.got
         /\ q.written = r.written /\ q.was = r.was /\ q.alone = r.alone
  BY DEF FileReq

LEMMA SetWas ==
  ASSUME NEW r \in FileReq, NEW v \in Bytes, NEW q, q = [r EXCEPT !.was = v]
  PROVE  /\ q \in FileReq /\ q.was = v
         /\ q.kind = r.kind /\ q.st = r.st /\ q.len = r.len /\ q.got = r.got
         /\ q.written = r.written /\ q.served = r.served /\ q.alone = r.alone
  BY DEF FileReq

LEMMA SetAlone ==
  ASSUME NEW r \in FileReq, NEW v \in 0 .. 1, NEW q, q = [r EXCEPT !.alone = v]
  PROVE  /\ q \in FileReq /\ q.alone = v
         /\ q.kind = r.kind /\ q.st = r.st /\ q.len = r.len /\ q.got = r.got
         /\ q.written = r.written /\ q.served = r.served /\ q.was = r.was
  BY DEF FileReq

LEMMA NoFileIsReq ==
  NoFile \in FileReq
<1>1. <<>> \in Bytes
  BY DEF Bytes
<1> QED
  BY <1>1, FilesAssumption DEF NoFile, FileReq

-----------------------------------------------------------------------------
(* The file's content.                                                     *)

LEMMA FunctionIsSeq ==
  ASSUME NEW S, NEW n \in Nat, NEW f \in [1 .. n -> S]
  PROVE  f \in Seq(S) /\ Len(f) = n
<1>1. f \in Seq(S)
  BY SeqDef
<1>2. DOMAIN f = 1 .. Len(f) /\ Len(f) \in Nat /\ DOMAIN f = 1 .. n
  BY <1>1, LenProperties
<1> QED
  BY <1>1, <1>2

LEMMA ByteIs ==
  /\ Hole \in DiskByte
  /\ \A c \in FConns \cup {"factory"}, i \in 1 .. MaxBody + ReadLen : <<c, i>> \in DiskByte
  BY DEF DiskByte

LEMMA FactoryIs ==
  Factory \in Bytes /\ Len(Factory) = ReadLen
<1>1. Factory \in [1 .. ReadLen -> DiskByte]
  BY ByteIs, FilesAssumption DEF Factory
<1> QED
  BY <1>1, FunctionIsSeq, FilesAssumption DEF Bytes

LEMMA BodyIs ==
  ASSUME NEW c \in FConns, NEW n \in 0 .. MaxBody
  PROVE  Body(c, n) \in Bytes /\ Len(Body(c, n)) = n
<1>1. Body(c, n) \in [1 .. n -> DiskByte]
  BY ByteIs, FilesAssumption DEF Body
<1>2. n \in Nat
  BY FilesAssumption
<1> QED
  BY <1>1, <1>2, FunctionIsSeq DEF Bytes

\* An empty file is the empty body.
LEMMA EmptyBody ==
  ASSUME NEW c \in FConns
  PROVE  Body(c, 0) = <<>>
<1>1. Body(c, 0) \in Bytes /\ Len(Body(c, 0)) = 0
  BY BodyIs, FilesAssumption
<1> QED
  BY <1>1, EmptySeq DEF Bytes

\* fwrite leaves a file, no longer than it must be.
LEMMA StoredIs ==
  ASSUME NEW c \in FConns, disk \in Bytes, Len(disk) <= MaxBody + ReadLen,
         freq[c].written \in Nat, NEW n \in Nat, freq[c].written + n <= MaxBody
  PROVE  Stored(c, n) \in Bytes /\ Len(Stored(c, n)) <= MaxBody + ReadLen
<1> DEFINE from == freq[c].written
           to == from + n
           size == IF n = 0 \/ Len(disk) > to THEN Len(disk) ELSE to
<1>1. Len(disk) \in Nat
  BY LenProperties DEF Bytes
<1>2. size \in Nat /\ size <= MaxBody + ReadLen
  BY <1>1, FilesAssumption
<1>3. ASSUME NEW i \in 1 .. size
      PROVE  (IF i > from /\ i <= to THEN <<c, i>> ELSE IF i <= Len(disk) THEN disk[i] ELSE Hole) \in DiskByte
  <2>1. i \in 1 .. MaxBody + ReadLen
    BY <1>2, FilesAssumption
  <2>2. i <= Len(disk) => disk[i] \in DiskByte
    BY <1>1, <2>1, ElementOfSeq, FilesAssumption DEF Bytes
  <2> QED
    BY <2>1, <2>2, ByteIs
<1> HIDE DEF size, to
<1>4. Stored(c, n) \in [1 .. size -> DiskByte]
  BY <1>3 DEF Stored, size, to
<1> QED
  BY <1>2, <1>4, FunctionIsSeq DEF Bytes

\* What is appended to an upload's own bytes are its next bytes.
LEMMA StoredOnOwn ==
  ASSUME NEW c \in FConns, NEW w \in 0 .. MaxBody, freq[c].written = w,
         disk = Body(c, w), NEW n \in Nat, w + n <= MaxBody
  PROVE  Stored(c, n) = Body(c, w + n)
<1>1. Len(disk) = w /\ w \in Nat
  BY BodyIs, FilesAssumption
<1>2. Stored(c, n) = [i \in 1 .. w + n |->
                        IF i > w /\ i <= w + n THEN <<c, i>> ELSE IF i <= w THEN disk[i] ELSE Hole]
  BY <1>1 DEF Stored
<1>3. ASSUME NEW i \in 1 .. w + n
      PROVE  (IF i > w /\ i <= w + n THEN <<c, i>> ELSE IF i <= w THEN disk[i] ELSE Hole) = <<c, i>>
  BY <1>1 DEF Body
<1> QED
  BY <1>2, <1>3 DEF Body

\* What is left of a body when its end is missing.
LEMMA BodyWithoutItsEnd ==
  ASSUME NEW c \in FConns, NEW n \in 0 .. MaxBody, NEW lost \in 0 .. MaxBody, lost <= n
  PROVE  SubSeq(Body(c, n), 1, Len(Body(c, n)) - lost) = Body(c, n - lost)
<1> PICK m \in {n - lost} : m = n - lost
  OBVIOUS
<1>1. n \in Nat /\ m \in 0 .. MaxBody /\ m <= n /\ m \in Nat
  BY FilesAssumption
<1>2. Body(c, n) \in Bytes /\ Len(Body(c, n)) = n
  BY BodyIs
<1>3. Body(c, m) \in Bytes /\ Len(Body(c, m)) = m
  BY <1>1, BodyIs
<1>4. \A i \in 1 .. m : Body(c, n)[i] \in DiskByte
  BY <1>1, <1>2, ElementOfSeq DEF Bytes
<1>5. /\ SubSeq(Body(c, n), 1, m) \in Seq(DiskByte)
      /\ Len(SubSeq(Body(c, n), 1, m)) = IF 1 <= m THEN m - 1 + 1 ELSE 0
      /\ \A i \in 1 .. m - 1 + 1 : SubSeq(Body(c, n), 1, m)[i] = Body(c, n)[1 + i - 1]
  BY <1>1, <1>4, SubSeqProperties
<1>6. Len(SubSeq(Body(c, n), 1, m)) = m
  BY <1>1, <1>5
<1>7. ASSUME NEW i \in 1 .. m
      PROVE  SubSeq(Body(c, n), 1, m)[i] = Body(c, m)[i]
  <2>1. SubSeq(Body(c, n), 1, m)[i] = Body(c, n)[i]
    BY <1>1, <1>5
  <2>2. i \in 1 .. n
    BY <1>1
  <2> QED
    BY <2>1, <2>2 DEF Body
<1>8. SubSeq(Body(c, n), 1, m) = Body(c, m)
  BY <1>3, <1>5, <1>6, <1>7, SeqEqual DEF Bytes
<1> QED
  BY <1>2, <1>8

LEMMA NothingLost ==
  ASSUME NEW s \in Bytes
  PROVE  SubSeq(s, 1, Len(s) - 0) = s
<1>1. Len(s) - 0 = Len(s)
  BY LenProperties DEF Bytes
<1> QED
  BY <1>1, SubSeqFull DEF Bytes

\* A shorter file is still a file.
LEMMA CutIs ==
  ASSUME NEW s \in Bytes, NEW n \in Nat
  PROVE  /\ SubSeq(s, 1, Len(s) - n) \in Bytes
         /\ Len(SubSeq(s, 1, Len(s) - n)) <= Len(s)
<1>1. Len(s) \in Nat
  BY LenProperties DEF Bytes
<1>2. PICK m \in Int : m = Len(s) - n
  BY <1>1
<1>3. \A i \in 1 .. m : s[i] \in DiskByte
  BY <1>1, <1>2, ElementOfSeq DEF Bytes
<1>4. /\ SubSeq(s, 1, m) \in Seq(DiskByte)
      /\ Len(SubSeq(s, 1, m)) = IF 1 <= m THEN m - 1 + 1 ELSE 0
  BY <1>3, SubSeqProperties
<1> QED
  BY <1>1, <1>2, <1>4 DEF Bytes

\* The next part of a file continues what was read.
LEMMA NextPart ==
  ASSUME NEW s \in Bytes, NEW g \in 0 .. Len(s), NEW n \in Nat, g + n <= Len(s)
  PROVE  SubSeq(s, 1, g) \o SubSeq(s, g + 1, g + n) = SubSeq(s, 1, g + n)
<1>1. Len(s) \in Nat
  BY LenProperties DEF Bytes
<1>2. 1 \in 1 .. Len(s) + 1 /\ g \in 1 - 1 .. Len(s) /\ g + n \in g .. Len(s)
  BY <1>1
<1> QED
  BY <1>2, ConcatAdjacentSubSeq DEF Bytes

LEMMA PartIs ==
  ASSUME NEW s \in Bytes, NEW g \in Nat, NEW n \in Nat, g + n <= Len(s)
  PROVE  SubSeq(s, g + 1, g + n) \in Bytes
<1>1. Len(s) \in Nat
  BY LenProperties DEF Bytes
<1>2. \A i \in g + 1 .. g + n : s[i] \in DiskByte
  BY <1>1, ElementOfSeq DEF Bytes
<1>3. g + 1 \in Int /\ g + n \in Int
  OBVIOUS
<1> QED
  BY <1>2, <1>3, SubSeqProperties, Zenon DEF Bytes

LEMMA NothingRead ==
  ASSUME NEW s
  PROVE  SubSeq(s, 1, 0) = <<>>
<1>1. 0 < 1 /\ 1 \in Int /\ 0 \in Int
  OBVIOUS
<1> QED
  BY <1>1, SubSeqEmpty, Zenon

-----------------------------------------------------------------------------
(* What a step of one request leaves alone.                                *)

Only(c) ==
  /\ freq' \in [FConns -> FileReq] /\ fheld' \in [FConns -> Held]
  /\ fputs' \in [FConns -> Nat]
  /\ \A d \in FConns : d # c =>
       freq'[d] = freq[d] /\ fheld'[d] = fheld[d] /\ fputs'[d] = fputs[d]

LEMMA OnlyIs ==
  ASSUME FilesTypes, NEW c \in FConns, NEW r \in FileReq, NEW h \in Held,
         freq' = [freq EXCEPT ![c] = r], fheld' = [fheld EXCEPT ![c] = h],
         NEW k \in Nat, fputs' = [fputs EXCEPT ![c] = k]
  PROVE  Only(c) /\ freq'[c] = r /\ fheld'[c] = h /\ fputs'[c] = k
  BY DEF FilesTypes, Only

\* No upload is answered.
LEMMA NoneAnswered ==
  ASSUME FilesTypes, NEW c \in FConns, fputs' = fputs
  PROVE  fputs[c] \in Nat /\ fputs' = [fputs EXCEPT ![c] = fputs[c]]
  BY DEF FilesTypes

\* The others stay right when the file is changed by none but a request that
\* had it open for writing before, and no new one opens it.
LEMMA OthersKeep ==
  ASSUME FilesInv, NEW c \in FConns, Only(c),
         IsWriter(c)' => IsWriter(c),
         disk' = disk \/ IsWriter(c)
  PROVE  \A d \in FConns : d # c => ConnRight(d)'
<1> SUFFICES ASSUME NEW d \in FConns, d # c PROVE ConnRight(d)'
  OBVIOUS
<1>1. freq'[d] = freq[d] /\ fheld'[d] = fheld[d] /\ fputs'[d] = fputs[d]
  BY DEF Only
<1>2. \A e \in FConns : IsWriter(e)' => IsWriter(e)
  <2> SUFFICES ASSUME NEW e \in FConns, IsWriter(e)' PROVE IsWriter(e)
    OBVIOUS
  <2>1. CASE e = c
    BY <2>1
  <2>2. CASE e # c
    BY <2>2 DEF Only, IsWriter, Opens
  <2> QED
    BY <2>1, <2>2
<1>3. ConnRight(d)
  BY DEF FilesInv
<1>4. HoldsRight(d)'
  BY <1>1, <1>3 DEF ConnRight, HoldsRight, IsReader, Left
<1>5. UploadRight(d)'
  BY <1>1, <1>2, <1>3 DEF ConnRight, UploadRight, Opens
<1>6. DownloadRight(d)'
  BY <1>1, <1>2, <1>3 DEF ConnRight, DownloadRight, IsReader, Content
<1> QED
  BY <1>4, <1>5, <1>6 DEF ConnRight

LEMMA StepKeeps ==
  ASSUME FilesInv, NEW c \in FConns, Only(c),
         disk' \in Bytes, Len(disk') <= MaxBody + ReadLen, fcount' \in 0 .. MaxRequests,
         IsWriter(c)' => IsWriter(c),
         disk' = disk \/ IsWriter(c),
         ConnRight(c)', ServedWhole', SuccessIsStored'
  PROVE  FilesInv'
<1>1. \A d \in FConns : d # c => ConnRight(d)'
  BY OthersKeep
<1>2. FilesTypes'
  BY DEF FilesTypes, Only
<1> QED
  BY <1>1, <1>2 DEF FilesInv

LEMMA NoAnswerIsRight ==
  ASSUME fans' = NoAnswer
  PROVE  SuccessIsStored' /\ ServedWhole'
  BY DEF NoAnswer, SuccessIsStored, ServedWhole

\* A request that is over is in order.
LEMMA IdleIsRight ==
  ASSUME NEW c \in FConns, freq'[c] = NoFile, fheld'[c].file = 0, fheld'[c].mem \in Left(c)'
  PROVE  ConnRight(c)' /\ ~IsWriter(c)'
  BY DEF ConnRight, HoldsRight, UploadRight, DownloadRight, IsReader, IsWriter, NoFile

-----------------------------------------------------------------------------
(* Downloads.                                                              *)

\* A download in order, new or under way.
ReadsRight(c) ==
  /\ freq[c].was = Content(c)
  /\ freq[c].got <= Len(freq[c].was)
  /\ freq[c].served = SubSeq(freq[c].was, 1, freq[c].got)
  /\ freq[c].kind = "vfs" => \A d \in FConns : ~IsWriter(d)

LEMMA ReaderIsRight ==
  ASSUME NEW c \in FConns, freq'[c].kind \in {"espfs", "vfs"},
         fheld'[c].file = 1, fheld'[c].mem \in Left(c)',
         freq'[c].alone = 1 => ReadsRight(c)'
  PROVE  ConnRight(c)' /\ ~IsWriter(c)'
<1>1. HoldsRight(c)' /\ UploadRight(c)' /\ ~IsWriter(c)'
  BY DEF HoldsRight, UploadRight, IsReader, IsWriter
<1>2. DownloadRight(c)'
  BY DEF DownloadRight, ReadsRight
<1> QED
  BY <1>1, <1>2 DEF ConnRight

\* A path that is longer with its slash has no room for an index either: the
\* folder is not found before its name is too long.
LEMMA NeverClosed ==
  ASSUME NEW path \in Paths, NEW gzip, NEW accepts
  PROVE  Outcome(path, gzip, accepts) # "closed"
<1>1. path.len \in Nat /\ path.slash \in 0 .. 1 /\ FnameSize \in Nat
  BY FilesAssumption DEF Paths
<1>2. path.slash = 0 /\ path.len > 0 /\ FitsWithIndex(path) => ~(path.len + 1 >= FnameSize - 1)
  BY <1>1 DEF FitsWithIndex, IndexLen
<1> QED
  BY <1>2 DEF Outcome

\* What a request that begins holds.
LEMMA BeginHolds ==
  ASSUME FilesInv, NEW c \in FConns, freq[c].kind = "idle",
         NEW r \in FileReq, NEW file \in 0 .. 1, NEW mem \in 0 .. 1,
         BeginFile(c, r, file, mem)
  PROVE  /\ Only(c) /\ freq'[c] = r
         /\ fheld'[c].file = file /\ fputs' = fputs
         /\ mem = 0 => fheld'[c].mem \in Left(c)'
         /\ mem = 1 => fheld'[c].mem - 1 \in Left(c)'
<1> DEFINE h == [file |-> fheld[c].file + file, mem |-> fheld[c].mem + mem]
<1>1. /\ fheld[c] \in Held /\ fheld[c].file = 0 /\ fheld[c].mem \in Left(c)
      /\ fputs[c] \in Nat
  BY DEF FilesInv, FilesTypes, ConnRight, HoldsRight
<1>2. h \in Held /\ h.file = file /\ h.mem = fheld[c].mem + mem
  BY <1>1 DEF Held
<1>3. /\ freq' = [freq EXCEPT ![c] = r] /\ fheld' = [fheld EXCEPT ![c] = h]
      /\ fputs' = fputs
  BY DEF BeginFile
<1> HIDE DEF h
<1>4. fputs[c] \in Nat /\ fputs' = [fputs EXCEPT ![c] = fputs[c]]
  BY <1>3, NoneAnswered DEF FilesInv
<1>5. Only(c) /\ freq'[c] = r /\ fheld'[c] = h
  BY <1>2, <1>3, <1>4, OnlyIs DEF FilesInv
<1>6. Left(c)' = Left(c) /\ fheld[c].mem \in Nat
  BY <1>1, <1>3 DEF Left, Held
<1>7. mem = 1 => h.mem - 1 = fheld[c].mem
  BY <1>2, <1>6
<1>8. mem = 0 => h.mem = fheld[c].mem
  BY <1>2, <1>6
<1> QED
  BY <1>1, <1>2, <1>3, <1>5, <1>6, <1>7, <1>8

\* A request that begins, or is refused at once, and does not open the file for
\* writing.
LEMMA BeginKeeps ==
  ASSUME FilesInv, NEW c \in FConns, freq[c].kind = "idle", fcount < MaxRequests,
         NEW r \in FileReq, NEW file \in 0 .. 1, NEW mem \in 0 .. 1,
         BeginFile(c, r, file, mem), disk' = disk,
         ~(r.kind = "put" /\ file = 1),
         ConnRight(c)'
  PROVE  FilesInv'
<1>2. Only(c) /\ freq'[c] = r /\ fheld'[c].file = file
  BY BeginHolds
<1>3. ~IsWriter(c)'
  BY <1>2 DEF IsWriter, Opens
<1>4. fcount' \in 0 .. MaxRequests
  BY FilesAssumption DEF BeginFile, FilesInv, FilesTypes
<1>5. SuccessIsStored' /\ ServedWhole'
  BY NoAnswerIsRight DEF BeginFile
<1>6. disk' \in Bytes /\ Len(disk') <= MaxBody + ReadLen
  BY DEF FilesInv, FilesTypes
<1> QED
  BY <1>2, <1>3, <1>4, <1>5, <1>6, StepKeeps

LEMMA RefusalKeeps ==
  ASSUME FilesInv, NEW c \in FConns, freq[c].kind = "idle", fcount < MaxRequests,
         BeginFile(c, NoFile, 0, 0), disk' = disk
  PROVE  FilesInv'
<1>1. 0 \in 0 .. 1 /\ NoFile.kind = "idle"
  BY DEF NoFile
<1>2. freq'[c] = NoFile /\ fheld'[c].file = 0 /\ fheld'[c].mem \in Left(c)'
  BY <1>1, NoFileIsReq, BeginHolds
<1>3. ConnRight(c)'
  BY <1>2, IdleIsRight
<1> QED
  BY <1>1, <1>3, NoFileIsReq, BeginKeeps

LEMMA GetEspFsKeeps ==
  ASSUME FilesInv, NEW c \in FConns, GetEspFs(c)
  PROVE  FilesInv'
<1>1. freq[c].kind = "idle" /\ fcount < MaxRequests /\ disk' = disk
  BY DEF GetEspFs
<1>2. CASE BeginFile(c, NoFile, 0, 0)
  BY <1>1, <1>2, RefusalKeeps
<1>3. CASE BeginFile(c, [NoFile EXCEPT !.kind = "espfs", !.was = Factory], 1, 0)
  <2> DEFINE q == [NoFile EXCEPT !.kind = "espfs"]
             r == [q EXCEPT !.was = Factory]
  <2>1. q \in FileReq /\ q.kind = "espfs" /\ q.got = 0 /\ q.served = <<>>
    BY NoFileIsReq, SetKind DEF NoFile
  <2> HIDE DEF q
  <2>2. r \in FileReq /\ r.kind = "espfs" /\ r.got = 0 /\ r.served = <<>> /\ r.was = Factory
    BY <2>1, FactoryIs, SetWas
  <2>3. BeginFile(c, r, 1, 0)
    BY <1>3 DEF q
  <2> HIDE DEF r
  <2>4. freq'[c] = r /\ fheld'[c].file = 1 /\ fheld'[c].mem \in Left(c)'
    <3>1. 0 \in 0 .. 1 /\ 1 \in 0 .. 1
      OBVIOUS
    <3> QED
      BY <1>1, <2>2, <2>3, <3>1, BeginHolds
  <2>5. Factory = Content(c)' /\ Len(Factory) \in Nat /\ SubSeq(Factory, 1, 0) = <<>>
    BY <2>2, <2>4, FactoryIs, NothingRead, FilesAssumption DEF Content
  <2>6. ConnRight(c)'
    <3>1. ReadsRight(c)'
      <4>1. freq'[c].was = Content(c)'
        BY <2>2, <2>4, <2>5
      <4>2. freq'[c].got <= Len(freq'[c].was)
        BY <2>2, <2>4, <2>5
      <4>3. freq'[c].served = SubSeq(freq'[c].was, 1, freq'[c].got)
        BY <2>2, <2>4, <2>5
      <4> QED
        BY <2>2, <2>4, <4>1, <4>2, <4>3 DEF ReadsRight
    <3> QED
      BY <2>2, <2>4, <3>1, ReaderIsRight
  <2>7. 0 \in 0 .. 1 /\ 1 \in 0 .. 1
    OBVIOUS
  <2> QED
    BY <1>1, <2>2, <2>3, <2>6, <2>7, BeginKeeps
<1>4. \E path \in Paths, gzip \in BOOLEAN, accepts \in BOOLEAN :
        LET o == Outcome(path, gzip, accepts) IN
        IF o \in {"serve", "closed"}
        THEN BeginFile(c, [NoFile EXCEPT !.kind = "espfs", !.was = Factory],
                   IF o = "serve" THEN 1 ELSE 0, 0)
        ELSE BeginFile(c, NoFile, 0, 0)
  BY DEF GetEspFs
<1>5. \/ BeginFile(c, [NoFile EXCEPT !.kind = "espfs", !.was = Factory], 1, 0)
      \/ BeginFile(c, NoFile, 0, 0)
  BY <1>4, NeverClosed
<1> QED
  BY <1>2, <1>3, <1>5

LEMMA GetVfsKeeps ==
  ASSUME FilesInv, NEW c \in FConns, GetVfs(c)
  PROVE  FilesInv'
<1>1. freq[c].kind = "idle" /\ fcount < MaxRequests /\ disk' = disk
  BY DEF GetVfs
<1>2. CASE BeginFile(c, NoFile, 0, 0)
  BY <1>1, <1>2, RefusalKeeps
<1> DEFINE alone == IF Writers = {} THEN 1 ELSE 0
<1>3. CASE BeginFile(c, [NoFile EXCEPT !.kind = "vfs", !.was = disk, !.alone = alone], 1, 0)
  <2> DEFINE q == [NoFile EXCEPT !.kind = "vfs"]
             p == [q EXCEPT !.was = disk]
             r == [p EXCEPT !.alone = alone]
  <2>1. q \in FileReq /\ q.kind = "vfs" /\ q.got = 0 /\ q.served = <<>>
    BY NoFileIsReq, SetKind DEF NoFile
  <2> HIDE DEF q
  <2>2. disk \in Bytes /\ alone \in 0 .. 1
    BY DEF FilesInv, FilesTypes
  <2> HIDE DEF alone
  <2>3. p \in FileReq /\ p.kind = "vfs" /\ p.got = 0 /\ p.served = <<>> /\ p.was = disk
    BY <2>1, <2>2, SetWas
  <2> HIDE DEF p
  <2>4. r \in FileReq /\ r.kind = "vfs" /\ r.got = 0 /\ r.served = <<>> /\ r.was = disk
        /\ r.alone = alone
    BY <2>2, <2>3, SetAlone
  <2>5. BeginFile(c, r, 1, 0)
    BY <1>3 DEF q, p
  <2> HIDE DEF r
  <2>6. /\ freq'[c] = r /\ fheld'[c].file = 1 /\ fheld'[c].mem \in Left(c)'
        /\ Only(c)
    <3>1. 0 \in 0 .. 1 /\ 1 \in 0 .. 1
      OBVIOUS
    <3> QED
      BY <1>1, <2>4, <2>5, <3>1, BeginHolds
  <2>7. disk = Content(c)' /\ Len(disk) \in Nat /\ SubSeq(disk, 1, 0) = <<>>
    BY <1>1, <2>2, <2>4, <2>6, NothingRead, LenProperties DEF Content, Bytes
  <2>9. alone = 1 => \A d \in FConns : ~IsWriter(d)'
    <3> SUFFICES ASSUME alone = 1, NEW d \in FConns PROVE ~IsWriter(d)'
      OBVIOUS
    <3>1. ~IsWriter(d)
      BY DEF alone, Writers, IsWriter, Opens
    <3> QED
      BY <2>4, <2>6, <3>1 DEF Only, IsWriter, Opens
  <2>10. ConnRight(c)'
    <3>1. alone = 1 => ReadsRight(c)'
      <4>1. freq'[c].was = Content(c)'
        BY <2>4, <2>6, <2>7
      <4>2. freq'[c].got <= Len(freq'[c].was)
        BY <2>4, <2>6, <2>7
      <4>3. freq'[c].served = SubSeq(freq'[c].was, 1, freq'[c].got)
        BY <2>4, <2>6, <2>7
      <4> QED
        BY <2>9, <4>1, <4>2, <4>3 DEF ReadsRight
    <3> QED
      BY <2>4, <2>6, <3>1, ReaderIsRight
  <2>11. 0 \in 0 .. 1 /\ 1 \in 0 .. 1
    OBVIOUS
  <2> QED
    BY <1>1, <2>4, <2>5, <2>10, <2>11, BeginKeeps
<1> QED
  BY <1>2, <1>3 DEF GetVfs

\* One part: the last one closes the file.
LEMMA ReadFileKeeps ==
  ASSUME FilesInv, NEW c \in FConns, ReadFile(c)
  PROVE  FilesInv'
<1> DEFINE rest == Len(Content(c)) - freq[c].got
           n == IF rest < ReadLen THEN IF rest < 0 THEN 0 ELSE rest ELSE ReadLen
           piece == SubSeq(Content(c), freq[c].got + 1, freq[c].got + n)
           s == [freq[c] EXCEPT !.got = @ + n]
           r == [s EXCEPT !.served = @ \o piece]
<1>1. /\ freq[c].kind \in {"espfs", "vfs"} /\ freq[c] \in FileReq /\ fheld[c] \in Held
      /\ ConnRight(c)
      /\ disk' = disk /\ fcount' = fcount /\ fputs' = fputs
      /\ disk' \in Bytes /\ Len(disk') <= MaxBody + ReadLen /\ fcount' \in 0 .. MaxRequests
  BY DEF ReadFile, FilesInv, FilesTypes
<1>2. /\ fheld[c].file = 1 /\ fheld[c].mem \in Left(c) /\ Left(c)' = Left(c)
      /\ fputs[c] \in Nat /\ fputs' = [fputs EXCEPT ![c] = fputs[c]]
  BY <1>1, NoneAnswered DEF ConnRight, HoldsRight, IsReader, FilesInv, Left
<1>3. /\ Content(c) \in Bytes /\ Len(Content(c)) \in Nat
      /\ Len(Content(c)) <= MaxBody + ReadLen
  BY <1>1, FactoryIs, FilesAssumption, LenProperties DEF Content, FilesInv, FilesTypes, Bytes
<1>4. freq[c].got \in Nat /\ n \in Nat /\ (n > 0 => freq[c].got + n <= Len(Content(c)))
      /\ freq[c].got <= MaxBody + ReadLen
  BY <1>1, <1>3, FilesAssumption DEF FileReq
<1>5. freq[c].got + n \in 0 .. MaxBody + ReadLen
  BY <1>3, <1>4, FilesAssumption
<1>6. piece \in Bytes
  <2>1. CASE n = 0
    <3>1. freq[c].got + 1 \in Int /\ freq[c].got + n \in Int /\ freq[c].got + n < freq[c].got + 1
      BY <1>4, <2>1
    <3>2. piece = <<>>
      BY <3>1, SubSeqEmpty, Zenon
    <3> QED
      BY <3>2, EmptySeq DEF Bytes
  <2>2. CASE n > 0
    BY <1>3, <1>4, <2>2, PartIs
  <2> QED
    BY <1>4, <2>1, <2>2
<1>7. [freq[c] EXCEPT !.got = @ + n, !.served = @ \o piece] = r
  BY <1>1 DEF FileReq
<1>8. /\ s \in FileReq /\ s.got = freq[c].got + n
      /\ s.kind = freq[c].kind /\ s.served = freq[c].served /\ s.was = freq[c].was
      /\ s.alone = freq[c].alone
  BY <1>1, <1>5, SetGot
<1>9. freq[c].served \o piece \in Bytes /\ freq[c].served \in Bytes
  <2>1. freq[c].served \in Bytes
    BY <1>1 DEF FileReq
  <2> QED
    BY <1>6, <2>1, ConcatProperties DEF Bytes
<1>10. ReadFile(c) =>
         IF n # ReadLen
         THEN /\ freq' = [freq EXCEPT ![c] = NoFile]
              /\ fheld' = [fheld EXCEPT ![c] = Closed(@)]
              /\ fans' = [to |-> "get", served |-> r.served, was |-> r.was, alone |-> r.alone]
         ELSE /\ freq' = [freq EXCEPT ![c] = r] /\ fans' = NoAnswer /\ UNCHANGED fheld
  BY <1>7 DEF ReadFile
<1> HIDE DEF s
<1> HIDE DEF r
<1>11. /\ r \in FileReq /\ r.got = freq[c].got + n /\ r.served = freq[c].served \o piece
       /\ r.kind = freq[c].kind /\ r.was = freq[c].was /\ r.alone = freq[c].alone
  <2>1. PICK v \in Bytes : v = freq[c].served \o piece
    BY <1>9
  <2>2. r = [s EXCEPT !.served = v]
    BY <1>8, <2>1 DEF r
  <2>3. s \in FileReq
    BY <1>8
  <2>4. /\ r \in FileReq /\ r.served = v /\ r.got = s.got
        /\ r.kind = s.kind /\ r.was = s.was /\ r.alone = s.alone
    BY <2>2, <2>3, SetServed
  <2> QED
    BY <1>8, <2>1, <2>4
\* What is read continues what was delivered.
<1>12. freq[c].alone = 1 =>
         /\ r.was = Content(c) /\ r.got <= Len(r.was)
         /\ r.served = SubSeq(r.was, 1, r.got)
         /\ freq[c].kind = "vfs" => \A d \in FConns : ~IsWriter(d)
  <2> SUFFICES ASSUME freq[c].alone = 1
               PROVE  /\ r.was = Content(c) /\ r.got <= Len(r.was)
                      /\ r.served = SubSeq(r.was, 1, r.got)
                      /\ freq[c].kind = "vfs" => \A d \in FConns : ~IsWriter(d)
    OBVIOUS
  <2>1. /\ freq[c].was = Content(c) /\ freq[c].got <= Len(freq[c].was)
        /\ freq[c].served = SubSeq(freq[c].was, 1, freq[c].got)
        /\ freq[c].kind = "vfs" => \A d \in FConns : ~IsWriter(d)
    BY <1>1 DEF ConnRight, DownloadRight, IsReader
  <2>2. freq[c].got + n <= Len(Content(c)) /\ freq[c].got \in 0 .. Len(Content(c))
    BY <1>3, <1>4, <2>1
  <2>3. SubSeq(Content(c), 1, freq[c].got) \o piece = SubSeq(Content(c), 1, freq[c].got + n)
    BY <1>3, <1>4, <2>2, NextPart
  <2> QED
    BY <1>11, <2>1, <2>2, <2>3
<1>13. CASE n # ReadLen
  <2> PICK h : h = Closed(fheld[c])
    OBVIOUS
  <2>1. h \in Held /\ h.file = 0 /\ h.mem = fheld[c].mem
    BY <1>1, <1>2 DEF Held, Closed
  <2>8. freq' = [freq EXCEPT ![c] = NoFile] /\ fheld' = [fheld EXCEPT ![c] = h]
    BY <1>10, <1>13
  <2>2. Only(c) /\ freq'[c] = NoFile /\ fheld'[c] = h
    <3>1. PICK k \in Nat : k = fputs[c] /\ fputs' = [fputs EXCEPT ![c] = k]
      BY <1>2
    <3>2. FilesTypes
      BY DEF FilesInv
    <3> QED
      BY <2>1, <2>8, <3>1, <3>2, NoFileIsReq, OnlyIs
  <2>3. ConnRight(c)' /\ ~IsWriter(c)'
    BY <1>2, <2>1, <2>2, IdleIsRight
  <2>4. fans' = [to |-> "get", served |-> r.served, was |-> r.was, alone |-> r.alone]
    BY <1>10, <1>13
  <2>5. SuccessIsStored'
    BY <2>4 DEF SuccessIsStored
  <2>6. freq[c].alone = 1 => r.served = r.was
    <3> SUFFICES ASSUME freq[c].alone = 1 PROVE r.served = r.was
      OBVIOUS
    <3>2. freq[c].got + n <= Len(Content(c))
      BY <1>11, <1>12
    <3>1. freq[c].got + n = Len(Content(c))
      BY <1>3, <1>4, <1>13, <3>2, FilesAssumption
    <3> QED
      BY <1>3, <1>11, <1>12, <3>1, SubSeqFull DEF Bytes
  <2>7. ServedWhole'
    BY <1>11, <2>4, <2>6 DEF ServedWhole
  <2> QED
    BY <1>1, <2>2, <2>3, <2>5, <2>7, StepKeeps
<1>14. CASE n = ReadLen
  <2>1. freq' = [freq EXCEPT ![c] = r] /\ fans' = NoAnswer /\ fheld' = fheld
    BY <1>10, <1>14
  <2>2. Only(c) /\ freq'[c] = r /\ fheld'[c] = fheld[c]
    BY <1>1, <1>11, <2>1 DEF FilesInv, FilesTypes, Only
  <2>3. \A d \in FConns : IsWriter(d)' => IsWriter(d)
    BY <1>1, <1>11, <2>2 DEF Only, IsWriter, Opens
  <2>4. Content(c)' = Content(c)
    BY <1>1, <1>11, <2>2 DEF Content
  <2>5. freq'[c].alone = 1 => ReadsRight(c)'
    BY <1>11, <1>12, <2>2, <2>3, <2>4 DEF ReadsRight
  <2>6. ConnRight(c)' /\ ~IsWriter(c)'
    BY <1>1, <1>2, <1>11, <2>2, <2>5, ReaderIsRight
  <2> QED
    BY <1>1, <2>1, <2>2, <2>6, NoAnswerIsRight, StepKeeps
<1> QED
  BY <1>13, <1>14

-----------------------------------------------------------------------------
(* The end of a connection.                                                *)

LEMMA AbortFileKeeps ==
  ASSUME FilesInv, NEW c \in FConns, AbortFile(c)
  PROVE  FilesInv'
<1> DEFINE h == IF freq[c].kind = "put" THEN ClosedPut(fheld[c]) ELSE Closed(fheld[c])
<1>1. /\ freq[c].kind # "idle" /\ freq[c] \in FileReq /\ fheld[c] \in Held
      /\ ConnRight(c)
      /\ disk' = disk /\ fcount' = fcount /\ fputs' = fputs /\ fputs[c] \in Nat
      /\ disk' \in Bytes /\ Len(disk') <= MaxBody + ReadLen /\ fcount' \in 0 .. MaxRequests
  BY DEF AbortFile, FilesInv, FilesTypes
<1>2. freq' = [freq EXCEPT ![c] = NoFile] /\ fheld' = [fheld EXCEPT ![c] = h]
      /\ fans' = NoAnswer
  BY DEF AbortFile
<1>3. h \in Held /\ h.file = 0 /\ h.mem \in Left(c)
  <2>1. CASE freq[c].kind = "put"
    BY <1>1, <2>1 DEF ConnRight, HoldsRight, Held, Left, ClosedPut
  <2>2. CASE freq[c].kind # "put"
    <3>1. fheld[c].file = 1 /\ fheld[c].mem \in Left(c)
      BY <1>1, <2>2 DEF ConnRight, HoldsRight, IsReader, FileReq
    <3> QED
      BY <1>1, <2>2, <3>1 DEF Held, Closed
  <2> QED
    BY <2>1, <2>2
<1> HIDE DEF h
<1>4. Only(c) /\ freq'[c] = NoFile /\ fheld'[c] = h
  BY <1>1, <1>2, <1>3, NoneAnswered, NoFileIsReq, OnlyIs DEF FilesInv
<1>5. ConnRight(c)' /\ ~IsWriter(c)'
  BY <1>1, <1>3, <1>4, IdleIsRight DEF Left
<1> QED
  BY <1>1, <1>2, <1>4, <1>5, NoAnswerIsRight, StepKeeps

-----------------------------------------------------------------------------
(* Uploads.                                                                *)

\* What a call makes of an upload in the state WRITE.
LEMMA AfterWriteIs ==
  ASSUME NEW r \in FileReq, NEW n \in Nat, NEW count \in 0 .. n, NEW w,
         w = AfterWrite(r, n, count),
         r.got + n <= r.len, r.written + count <= MaxBody
  PROVE  /\ w \in FileReq
         /\ w.kind = r.kind /\ w.len = r.len /\ w.alone = r.alone
         /\ w.got = r.got + n /\ w.written = r.written + count
         /\ \/ w.st = "DONE" /\ w.written >= w.len
            \/ w.st = "ERR"
            \/ w.st = r.st /\ count = n /\ w.written < w.len
<1> DEFINE p == [r EXCEPT !.got = @ + n]
           q == [p EXCEPT !.written = @ + count]
<1>1. /\ r.got + n \in 0 .. MaxBody + ReadLen /\ r.written + count \in 0 .. MaxBody
      /\ r.len \in Nat /\ r.written \in Nat
  BY FilesAssumption DEF FileReq
<1>2. /\ p \in FileReq /\ p.got = r.got + n /\ p.written = r.written /\ p.st = r.st
      /\ p.kind = r.kind /\ p.len = r.len /\ p.alone = r.alone
  BY <1>1, SetGot
<1>3. [r EXCEPT !.got = @ + n, !.written = @ + count] = q
  BY DEF FileReq
<1> HIDE DEF p
<1>4. q = [p EXCEPT !.written = r.written + count]
  BY <1>2
<1> HIDE DEF q
<1>5. /\ q \in FileReq /\ q.got = r.got + n /\ q.written = r.written + count /\ q.st = r.st
      /\ q.kind = r.kind /\ q.len = r.len /\ q.alone = r.alone
  BY <1>1, <1>2, <1>4, SetWritten
<1>6. w = IF q.written >= q.len THEN [q EXCEPT !.st = "DONE"]
          ELSE IF count # n THEN [q EXCEPT !.st = "ERR"] ELSE q
  BY <1>3 DEF AfterWrite
<1>7. CASE q.written >= q.len
  <2>1. w = [q EXCEPT !.st = "DONE"]
    BY <1>6, <1>7
  <2>2. /\ w \in FileReq /\ w.st = "DONE" /\ w.got = q.got /\ w.written = q.written
        /\ w.kind = q.kind /\ w.len = q.len /\ w.alone = q.alone
    BY <1>5, <2>1, SetSt
  <2> QED
    BY <1>5, <1>7, <2>2
<1>8. CASE ~(q.written >= q.len) /\ count # n
  <2>1. w = [q EXCEPT !.st = "ERR"]
    BY <1>6, <1>8
  <2>2. /\ w \in FileReq /\ w.st = "ERR" /\ w.got = q.got /\ w.written = q.written
        /\ w.kind = q.kind /\ w.len = q.len /\ w.alone = q.alone
    BY <1>5, <2>1, SetSt
  <2> QED
    BY <1>5, <2>2
<1>9. CASE ~(q.written >= q.len) /\ count = n
  BY <1>1, <1>5, <1>6, <1>9
<1> QED
  BY <1>7, <1>8, <1>9

\* The file is opened and emptied: the others are no longer alone.
LEMMA PutOpensKeeps ==
  ASSUME FilesInv, NEW c \in FConns, NEW r \in FileReq, freq[c].kind = "idle",
         fcount < MaxRequests, disk' = <<>>,
         r.kind = "put" /\ r.st = "WRITE" /\ r.got = 0 /\ r.written = 0,
         r.alone = 1 => Writers = {},
         freq' = Noticed([freq EXCEPT ![c] = r], c),
         fheld' = [fheld EXCEPT ![c] = [file |-> @.file + 1, mem |-> @.mem + 1]],
         fcount' = fcount + 1, fans' = NoAnswer, fputs' = fputs
  PROVE  FilesInv'
<1>1. freq \in [FConns -> FileReq] /\ fheld \in [FConns -> Held]
  BY DEF FilesInv, FilesTypes
<1> DEFINE h == [file |-> fheld[c].file + 1, mem |-> fheld[c].mem + 1]
<1>2. h \in Held /\ h.file = 1 /\ h.mem - 1 \in Left(c)
  <2>1. fheld[c].file = 0 /\ fheld[c].mem \in Left(c) /\ fheld[c] \in Held
    BY <1>1 DEF FilesInv, ConnRight, HoldsRight
  <2>2. h \in Held /\ h.file = 1 /\ h.mem - 1 = fheld[c].mem
    BY <2>1 DEF Held
  <2> QED
    BY <2>1, <2>2
<1>13. fheld' = [fheld EXCEPT ![c] = h] /\ fputs' \in [FConns -> Nat]
  BY DEF FilesInv, FilesTypes
<1> HIDE DEF h
<1>3. /\ fheld' \in [FConns -> Held] /\ fheld'[c].file = 1 /\ fheld'[c].mem - 1 \in Left(c)
      /\ \A d \in FConns : d # c => fheld'[d] = fheld[d]
      /\ \A d \in FConns : Left(d)' = Left(d)
  BY <1>1, <1>2, <1>13 DEF Left
<1>4. freq' = [d \in FConns |-> IF d = c THEN r ELSE [freq[d] EXCEPT !.alone = 0]]
  BY <1>1 DEF Noticed
<1>5. freq'[c] = r
  BY <1>4
<1>6. ASSUME NEW d \in FConns, d # c
      PROVE  /\ freq'[d] \in FileReq /\ freq'[d].alone = 0
             /\ freq'[d].kind = freq[d].kind /\ freq'[d].st = freq[d].st
             /\ freq'[d].len = freq[d].len /\ freq'[d].got = freq[d].got
             /\ freq'[d].written = freq[d].written
  <2>1. freq'[d] = [freq[d] EXCEPT !.alone = 0]
    BY <1>4, <1>6, Zenon
  <2>2. 0 \in 0 .. 1 /\ freq[d] \in FileReq
    BY <1>1
  <2> QED
    BY <2>1, <2>2, SetAlone
<1>7. freq' \in [FConns -> FileReq]
  BY <1>4, <1>5, <1>6
<1>8. disk' \in Bytes /\ Len(disk') = 0
  BY EmptySeq DEF Bytes
<1>9. FilesTypes'
  <2>1. fcount' \in 0 .. MaxRequests
    BY FilesAssumption DEF FilesInv, FilesTypes
  <2>2. Len(disk') <= MaxBody + ReadLen
    BY <1>8, FilesAssumption
  <2> QED
    BY <1>13, <1>3, <1>7, <1>8, <2>1, <2>2 DEF FilesTypes
<1>10. ASSUME NEW d \in FConns, d # c
       PROVE  ConnRight(d)'
  <2>1. ConnRight(d)
    BY DEF FilesInv
  <2>2. /\ freq'[d].alone = 0 /\ fheld'[d] = fheld[d] /\ Left(d)' = Left(d)
        /\ freq'[d].kind = freq[d].kind /\ freq'[d].st = freq[d].st
        /\ freq'[d].len = freq[d].len /\ freq'[d].got = freq[d].got
        /\ freq'[d].written = freq[d].written
    BY <1>3, <1>6, <1>10
  <2>3. HoldsRight(d)'
    BY <2>1, <2>2 DEF ConnRight, HoldsRight, IsReader
  <2>4. UploadRight(d)'
    BY <2>1, <2>2 DEF ConnRight, UploadRight, Opens
  <2>5. DownloadRight(d)'
    BY <2>2 DEF DownloadRight
  <2> QED
    BY <2>3, <2>4, <2>5 DEF ConnRight
<1>11. ConnRight(c)'
  <2>1. HoldsRight(c)' /\ DownloadRight(c)'
    BY <1>3, <1>5 DEF HoldsRight, DownloadRight, IsReader
  <2>2. r.alone = 1 => \A d \in FConns : d # c => ~IsWriter(d)'
    <3> SUFFICES ASSUME r.alone = 1, NEW d \in FConns, d # c PROVE ~IsWriter(d)'
      OBVIOUS
    <3>1. ~IsWriter(d)
      BY DEF Writers, IsWriter, Opens
    <3> QED
      BY <1>3, <1>6, <3>1 DEF IsWriter, Opens
  <2>3. disk' = Body(c, 0)
    BY EmptyBody
  <2>4. r.len \in Nat
    BY FilesAssumption DEF FileReq
  <2>5. UploadRight(c)'
    BY <1>3, <1>5, <2>2, <2>3, <2>4 DEF UploadRight, Opens
  <2> QED
    BY <2>1, <2>5 DEF ConnRight
<1>12. \A d \in FConns : ConnRight(d)'
  BY <1>10, <1>11
<1> QED
  BY <1>9, <1>12, NoAnswerIsRight DEF FilesInv

LEMMA PutKeeps ==
  ASSUME FilesInv, NEW c \in FConns, NEW n \in 0 .. MaxBody, Put(c, n)
  PROVE  FilesInv'
<1> DEFINE q == [NoFile EXCEPT !.kind = "put"]
           r == [q EXCEPT !.len = n]
<1>1. freq[c].kind = "idle" /\ fcount < MaxRequests
  BY DEF Put
<1>2. /\ q \in FileReq /\ q.kind = "put" /\ q.got = 0 /\ q.written = 0 /\ q.alone = 1
  BY NoFileIsReq, SetKind DEF NoFile
<1> HIDE DEF q
<1>3. /\ r \in FileReq /\ r.kind = "put" /\ r.got = 0 /\ r.written = 0 /\ r.len = n
  BY <1>2, SetLen
<1>4. \/ /\ disk' = <<>>
         /\ freq' = Noticed([freq EXCEPT ![c] =
              [r EXCEPT !.st = "WRITE", !.alone = IF Writers = {} THEN 1 ELSE 0]], c)
         /\ fheld' = [fheld EXCEPT ![c] = [file |-> @.file + 1, mem |-> @.mem + 1]]
         /\ fcount' = fcount + 1 /\ fans' = NoAnswer /\ fputs' = fputs
      \/ \E st \in {"ERR", "START"} : BeginFile(c, [r EXCEPT !.st = st], 0, 1) /\ UNCHANGED disk
  BY DEF Put, q
<1> HIDE DEF r
<1>5. CASE \E st \in {"ERR", "START"} : BeginFile(c, [r EXCEPT !.st = st], 0, 1) /\ UNCHANGED disk
  <2>1. PICK st \in {"ERR", "START"} : BeginFile(c, [r EXCEPT !.st = st], 0, 1) /\ disk' = disk
    BY <1>5
  <2>2. PICK s \in {[r EXCEPT !.st = st]} : TRUE
    OBVIOUS
  <2>3. /\ s = [r EXCEPT !.st = st] /\ s \in FileReq /\ s.kind = "put" /\ s.st = st
        /\ s.got = 0 /\ s.written = 0 /\ s.len = n
    BY <1>3, <2>2, SetSt
  <2>4. freq'[c] = s /\ fheld'[c].file = 0 /\ fheld'[c].mem - 1 \in Left(c)'
    <3>1. 0 \in 0 .. 1 /\ 1 \in 0 .. 1
      OBVIOUS
    <3> QED
      BY <1>1, <2>1, <2>3, <3>1, BeginHolds
  <2>5. n \in Nat
    BY FilesAssumption
  <2>6. ConnRight(c)'
    BY <2>3, <2>4, <2>5 DEF ConnRight, HoldsRight, UploadRight, DownloadRight, IsReader, Opens
  <2>7. 0 \in 0 .. 1 /\ 1 \in 0 .. 1
    OBVIOUS
  <2>8. BeginFile(c, s, 0, 1)
    BY <2>1, <2>3
  <2> QED
    BY <1>1, <2>1, <2>3, <2>6, <2>7, <2>8, BeginKeeps
<1>6. CASE /\ disk' = <<>>
           /\ freq' = Noticed([freq EXCEPT ![c] =
                [r EXCEPT !.st = "WRITE", !.alone = IF Writers = {} THEN 1 ELSE 0]], c)
           /\ fheld' = [fheld EXCEPT ![c] = [file |-> @.file + 1, mem |-> @.mem + 1]]
           /\ fcount' = fcount + 1 /\ fans' = NoAnswer /\ fputs' = fputs
  <2> DEFINE alone == IF Writers = {} THEN 1 ELSE 0
             p == [r EXCEPT !.st = "WRITE"]
             s == [p EXCEPT !.alone = alone]
  <2>1. alone \in 0 .. 1 /\ (alone = 1 => Writers = {})
    OBVIOUS
  <2>2. [r EXCEPT !.st = "WRITE", !.alone = alone] = s
    BY <1>3 DEF FileReq
  <2> HIDE DEF alone
  <2>3. p \in FileReq /\ p.kind = "put" /\ p.st = "WRITE" /\ p.got = 0 /\ p.written = 0
    BY <1>3, SetSt
  <2> HIDE DEF p
  <2>4. /\ s \in FileReq /\ s.kind = "put" /\ s.st = "WRITE" /\ s.got = 0 /\ s.written = 0
        /\ s.alone = alone
    BY <2>1, <2>3, SetAlone
  <2>5. freq' = Noticed([freq EXCEPT ![c] = s], c)
    BY <1>6, <2>2 DEF alone
  <2> HIDE DEF s
  <2> QED
    BY <1>1, <1>6, <2>1, <2>4, <2>5, PutOpensKeeps, Zenon
<1> QED
  BY <1>4, <1>5, <1>6

\* The request and the file after one call of an upload.
Piece(c, n, count) ==
  IF freq[c].st = "WRITE" THEN AfterWrite(freq[c], n, count)
  ELSE [freq[c] EXCEPT !.got = @ + n]
FileAfter(c, count) == IF freq[c].st = "WRITE" THEN Stored(c, count) ELSE disk

LEMMA PieceIs ==
  ASSUME FilesInv, NEW c \in FConns, freq[c].kind = "put",
         NEW n \in 0 .. MaxBody, NEW count \in 0 .. n, freq[c].got + n <= freq[c].len,
         NEW r, r = Piece(c, n, count), NEW d, d = FileAfter(c, count)
  PROVE  /\ r \in FileReq /\ r.kind = "put" /\ r.len = freq[c].len /\ r.alone = freq[c].alone
         /\ r.got = freq[c].got + n /\ r.written <= r.got
         /\ r.st \in {"WRITE", "DONE"} => Opens(c)
         /\ r.st = "WRITE" => r.written = r.got
         /\ r.st = "DONE" => r.written = r.len
         /\ d \in Bytes /\ Len(d) <= MaxBody + ReadLen /\ (d = disk \/ IsWriter(c))
         /\ Opens(c) /\ r.alone = 1 /\ r.st \in {"WRITE", "DONE"} => d = Body(c, r.written)
<1>1. /\ freq[c] \in FileReq /\ UploadRight(c)
      /\ disk \in Bytes /\ Len(disk) <= MaxBody + ReadLen
  BY DEF FilesInv, FilesTypes, ConnRight
<1>2. /\ n \in Nat /\ count \in Nat /\ count <= n
      /\ freq[c].got \in Nat /\ freq[c].written \in 0 .. MaxBody /\ freq[c].len \in 0 .. MaxBody
      /\ freq[c].written \in Nat /\ freq[c].written <= freq[c].got
  BY <1>1, FilesAssumption DEF FileReq, UploadRight
<1>3. CASE freq[c].st = "WRITE"
  <2>1. freq[c].written = freq[c].got /\ Opens(c) /\ IsWriter(c)
    BY <1>1, <1>3 DEF UploadRight, IsWriter
  <2>2. freq[c].written + count <= MaxBody
    BY <1>2, <2>1, FilesAssumption
  <2>3. r = AfterWrite(freq[c], n, count) /\ d = Stored(c, count)
    BY <1>3 DEF Piece, FileAfter
  <2>4. /\ r \in FileReq
        /\ r.kind = freq[c].kind /\ r.len = freq[c].len /\ r.alone = freq[c].alone
        /\ r.got = freq[c].got + n /\ r.written = freq[c].written + count
        /\ \/ r.st = "DONE" /\ r.written >= r.len
           \/ r.st = "ERR"
           \/ r.st = freq[c].st /\ count = n /\ r.written < r.len
    BY <1>1, <1>2, <2>2, <2>3, AfterWriteIs
  <2>5. d \in Bytes /\ Len(d) <= MaxBody + ReadLen
    BY <1>1, <1>2, <2>2, <2>3, StoredIs
  <2>6. freq[c].alone = 1 => d = Body(c, r.written)
    <3> SUFFICES ASSUME freq[c].alone = 1 PROVE d = Body(c, r.written)
      OBVIOUS
    <3>1. disk = Body(c, freq[c].written)
      BY <1>1, <1>3, <2>1 DEF UploadRight
    <3>2. Stored(c, count) = Body(c, freq[c].written + count)
      BY <1>2, <2>2, <3>1, StoredOnOwn
    <3> QED
      BY <2>3, <2>4, <3>2
  <2>7. r.written <= r.got /\ (r.st = "WRITE" => r.written = r.got)
        /\ (r.st = "DONE" => r.written = r.len)
    BY <1>2, <1>3, <2>1, <2>4
  <2> QED
    BY <2>1, <2>4, <2>5, <2>6, <2>7
<1>4. CASE freq[c].st # "WRITE"
  <2>1. r = [freq[c] EXCEPT !.got = freq[c].got + n] /\ d = disk
    BY <1>4 DEF Piece, FileAfter
  <2>2. freq[c].got + n \in 0 .. MaxBody + ReadLen
    BY <1>2, FilesAssumption
  <2>3. /\ r \in FileReq /\ r.got = freq[c].got + n
        /\ r.kind = freq[c].kind /\ r.len = freq[c].len /\ r.alone = freq[c].alone
        /\ r.st = freq[c].st /\ r.written = freq[c].written
    BY <1>1, <2>1, <2>2, SetGot
  <2> QED
    BY <1>1, <1>2, <1>4, <2>1, <2>3 DEF UploadRight
<1> QED
  BY <1>3, <1>4

\* One call of an upload: the last one closes the file and answers.
LEMMA PutPieceKeeps ==
  ASSUME FilesInv, NEW c \in FConns, NEW n \in 0 .. MaxBody, NEW lost \in 0 .. MaxBody,
         NEW count \in 0 .. n, PutPiece(c, n, count, lost)
  PROVE  FilesInv'
<1>1. PICK r \in {Piece(c, n, count)} : r = Piece(c, n, count)
  OBVIOUS
<1>2. PICK d \in {FileAfter(c, count)} : d = FileAfter(c, count)
  OBVIOUS
<1>3. /\ freq[c].kind = "put" /\ freq[c].got + n <= freq[c].len
      /\ lost = 0 \/ (r.got = r.len /\ fheld[c].file = 1 /\ lost <= Len(d))
      /\ disk' = SubSeq(d, 1, Len(d) - lost)
      /\ freq' = [freq EXCEPT ![c] = IF r.got = r.len THEN NoFile ELSE r]
      /\ r.got = r.len =>
           /\ \E left \in 1 .. 2 :
                fheld' = [fheld EXCEPT ![c] = KeptByAnswer(ClosedPut(@), left)]
           /\ fputs' = [fputs EXCEPT ![c] = @ + 1]
           /\ fans' = [to |-> "put", conn |-> c, len |-> r.len, alone |-> r.alone,
                       success |-> IF r.st = "DONE" THEN 1 ELSE 0, lost |-> lost]
      /\ r.got # r.len => fheld' = fheld /\ fputs' = fputs /\ fans' = NoAnswer
      /\ fcount' = fcount
  BY <1>1, <1>2 DEF PutPiece, Piece, FileAfter
<1>4. /\ r \in FileReq /\ r.kind = "put" /\ r.len = freq[c].len /\ r.alone = freq[c].alone
      /\ r.got = freq[c].got + n /\ r.written <= r.got
      /\ r.st \in {"WRITE", "DONE"} => Opens(c)
      /\ r.st = "WRITE" => r.written = r.got
      /\ r.st = "DONE" => r.written = r.len
      /\ d \in Bytes /\ Len(d) <= MaxBody + ReadLen /\ (d = disk \/ IsWriter(c))
      /\ Opens(c) /\ r.alone = 1 /\ r.st \in {"WRITE", "DONE"} => d = Body(c, r.written)
  BY <1>1, <1>2, <1>3, PieceIs
<1>5. /\ fheld[c] \in Held /\ ConnRight(c) /\ fheld[c].mem - 1 \in Left(c)
      /\ fputs[c] \in Nat /\ fcount' \in 0 .. MaxRequests
  BY <1>3 DEF FilesInv, FilesTypes, ConnRight, HoldsRight
<1>6. lost = 0 => disk' = d
  BY <1>3, <1>4, NothingLost
<1>7. /\ disk' \in Bytes /\ Len(disk') <= MaxBody + ReadLen
      /\ disk' = disk \/ IsWriter(c)
  <2>1. lost \in Nat /\ Len(d) \in Nat
    BY <1>4, FilesAssumption, LenProperties DEF Bytes
  <2>2. disk' \in Bytes /\ Len(disk') <= Len(d)
    BY <1>3, <1>4, <2>1, CutIs
  <2>3. Len(disk') \in Nat
    BY <2>2, LenProperties DEF Bytes
  <2>4. disk' = disk \/ IsWriter(c)
    BY <1>3, <1>4, <1>6 DEF IsWriter, Opens
  <2> QED
    BY <1>4, <2>1, <2>2, <2>3, <2>4, FilesAssumption
<1>8. CASE r.got = r.len
  <2> PICK left \in 1 .. 2 : fheld' = [fheld EXCEPT ![c] = KeptByAnswer(ClosedPut(@), left)]
    BY <1>3, <1>8
  <2> PICK h : h = KeptByAnswer(ClosedPut(fheld[c]), left)
    OBVIOUS
  <2> PICK k : k = fputs[c] + 1
    OBVIOUS
  <2>1. /\ h \in Held /\ h.file = 0
        /\ h.mem \in k .. 2 * k /\ k \in Nat
    BY <1>5 DEF Held, KeptByAnswer, ClosedPut, Left
  <2>2. /\ freq' = [freq EXCEPT ![c] = NoFile]
        /\ fheld' = [fheld EXCEPT ![c] = h] /\ fputs' = [fputs EXCEPT ![c] = k]
    BY <1>3, <1>8
  <2>3. Only(c) /\ freq'[c] = NoFile /\ fheld'[c] = h /\ fputs'[c] = k
    BY <2>1, <2>2, NoFileIsReq, OnlyIs DEF FilesInv
  <2>4. ConnRight(c)' /\ ~IsWriter(c)'
    BY <2>1, <2>3, IdleIsRight DEF Left
  <2>5. fans' = [to |-> "put", conn |-> c, len |-> r.len, alone |-> r.alone,
                 success |-> IF r.st = "DONE" THEN 1 ELSE 0, lost |-> lost]
    BY <1>3, <1>8
  <2>6. ServedWhole'
    BY <2>5 DEF ServedWhole
  <2>7. SuccessIsStored'
    <3> SUFFICES ASSUME r.st = "DONE", r.alone = 1
                 PROVE  disk' = Body(c, r.len - lost)
      BY <2>5 DEF SuccessIsStored
    <3>1. d = Body(c, r.len) /\ r.len \in 0 .. MaxBody
      BY <1>4 DEF FileReq
    <3>2. Len(d) = r.len /\ lost <= r.len
      BY <1>3, <3>1, BodyIs, FilesAssumption
    <3> QED
      BY <1>3, <3>1, <3>2, BodyWithoutItsEnd
  <2> QED
    BY <1>5, <1>7, <2>3, <2>4, <2>6, <2>7, StepKeeps
<1>9. CASE r.got # r.len
  <2>1. /\ freq' = [freq EXCEPT ![c] = r] /\ fheld' = fheld /\ fans' = NoAnswer
        /\ disk' = d /\ fputs' = fputs
    BY <1>3, <1>6, <1>9
  <2>2. Only(c) /\ freq'[c] = r /\ fheld'[c] = fheld[c]
    BY <1>4, <2>1 DEF FilesInv, FilesTypes, Only
  <2>3. IsWriter(c)' => IsWriter(c)
    BY <1>3, <2>2 DEF IsWriter, Opens
  <2>4. HoldsRight(c)' /\ DownloadRight(c)'
    BY <1>4, <1>5, <2>1, <2>2 DEF HoldsRight, DownloadRight, IsReader, Left
  <2>5. Opens(c)' <=> Opens(c)
    BY <2>2 DEF Opens
  <2>6. freq[c].alone = 1 /\ Opens(c) => \A e \in FConns : e # c => ~IsWriter(e)'
    <3> SUFFICES ASSUME freq[c].alone = 1, Opens(c), NEW e \in FConns, e # c
                 PROVE  ~IsWriter(e)'
      OBVIOUS
    <3>1. ~IsWriter(e)
      BY <1>3, <1>5 DEF ConnRight, UploadRight
    <3> QED
      BY <2>2, <3>1 DEF Only, IsWriter, Opens
  <2>7. r.got <= r.len
    BY <1>3, <1>4
  <2>8. UploadRight(c)'
    BY <1>4, <2>1, <2>2, <2>5, <2>6, <2>7 DEF UploadRight
  <2> QED
    BY <1>5, <1>7, <2>1, <2>2, <2>3, <2>4, <2>8, NoAnswerIsRight, StepKeeps DEF ConnRight
<1> QED
  BY <1>8, <1>9

-----------------------------------------------------------------------------
(* All steps together.                                                     *)

LEMMA FilesInitRight ==
  ASSUME FilesInit
  PROVE  FilesInv
<1>1. /\ disk \in Bytes /\ Len(disk) = ReadLen /\ fans = NoAnswer /\ fcount = 0
      /\ freq = [c \in FConns |-> NoFile]
      /\ fheld = [c \in FConns |-> [file |-> 0, mem |-> 0]]
      /\ fputs = [c \in FConns |-> 0]
  BY FactoryIs DEF FilesInit
<1>2. FilesTypes
  <2>1. [file |-> 0, mem |-> 0] \in Held
    BY DEF Held
  <2>2. Len(disk) <= MaxBody + ReadLen /\ fcount \in 0 .. MaxRequests
    BY <1>1, FilesAssumption
  <2> QED
    BY <1>1, <2>1, <2>2, NoFileIsReq DEF FilesTypes
<1>3. \A c \in FConns : ConnRight(c)
  BY <1>1 DEF ConnRight, HoldsRight, UploadRight, DownloadRight, IsReader, NoFile, Left
<1>4. SuccessIsStored /\ ServedWhole
  BY <1>1 DEF NoAnswer, SuccessIsStored, ServedWhole
<1> QED
  BY <1>2, <1>3, <1>4 DEF FilesInv

LEMMA FilesNextRight ==
  ASSUME FilesInv, FilesNext
  PROVE  FilesInv'
<1>1. PICK c \in FConns :
        \/ GetEspFs(c) \/ GetVfs(c) \/ ReadFile(c) \/ AbortFile(c)
        \/ \E n \in 0 .. MaxBody : Put(c, n)
        \/ \E n, lost \in 0 .. MaxBody : \E count \in 0 .. n : PutPiece(c, n, count, lost)
  BY DEF FilesNext
<1>2. CASE GetEspFs(c) \/ GetVfs(c) \/ ReadFile(c) \/ AbortFile(c)
  BY <1>2, GetEspFsKeeps, GetVfsKeeps, ReadFileKeeps, AbortFileKeeps
<1>3. CASE \E n \in 0 .. MaxBody : Put(c, n)
  BY <1>3, PutKeeps
<1>4. CASE \E n, lost \in 0 .. MaxBody : \E count \in 0 .. n : PutPiece(c, n, count, lost)
  BY <1>4, PutPieceKeeps
<1> QED
  BY <1>1, <1>2, <1>3, <1>4

LEMMA FilesUnchangedRight ==
  ASSUME FilesInv, UNCHANGED fileVars
  PROVE  FilesInv'
<1>1. /\ disk' = disk /\ freq' = freq /\ fheld' = fheld /\ fcount' = fcount /\ fans' = fans
      /\ fputs' = fputs
  BY DEF fileVars
<1>2. FilesTypes' /\ ServedWhole' /\ SuccessIsStored'
  BY <1>1 DEF FilesInv, FilesTypes, ServedWhole, SuccessIsStored
<1>3. \A c \in FConns : ConnRight(c)'
  BY <1>1 DEF FilesInv, ConnRight, HoldsRight, UploadRight, DownloadRight, IsReader,
     IsWriter, Opens, Content, Left
<1> QED
  BY <1>2, <1>3 DEF FilesInv

LEMMA FilesInvIsEnough ==
  ASSUME FilesInv
  PROVE  FilesReleased /\ ServedWhole /\ SuccessIsStored
<1>1. ASSUME NEW c \in FConns, freq[c].kind = "idle"
      PROVE  fheld[c].file = 0 /\ fheld[c].mem \in fputs[c] .. 2 * fputs[c]
  BY <1>1 DEF FilesInv, ConnRight, HoldsRight, Left
<1> QED
  BY <1>1 DEF FilesInv, FilesReleased

LEMMA FilesInvHolds ==
  FilesSpec => []FilesInv
<1>1. FilesInv /\ [FilesNext]_fileVars => FilesInv'
  BY FilesNextRight, FilesUnchangedRight
<1> QED
  BY <1>1, FilesInitRight, PTL DEF FilesSpec

\* A download delivers the file as it was when it was opened (cgiEspVfsGet,
\* cgiEspFsHook), whatever its length is in parts, unless an upload of another
\* connection emptied it meanwhile.
THEOREM DownloadsAreWhole ==
  FilesSpec => []ServedWhole
  BY FilesInvHolds, FilesInvIsEnough, PTL

\* Every file that cgiEspFsHook, cgiEspVfsGet or cgiEspVfsUpload opens and the
\* state of every upload is given back, once, when its request ends or its
\* connection breaks.  What stays allocated is one string, and at most one state,
\* for each upload that was answered (cgiJsonResponseCommonSingle).
THEOREM FilesAreReleased ==
  FilesSpec => []FilesReleased
  BY FilesInvHolds, FilesInvIsEnough, PTL

-----------------------------------------------------------------------------
(* Templates.                                                              *)

TplHolds(n) == theld.mem = n /\ theld.file = n

\* While the handler is to be called again it holds its memory and its file,
\* and the callback has not been told of the end.
TplInv ==
  /\ theld \in [mem : 0 .. 1, file : 0 .. 1]
  /\ tphase \in {"new", "more", "notfound", "done", "aborted"}
  /\ IF tphase = "more" THEN TplHolds(1) ELSE TplHolds(0)
  /\ tnull = IF tphase \in {"done", "aborted"} THEN 1 ELSE 0

LEMMA ReleasedIs ==
  ASSUME NEW h \in [mem : 0 .. 1, file : 0 .. 1], h.mem = 1, h.file = 1
  PROVE  /\ Released(h) \in [mem : 0 .. 1, file : 0 .. 1]
         /\ Released(h).mem = 0 /\ Released(h).file = 0
<1> DEFINE a == [h EXCEPT !.mem = 0]
           b == [a EXCEPT !.file = 0]
<1>1. a \in [mem : 0 .. 1, file : 0 .. 1] /\ a.mem = 0 /\ a.file = 1
  OBVIOUS
<1>2. Released(h) = b
  BY DEF Released
<1> HIDE DEF a
<1>3. b \in [mem : 0 .. 1, file : 0 .. 1] /\ b.mem = 0 /\ b.file = 0
  BY <1>1
<1> QED
  BY <1>2, <1>3

\* A call leaves the handler to be called again, or ends it.
LEMMA TplCallEnds ==
  ASSUME TplCall
  PROVE  /\ tphase = "more"
         /\ \/ tphase' = "more" /\ tnull' = tnull /\ theld' = theld
            \/ tphase' = "done" /\ tnull' = tnull + 1 /\ theld' = Released(theld)
  BY DEF TplCall

LEMMA TplInitRight ==
  ASSUME TplInit
  PROVE  TplInv
  BY DEF TplInit, TplInv, TplHolds

LEMMA TplNextRight ==
  ASSUME TplInv, TplNext
  PROVE  TplInv'
<1>1. CASE TplFirst
  BY <1>1 DEF TplFirst, TplInv, TplHolds
<1>2. CASE TplNotFound
  BY <1>2 DEF TplNotFound, TplInv, TplHolds
<1>3. CASE TplCall
  BY <1>3, TplCallEnds, ReleasedIs DEF TplInv, TplHolds
<1>4. CASE TplAbort
  BY <1>4, ReleasedIs DEF TplAbort, TplInv, TplHolds
<1> QED
  BY <1>1, <1>2, <1>3, <1>4 DEF TplNext

LEMMA TplInvIsEnough ==
  ASSUME TplInv
  PROVE  TplReleased
  BY DEF TplInv, TplHolds, TplReleased

-----------------------------------------------------------------------------
(* Long responses.                                                         *)

Both == [string |-> 1, state |-> 1]
Neither == [string |-> 0, state |-> 0]

\* Between two calls the string and the state are held; at the end what the form
\* and the failure leave.
RespInv ==
  /\ mform \in {"multi", "single"}
  /\ mphase \in {"new", "more", "done", "aborted"}
  /\ mphase = "new" => mheld = Neither
  /\ mphase = "more" => mheld = Both /\ mform = "multi"
  /\ mphase \in {"new", "more"} => mrefused # 2
  /\ mphase \in {"done", "aborted"} =>
       /\ mrefused = 2 => mheld = [string |-> 1, state |-> 0]
       /\ mrefused # 2 => mheld = IF mform = "single" THEN Both ELSE Neither

LEMMA RespInitRight ==
  ASSUME MultiInit
  PROVE  RespInv
  BY MultiAssumption DEF MultiInit, RespInv, Neither

LEMMA CleanupIs ==
  ASSUME NEW h \in [string : 0 .. 1, state : 0 .. 1], h.string = 1, h.state = 1
  PROVE  LET g == cgiResponseCommonMultiCleanup(h, "state")
         IN  g \in [string : 0 .. 1, state : 0 .. 1] /\ g.string = 0 /\ g.state = 0
<1> DEFINE a == [h EXCEPT !.string = 0]
           b == [a EXCEPT !.state = 0]
<1>1. a \in [string : 0 .. 1, state : 0 .. 1] /\ a.string = 0 /\ a.state = 1
  OBVIOUS
<1>2. cgiResponseCommonMultiCleanup(h, "state") = b
  BY DEF cgiResponseCommonMultiCleanup
<1> HIDE DEF a
<1>3. b \in [string : 0 .. 1, state : 0 .. 1] /\ b.string = 0 /\ b.state = 0
  BY <1>1
<1> QED
  BY <1>2, <1>3

LEMMA CleanupOfBoth ==
  /\ cgiResponseCommonMultiCleanup(Both, "state") = Neither
  /\ cgiResponseCommonMultiCleanup(Both, "NULL") = Both
<1>1. Both \in [string : 0 .. 1, state : 0 .. 1] /\ Both.string = 1 /\ Both.state = 1
  BY DEF Both
<1>2. PICK g : g = cgiResponseCommonMultiCleanup(Both, "state")
  OBVIOUS
<1>3. g \in [string : 0 .. 1, state : 0 .. 1] /\ g.string = 0 /\ g.state = 0
  BY <1>1, <1>2, CleanupIs
<1>4. g = Neither
  BY <1>3 DEF Neither
<1>5. cgiResponseCommonMultiCleanup(Both, "NULL") = Both
  BY DEF cgiResponseCommonMultiCleanup
<1> QED
  BY <1>2, <1>4, <1>5

\* A call with the string and the state in its hands keeps both or, with statepp,
\* frees both.
LEMMA SendPieceHolds ==
  ASSUME NEW s, NEW ok, mform \in {"multi", "single"}, mrefused # 2,
         SendPiece(s, Both, ok)
  PROVE  RespInv'
<1>1. /\ mform' = mform /\ mrefused' # 2
      /\ \/ mphase' = "more" /\ mheld' = Both /\ mform = "multi"
         \/ mphase' = "done" /\ mform = "multi" /\ mheld' = cgiResponseCommonMultiCleanup(Both, "state")
         \/ mphase' = "done" /\ mform = "single" /\ mheld' = cgiResponseCommonMultiCleanup(Both, "NULL")
  BY DEF SendPiece
<1> QED
  BY <1>1, CleanupOfBoth DEF RespInv

LEMMA RespNextRight ==
  ASSUME RespInv, MultiNext
  PROVE  RespInv'
<1>1. ASSUME NEW ok \in BOOLEAN, MultiFirst(ok)
      PROVE  RespInv'
  BY <1>1, SendPieceHolds DEF MultiFirst, RespInv, Both
<1>2. ASSUME NEW ok \in BOOLEAN, MultiAgain(ok)
      PROVE  RespInv'
  <2>1. /\ mform \in {"multi", "single"} /\ mrefused # 2 /\ mheld = Both
        /\ SendPiece(mstate, mheld, ok)
    BY <1>2 DEF MultiAgain, RespInv
  <2> QED
    BY <2>1, SendPieceHolds
<1>3. CASE MultiNoMemory
  <2>1. mheld' = [string |-> 1, state |-> 0]
    BY <1>3 DEF MultiNoMemory, RespInv, Neither
  <2> QED
    BY <1>3, <2>1 DEF MultiNoMemory, RespInv
<1>4. CASE MultiAbort
  <2>1. mheld' = Neither
    BY <1>4, CleanupOfBoth DEF MultiAbort, RespInv
  <2> QED
    BY <1>4, <2>1 DEF MultiAbort, RespInv
<1> QED
  BY <1>1, <1>2, <1>3, <1>4 DEF MultiNext

LEMMA RespInvIsEnough ==
  ASSUME RespInv
  PROVE  StringFreed
<1> SUFFICES ASSUME mphase \in {"done", "aborted"}
             PROVE  mheld = CASE mrefused = 2 -> [string |-> 1, state |-> 0]
                              [] mrefused # 2 /\ mform = "single" -> [string |-> 1, state |-> 1]
                              [] mrefused # 2 /\ mform # "single" -> [string |-> 0, state |-> 0]
  BY DEF StringFreed
<1>1. CASE mrefused = 2
  BY <1>1 DEF RespInv
<1>2. CASE mrefused # 2 /\ mform = "single"
  BY <1>2 DEF RespInv, Both
<1>3. CASE mrefused # 2 /\ mform # "single"
  BY <1>3 DEF RespInv, Neither
<1> QED
  BY <1>1, <1>2, <1>3

-----------------------------------------------------------------------------
(* What a long response has sent.                                          *)

RespPieces == Seq((1 .. MaxString) \X (1 .. MaxString))

SentUpTo == IF Len(msent) = 0 THEN 0 ELSE msent[Len(msent)][2]

PiecesFollow ==
  \A i \in 1 .. Len(msent) :
    /\ msent[i][1] = IF i = 1 THEN 1 ELSE msent[i - 1][2] + 1
    /\ msent[i][2] \in msent[i][1] .. mlen

\* What is to be sent: all of the string, or what fits in one piece.
ToSend == IF mform = "multi" THEN mlen ELSE Smaller(mlen, SendBufSize)

\* The state points behind what was sent and counts what is left.
OrderInv ==
  /\ mform \in {"multi", "single"}
  /\ mlen \in 0 .. MaxString
  /\ msent \in RespPieces
  /\ PiecesFollow
  /\ mphase = "new" => msent = <<>> /\ mrefused = 0
  /\ mphase = "more" =>
       /\ mstate \in [pos : 1 .. MaxString + 1, left : 0 .. MaxString]
       /\ mrefused = 0 /\ mform = "multi"
       /\ mstate.pos = SentUpTo + 1 /\ mstate.pos + mstate.left = mlen + 1
  /\ mphase = "done" /\ mrefused = 0 => SentUpTo = ToSend

LEMMA AfterSendIs ==
  ASSUME NEW s \in [pos : 1 .. MaxString + 1, left : 0 .. MaxString],
         NEW n \in 0 .. s.left, NEW ok \in {TRUE, FALSE},
         s.pos + s.left = mlen + 1, mlen \in 0 .. MaxString
  PROVE  /\ AfterSend(s, n, ok) \in [pos : 1 .. MaxString + 1, left : 0 .. MaxString]
         /\ AfterSend(s, n, ok).left = IF ok THEN s.left - n ELSE 0
         /\ ok => AfterSend(s, n, ok).pos = s.pos + n
<1> DEFINE a == [s EXCEPT !.left = s.left - n]
           b == [a EXCEPT !.pos = s.pos + n]
           z == [s EXCEPT !.left = 0]
<1>1. MaxString \in Nat /\ s.pos \in 1 .. MaxString + 1 /\ s.left \in 0 .. MaxString
  BY MultiAssumption
<1>2. s.left - n \in 0 .. MaxString /\ s.pos + n \in 1 .. MaxString + 1
  BY <1>1
<1>3. a \in [pos : 1 .. MaxString + 1, left : 0 .. MaxString] /\ a.left = s.left - n /\ a.pos = s.pos
  BY <1>2
<1>4. b \in [pos : 1 .. MaxString + 1, left : 0 .. MaxString] /\ b.left = s.left - n /\ b.pos = s.pos + n
  <2> HIDE DEF a
  <2> QED BY <1>2, <1>3
<1>5. z \in [pos : 1 .. MaxString + 1, left : 0 .. MaxString] /\ z.left = 0
  BY <1>1
<1>6. AfterSend(s, n, ok) = IF ok THEN b ELSE z
  BY DEF AfterSend
<1> HIDE DEF a, b, z
<1> QED BY <1>4, <1>5, <1>6

LEMMA AppendFollows ==
  ASSUME OrderInv, NEW p \in Nat, NEW q \in Nat,
         p = SentUpTo + 1, q \in p .. mlen, msent' = Append(msent, <<p, q>>), mlen' = mlen
  PROVE  msent' \in RespPieces /\ PiecesFollow' /\ SentUpTo' = q
<1>1. MaxString \in Nat /\ mlen \in Nat /\ mlen <= MaxString
  BY MultiAssumption DEF OrderInv
<1>2. Len(msent) \in Nat /\ Len(msent') = Len(msent) + 1
  BY DEF OrderInv, RespPieces
<1>3. p \in 1 .. MaxString /\ q \in 1 .. MaxString
  <2>1. SentUpTo \in Nat
    BY <1>2 DEF SentUpTo, OrderInv, RespPieces
  <2> QED BY <1>1, <2>1
<1>4. msent' \in RespPieces
  <2>1. <<p, q>> \in (1 .. MaxString) \X (1 .. MaxString)
    BY <1>3
  <2> QED BY <2>1 DEF OrderInv, RespPieces
<1>5. \A i \in 1 .. Len(msent) : msent'[i] = msent[i]
  BY <1>2 DEF OrderInv, RespPieces
<1>6. msent'[Len(msent) + 1] = <<p, q>>
  BY <1>2 DEF OrderInv, RespPieces
<1>7. SentUpTo' = q
  BY <1>2, <1>6 DEF SentUpTo
<1>8. PiecesFollow'
  <2> SUFFICES ASSUME NEW i \in 1 .. Len(msent')
               PROVE  /\ msent'[i][1] = IF i = 1 THEN 1 ELSE msent'[i - 1][2] + 1
                      /\ msent'[i][2] \in msent'[i][1] .. mlen'
    BY DEF PiecesFollow
  <2>1. CASE i \in 1 .. Len(msent)
    <3>1. i # 1 => i - 1 \in 1 .. Len(msent)
      BY <2>1, <1>2
    <3> QED BY <2>1, <3>1, <1>5 DEF OrderInv, PiecesFollow
  <2>2. CASE i = Len(msent) + 1
    <3>1. i # 1 => i - 1 \in 1 .. Len(msent) /\ i - 1 = Len(msent)
      BY <2>2, <1>2
    <3>2. msent'[i] = <<p, q>>
      BY <2>2, <1>6
    <3>3. p = IF i = 1 THEN 1 ELSE msent'[i - 1][2] + 1
      BY <2>2, <3>1, <1>2, <1>5 DEF SentUpTo
    <3> QED BY <3>2, <3>3
  <2> QED BY <2>1, <2>2, <1>2
<1> QED BY <1>4, <1>7, <1>8

LEMMA SendPieceOrders ==
  ASSUME OrderInv, mphase \in {"new", "more"}, mrefused = 0,
         NEW s \in [pos : 1 .. MaxString + 1, left : 0 .. MaxString],
         s.pos = SentUpTo + 1, s.pos + s.left = mlen + 1,
         NEW held, NEW ok \in {TRUE, FALSE}, SendPiece(s, held, ok)
  PROVE  OrderInv'
<1>1. PICK n \in {Smaller(s.left, SendBufSize)} : n = Smaller(s.left, SendBufSize)
  OBVIOUS
<1>2. n \in 0 .. s.left /\ (s.left > 0 => n > 0)
  BY <1>1, MultiAssumption DEF Smaller
<1>3. PICK t \in {IF s.left > 0 THEN AfterSend(s, n, ok) ELSE s} :
        t = IF s.left > 0 THEN AfterSend(s, n, ok) ELSE s
  OBVIOUS
<1>4. mlen \in 0 .. MaxString
  BY DEF OrderInv
<1>5. /\ t \in [pos : 1 .. MaxString + 1, left : 0 .. MaxString]
      /\ t.left = IF s.left > 0 /\ ~ok THEN 0 ELSE s.left - n
      /\ (s.left > 0 /\ ok) \/ s.left = 0 => t.pos = s.pos + n
  <2>1. CASE s.left > 0
    <3>1. t = AfterSend(s, n, ok)
      BY <2>1, <1>3
    <3>2. /\ AfterSend(s, n, ok) \in [pos : 1 .. MaxString + 1, left : 0 .. MaxString]
          /\ AfterSend(s, n, ok).left = IF ok THEN s.left - n ELSE 0
          /\ ok => AfterSend(s, n, ok).pos = s.pos + n
      BY <1>2, <1>4, AfterSendIs
    <3>3. CASE ok
      BY <2>1, <3>1, <3>2, <3>3
    <3>4. CASE ~ok
      BY <2>1, <3>1, <3>2, <3>4
    <3> QED BY <3>3, <3>4
  <2>2. CASE s.left = 0
    <3>1. n = 0 /\ t = s
      BY <2>2, <1>2, <1>3
    <3> QED BY <2>2, <3>1
  <2> QED BY <2>1, <2>2
<1> DEFINE ends == t.left <= 0 \/ mform = "single"
<1>6. /\ msent' = IF s.left > 0 /\ ok THEN Append(msent, <<s.pos, s.pos + n - 1>>) ELSE msent
      /\ mrefused' = IF s.left > 0 /\ ~ok THEN 1 ELSE mrefused
      /\ mstate' = IF ends THEN NoPiece ELSE t
      /\ mphase' = IF ends THEN "done" ELSE "more"
      /\ mform' = mform /\ mlen' = mlen
  BY <1>1, <1>3 DEF SendPiece
<1>7. s.pos \in Nat /\ s.left \in Nat /\ n \in Nat /\ t.left \in Nat /\ t.pos \in Nat /\ mlen \in Nat
  BY <1>2, <1>4, <1>5, MultiAssumption
<1>8. /\ msent' \in RespPieces /\ PiecesFollow'
      /\ SentUpTo' = IF s.left > 0 /\ ok THEN s.pos + n - 1 ELSE SentUpTo
  <2>1. CASE s.left > 0 /\ ok
    <3>1. s.pos + n - 1 \in s.pos .. mlen /\ s.pos + n - 1 \in Nat
      BY <2>1, <1>2, <1>7
    <3> QED BY <2>1, <3>1, <1>6, <1>7, AppendFollows
  <2>2. CASE ~(s.left > 0 /\ ok)
    BY <2>2, <1>6 DEF OrderInv, PiecesFollow, SentUpTo
  <2> QED BY <2>1, <2>2
<1>9. mphase' = "more" =>
        mstate' = t /\ t.pos = SentUpTo' + 1 /\ t.pos + t.left = mlen + 1 /\ mrefused' = 0
  <2> SUFFICES ASSUME mphase' = "more"
               PROVE  mstate' = t /\ t.pos = SentUpTo' + 1 /\ t.pos + t.left = mlen + 1
                      /\ mrefused' = 0
    OBVIOUS
  <2>1. mstate' = t /\ t.left > 0
    BY <1>6, <1>7
  <2>2. s.left > 0 /\ ok
    <3>1. CASE s.left = 0
      BY <3>1, <2>1, <1>2, <1>5, <1>7
    <3>2. CASE s.left > 0 /\ ~ok
      BY <3>2, <2>1, <1>5, <1>7
    <3> QED BY <3>1, <3>2, <1>7
  <2>3. t.pos = s.pos + n /\ t.left = s.left - n /\ SentUpTo' = s.pos + n - 1 /\ mrefused' = 0
    BY <2>2, <1>5, <1>6, <1>8
  <2> HIDE DEF ends
  <2> QED BY <2>1, <2>3, <1>7
<1>10. mphase' = "done" /\ mrefused' = 0 => SentUpTo' = ToSend'
  <2> SUFFICES ASSUME mphase' = "done", mrefused' = 0 PROVE SentUpTo' = ToSend'
    OBVIOUS
  <2>1. SentUpTo' = IF s.left > 0 THEN s.pos + n - 1 ELSE SentUpTo
    BY <1>6, <1>7, <1>8
  <2>2. CASE mform = "multi"
    <3>1. SentUpTo' = mlen
      BY <1>2, <1>5, <1>6, <1>7, <2>1, <2>2
    <3> QED
      BY <1>6, <2>2, <3>1 DEF ToSend
  <2>3. CASE mform = "single"
    <3>1. mphase = "new" /\ SentUpTo = 0
      BY <2>3 DEF OrderInv, SentUpTo
    <3>2. s.pos = 1 /\ s.left = mlen
      BY <1>7, <3>1
    <3>3. SentUpTo' = n
      BY <1>2, <1>7, <2>1, <3>1, <3>2
    <3> QED
      BY <1>1, <1>6, <2>3, <3>2, <3>3 DEF ToSend
  <2> QED
    BY <2>2, <2>3 DEF OrderInv
<1>12. mphase' = "more" => mform' = "multi"
  BY <1>6 DEF OrderInv
<1>11. mphase' # "new"
  BY <1>6
<1> HIDE DEF ends
<1> QED BY <1>4, <1>5, <1>6, <1>8, <1>9, <1>10, <1>11, <1>12 DEF OrderInv

LEMMA OrderInit == MultiInit => OrderInv
<1> SUFFICES ASSUME MultiInit PROVE OrderInv
  OBVIOUS
<1>1. msent = <<>> /\ Len(msent) = 0
  BY DEF MultiInit
<1> QED BY <1>1, MultiAssumption DEF MultiInit, OrderInv, RespPieces, PiecesFollow, SentUpTo

LEMMA OrderNext ==
  ASSUME OrderInv, MultiNext
  PROVE  OrderInv'
<1>0. MaxString \in Nat /\ mlen \in Nat /\ mlen <= MaxString
  BY MultiAssumption DEF OrderInv
<1>1. ASSUME NEW ok \in BOOLEAN, MultiFirst(ok)
      PROVE  OrderInv'
  <2>1. msent = <<>> /\ mrefused = 0 /\ mphase = "new" /\ SentUpTo = 0
    BY <1>1 DEF MultiFirst, OrderInv, SentUpTo
  <2>2. PICK s \in {RespState(1, mlen)} : s = RespState(1, mlen)
    OBVIOUS
  <2>4. s = [pos |-> 1, left |-> mlen]
    BY <2>2 DEF RespState
  <2>5. 1 \in 1 .. MaxString + 1 /\ mlen \in 0 .. MaxString
    BY <1>0
  <2>6. s \in [pos : 1 .. MaxString + 1, left : 0 .. MaxString]
        /\ s.pos = 1 /\ s.left = mlen
    BY <2>4, <2>5
  <2>7. s.pos = SentUpTo + 1 /\ s.pos + s.left = mlen + 1
    BY <1>0, <2>1, <2>6
  <2>3. SendPiece(s, [string |-> 1, state |-> 1], ok)
    BY <1>1, <2>2 DEF MultiFirst
  <2> QED BY <2>1, <2>3, <2>6, <2>7, SendPieceOrders
<1>2. ASSUME NEW ok \in BOOLEAN, MultiAgain(ok)
      PROVE  OrderInv'
  BY <1>2, SendPieceOrders DEF MultiAgain, OrderInv
<1>3. CASE MultiNoMemory
  BY <1>3 DEF MultiNoMemory, OrderInv, PiecesFollow, SentUpTo
<1>4. CASE MultiAbort
  BY <1>4 DEF MultiAbort, OrderInv, PiecesFollow, SentUpTo
<1> QED BY <1>1, <1>2, <1>3, <1>4 DEF MultiNext

LEMMA OrderUnchanged ==
  ASSUME OrderInv, UNCHANGED mrVars
  PROVE  OrderInv'
  BY DEF OrderInv, PiecesFollow, SentUpTo, ToSend, mrVars

LEMMA OrderIsEnough ==
  ASSUME OrderInv
  PROVE  SentInOrder
<1> PICK last : last = ToSend
  OBVIOUS
<1>1. DOMAIN msent = 1 .. Len(msent) /\ Len(msent) \in Nat
  BY DEF OrderInv, RespPieces
<1>2. \A i \in DOMAIN msent :
        /\ msent[i][1] = IF i = 1 THEN 1 ELSE msent[i - 1][2] + 1
        /\ msent[i][2] \in msent[i][1] .. mlen
  BY <1>1 DEF OrderInv, PiecesFollow
<1>3. ASSUME mphase = "done", mrefused = 0
      PROVE  IF mlen = 0 THEN msent = <<>> ELSE msent # <<>> /\ msent[Len(msent)][2] = last
  <2>1. SentUpTo = last
    BY <1>3 DEF OrderInv
  <2>4. mlen = 0 <=> last = 0
    BY MultiAssumption DEF OrderInv, ToSend, Smaller
  <2>2. CASE Len(msent) = 0
    <3>1. msent = <<>>
      BY <2>2 DEF OrderInv, RespPieces
    <3> QED BY <2>1, <2>2, <2>4, <3>1 DEF SentUpTo
  <2>3. CASE Len(msent) > 0
    <3>1. msent # <<>> /\ msent[Len(msent)][2] = last
      BY <2>1, <2>3 DEF SentUpTo
    <3>2. msent[Len(msent)] \in (1 .. MaxString) \X (1 .. MaxString)
      BY <2>3, <1>1 DEF OrderInv, RespPieces
    <3>3. last # 0 /\ mlen # 0
      BY <2>4, <3>1, <3>2, MultiAssumption
    <3> QED BY <3>1, <3>3
  <2> QED BY <2>2, <2>3, <1>1
<1> QED BY <1>2, <1>3 DEF SentInOrder, ToSend

\* A string that cgiResponseCommonMulti sends goes out from its start without gap
\* or overlap, in pieces of any SENDBUFSIZE, and whole if nothing was refused; of
\* the single-call form, what fits in one piece.
THEOREM StringSentInOrder == MultiSpec => []SentInOrder
<1>1. OrderInv /\ [MultiNext]_mrVars => OrderInv'
  BY OrderNext, OrderUnchanged
<1>2. OrderInv => SentInOrder
  BY OrderIsEnough
<1> QED BY <1>1, <1>2, OrderInit, PTL DEF MultiSpec

-----------------------------------------------------------------------------
(* The frames of a websocket: where they are on the wire, the states of the *)
(* parser, and what was owed when so much of the stream had been handled.   *)

\* Where the parts of a joined sequence are.
Places(seqs, st) ==
  /\ st \in [1 .. Len(seqs) + 1 -> Nat] /\ st[1] = 0
  /\ \A f \in 1 .. Len(seqs) : st[f + 1] = st[f] + Len(seqs[f])
  /\ Len(FlattenSeq(seqs)) = st[Len(seqs) + 1]
  /\ \A f \in 1 .. Len(seqs) : \A k \in 1 .. Len(seqs[f]) : FlattenSeq(seqs)[st[f] + k] = seqs[f][k]

\* Every part of a joined sequence has its place in it.
LEMMA FlattenPlaces ==
  ASSUME NEW S, NEW seqs \in Seq(Seq(S))
  PROVE  FlattenSeq(seqs) \in Seq(S) /\ \E st : Places(seqs, st)
<1> DEFINE n == Len(seqs)
<1>1. PICK c \in [0 .. n -> Seq(S)] :
        /\ c[0] = <<>> /\ \A k \in 1 .. n : c[k] = c[k - 1] \o seqs[k]
        /\ FlattenSeq(seqs) = c[n]
  BY FlattenIs
<1>2. n \in Nat /\ \A k \in 1 .. n : seqs[k] \in Seq(S)
  OBVIOUS
<1> DEFINE st == [f \in 1 .. n + 1 |-> Len(c[f - 1])]
<1>3. /\ st \in [1 .. n + 1 -> Nat] /\ \A f \in 1 .. n + 1 : st[f] = Len(c[f - 1])
  <2>1. \A f \in 1 .. n + 1 : f - 1 \in 0 .. n
    BY <1>2
  <2>2. \A f \in 1 .. n + 1 : Len(c[f - 1]) \in Nat
    BY <2>1
  <2> QED BY <2>2
<1> HIDE DEF n, st
<1>4. ASSUME NEW k \in 1 .. n, NEW j \in Nat, j = k - 1
      PROVE  /\ c[j] \in Seq(S) /\ c[k] \in Seq(S) /\ Len(c[k]) = Len(c[j]) + Len(seqs[k])
             /\ \A i \in 1 .. Len(c[j]) : c[k][i] = c[j][i]
             /\ \A i \in 1 .. Len(seqs[k]) : c[k][Len(c[j]) + i] = seqs[k][i]
  <2>1. j \in 0 .. n /\ k \in 0 .. n
    BY <1>2, <1>4
  <2>2. PICK a, b, d : a = c[j] /\ b = seqs[k] /\ d = c[k]
    OBVIOUS
  <2>3. a \in Seq(S) /\ b \in Seq(S) /\ d \in Seq(S) /\ d = a \o b
    BY <1>1, <1>2, <1>4, <2>1, <2>2
  <2>4. /\ Len(d) = Len(a) + Len(b)
        /\ \A i \in 1 .. Len(a) + Len(b) : d[i] = IF i <= Len(a) THEN a[i] ELSE b[i - Len(a)]
    BY <2>3, ConcatProperties
  <2>5. Len(a) \in Nat /\ Len(b) \in Nat
    BY <2>3
  <2>6. \A i \in 1 .. Len(a) : d[i] = a[i]
    BY <2>4, <2>5
  <2>7. \A i \in 1 .. Len(b) : d[Len(a) + i] = b[i]
    BY <2>4, <2>5
  <2> QED BY <2>2, <2>3, <2>4, <2>6, <2>7
<1>5. ASSUME NEW f \in 1 .. n
      PROVE  st[f + 1] = st[f] + Len(seqs[f])
  <2>1. f \in 1 .. n + 1 /\ f + 1 \in 1 .. n + 1 /\ (f + 1) - 1 = f
    BY <1>2
  <2>2. PICK j \in Nat : j = f - 1
    BY <1>2
  <2>3. st[f] = Len(c[j]) /\ st[f + 1] = Len(c[f])
    BY <1>3, <2>1, <2>2
  <2>4. Len(c[f]) = Len(c[j]) + Len(seqs[f])
    BY <1>4, <2>2
  <2> QED BY <2>3, <2>4
<1> DEFINE Has(m) == \A f \in 1 .. n : f <= m => \A k \in 1 .. Len(seqs[f]) :
                        st[f] + k <= Len(c[m]) /\ c[m][st[f] + k] = seqs[f][k]
           T == { m \in 0 .. n : Has(m) }
<1>6. 0 \in T
  BY <1>2
<1>7. ASSUME NEW m \in 0 .. n - 1, m \in T
      PROVE  m + 1 \in T
  <2>1. m \in 0 .. n /\ m + 1 \in 1 .. n /\ (m + 1) - 1 = m /\ m + 1 \in 0 .. n
    BY <1>2
  <2>2. Has(m)
    BY <1>7
  <2>3. /\ c[m] \in Seq(S) /\ c[m + 1] \in Seq(S) /\ Len(c[m + 1]) = Len(c[m]) + Len(seqs[m + 1])
        /\ \A i \in 1 .. Len(c[m]) : c[m + 1][i] = c[m][i]
        /\ \A i \in 1 .. Len(seqs[m + 1]) : c[m + 1][Len(c[m]) + i] = seqs[m + 1][i]
    <3>1. \A k \in 1 .. n, j \in Nat : j = k - 1 =>
            /\ c[j] \in Seq(S) /\ c[k] \in Seq(S) /\ Len(c[k]) = Len(c[j]) + Len(seqs[k])
            /\ \A i \in 1 .. Len(c[j]) : c[k][i] = c[j][i]
            /\ \A i \in 1 .. Len(seqs[k]) : c[k][Len(c[j]) + i] = seqs[k][i]
      BY <1>4, Zenon
    <3>2. m \in Nat /\ m = (m + 1) - 1
      BY <2>1
    <3> QED BY <2>1, <3>1, <3>2, Zenon
  <2>4. ASSUME NEW f \in 1 .. n, f <= m + 1, NEW k \in 1 .. Len(seqs[f])
        PROVE  st[f] + k <= Len(c[m + 1]) /\ c[m + 1][st[f] + k] = seqs[f][k]
    <3>0. seqs[f] \in Seq(S) /\ f \in 1 .. n + 1
      BY <1>2
    <3>1. st[f] \in Nat /\ Len(seqs[f]) \in Nat /\ Len(c[m]) \in Nat /\ Len(seqs[m + 1]) \in Nat
      <4>1. \A q \in Seq(S) : Len(q) \in Nat
        OBVIOUS
      <4>2. seqs[m + 1] \in Seq(S)
        BY <1>2, <2>1
      <4> QED BY <1>3, <2>3, <3>0, <4>1, <4>2
    <3>2. CASE f = m + 1
      <4>1. st[f] = Len(c[m])
        BY <1>3, <2>1, <3>0, <3>2
      <4> QED BY <2>3, <2>4, <3>1, <3>2, <4>1
    <3>3. CASE f # m + 1
      <4>1. f <= m
        BY <2>1, <2>4, <3>3
      <4>2. st[f] + k <= Len(c[m]) /\ c[m][st[f] + k] = seqs[f][k]
        BY <2>2, <2>4, <4>1
      <4>3. st[f] + k \in 1 .. Len(c[m])
        BY <2>4, <3>1, <4>2
      <4>4. c[m + 1][st[f] + k] = c[m][st[f] + k]
        BY <2>3, <4>3
      <4>5. Len(c[m]) <= Len(c[m + 1]) /\ Len(c[m + 1]) \in Nat
        <5>1. \A p, q, r \in Nat : p = q + r => q <= p
          OBVIOUS
        <5>2. Len(c[m + 1]) \in Nat
          <6>1. \A q \in Seq(S) : Len(q) \in Nat
            OBVIOUS
          <6> QED BY <2>3, <6>1, Zenon
        <5> QED BY <2>3, <3>1, <5>1, <5>2, Zenon
      <4>6. k \in Nat
        BY <3>1
      <4> QED BY <3>1, <4>2, <4>4, <4>5, <4>6
    <3> QED BY <3>2, <3>3
  <2> QED BY <2>1, <2>4
<1> HIDE DEF T
<1>8. n \in T
  <2>1. n \in Nat /\ n \in 0 .. n
    BY <1>2
  <2>2. \A k \in 0 .. n - 1 : k \in T => k + 1 \in T
    BY <1>7
  <2>3. \A k \in 0 .. n : k \in T
    BY <1>6, <2>1, <2>2, UpTo, Zenon
  <2> QED BY <2>1, <2>3
<1>9. Has(n)
  BY <1>8 DEF T
<1>10. /\ st[1] = 0 /\ Len(c[n]) = st[n + 1] /\ c[n] \in Seq(S)
  <2>1. 1 \in 1 .. n + 1 /\ 1 - 1 = 0 /\ n + 1 \in 1 .. n + 1 /\ (n + 1) - 1 = n /\ n \in 0 .. n
    BY <1>2
  <2>2. Len(c[0]) = 0
    BY <1>1
  <2> QED BY <1>1, <1>3, <2>1, <2>2
<1>11. \A f \in 1 .. n : \A k \in 1 .. Len(seqs[f]) : c[n][st[f] + k] = seqs[f][k]
  <2>1. \A f \in 1 .. n : f <= n
    BY <1>2
  <2> QED BY <1>9, <2>1
<1>12. Places(seqs, st)
  BY <1>1, <1>3, <1>5, <1>10, <1>11, Zenon DEF Places, n
<1> QED BY <1>1, <1>10, <1>12

\* A frame that fits: its head can say its length, and no more than its payload is there.
GoodFrame(r) == r \in WireFrames /\ r.shown <= r.len /\ (r.ext = 0 => r.len <= 125)

\* Whole frames, but the last, of any number and lengths.
GoodStreams ==
  { ws \in Seq(WireFrames) :
      /\ Len(ws) # 0
      /\ \A f \in 1 .. Len(ws) : GoodFrame(ws[f])
      /\ \A f \in 1 .. Len(ws) - 1 : ws[f].shown = ws[f].len }

\* The streams that are explored are such streams.
LEMMA StreamsAre ==
  ASSUME NEW ws \in Streams
  PROVE  ws \in GoodStreams
<1>1. PICK n \in 1 .. MaxFrames : ws \in [1 .. n -> Frames]
  BY DEF Streams
<1>2. n \in Nat \ {0} /\ \A r \in Frames : GoodFrame(r)
  BY WsFramesAssumption DEF GoodFrame
<1>3. Frames \subseteq WireFrames
  BY <1>2 DEF GoodFrame
<1>4. ws \in Seq(WireFrames) /\ Len(ws) = n
  BY <1>1, <1>2, <1>3
<1>5. \A f \in 1 .. Len(ws) - 1 : ws[f].shown = ws[f].len
  BY DEF Streams
<1> QED BY <1>1, <1>2, <1>4, <1>5 DEF GoodStreams

\* The length of a head: two bytes, the extended length, the mask.
HeadLen(r) == 2 + r.ext + (IF r.masked = 1 THEN 4 ELSE 0)

\* The seven bits that say the length or how many bytes do.
Len8(r) == IF r.ext = 0 THEN r.len ELSE IF r.ext = 2 THEN 126 ELSE 127

\* The k-th byte of the extended length.
ExtByte(r, k) == IF k = r.ext THEN r.len % 256 ELSE IF k = r.ext - 1 THEN r.len \div 256 ELSE 0

\* The k-th byte of the head of frame f.
HeadByte(r, f, k) ==
  IF k = 1 THEN <<"flags", r.op, r.fin>>
  ELSE IF k = 2 THEN <<"len8", r.masked, Len8(r)>>
  ELSE IF k <= 2 + r.ext THEN <<"ext", ExtByte(r, k - 2)>>
  ELSE <<"mask", f>>

\* The bytes of a wire.
WireBytes == ({"flags"} \X Ops \X (0 .. 1)) \cup ({"len8"} \X (0 .. 1) \X (0 .. 127))
             \cup ({"ext"} \X Nat) \cup ({"mask"} \X Nat) \cup ({"data"} \X Nat \X Nat)

\* A number of two bytes is made up of them.
LEMMA BytesOf ==
  ASSUME NEW n \in 0 .. MaxShort, NEW q \in Int, NEW r \in Int, q = n \div 256, r = n % 256
  PROVE  q \in 0 .. 255 /\ r \in 0 .. 255 /\ n = 256 * q + r
  BY SMT DEF MaxShort

\* The fields of a frame.
LEMMA FramesAre ==
  ASSUME NEW r, GoodFrame(r)
  PROVE  /\ r.op \in Ops /\ r.fin \in 0 .. 1 /\ r.masked \in 0 .. 1 /\ r.ext \in {0, 2, 8}
         /\ r.len \in 0 .. MaxShort /\ r.len \in Nat /\ r.shown \in Nat /\ r.shown <= r.len
         /\ Len8(r) \in 0 .. 127 /\ HeadLen(r) \in Nat /\ HeadLen(r) >= 2
         /\ r.len % 256 \in 0 .. 255 /\ r.len \div 256 \in 0 .. 255
<1>1. /\ r.op \in Ops /\ r.fin \in 0 .. 1 /\ r.masked \in 0 .. 1 /\ r.ext \in {0, 2, 8}
      /\ r.len \in 0 .. MaxShort /\ r.shown \in 0 .. MaxShort /\ r.shown <= r.len
      /\ r.ext = 0 => r.len <= 125
  BY DEF GoodFrame, WireFrames
<1>4. r.len \in Nat /\ r.shown \in Nat
  BY <1>1
<1>2. r.len % 256 \in 0 .. 255 /\ r.len \div 256 \in 0 .. 255
  <2>1. r.len % 256 \in Int /\ r.len \div 256 \in Int
    BY <1>4
  <2> QED BY <1>1, <2>1, BytesOf
<1>3. Len8(r) \in 0 .. 127 /\ HeadLen(r) \in Nat /\ HeadLen(r) >= 2
  BY <1>1, <1>4 DEF Len8, HeadLen
<1> QED BY <1>1, <1>2, <1>3, <1>4

\* A head is made up of its bytes.
LEMMA HeadIs ==
  ASSUME NEW ws, NEW f \in Nat, GoodFrame(ws[f])
  PROVE  /\ FrameHead(ws, f) \in Seq(WireBytes) /\ Len(FrameHead(ws, f)) = HeadLen(ws[f])
         /\ \A k \in 1 .. HeadLen(ws[f]) : FrameHead(ws, f)[k] = HeadByte(ws[f], f, k)
<1> DEFINE r == ws[f]
           len8 == IF r.ext = 0 THEN r.len ELSE IF r.ext = 2 THEN 126 ELSE 127
           byte(k) == IF k = r.ext THEN r.len % 256 ELSE IF k = r.ext - 1 THEN r.len \div 256 ELSE 0
           a == <<<<"flags", r.op, r.fin>>, <<"len8", r.masked, len8>>>>
           b == [k \in 1 .. r.ext |-> <<"ext", byte(k)>>]
           m == IF r.masked = 1 THEN 4 ELSE 0
           c == [k \in 1 .. m |-> <<"mask", f>>]
<1>1. /\ r.op \in Ops /\ r.fin \in 0 .. 1 /\ r.masked \in 0 .. 1 /\ r.ext \in {0, 2, 8}
      /\ r.len \in Nat /\ Len8(r) \in 0 .. 127
      /\ r.len % 256 \in 0 .. 255 /\ r.len \div 256 \in 0 .. 255
  BY FramesAre
<1>2. FrameHead(ws, f) = a \o b \o c
  BY DEF FrameHead
<1>3. len8 = Len8(r)
  BY <1>1 DEF Len8
<1> HIDE DEF len8
<1>4. a \in Seq(WireBytes) /\ Len(a) = 2 /\ a[1] = HeadByte(r, f, 1) /\ a[2] = HeadByte(r, f, 2)
  <2>1. <<"flags", r.op, r.fin>> \in WireBytes /\ <<"len8", r.masked, len8>> \in WireBytes
    BY <1>1, <1>3 DEF WireBytes
  <2> QED BY <1>3, <2>1 DEF HeadByte
<1>5. /\ b \in Seq(WireBytes) /\ Len(b) = r.ext
      /\ \A k \in 1 .. r.ext : b[k] = HeadByte(r, f, 2 + k)
  <2>1. \A k \in 1 .. r.ext : byte(k) \in Nat /\ byte(k) = ExtByte(r, k)
    BY <1>1 DEF ExtByte
  <2> HIDE DEF byte
  <2>2. \A k \in 1 .. r.ext : <<"ext", byte(k)>> \in WireBytes
    BY <2>1 DEF WireBytes
  <2>3. \A k \in 1 .. r.ext : HeadByte(r, f, 2 + k) = <<"ext", byte(k)>>
    <3> SUFFICES ASSUME NEW k \in 1 .. r.ext PROVE HeadByte(r, f, 2 + k) = <<"ext", byte(k)>>
      OBVIOUS
    <3>1. 2 + k # 1 /\ 2 + k # 2 /\ 2 + k <= 2 + r.ext /\ (2 + k) - 2 = k
      BY <1>1
    <3> QED BY <2>1, <3>1 DEF HeadByte
  <2>4. r.ext \in Nat
    BY <1>1
  <2> HIDE DEF r
  <2> QED BY <2>2, <2>3, <2>4
<1>6. /\ c \in Seq(WireBytes) /\ Len(c) = m /\ m \in Nat
      /\ \A k \in 1 .. m : c[k] = HeadByte(r, f, 2 + r.ext + k)
  <2>1. <<"mask", f>> \in WireBytes
    BY DEF WireBytes
  <2>2. \A k \in 1 .. m : HeadByte(r, f, 2 + r.ext + k) = <<"mask", f>>
    <3> SUFFICES ASSUME NEW k \in 1 .. m PROVE HeadByte(r, f, 2 + r.ext + k) = <<"mask", f>>
      OBVIOUS
    <3>1. k \in Nat /\ k > 0 /\ r.ext \in Nat
      BY <1>1
    <3>2. 2 + r.ext + k # 1 /\ 2 + r.ext + k # 2 /\ ~ (2 + r.ext + k <= 2 + r.ext)
      BY <3>1
    <3> QED BY <3>2 DEF HeadByte
  <2>3. m \in Nat
    OBVIOUS
  <2> HIDE DEF m, r
  <2> QED BY <2>1, <2>2, <2>3
<1>7. HeadLen(r) = 2 + r.ext + m
  BY DEF HeadLen
<1> HIDE DEF a, b, c, m, r
<1>8. PICK d : d = a \o b
  OBVIOUS
<1>9. /\ d \in Seq(WireBytes) /\ Len(d) = Len(a) + Len(b)
      /\ \A k \in 1 .. Len(a) + Len(b) : d[k] = IF k <= Len(a) THEN a[k] ELSE b[k - Len(a)]
  BY <1>4, <1>5, <1>8, ConcatProperties
<1>10. PICK e : e = d \o c
  OBVIOUS
<1>11. /\ e \in Seq(WireBytes) /\ Len(e) = Len(d) + Len(c)
       /\ \A k \in 1 .. Len(d) + Len(c) : e[k] = IF k <= Len(d) THEN d[k] ELSE c[k - Len(d)]
  BY <1>6, <1>9, <1>10, ConcatProperties
<1>12. FrameHead(ws, f) = e
  BY <1>2, <1>8, <1>10
<1>13. r.ext \in Nat
  BY <1>1
<1>14. ASSUME NEW k \in 1 .. 2 + r.ext + m
       PROVE  e[k] = HeadByte(r, f, k)
  <2>0. k \in Nat /\ Len(d) = 2 + r.ext
    BY <1>4, <1>5, <1>6, <1>9, <1>13
  <2>1. CASE k <= 2
    <3>1. k \in {1, 2} /\ e[k] = a[k]
      BY <1>4, <1>5, <1>6, <1>9, <1>11, <1>13, <2>0, <2>1
    <3> QED BY <1>4, <3>1
  <2>2. CASE k > 2 /\ k <= 2 + r.ext
    <3>1. e[k] = b[k - 2] /\ k - 2 \in 1 .. r.ext /\ 2 + (k - 2) = k
      BY <1>4, <1>5, <1>6, <1>9, <1>11, <1>13, <2>0, <2>2
    <3> QED BY <1>5, <3>1
  <2>3. CASE k > 2 + r.ext
    <3>1. e[k] = c[k - (2 + r.ext)] /\ k - (2 + r.ext) \in 1 .. m /\ 2 + r.ext + (k - (2 + r.ext)) = k
      BY <1>4, <1>5, <1>6, <1>9, <1>11, <1>13, <2>0, <2>3
    <3> QED BY <1>6, <3>1
  <2> QED BY <1>13, <2>0, <2>1, <2>2, <2>3
<1>15. Len(e) = 2 + r.ext + m
  BY <1>4, <1>5, <1>6, <1>9, <1>11, <1>13
<1> QED BY <1>7, <1>11, <1>12, <1>14, <1>15 DEF r

\* Where the frames of a stream begin on the wire, and what stands there.
WirePlaces(ws, st) ==
  /\ st \in [1 .. Len(ws) + 1 -> Nat] /\ st[1] = 0
  /\ \A f \in 1 .. Len(ws) : st[f + 1] = st[f] + HeadLen(ws[f]) + ws[f].shown
  /\ Len(Wire(ws)) = st[Len(ws) + 1]
  /\ \A f \in 1 .. Len(ws) : \A k \in 1 .. HeadLen(ws[f]) :
       Wire(ws)[st[f] + k] = HeadByte(ws[f], f, k)
  /\ \A f \in 1 .. Len(ws) : \A k \in 1 .. ws[f].shown :
       Wire(ws)[st[f] + HeadLen(ws[f]) + k] = <<"data", f, k>>

\* Every frame has its place on the wire.
LEMMA WireIs ==
  ASSUME NEW ws \in GoodStreams
  PROVE  \E st : WirePlaces(ws, st)
<1> DEFINE n == Len(ws)
           Data(f) == [k \in 1 .. ws[f].shown |-> <<"data", f, k>>]
           Whole(f) == FrameHead(ws, f) \o Data(f)
           seqs == [f \in DOMAIN ws |-> Whole(f)]
<1>1. n \in Nat /\ DOMAIN ws = 1 .. n /\ \A f \in 1 .. n : GoodFrame(ws[f])
  BY DEF GoodStreams
<1>2. ASSUME NEW f \in 1 .. n
      PROVE  /\ Whole(f) \in Seq(WireBytes) /\ Len(Whole(f)) = HeadLen(ws[f]) + ws[f].shown
             /\ HeadLen(ws[f]) \in Nat /\ ws[f].shown \in Nat
             /\ \A k \in 1 .. HeadLen(ws[f]) : Whole(f)[k] = HeadByte(ws[f], f, k)
             /\ \A k \in 1 .. ws[f].shown : Whole(f)[HeadLen(ws[f]) + k] = <<"data", f, k>>
  <2>1. f \in Nat /\ GoodFrame(ws[f]) /\ HeadLen(ws[f]) \in Nat /\ ws[f].shown \in Nat
    BY <1>1, FramesAre
  <2>2. PICK h, m : h = HeadLen(ws[f]) /\ m = ws[f].shown
    OBVIOUS
  <2>3. h \in Nat /\ m \in Nat
    BY <2>1, <2>2
  <2>4. PICK a : a = FrameHead(ws, f)
    OBVIOUS
  <2>5. a \in Seq(WireBytes) /\ Len(a) = h /\ \A k \in 1 .. h : a[k] = HeadByte(ws[f], f, k)
    BY <2>1, <2>2, <2>4, HeadIs
  <2>6. PICK d : d = Data(f)
    OBVIOUS
  <2>7. d \in Seq(WireBytes) /\ Len(d) = m /\ \A k \in 1 .. m : d[k] = <<"data", f, k>>
    <3>1. \A k \in 1 .. m : <<"data", f, k>> \in WireBytes
      <4>1. \A k \in Nat : <<"data", f, k>> \in {"data"} \X Nat \X Nat
        BY <2>1
      <4>2. \A k \in 1 .. m : k \in Nat
        BY <2>3
      <4> QED BY <4>1, <4>2, Zenon DEF WireBytes
    <3>2. d = [k \in 1 .. m |-> <<"data", f, k>>]
      BY <2>2, <2>6
    <3> QED BY <2>3, <3>1, <3>2
  <2>8. PICK w : w = a \o d
    OBVIOUS
  <2>9. /\ w \in Seq(WireBytes) /\ Len(w) = h + m
        /\ \A k \in 1 .. h + m : w[k] = IF k <= h THEN a[k] ELSE d[k - h]
    BY <2>5, <2>7, <2>8, ConcatProperties
  <2>10. \A k \in 1 .. h : w[k] = HeadByte(ws[f], f, k)
    BY <2>3, <2>5, <2>9
  <2>11. ASSUME NEW k \in 1 .. m PROVE w[h + k] = <<"data", f, k>>
    <3>1. h + k \in 1 .. h + m /\ ~ (h + k <= h) /\ (h + k) - h = k
      BY <2>3
    <3>2. w[h + k] = d[(h + k) - h]
      BY <2>9, <3>1
    <3> QED BY <2>7, <3>1, <3>2
  <2>12. Whole(f) = w
    BY <2>4, <2>6, <2>8
  <2> HIDE DEF Whole
  <2> QED BY <2>2, <2>3, <2>9, <2>10, <2>11, <2>12
<1> HIDE DEF Whole
<1>3. seqs \in Seq(Seq(WireBytes)) /\ Len(seqs) = n /\ \A f \in 1 .. n : seqs[f] = Whole(f)
  BY <1>1, <1>2
<1>4. Wire(ws) = FlattenSeq(seqs)
  BY Zenon DEF Wire, Whole
<1> HIDE DEF seqs, n
<1>5. PICK st : Places(seqs, st)
  BY <1>3, FlattenPlaces
<1>6. /\ st \in [1 .. n + 1 -> Nat] /\ st[1] = 0
      /\ \A f \in 1 .. n : st[f + 1] = st[f] + Len(seqs[f])
      /\ Len(FlattenSeq(seqs)) = st[n + 1]
      /\ \A f \in 1 .. n : \A k \in 1 .. Len(seqs[f]) : FlattenSeq(seqs)[st[f] + k] = seqs[f][k]
  BY <1>3, <1>5 DEF Places
<1>7. ASSUME NEW f \in 1 .. n
      PROVE  /\ st[f + 1] = st[f] + HeadLen(ws[f]) + ws[f].shown
             /\ \A k \in 1 .. HeadLen(ws[f]) : Wire(ws)[st[f] + k] = HeadByte(ws[f], f, k)
             /\ \A k \in 1 .. ws[f].shown : Wire(ws)[st[f] + HeadLen(ws[f]) + k] = <<"data", f, k>>
  <2>1. PICK h, m, p : h = HeadLen(ws[f]) /\ m = ws[f].shown /\ p = st[f]
    OBVIOUS
  <2>2. h \in Nat /\ m \in Nat /\ p \in Nat
    <3>1. f \in 1 .. n + 1
      BY <1>1
    <3> QED BY <1>2, <1>6, <2>1, <3>1
  <2>3. PICK w : w = Whole(f)
    OBVIOUS
  <2>4. /\ Len(w) = h + m
        /\ \A k \in 1 .. h : w[k] = HeadByte(ws[f], f, k)
        /\ \A k \in 1 .. m : w[h + k] = <<"data", f, k>>
    BY <1>2, <2>1, <2>3
  <2>5. seqs[f] = w
    BY <1>3, <2>3
  <2>6. \A k \in 1 .. h + m : Wire(ws)[p + k] = w[k]
    BY <1>4, <1>6, <2>1, <2>4, <2>5
  <2>7. \A k \in 1 .. h : Wire(ws)[p + k] = HeadByte(ws[f], f, k)
    BY <2>2, <2>4, <2>6
  <2>8. ASSUME NEW k \in 1 .. m PROVE Wire(ws)[p + h + k] = <<"data", f, k>>
    <3>1. h + k \in 1 .. h + m /\ p + h + k = p + (h + k)
      BY <2>2
    <3>2. Wire(ws)[p + (h + k)] = w[h + k]
      BY <2>6, <3>1
    <3> QED BY <2>4, <3>1, <3>2
  <2>9. st[f + 1] = p + h + m
    <3>1. st[f + 1] = p + (h + m)
      BY <1>6, <2>1, <2>4, <2>5
    <3> QED BY <2>2, <3>1
  <2> QED BY <2>1, <2>7, <2>8, <2>9
<1>8. WirePlaces(ws, st)
  BY <1>4, <1>6, <1>7, Zenon DEF WirePlaces, n
<1> QED BY <1>8

\* The bytes before each frame.
FrameStart(ws) == CHOOSE st : WirePlaces(ws, st)

\* FrameStart says where the frames are.
LEMMA StartIs ==
  ASSUME NEW ws \in GoodStreams
  PROVE  WirePlaces(ws, FrameStart(ws))
<1>1. \E st : WirePlaces(ws, st)
  BY WireIs
<1> QED BY <1>1, Zenon DEF FrameStart

\* Frames begin behind the frames before them.
LEMMA StartsApart ==
  ASSUME NEW ws \in GoodStreams, NEW st, WirePlaces(ws, st), NEW g \in 1 .. Len(ws), NEW f \in 1 .. Len(ws) + 1, g < f
  PROVE  st[g] + HeadLen(ws[g]) + ws[g].shown <= st[f]
<1> DEFINE n == Len(ws)
           T == { m \in 0 .. n : g <= m => st[g] + HeadLen(ws[g]) + ws[g].shown <= st[m + 1] }
<1>1. n \in Nat /\ \A i \in 1 .. n : HeadLen(ws[i]) \in Nat /\ ws[i].shown \in Nat
  BY FramesAre DEF GoodStreams
<1>2. /\ st \in [1 .. n + 1 -> Nat]
      /\ \A i \in 1 .. n : st[i + 1] = st[i] + HeadLen(ws[i]) + ws[i].shown
  BY DEF WirePlaces
<1> HIDE DEF n
<1>3. 0 \in T
  BY <1>1
<1>4. ASSUME NEW m \in 0 .. n - 1, m \in T
      PROVE  m + 1 \in T
  <2>1. m + 1 \in 1 .. n /\ m + 1 \in 1 .. n + 1 /\ m + 1 \in 0 .. n /\ (m + 1) + 1 \in 1 .. n + 1 /\ g \in 1 .. n
    BY <1>1 DEF n
  <2>2. PICK a, b, h, s : a = st[m + 1] /\ b = st[(m + 1) + 1] /\ h = HeadLen(ws[m + 1]) /\ s = ws[m + 1].shown
    OBVIOUS
  <2>3. a \in Nat /\ b \in Nat /\ h \in Nat /\ s \in Nat /\ b = a + h + s
    BY <1>1, <1>2, <2>1, <2>2
  <2>4. PICK x : x = st[g] + HeadLen(ws[g]) + ws[g].shown
    OBVIOUS
  <2>5. x \in Nat
    <3>1. st[g] \in Nat
      BY <1>1, <1>2, <2>1
    <3> QED BY <1>1, <2>1, <2>4, <3>1
  <2>6. g <= m + 1 => x <= b
    <3>1. CASE g = m + 1
      BY <2>2, <2>3, <2>4, <3>1
    <3>2. CASE g <= m
      <4>1. x <= a
        BY <1>4, <2>2, <2>4, <3>2
      <4> QED BY <2>3, <2>5, <4>1
    <3>3. g <= m + 1 => g = m + 1 \/ g <= m
      BY <2>1
    <3> QED BY <3>1, <3>2, <3>3
  <2> QED BY <2>1, <2>2, <2>4, <2>6
<1> HIDE DEF T
<1>5. \A k \in 0 .. n : k \in T
  <2>1. \A k \in 0 .. n - 1 : k \in T => k + 1 \in T
    BY <1>4
  <2> QED BY <1>1, <1>3, <2>1, UpTo, Zenon
<1>6. f - 1 \in 0 .. n /\ g <= f - 1 /\ (f - 1) + 1 = f
  BY <1>1 DEF n
<1> QED BY <1>5, <1>6 DEF T

\* What the callback and the client are given.
EventSet == ({"close"} \X {"1002", "any", "as asked"}) \cup ({"pong"} \X Nat)
            \cup ({"echo"} \X (Nat \X Nat)) \cup ({"data"} \X (Nat \X Nat) \X (0 .. 1) \X (0 .. 1))

\* A frame that ends the reading: its first payload byte, or its end, closes.
Refused(r) == r.op = "close" \/ (r.op = "ping" /\ r.len > 125) \/ (r.op \in DataOps /\ r.masked = 0)

\* The one event of a frame that ends the reading, and those of the payload of one
\* that does not, up to a place.
RefusedBy(r) == IF r.op = "close" THEN <<"close", "any">> ELSE <<"close", "1002">>

\* What comes before the payload of a frame: the head of the answer to a ping.
First1(r) == IF r.op = "ping" THEN << <<"pong", r.len>> >> ELSE <<>>

\* What byte k of the payload of frame f leads to.
PayloadEvent(r, f, k) ==
  IF r.op = "ping" THEN <<"echo", <<f, k>>>>
  ELSE <<"data", <<f, k>>, 1 - r.fin, IF r.op = "binary" THEN 1 ELSE 0>>

\* What the first n bytes of a payload lead to.
PayloadEvents(r, f, n) == IF r.op = "other" THEN <<>> ELSE [k \in 1 .. n |-> PayloadEvent(r, f, k)]

\* It is one of the events.
LEMMA PayloadEventIs ==
  ASSUME NEW r, GoodFrame(r), NEW f \in Nat, NEW k \in Nat
  PROVE  PayloadEvent(r, f, k) \in EventSet
<1>1. r.fin \in 0 .. 1 /\ 1 - r.fin \in 0 .. 1
  BY FramesAre
<1>2. <<f, k>> \in Nat \X Nat
  OBVIOUS
<1>3. <<"echo", <<f, k>>>> \in {"echo"} \X (Nat \X Nat)
  BY <1>2
<1>4. \A b \in 0 .. 1 : <<"data", <<f, k>>, 1 - r.fin, b>> \in {"data"} \X (Nat \X Nat) \X (0 .. 1) \X (0 .. 1)
  BY <1>1, <1>2
<1>5. (IF r.op = "binary" THEN 1 ELSE 0) \in 0 .. 1
  OBVIOUS
<1> QED BY <1>3, <1>4, <1>5 DEF PayloadEvent, EventSet

\* They are a sequence of events.
LEMMA PayloadEventsAre ==
  ASSUME NEW r, GoodFrame(r), NEW f \in Nat, NEW n \in Nat
  PROVE  /\ PayloadEvents(r, f, n) \in Seq(EventSet)
         /\ Len(PayloadEvents(r, f, n)) = IF r.op = "other" THEN 0 ELSE n
         /\ r.op # "other" => \A k \in 1 .. n : PayloadEvents(r, f, n)[k] = PayloadEvent(r, f, k)
<1>1. \A k \in 1 .. n : PayloadEvent(r, f, k) \in EventSet
  BY PayloadEventIs
<1> QED BY <1>1 DEF PayloadEvents

\* So is what comes before.
LEMMA FirstIs ==
  ASSUME NEW r, GoodFrame(r)
  PROVE  First1(r) \in Seq(EventSet) /\ Len(First1(r)) = IF r.op = "ping" THEN 1 ELSE 0
<1>1. <<"pong", r.len>> \in EventSet
  <2>1. r.len \in Nat
    BY FramesAre
  <2> QED BY <2>1 DEF EventSet
<1> QED BY <1>1 DEF First1

\* Events, put together from these.
LEMMA EventsIs ==
  ASSUME NEW ws, NEW f \in Nat, GoodFrame(ws[f]), NEW n \in Nat
  PROVE  /\ Events(ws, f, n) = IF Refused(ws[f]) THEN <<RefusedBy(ws[f])>>
                               ELSE First1(ws[f]) \o PayloadEvents(ws[f], f, n)
         /\ Events(ws, f, n) \in Seq(EventSet)
         /\ Closes(ws, f) <=> Refused(ws[f])
<1> DEFINE r == ws[f]
           E(k) == IF Refused(r) THEN <<RefusedBy(r)>> ELSE First1(r) \o PayloadEvents(r, f, k)
<1>1. r.op \in {"continue", "text", "binary", "ping", "close", "other"} /\ r.masked \in 0 .. 1
  BY FramesAre DEF Ops, DataOps
<1>2. RefusedBy(r) \in EventSet /\ RefusedBy(r)[1] = "close"
  BY DEF RefusedBy, EventSet
<1>3. ASSUME NEW k \in Nat
      PROVE  Events(ws, f, k) = E(k) /\ E(k) \in Seq(EventSet)
  <2>1. First1(r) \in Seq(EventSet) /\ PayloadEvents(r, f, k) \in Seq(EventSet)
    BY FirstIs, PayloadEventsAre
  <2>2. First1(r) \o PayloadEvents(r, f, k) \in Seq(EventSet)
    BY <2>1, ConcatProperties
  <2>3. E(k) \in Seq(EventSet)
    <3>1. <<RefusedBy(r)>> \in Seq(EventSet)
      BY <1>2
    <3> QED BY <2>2, <3>1
  <2>4. Events(ws, f, k) = E(k)
    <3>1. CASE r.op = "ping"
      <4>1. r.op \notin DataOps /\ r.op # "close" /\ r.op # "other"
        BY <3>1 DEF DataOps
      <4>2. Refused(r) <=> r.len > 125
        BY <3>1, <4>1 DEF Refused
      <4>3. PayloadEvents(r, f, k) = [i \in 1 .. k |-> <<"echo", <<f, i>>>>]
        BY <3>1 DEF PayloadEvents, PayloadEvent
      <4>4. Events(ws, f, k) = IF r.len > 125 THEN <<<<"close", "1002">>>>
                               ELSE <<<<"pong", r.len>>>> \o [i \in 1 .. k |-> <<"echo", <<f, i>>>>]
        BY <3>1, <4>1 DEF Events
      <4> HIDE DEF r
      <4> QED BY <3>1, <4>2, <4>3, <4>4 DEF First1, RefusedBy
    <3>2. CASE r.op \in DataOps
      <4>1. r.op # "ping" /\ r.op # "close" /\ r.op # "other"
        BY <3>2 DEF DataOps
      <4>2. Refused(r) <=> r.masked = 0
        BY <3>2, <4>1 DEF Refused
      <4>3. PayloadEvents(r, f, k) =
              [i \in 1 .. k |-> <<"data", <<f, i>>, 1 - r.fin, IF r.op = "binary" THEN 1 ELSE 0>>]
        BY <4>1 DEF PayloadEvents, PayloadEvent
      <4>4. Events(ws, f, k) = IF r.masked = 0 THEN <<<<"close", "1002">>>>
              ELSE [i \in 1 .. k |-> <<"data", <<f, i>>, 1 - r.fin, IF r.op = "binary" THEN 1 ELSE 0>>]
        BY <3>2, <4>1 DEF Events
      <4>5. First1(r) = <<>>
        BY <4>1 DEF First1
      <4>6. First1(r) \o PayloadEvents(r, f, k) = PayloadEvents(r, f, k)
        BY <2>1, <4>5, ConcatEmptySeq
      <4> HIDE DEF r
      <4> QED BY <4>1, <4>2, <4>3, <4>4, <4>6 DEF RefusedBy
    <3>3. CASE r.op = "close"
      <4>1. Refused(r) /\ r.op \notin DataOps
        BY <3>3 DEF Refused, DataOps
      <4>2. Events(ws, f, k) = <<<<"close", "any">>>>
        BY <3>3, <4>1 DEF Events
      <4> QED BY <3>3, <4>1, <4>2 DEF RefusedBy
    <3>4. CASE r.op = "other"
      <4>1. ~ Refused(r) /\ r.op \notin DataOps
        BY <3>4 DEF Refused, DataOps
      <4>2. Events(ws, f, k) = <<>>
        BY <3>4, <4>1 DEF Events
      <4>3. First1(r) = <<>> /\ PayloadEvents(r, f, k) = <<>>
        BY <3>4 DEF First1, PayloadEvents
      <4>4. First1(r) \o PayloadEvents(r, f, k) = <<>>
        BY <4>3, <2>1, ConcatEmptySeq
      <4> QED BY <4>1, <4>2, <4>4
    <3> QED BY <1>1, <3>1, <3>2, <3>3, <3>4 DEF DataOps
  <2> QED BY <2>3, <2>4
<1>4. Closes(ws, f) <=> Refused(r)
  <2>1. PICK e : e = Events(ws, f, 0)
    OBVIOUS
  <2>2. Closes(ws, f) <=> e # <<>> /\ e[1][1] = "close"
    BY <2>1 DEF Closes
  <2>3. e = E(0)
    BY <1>3, <2>1
  <2>4. CASE Refused(r)
    <3>1. e = <<RefusedBy(r)>>
      BY <2>3, <2>4
    <3> QED BY <1>2, <2>2, <2>4, <3>1
  <2>5. CASE ~ Refused(r)
    <3>1. e = First1(r) \o PayloadEvents(r, f, 0)
      BY <2>3, <2>5
    <3>2. PayloadEvents(r, f, 0) \in Seq(EventSet) /\ Len(PayloadEvents(r, f, 0)) = 0
      BY PayloadEventsAre
    <3>3. PayloadEvents(r, f, 0) = <<>>
      BY <3>2, EmptySeq
    <3>4. e = First1(r)
      BY <3>1, <3>3, FirstIs, ConcatEmptySeq
    <3>5. CASE r.op = "ping"
      <4>1. e = <<<<"pong", r.len>>>>
        BY <3>4, <3>5 DEF First1
      <4>2. e[1][1] = "pong"
        BY <4>1
      <4> QED BY <2>2, <2>5, <4>2
    <3>6. CASE r.op # "ping"
      <4>1. e = <<>>
        BY <3>4, <3>6 DEF First1
      <4> QED BY <2>2, <2>5, <4>1
    <3> QED BY <3>5, <3>6
  <2> QED BY <2>4, <2>5
<1> QED BY <1>3, <1>4

\* What each frame leads to when n bytes of the stream were handled.
OwedParts(ws, st, n) ==
  [f \in DOMAIN ws |->
     LET k == n - st[f] - HeadLen(ws[f]) IN
     IF k >= 0 /\ \A g \in 1 .. f - 1 : ~ Closes(ws, g)
     THEN Events(ws, f, IF k < ws[f].shown THEN k ELSE ws[f].shown) ELSE <<>>]

\* What is owed of a stream is what is owed of its frames, up to the place.
LEMMA OwedFrom ==
  ASSUME NEW ws \in GoodStreams, NEW st, WirePlaces(ws, st), NEW n \in Nat
  PROVE  Owed(ws, n) = FlattenSeq(OwedParts(ws, st, n))
<1> DEFINE m == Len(ws)
           size(f) == Len(FrameHead(ws, f)) + ws[f].shown
           Def(h) == [f \in 1 .. m |-> IF f = 1 THEN 0 ELSE h[f - 1] + size(f - 1)]
           start == CHOOSE h : h = Def(h)
           here(f) == LET k == n - start[f] - Len(FrameHead(ws, f)) IN IF k < ws[f].shown THEN k ELSE ws[f].shown
           live(f) == here(f) >= 0 /\ \A g \in 1 .. f - 1 : ~ Closes(ws, g)
           parts == [f \in DOMAIN ws |-> IF live(f) THEN Events(ws, f, here(f)) ELSE <<>>]
           h0 == [f \in 1 .. m |-> st[f]]
<1>1. m \in Nat /\ DOMAIN ws = 1 .. m
      /\ \A f \in 1 .. m : /\ GoodFrame(ws[f]) /\ HeadLen(ws[f]) \in Nat /\ ws[f].shown \in Nat
                           /\ Len(FrameHead(ws, f)) = HeadLen(ws[f])
  BY FramesAre, HeadIs DEF GoodStreams
<1>2. /\ st \in [1 .. m + 1 -> Nat] /\ st[1] = 0
      /\ \A f \in 1 .. m : st[f + 1] = st[f] + HeadLen(ws[f]) + ws[f].shown
  BY DEF WirePlaces
<1>3. Owed(ws, n) = FlattenSeq(parts)
  BY Zenon DEF Owed
<1> HIDE DEF m
<1>4. \A f \in 1 .. m : f = 1 \/ (f - 1 \in 1 .. m /\ st[f] = st[f - 1] + size(f - 1))
  <2> SUFFICES ASSUME NEW f \in 1 .. m, f # 1 PROVE f - 1 \in 1 .. m /\ st[f] = st[f - 1] + size(f - 1)
    OBVIOUS
  <2>1. PICK g \in 1 .. m : g = f - 1
    BY <1>1
  <2>2. g + 1 = f
    BY <1>1, <2>1
  <2>3. st[g + 1] = st[g] + HeadLen(ws[g]) + ws[g].shown /\ Len(FrameHead(ws, g)) = HeadLen(ws[g])
    BY <1>1, <1>2
  <2>4. PICK a, h, s : a = st[g] /\ h = HeadLen(ws[g]) /\ s = ws[g].shown
    OBVIOUS
  <2>5. a \in Nat /\ h \in Nat /\ s \in Nat
    <3>1. g \in 1 .. m + 1
      BY <1>1
    <3> QED BY <1>1, <1>2, <2>4, <3>1
  <2>6. a + h + s = a + (h + s)
    BY <2>5
  <2> QED BY <2>1, <2>2, <2>3, <2>4, <2>6
<1>5. h0 = Def(h0)
  <2>1. \A f \in 1 .. m : f # 1 => h0[f - 1] = st[f - 1]
    BY <1>4
  <2>2. \A f \in 1 .. m : st[f] = IF f = 1 THEN 0 ELSE h0[f - 1] + size(f - 1)
    BY <1>2, <1>4, <2>1
  <2> HIDE DEF size
  <2> QED BY <2>2
<1>6. start = Def(start)
  <2> HIDE DEF h0, Def
  <2> QED BY <1>5, Zenon
<1> HIDE DEF start, h0
<1>7. \A f \in 1 .. m : start[f] = IF f = 1 THEN 0 ELSE start[f - 1] + size(f - 1)
  <2> DEFINE d == Def(start)
  <2> HIDE DEF size
  <2>1. \A f \in 1 .. m : d[f] = IF f = 1 THEN 0 ELSE start[f - 1] + size(f - 1)
    OBVIOUS
  <2>2. d = start
    BY <1>6
  <2> HIDE DEF d
  <2> QED BY <2>1, <2>2
<1> HIDE DEF size
<1> DEFINE T == { k \in 0 .. m : k = 0 \/ start[k] = st[k] }
<1>8. ASSUME NEW k \in 0 .. m - 1, k \in T
      PROVE  k + 1 \in T
  <2>1. k + 1 \in 1 .. m /\ k + 1 \in 0 .. m /\ (k + 1) - 1 = k /\ (k + 1 = 1 <=> k = 0)
    BY <1>1
  <2>2. CASE k = 0
    <3>1. start[1] = 0 /\ 0 + 1 = 1
      BY <1>7, <2>1, <2>2
    <3> QED BY <1>2, <2>1, <2>2, <3>1
  <2>3. CASE k # 0
    <3>1. start[k + 1] = start[k] + size(k) /\ st[k + 1] = st[k] + size(k)
      BY <1>4, <1>7, <2>1, <2>3
    <3> QED BY <1>8, <2>1, <2>3, <3>1
  <2> QED BY <2>2, <2>3
<1>9. \A k \in 0 .. m : k \in T
  <2>1. 0 \in T
    BY <1>1
  <2>2. \A k \in 0 .. m - 1 : k \in T => k + 1 \in T
    BY <1>8
  <2> HIDE DEF T
  <2> QED BY <1>1, <2>1, <2>2, UpTo, Zenon
<1>10. \A f \in 1 .. m : start[f] = st[f] /\ Len(FrameHead(ws, f)) = HeadLen(ws[f]) /\ st[f] \in Nat
  BY <1>1, <1>2, <1>9
<1> HIDE DEF T
<1>11. ASSUME NEW f \in DOMAIN ws
       PROVE  parts[f] = OwedParts(ws, st, n)[f]
  <2>1. f \in 1 .. m /\ start[f] = st[f] /\ Len(FrameHead(ws, f)) = HeadLen(ws[f])
    BY <1>1, <1>10
  <2>2. PICK a, h, s : a = st[f] /\ h = HeadLen(ws[f]) /\ s = ws[f].shown
    OBVIOUS
  <2>3. a \in Nat /\ h \in Nat /\ s \in Nat
    BY <1>1, <1>10, <2>1, <2>2
  <2>4. PICK k : k = n - a - h
    OBVIOUS
  <2>5. here(f) = IF k < s THEN k ELSE s
    BY <2>1, <2>2, <2>4
  <2>6. k \in Int
    BY <2>3, <2>4
  <2>7. here(f) >= 0 <=> k >= 0
    BY <2>3, <2>5, <2>6
  <2>8. OwedParts(ws, st, n)[f] =
          IF k >= 0 /\ \A g \in 1 .. f - 1 : ~ Closes(ws, g) THEN Events(ws, f, IF k < s THEN k ELSE s) ELSE <<>>
    BY <2>2, <2>4 DEF OwedParts
  <2>9. parts[f] = IF live(f) THEN Events(ws, f, here(f)) ELSE <<>>
    OBVIOUS
  <2> HIDE DEF here, parts
  <2> QED BY <2>5, <2>7, <2>8, <2>9
<1>12. parts = OwedParts(ws, st, n)
  <2>1. DOMAIN parts = DOMAIN ws /\ parts = [f \in DOMAIN ws |-> parts[f]]
    <3> HIDE DEF here, live
    <3> QED OBVIOUS
  <2>2. OwedParts(ws, st, n) = [f \in DOMAIN ws |-> OwedParts(ws, st, n)[f]]
    BY DEF OwedParts
  <2> HIDE DEF parts
  <2> QED BY <1>11, <2>1, <2>2
<1> QED BY <1>3, <1>12

\* The events of the whole frames of a stream, joined.
WholeParts(ws) == [f \in DOMAIN ws |-> Events(ws, f, ws[f].shown)]

\* c[k] joins the first k of the sequences.
Joins(seqs, c) ==
  /\ c \in [0 .. Len(seqs) -> Seq(EventSet)] /\ c[0] = <<>>
  /\ \A k \in 1 .. Len(seqs) : c[k] = c[k - 1] \o seqs[k]

\* What is owed of the frames before a frame.
OwedBefore(ws) == CHOOSE c : Joins(WholeParts(ws), c)

\* The parts of whole frames can be joined.
LEMMA WholePartsAre ==
  ASSUME NEW ws \in GoodStreams
  PROVE  /\ WholeParts(ws) \in Seq(Seq(EventSet)) /\ Len(WholeParts(ws)) = Len(ws)
         /\ Joins(WholeParts(ws), OwedBefore(ws))
<1>1. Len(ws) \in Nat /\ DOMAIN ws = 1 .. Len(ws)
      /\ \A f \in 1 .. Len(ws) : GoodFrame(ws[f]) /\ ws[f].shown \in Nat
  BY FramesAre DEF GoodStreams
<1>2. \A f \in 1 .. Len(ws) : Events(ws, f, ws[f].shown) \in Seq(EventSet)
  BY <1>1, EventsIs
<1>3. WholeParts(ws) \in Seq(Seq(EventSet)) /\ Len(WholeParts(ws)) = Len(ws)
  BY <1>1, <1>2 DEF WholeParts
<1>4. \E c : Joins(WholeParts(ws), c)
  <2>1. PICK p : p = WholeParts(ws)
    OBVIOUS
  <2>2. p \in Seq(Seq(EventSet))
    BY <1>3, <2>1
  <2>3. \E c \in [0 .. Len(p) -> Seq(EventSet)] :
           /\ c[0] = <<>> /\ \A k \in 1 .. Len(p) : c[k] = c[k - 1] \o p[k]
           /\ FlattenSeq(p) = c[Len(p)]
    BY <2>2, FlattenIs
  <2> QED BY <2>1, <2>3 DEF Joins
<1>5. Joins(WholeParts(ws), OwedBefore(ws))
  BY <1>4, Zenon DEF OwedBefore
<1> QED BY <1>3, <1>5

\* What is owed in a frame is its own part and those of the frames before.
LEMMA OwedPartsAre ==
  ASSUME NEW ws \in GoodStreams, NEW st, WirePlaces(ws, st), NEW f \in 1 .. Len(ws), NEW j \in Nat,
         j <= HeadLen(ws[f]) + ws[f].shown, \A g \in 1 .. f - 1 : ~ Closes(ws, g), NEW n, n = st[f] + j,
         NEW g \in 1 .. Len(ws)
  PROVE  /\ g < f => OwedParts(ws, st, n)[g] = WholeParts(ws)[g]
         /\ g = f => OwedParts(ws, st, n)[g] =
                       IF j < HeadLen(ws[f]) THEN <<>> ELSE Events(ws, f, j - HeadLen(ws[f]))
         /\ g > f => OwedParts(ws, st, n)[g] = <<>>
<1>1. /\ Len(ws) \in Nat /\ DOMAIN ws = 1 .. Len(ws)
      /\ GoodFrame(ws[g]) /\ GoodFrame(ws[f])
  BY DEF GoodStreams
<1>2. PICK a, h, s, b, hf, sf : a = st[g] /\ h = HeadLen(ws[g]) /\ s = ws[g].shown
                                /\ b = st[f] /\ hf = HeadLen(ws[f]) /\ sf = ws[f].shown
  OBVIOUS
<1>3. a \in Nat /\ h \in Nat /\ h >= 2 /\ s \in Nat /\ b \in Nat /\ hf \in Nat /\ sf \in Nat /\ n = b + j /\ j <= hf + sf
  <2>1. a \in Nat /\ b \in Nat
    <3>1. st \in [1 .. Len(ws) + 1 -> Nat]
      BY DEF WirePlaces
    <3>2. g \in 1 .. Len(ws) + 1 /\ f \in 1 .. Len(ws) + 1
      BY <1>1
    <3> QED BY <1>2, <3>1, <3>2
  <2> QED BY <1>1, <1>2, <2>1, FramesAre
<1>4. g < f => a + h + s <= b
  <2>1. f \in 1 .. Len(ws) + 1
    BY <1>1
  <2> QED BY <1>2, <2>1, StartsApart
<1>5. g > f => b + hf + sf <= a
  <2>1. g \in 1 .. Len(ws) + 1
    BY <1>1
  <2> QED BY <1>2, <2>1, StartsApart
<1>6. PICK k : k = n - a - h
  OBVIOUS
<1>7. k \in Int
  BY <1>3, <1>6
<1>8. OwedParts(ws, st, n)[g] =
        IF k >= 0 /\ \A i \in 1 .. g - 1 : ~ Closes(ws, i) THEN Events(ws, g, IF k < s THEN k ELSE s) ELSE <<>>
  BY <1>1, <1>2, <1>6 DEF OwedParts
<1>9. WholeParts(ws)[g] = Events(ws, g, s)
  BY <1>1, <1>2 DEF WholeParts
<1>10. CASE g < f
  <2>1. k >= 0 /\ ~ (k < s)
    BY <1>3, <1>4, <1>6, <1>10
  <2>2. \A i \in 1 .. g - 1 : ~ Closes(ws, i)
    <3>1. \A i \in 1 .. g - 1 : i \in 1 .. f - 1
      BY <1>10
    <3> QED BY <3>1
  <2> QED BY <1>8, <1>9, <1>10, <2>1, <2>2
<1>11. CASE g = f
  <2>1. k = j - h /\ a = b /\ h = hf /\ s = sf
    BY <1>2, <1>3, <1>6, <1>11
  <2>2. k <= s /\ (k >= 0 <=> ~ (j < h))
    BY <1>3, <2>1
  <2>3. (IF k < s THEN k ELSE s) = k
    BY <1>3, <1>7, <2>2
  <2>4. OwedParts(ws, st, n)[g] = IF k >= 0 THEN Events(ws, g, k) ELSE <<>>
    BY <1>8, <1>11, <2>3
  <2>5. OwedParts(ws, st, n)[g] = IF j < h THEN <<>> ELSE Events(ws, g, j - h)
    BY <2>1, <2>2, <2>4
  <2> QED BY <1>2, <1>11, <2>5
<1>12. CASE g > f
  <2>1. ~ (k >= 0)
    BY <1>3, <1>5, <1>6, <1>12
  <2> QED BY <1>8, <1>12, <2>1
<1>13. f \in Nat /\ g \in Nat
  OBVIOUS
<1> QED BY <1>10, <1>11, <1>12, <1>13

\* In a frame, behind n bytes of its payload, this is owed.
LEMMA OwedIs ==
  ASSUME NEW ws \in GoodStreams, NEW f \in 1 .. Len(ws), NEW j \in Nat,
         j <= HeadLen(ws[f]) + ws[f].shown, \A g \in 1 .. f - 1 : ~ Closes(ws, g)
  PROVE  LET e == IF j < HeadLen(ws[f]) THEN <<>> ELSE Events(ws, f, j - HeadLen(ws[f]))
         IN  /\ Owed(ws, FrameStart(ws)[f] + j) = OwedBefore(ws)[f - 1] \o e
             /\ e \in Seq(EventSet) /\ OwedBefore(ws)[f - 1] \in Seq(EventSet)
<1> DEFINE m == Len(ws)
           st == FrameStart(ws)
           n == st[f] + j
           e == IF j < HeadLen(ws[f]) THEN <<>> ELSE Events(ws, f, j - HeadLen(ws[f]))
           p == OwedParts(ws, st, n)
           q == WholeParts(ws)
           c == OwedBefore(ws)
<1>1. m \in Nat /\ DOMAIN ws = 1 .. m /\ f \in 1 .. m /\ \A g \in 1 .. m : GoodFrame(ws[g])
  BY DEF GoodStreams
<1>2. WirePlaces(ws, st)
  BY StartIs
<1>3. n \in Nat
  <2>1. st \in [1 .. m + 1 -> Nat]
    BY <1>2 DEF WirePlaces
  <2>2. f \in 1 .. m + 1
    BY <1>1
  <2> HIDE DEF st
  <2>3. st[f] \in Nat
    BY <2>1, <2>2
  <2> QED BY <2>3
<1>4. Owed(ws, n) = FlattenSeq(p)
  <2> HIDE DEF st, n
  <2> QED BY <1>2, <1>3, OwedFrom
<1>5. e \in Seq(EventSet)
  <2>1. HeadLen(ws[f]) \in Nat /\ GoodFrame(ws[f]) /\ f \in Nat
    BY <1>1, FramesAre
  <2>2. ~ (j < HeadLen(ws[f])) => j - HeadLen(ws[f]) \in Nat
    BY <2>1
  <2>3. <<>> \in Seq(EventSet)
    OBVIOUS
  <2> QED BY <2>1, <2>2, <2>3, EventsIs
<1>6. q \in Seq(Seq(EventSet)) /\ Len(q) = m
      /\ c \in [0 .. m -> Seq(EventSet)] /\ c[0] = <<>> /\ \A k \in 1 .. m : c[k] = c[k - 1] \o q[k]
  BY WholePartsAre DEF Joins
<1>7. ASSUME NEW g \in 1 .. m
      PROVE  (g < f => p[g] = q[g]) /\ (g = f => p[g] = e) /\ (g > f => p[g] = <<>>)
  <2>1. n = st[f] + j
    OBVIOUS
  <2> HIDE DEF st, n
  <2> QED BY <1>2, <2>1, OwedPartsAre
<1>8. p \in Seq(Seq(EventSet)) /\ Len(p) = m
  <2>1. \A g \in 1 .. m : p[g] \in Seq(EventSet)
    <3> SUFFICES ASSUME NEW g \in 1 .. m PROVE p[g] \in Seq(EventSet)
      OBVIOUS
    <3>1. q[g] \in Seq(EventSet)
      BY <1>6
    <3>2. <<>> \in Seq(EventSet)
      OBVIOUS
    <3>3. g < f \/ g = f \/ g > f
      BY <1>1
    <3> HIDE DEF p, q, e
    <3> QED BY <1>5, <1>7, <3>1, <3>2, <3>3
  <2>2. p = [g \in 1 .. m |-> p[g]]
    BY <1>1 DEF OwedParts
  <2> HIDE DEF p
  <2> QED BY <1>1, <2>1, <2>2
<1> HIDE DEF m, st, n, e, p, q, c
<1>9. PICK d \in [0 .. m -> Seq(EventSet)] :
        /\ d[0] = <<>> /\ \A k \in 1 .. m : d[k] = d[k - 1] \o p[k]
        /\ FlattenSeq(p) = d[m]
  BY <1>8, FlattenIs
<1>10. f - 1 \in 0 .. m /\ c[f - 1] \in Seq(EventSet)
  BY <1>1, <1>6
<1>11. PICK v : v = c[f - 1] \o e
  OBVIOUS
<1>12. v \in Seq(EventSet)
  BY <1>5, <1>10, <1>11, ConcatProperties
<1> DEFINE T == { k \in 0 .. m : d[k] = IF k < f THEN c[k] ELSE v }
<1>13. 0 \in T
  BY <1>1, <1>6, <1>9
<1>14. ASSUME NEW k \in 0 .. m - 1, k \in T
       PROVE  k + 1 \in T
  <2>1. k + 1 \in 1 .. m /\ k + 1 \in 0 .. m /\ (k + 1) - 1 = k /\ k \in 0 .. m
    BY <1>1
  <2>2. d[k + 1] = d[k] \o p[k + 1] /\ c[k + 1] = c[k] \o q[k + 1]
    BY <1>6, <1>9, <2>1
  <2>3. d[k] = IF k < f THEN c[k] ELSE v
    BY <1>14
  <2>4. CASE k + 1 < f
    <3>1. p[k + 1] = q[k + 1] /\ k < f
      BY <1>1, <1>7, <2>1, <2>4
    <3> QED BY <2>1, <2>2, <2>3, <2>4, <3>1
  <2>5. CASE k + 1 = f
    <3>1. p[k + 1] = e /\ k < f /\ k = f - 1 /\ ~ (k + 1 < f)
      BY <1>1, <1>7, <2>1, <2>5
    <3>2. d[k + 1] = v
      BY <1>11, <2>2, <2>3, <3>1
    <3> QED BY <2>1, <3>1, <3>2
  <2>6. CASE k + 1 > f
    <3>1. p[k + 1] = <<>> /\ ~ (k < f) /\ ~ (k + 1 < f)
      BY <1>1, <1>7, <2>1, <2>6
    <3>2. d[k + 1] = v
      BY <1>12, <2>2, <2>3, <3>1, ConcatEmptySeq
    <3> QED BY <2>1, <3>1, <3>2
  <2>7. k + 1 < f \/ k + 1 = f \/ k + 1 > f
    BY <1>1, <2>1
  <2> QED BY <2>4, <2>5, <2>6, <2>7
<1> HIDE DEF T
<1>15. m \in T
  <2>1. \A k \in 0 .. m - 1 : k \in T => k + 1 \in T
    BY <1>14
  <2>2. \A k \in 0 .. m : k \in T
    BY <1>1, <1>13, <2>1, UpTo, Zenon
  <2> QED BY <1>1, <2>2
<1>16. d[m] = v
  BY <1>1, <1>15 DEF T
<1> QED BY <1>4, <1>5, <1>9, <1>10, <1>11, <1>16 DEF n, st, e, c

\* Behind a frame, all of it is owed.
LEMMA OwedBehind ==
  ASSUME NEW ws \in GoodStreams, NEW f \in 1 .. Len(ws), \A g \in 1 .. f : ~ Closes(ws, g)
  PROVE  /\ FrameStart(ws)[f + 1] = FrameStart(ws)[f] + HeadLen(ws[f]) + ws[f].shown
         /\ Owed(ws, FrameStart(ws)[f + 1]) = OwedBefore(ws)[f]
         /\ OwedBefore(ws)[f] = OwedBefore(ws)[f - 1] \o Events(ws, f, ws[f].shown)
<1>1. /\ Len(ws) \in Nat /\ DOMAIN ws = 1 .. Len(ws) /\ GoodFrame(ws[f])
  BY DEF GoodStreams
<1>2. PICK h, s, a : h = HeadLen(ws[f]) /\ s = ws[f].shown /\ a = FrameStart(ws)[f]
  OBVIOUS
<1>3. h \in Nat /\ s \in Nat
  BY <1>1, <1>2, FramesAre
<1>4. FrameStart(ws) \in [1 .. Len(ws) + 1 -> Nat] /\ FrameStart(ws)[f + 1] = a + h + s
  BY <1>2, StartIs DEF WirePlaces
<1>5. a \in Nat
  <2>1. f \in 1 .. Len(ws) + 1
    BY <1>1
  <2> QED BY <1>2, <1>4, <2>1
<1>6. PICK j \in Nat : j = h + s
  BY <1>3
<1>7. a + h + s = a + j /\ ~ (j < h) /\ j - h = s /\ j <= h + s
  BY <1>3, <1>5, <1>6
<1>8. \A g \in 1 .. f - 1 : ~ Closes(ws, g)
  OBVIOUS
<1>9. Owed(ws, a + j) = OwedBefore(ws)[f - 1] \o (IF j < h THEN <<>> ELSE Events(ws, f, j - h))
  BY <1>2, <1>6, <1>7, <1>8, OwedIs
<1>10. OwedBefore(ws)[f] = OwedBefore(ws)[f - 1] \o WholeParts(ws)[f]
  BY WholePartsAre DEF Joins
<1>11. WholeParts(ws)[f] = Events(ws, f, s)
  BY <1>1, <1>2 DEF WholeParts
<1> QED BY <1>2, <1>4, <1>7, <1>9, <1>10, <1>11

\* The same events, but for what Plain leaves open.
Alike(ws, s, t) ==
  Len(s) = Len(t) /\ \A k \in 1 .. Len(s) : Plain(ws, s[k]) = Plain(ws, t[k])

\* What is alike stays so when the same is added.
LEMMA AlikeJoined ==
  ASSUME NEW ws, NEW s \in Seq(EventSet), NEW t \in Seq(EventSet), NEW x \in Seq(EventSet), NEW y \in Seq(EventSet),
         Alike(ws, s, t), Alike(ws, x, y)
  PROVE  Alike(ws, s \o x, t \o y) /\ s \o x \in Seq(EventSet)
<1>1. PICK u, v : u = s \o x /\ v = t \o y
  OBVIOUS
<1>2. /\ u \in Seq(EventSet) /\ Len(u) = Len(s) + Len(x)
      /\ \A k \in 1 .. Len(s) + Len(x) : u[k] = IF k <= Len(s) THEN s[k] ELSE x[k - Len(s)]
  BY <1>1, ConcatProperties
<1>3. /\ Len(v) = Len(t) + Len(y)
      /\ \A k \in 1 .. Len(t) + Len(y) : v[k] = IF k <= Len(t) THEN t[k] ELSE y[k - Len(t)]
  BY <1>1, ConcatProperties
<1>4. Len(s) = Len(t) /\ Len(x) = Len(y) /\ Len(s) \in Nat /\ Len(x) \in Nat
  BY DEF Alike
<1>5. ASSUME NEW k \in 1 .. Len(u)
      PROVE  Plain(ws, u[k]) = Plain(ws, v[k])
  <2>1. k \in 1 .. Len(s) + Len(x) /\ k \in 1 .. Len(t) + Len(y) /\ k \in Nat
    BY <1>2, <1>4
  <2>2. CASE k <= Len(s)
    <3>1. u[k] = s[k] /\ v[k] = t[k] /\ k \in 1 .. Len(s)
      BY <1>2, <1>3, <1>4, <2>1, <2>2
    <3> QED BY <3>1 DEF Alike
  <2>3. CASE ~ (k <= Len(s))
    <3>1. u[k] = x[k - Len(s)] /\ v[k] = y[k - Len(s)] /\ k - Len(s) \in 1 .. Len(x)
      BY <1>2, <1>3, <1>4, <2>1, <2>3
    <3> QED BY <3>1 DEF Alike
  <2> QED BY <2>2, <2>3
<1> QED BY <1>1, <1>2, <1>3, <1>4, <1>5 DEF Alike

\* That is how FramesExact compares them.
LEMMA AlikeIs ==
  ASSUME NEW ws, NEW s \in Seq(EventSet), NEW t \in Seq(EventSet), Alike(ws, s, t)
  PROVE  PlainAll(ws, s) = PlainAll(ws, t)
<1>1. DOMAIN s = DOMAIN t /\ \A k \in DOMAIN s : Plain(ws, s[k]) = Plain(ws, t[k])
  BY DEF Alike
<1> QED BY <1>1 DEF PlainAll

\* The states of the parser.
FrameStates ==
  [wsStatus : 0 .. 14, op : Ops, fin : 0 .. 1, masked : 0 .. 1, len7 : 0 .. 127, len : 0 .. MaxShort,
   mask : [1 .. 4 -> Nat], maskCtr : 0 .. 255, frameCont : 0 .. 1]

\* j bytes of the head of a frame were read, but not all of them.
InHead(p, r, f, j) ==
  /\ j = 0 => p.wsStatus = 0
  /\ j >= 1 => p.op = r.op /\ p.fin = r.fin /\ p.maskCtr = 0 /\ p.frameCont = 0
  /\ j = 1 => p.wsStatus = 1
  /\ j >= 2 => p.masked = r.masked /\ p.len7 = Len8(r)
  /\ (j >= 2 /\ j < 2 + r.ext) => p.wsStatus = j /\ p.len = IF j = 1 + r.ext THEN r.len \div 256 ELSE 0
  /\ (j >= 2 /\ j >= 2 + r.ext) =>
       /\ p.wsStatus = 8 + j - r.ext /\ p.len = r.len
       /\ \A i \in 1 .. 4 : i <= j - 2 - r.ext => p.mask[i] = f

\* The head was read, and k bytes of the payload.
InPayload(p, r, f, k, cont) ==
  /\ p.wsStatus = 14 /\ p.op = r.op /\ p.fin = r.fin /\ p.masked = r.masked
  /\ p.len = r.len - k /\ p.maskCtr = k % 256 /\ p.frameCont = cont
  /\ p.masked = 1 => \A i \in 1 .. 4 : p.mask[i] = f

\* The fields of the parser.
LEMMA FieldsAre ==
  ASSUME NEW p \in FrameStates
  PROVE  /\ p.wsStatus \in 0 .. 14 /\ p.op \in Ops /\ p.fin \in 0 .. 1 /\ p.masked \in 0 .. 1
         /\ p.len7 \in 0 .. 127 /\ p.len \in 0 .. MaxShort /\ p.len \in Nat /\ p.mask \in [1 .. 4 -> Nat]
         /\ p.maskCtr \in 0 .. 255 /\ p.frameCont \in 0 .. 1
<1>1. /\ p.wsStatus \in 0 .. 14 /\ p.op \in Ops /\ p.fin \in 0 .. 1 /\ p.masked \in 0 .. 1
      /\ p.len7 \in 0 .. 127 /\ p.len \in 0 .. MaxShort /\ p.mask \in [1 .. 4 -> Nat]
      /\ p.maskCtr \in 0 .. 255 /\ p.frameCont \in 0 .. 1
  BY DEF FrameStates
<1>2. \A n \in 0 .. MaxShort : n \in Nat
  OBVIOUS
<1> QED BY <1>1, <1>2

\* The changes of a state that are made together.
LEMMA LenSet ==
  ASSUME NEW p \in FrameStates, NEW l \in 0 .. MaxShort, NEW w \in 0 .. 14
  PROVE  [p EXCEPT !.len = l, !.wsStatus = w] \in FrameStates
BY DEF FrameStates

\* The fields when the seven bits of the length are set.
LEMMA Len8Set ==
  ASSUME NEW p \in FrameStates, NEW m \in 0 .. 1, NEW l \in 0 .. 127
  PROVE  [p EXCEPT !.masked = m, !.len7 = l] \in FrameStates
BY DEF FrameStates

\* The fields when a byte of the mask is set.
LEMMA MaskSet ==
  ASSUME NEW p \in FrameStates, NEW i \in 1 .. 4, NEW f \in Nat, NEW w \in 0 .. 14
  PROVE  [p EXCEPT !.mask[i] = f, !.wsStatus = w] \in FrameStates
BY DEF FrameStates

\* The fields when the first byte is read.
LEMMA FlagsSet ==
  ASSUME NEW p \in FrameStates, NEW o \in Ops, NEW x \in 0 .. 1
  PROVE  [p EXCEPT !.maskCtr = 0, !.frameCont = 0, !.op = o, !.fin = x, !.wsStatus = 1] \in FrameStates
<1> DEFINE q1 == [p EXCEPT !.maskCtr = 0]
           q2 == [q1 EXCEPT !.frameCont = 0]
           q3 == [q2 EXCEPT !.op = o]
           q4 == [q3 EXCEPT !.fin = x]
           q5 == [q4 EXCEPT !.wsStatus = 1]
<1>1. [p EXCEPT !.maskCtr = 0, !.frameCont = 0, !.op = o, !.fin = x, !.wsStatus = 1] = q5
  BY Zenon
<1>2. q1 \in FrameStates
  BY DEF FrameStates
<1> HIDE DEF q1
<1>3. q2 \in FrameStates
  BY <1>2 DEF FrameStates
<1> HIDE DEF q2
<1>4. q3 \in FrameStates
  BY <1>3 DEF FrameStates
<1> HIDE DEF q3
<1>5. q4 \in FrameStates
  BY <1>4 DEF FrameStates
<1> HIDE DEF q4
<1>6. q5 \in FrameStates
  BY <1>5 DEF FrameStates
<1> HIDE DEF q5
<1> QED BY <1>1, <1>6

\* The fields when payload is handled.
LEMMA PayloadSet ==
  ASSUME NEW p \in FrameStates, NEW l \in 0 .. MaxShort, NEW m \in 0 .. 255, NEW w \in 0 .. 14, NEW c \in 0 .. 1
  PROVE  [p EXCEPT !.len = l, !.maskCtr = m, !.wsStatus = w, !.frameCont = c] \in FrameStates
<1> DEFINE q1 == [p EXCEPT !.len = l]
           q2 == [q1 EXCEPT !.maskCtr = m]
           q3 == [q2 EXCEPT !.wsStatus = w]
           q4 == [q3 EXCEPT !.frameCont = c]
<1>1. [p EXCEPT !.len = l, !.maskCtr = m, !.wsStatus = w, !.frameCont = c] = q4
  BY Zenon
<1>2. q1 \in FrameStates
  BY DEF FrameStates
<1> HIDE DEF q1
<1>3. q2 \in FrameStates
  BY <1>2 DEF FrameStates
<1> HIDE DEF q2
<1>4. q3 \in FrameStates
  BY <1>3 DEF FrameStates
<1> HIDE DEF q3
<1>5. q4 \in FrameStates
  BY <1>4 DEF FrameStates
<1> HIDE DEF q4
<1> QED BY <1>1, <1>5

\* A byte of the head.
LEMMA HeaderByteIs ==
  ASSUME NEW p \in FrameStates, NEW r, GoodFrame(r), NEW f \in Nat, NEW j \in Nat, j < HeadLen(r), InHead(p, r, f, j)
  PROVE  LET q == HeaderByte(p, HeadByte(r, f, j + 1))
         IN  /\ q \in FrameStates
             /\ IF j + 1 < HeadLen(r) THEN InHead(q, r, f, j + 1) /\ q.wsStatus # 14 ELSE InPayload(q, r, f, 0, 0)
<1> DEFINE b == HeadByte(r, f, j + 1)
           q == HeaderByte(p, b)
<1>1. /\ r.op \in Ops /\ r.fin \in 0 .. 1 /\ r.masked \in 0 .. 1 /\ r.ext \in {0, 2, 8} /\ r.len \in 0 .. MaxShort
      /\ r.len \in Nat /\ Len8(r) \in 0 .. 127
  BY FramesAre
<1>2. /\ p.wsStatus \in 0 .. 14 /\ p.op \in Ops /\ p.fin \in 0 .. 1 /\ p.masked \in 0 .. 1
      /\ p.len7 \in 0 .. 127 /\ p.len \in 0 .. MaxShort /\ p.mask \in [1 .. 4 -> Nat]
      /\ p.maskCtr \in 0 .. 255 /\ p.frameCont \in 0 .. 1
  BY FieldsAre
<1>3. HeadLen(r) = 2 + r.ext + (IF r.masked = 1 THEN 4 ELSE 0)
  BY DEF HeadLen
<1>4. CASE j = 0
  <2>1. b = <<"flags", r.op, r.fin>>
    BY <1>4 DEF HeadByte
  <2>6. b[2] = r.op /\ b[3] = r.fin /\ p.wsStatus = 0
    BY <1>4, <2>1 DEF InHead
  <2>2. q = [p EXCEPT !.maskCtr = 0, !.frameCont = 0, !.op = r.op, !.fin = r.fin, !.wsStatus = 1]
    <3> HIDE DEF b
    <3> QED BY <2>6, Zenon DEF HeaderByte, ST_FLAGS, ST_LEN0
  <2> HIDE DEF b, q
  <2>3. q \in FrameStates
    BY <1>1, <2>2, FlagsSet
  <2>4. q.maskCtr = 0 /\ q.frameCont = 0 /\ q.op = r.op /\ q.fin = r.fin /\ q.wsStatus = 1
    BY <2>2 DEF FrameStates
  <2>5. InHead(q, r, f, 1) /\ 1 < HeadLen(r)
    BY <1>1, <1>3, <2>4 DEF InHead
  <2> QED BY <1>4, <2>3, <2>4, <2>5 DEF b, q
<1>5. CASE j = 1
  <2>1. b = <<"len8", r.masked, Len8(r)>>
    BY <1>5 DEF HeadByte
  <2>2. p.wsStatus = 1 /\ p.op = r.op /\ p.fin = r.fin /\ p.maskCtr = 0 /\ p.frameCont = 0
    BY <1>5 DEF InHead
  <2>5. b[2] = r.masked /\ b[3] = Len8(r)
    BY <2>1
  <2> DEFINE p1 == [p EXCEPT !.masked = r.masked, !.len7 = Len8(r)]
  <2>6. /\ p1 \in FrameStates /\ p1.masked = r.masked /\ p1.len7 = Len8(r)
        /\ p1.op = r.op /\ p1.fin = r.fin /\ p1.maskCtr = 0 /\ p1.frameCont = 0
    BY <1>1, <2>2 DEF FrameStates
  <2> HIDE DEF b, p1
  <2>7. q = IF Len8(r) >= 126 THEN [p1 EXCEPT !.len = 0, !.wsStatus = 2]
            ELSE [p1 EXCEPT !.len = Len8(r), !.wsStatus = AfterLen(p1)]
    <3>1. ~ (p.wsStatus = 0)
      BY <2>2
    <3> QED BY <2>2, <2>5, <3>1, Zenon DEF HeaderByte, ST_FLAGS, ST_LEN0, ST_LEN1, p1
  <2> HIDE DEF q
  <2>3. CASE r.ext = 0
    <3>1. Len8(r) = r.len /\ r.len <= 125
      BY <2>3 DEF Len8, GoodFrame
    <3> DEFINE st == IF r.masked = 1 THEN 10 ELSE 14
    <3>2. st = AfterLen(p1) /\ st \in 0 .. 14 /\ ~ (Len8(r) >= 126)
      BY <1>1, <2>6, <3>1 DEF AfterLen, ST_MASK1, ST_PAYLOAD
    <3>3. q = [p1 EXCEPT !.len = r.len, !.wsStatus = st]
      BY <2>7, <3>1, <3>2, Zenon
    <3> HIDE DEF st
    <3>4. q \in FrameStates
      BY <1>1, <2>6, <3>2, <3>3, LenSet
    <3>5. /\ q.masked = r.masked /\ q.len7 = r.len /\ q.len = r.len /\ q.wsStatus = st
          /\ q.op = r.op /\ q.fin = r.fin /\ q.maskCtr = 0 /\ q.frameCont = 0
      BY <1>1, <2>6, <3>1, <3>2, <3>3 DEF FrameStates
    <3> USE DEF st
    <3>6. r.masked = 1 => InHead(q, r, f, 2) /\ 2 < HeadLen(r)
      BY <1>1, <1>3, <2>3, <3>1, <3>5 DEF InHead
    <3>7. r.masked = 0 => InPayload(q, r, f, 0, 0) /\ ~ (2 < HeadLen(r))
      <4>1. r.len = r.len - 0 /\ 0 % 256 = 0
        BY <1>1
      <4> QED BY <1>1, <1>3, <2>3, <3>5, <4>1 DEF InPayload
    <3> QED BY <1>1, <1>5, <3>4, <3>5, <3>6, <3>7 DEF q, b
  <2>4. CASE r.ext # 0
    <3>1. Len8(r) \in {126, 127} /\ Len8(r) >= 126
      BY <2>4 DEF Len8
    <3>2. q = [p1 EXCEPT !.len = 0, !.wsStatus = 2]
      BY <2>7, <3>1
    <3>3. 0 \in 0 .. MaxShort
      BY SMT DEF MaxShort
    <3>8. 2 \in 0 .. 14
      OBVIOUS
    <3>4. q \in FrameStates
      BY <2>6, <3>2, <3>3, <3>8, LenSet
    <3>5. /\ q.masked = r.masked /\ q.len7 = Len8(r) /\ q.len = 0 /\ q.wsStatus = 2
          /\ q.op = r.op /\ q.fin = r.fin /\ q.maskCtr = 0 /\ q.frameCont = 0
      BY <2>6, <3>2 DEF FrameStates
    <3>6. r.ext \in {2, 8}
      BY <1>1, <2>4
    <3>7. InHead(q, r, f, 2) /\ 2 < HeadLen(r)
      BY <1>1, <1>3, <3>5, <3>6 DEF InHead
    <3> QED BY <1>5, <3>4, <3>5, <3>7 DEF q, b
  <2> QED BY <2>3, <2>4
<1>6. CASE j >= 2 /\ j < 2 + r.ext
  <2>1. b = <<"ext", ExtByte(r, j - 1)>>
    <3>1. ~ (j + 1 = 1) /\ ~ (j + 1 = 2) /\ j + 1 <= 2 + r.ext /\ (j + 1) - 2 = j - 1
      BY <1>1, <1>6
    <3> QED BY <3>1 DEF HeadByte
  <2>2. /\ p.wsStatus = j /\ p.len = (IF j = 1 + r.ext THEN r.len \div 256 ELSE 0) /\ p.masked = r.masked
        /\ p.len7 = Len8(r) /\ p.op = r.op /\ p.fin = r.fin /\ p.maskCtr = 0 /\ p.frameCont = 0
    BY <1>6 DEF InHead
  <2>3. r.ext \in {2, 8} /\ j \in 2 .. 9
    BY <1>1, <1>6
  <2>4. PICK x, y : x = r.len \div 256 /\ y = r.len % 256
    OBVIOUS
  <2>5. x \in 0 .. 255 /\ y \in 0 .. 255
    BY <2>4, FramesAre
  <2>6. r.len = 256 * x + y
    <3>1. x \in Int /\ y \in Int
      BY <2>5
    <3> QED BY <1>1, <2>4, <3>1, BytesOf
  <2>7. q = [p EXCEPT !.len = 256 * p.len + ExtByte(r, j - 1),
                      !.wsStatus = IF (p.len7 = 126 /\ j = 3) \/ j = 9 THEN AfterLen(p) ELSE j + 1]
    <3>1. b[2] = ExtByte(r, j - 1)
      BY <2>1
    <3>2. p.wsStatus = j /\ ~ (p.wsStatus = 0) /\ ~ (p.wsStatus = 1) /\ p.wsStatus <= 9
      BY <2>2, <2>3
    <3> HIDE DEF b
    <3> QED BY <3>1, <3>2, Zenon DEF HeaderByte, ST_FLAGS, ST_LEN0, ST_LEN2, ST_LEN8
  <2> HIDE DEF b, q
  <2>8. (p.len7 = 126 /\ j = 3) \/ j = 9 <=> j = 1 + r.ext
    <3>1. Len8(r) = IF r.ext = 2 THEN 126 ELSE 127
      BY <2>3 DEF Len8
    <3> QED BY <1>6, <2>2, <2>3, <3>1
  <2>9. CASE j = 1 + r.ext
    <3>1. p.len = x /\ ExtByte(r, j - 1) = y
      BY <2>2, <2>3, <2>4, <2>9 DEF ExtByte
    <3> DEFINE st == IF r.masked = 1 THEN 10 ELSE 14
    <3>2. AfterLen(p) = st
      BY <2>2 DEF AfterLen, ST_MASK1, ST_PAYLOAD
    <3>3. q = [p EXCEPT !.len = r.len, !.wsStatus = st]
      BY <2>6, <2>7, <2>8, <2>9, <3>1, <3>2
    <3>10. st \in 0 .. 14
      OBVIOUS
    <3> HIDE DEF st
    <3>4. q \in FrameStates
      BY <1>1, <3>3, <3>10, LenSet
    <3>5. /\ q.masked = r.masked /\ q.len7 = Len8(r) /\ q.len = r.len /\ q.wsStatus = st
          /\ q.op = r.op /\ q.fin = r.fin /\ q.maskCtr = 0 /\ q.frameCont = 0
      BY <2>2, <3>3 DEF FrameStates
    <3> USE DEF st
    <3>6. PICK h : h = j + 1
      OBVIOUS
    <3>7. h \in Nat /\ h = 2 + r.ext /\ h >= 2
      BY <1>1, <2>9, <3>6
    <3>8. r.masked = 1 => InHead(q, r, f, h) /\ h < HeadLen(r)
      <4>1. /\ ~ (h = 0) /\ ~ (h = 1) /\ ~ (h < 2 + r.ext) /\ 8 + h - r.ext = 10
            /\ \A i \in 1 .. 4 : ~ (i <= h - 2 - r.ext)
        BY <1>1, <3>7
      <4>2. r.masked = 1 => h < HeadLen(r)
        BY <1>1, <1>3, <3>7
      <4> QED BY <3>5, <4>1, <4>2 DEF InHead
    <3>9. r.masked = 0 => InPayload(q, r, f, 0, 0) /\ ~ (h < HeadLen(r))
      <4>1. r.len = r.len - 0 /\ 0 % 256 = 0
        BY <1>1
      <4> QED BY <1>1, <1>3, <3>5, <3>7, <4>1 DEF InPayload
    <3> QED BY <1>1, <3>4, <3>5, <3>6, <3>8, <3>9 DEF q, b
  <2>10. CASE j # 1 + r.ext
    <3>1. p.len = 0
      BY <2>2, <2>10
    <3>2. ExtByte(r, j - 1) = IF j - 1 = r.ext - 1 THEN x ELSE 0
      <4>1. j - 1 # r.ext
        BY <1>1, <2>10
      <4> QED BY <2>4, <4>1 DEF ExtByte
    <3> DEFINE l == IF j = r.ext THEN x ELSE 0
    <3>3. 256 * p.len + ExtByte(r, j - 1) = l
      BY <2>3, <2>5, <3>1, <3>2
    <3>4. q = [p EXCEPT !.len = l, !.wsStatus = j + 1]
      BY <2>7, <2>8, <2>10, <3>3
    <3>5. l \in 0 .. 255
      BY <2>5
    <3>6. l \in 0 .. MaxShort
      BY <3>5, SMT DEF MaxShort
    <3>7. j + 1 \in 0 .. 14
      BY <2>3
    <3> HIDE DEF l
    <3>8. q \in FrameStates
      BY <3>4, <3>6, <3>7, LenSet
    <3>9. /\ q.masked = r.masked /\ q.len7 = Len8(r) /\ q.len = l /\ q.wsStatus = j + 1
          /\ q.op = r.op /\ q.fin = r.fin /\ q.maskCtr = 0 /\ q.frameCont = 0
      BY <2>2, <3>4 DEF FrameStates
    <3> USE DEF l
    <3>10. j + 1 < 2 + r.ext /\ j + 1 >= 2 /\ j + 1 # 14 /\ (j + 1 = 1 + r.ext <=> j = r.ext)
           /\ ~ (j + 1 = 0) /\ ~ (j + 1 = 1) /\ j + 1 >= 1 /\ ~ (j + 1 >= 2 + r.ext)
      BY <1>6, <2>3, <2>10
    <3>11. InHead(q, r, f, j + 1)
      BY <2>4, <3>9, <3>10 DEF InHead
    <3>12. j + 1 < HeadLen(r)
      BY <1>1, <1>3, <3>10
    <3> QED BY <3>8, <3>9, <3>10, <3>11, <3>12 DEF q, b
  <2> QED BY <2>9, <2>10
<1>7. CASE j >= 2 /\ j >= 2 + r.ext
  <2>1. b = <<"mask", f>>
    <3>1. ~ (j + 1 = 1) /\ ~ (j + 1 = 2) /\ ~ (j + 1 <= 2 + r.ext)
      BY <1>1, <1>7
    <3> QED BY <3>1 DEF HeadByte
  <2>2. /\ p.wsStatus = 8 + j - r.ext /\ p.len = r.len /\ p.masked = r.masked
        /\ p.len7 = Len8(r) /\ p.op = r.op /\ p.fin = r.fin /\ p.maskCtr = 0 /\ p.frameCont = 0
        /\ \A i \in 1 .. 4 : i <= j - 2 - r.ext => p.mask[i] = f
    BY <1>7 DEF InHead
  <2>3. r.masked = 1 /\ HeadLen(r) = 6 + r.ext
    BY <1>1, <1>3, <1>7
  <2>4. PICK i : i = j - 1 - r.ext
    OBVIOUS
  <2>5. i \in 1 .. 4 /\ p.wsStatus = 9 + i /\ p.wsStatus - 10 + 1 = i /\ j = i + 1 + r.ext
    BY <1>1, <1>7, <2>2, <2>3, <2>4
  <2>6. q = [p EXCEPT !.mask[i] = f, !.wsStatus = 10 + i]
    <3>1. b[2] = f
      BY <2>1
    <3>2. ~ (p.wsStatus = 0) /\ ~ (p.wsStatus = 1) /\ ~ (p.wsStatus <= 9) /\ p.wsStatus + 1 = 10 + i
          /\ p.wsStatus - 10 + 1 = i
      BY <2>5
    <3> HIDE DEF b
    <3> QED BY <3>1, <3>2, Zenon DEF HeaderByte, ST_FLAGS, ST_LEN0, ST_LEN8, ST_MASK1
  <2>12. 10 + i \in 0 .. 14
    BY <2>5
  <2> HIDE DEF b, q
  <2>7. q \in FrameStates
    BY <2>5, <2>6, <2>12, MaskSet
  <2>8. /\ q.masked = r.masked /\ q.len7 = Len8(r) /\ q.len = r.len /\ q.wsStatus = 10 + i
        /\ q.op = r.op /\ q.fin = r.fin /\ q.maskCtr = 0 /\ q.frameCont = 0
        /\ q.mask = [p.mask EXCEPT ![i] = f]
    BY <2>2, <2>5, <2>6 DEF FrameStates
  <2>9. \A g \in 1 .. 4 : g <= i => q.mask[g] = f
    <3>1. \A g \in 1 .. 4 : g <= i => g = i \/ g <= j - 2 - r.ext
      BY <1>1, <2>5
    <3> QED BY <1>2, <2>2, <2>8, <3>1
  <2>10. CASE i = 4
    <3>1. InPayload(q, r, f, 0, 0)
      <4>1. r.len = r.len - 0 /\ 0 % 256 = 0
        BY <1>1
      <4> QED BY <2>8, <2>9, <2>10, <4>1 DEF InPayload
    <3>2. ~ (j + 1 < HeadLen(r))
      BY <1>1, <2>3, <2>5, <2>10
    <3> QED BY <2>7, <3>1, <3>2 DEF q, b
  <2>11. CASE i # 4
    <3>1. j + 1 < HeadLen(r) /\ 10 + i # 14 /\ 10 + i = 8 + (j + 1) - r.ext /\ (j + 1) - 2 - r.ext = i
          /\ ~ (j + 1 = 0) /\ ~ (j + 1 = 1) /\ j + 1 >= 1 /\ ~ (j + 1 < 2 + r.ext)
      BY <1>1, <2>3, <2>5, <2>11
    <3>2. InHead(q, r, f, j + 1)
      BY <2>8, <2>9, <3>1 DEF InHead
    <3> QED BY <2>7, <2>8, <3>1, <3>2 DEF q, b
  <2> QED BY <2>10, <2>11
<1>8. j = 0 \/ j = 1 \/ (j >= 2 /\ j < 2 + r.ext) \/ (j >= 2 /\ j >= 2 + r.ext)
  BY <1>1
<1> QED BY <1>4, <1>5, <1>6, <1>7, <1>8

\* The places of payload bytes, as the parser restores them.
Restored(u, r, f, k, n) ==
  /\ u \in Seq(Nat \X Nat) /\ Len(u) = n
  /\ \A i \in 1 .. n : u[i] = <<f, k + i>> \/ (r.masked = 0 /\ u[i] = <<f, 0>>)

\* The byte of the mask that belongs to a byte of the payload.
LEMMA MaskPlace ==
  ASSUME NEW k \in Nat, NEW i \in Nat, i >= 1
  PROVE  ((k % 256) + i - 1) % 4 = ((k + i) - 1) % 4 /\ ((k + i) - 1) % 4 \in 0 .. 3
OBVIOUS

\* Unmasking gives the payload back, wherever it is cut.
LEMMA UnmaskedIs ==
  ASSUME NEW ws \in GoodStreams, NEW p \in FrameStates, NEW f \in 1 .. Len(ws), NEW k \in Nat, NEW n \in Nat,
         k + n <= ws[f].shown, NEW c, InPayload(p, ws[f], f, k, c), NEW at, at = FrameStart(ws)[f] + HeadLen(ws[f]) + k
  PROVE  Restored(Unmasked(ws, p, at, n), ws[f], f, k, n)
<1> DEFINE r == ws[f]
           h == FrameStart(ws)[f] + HeadLen(r)
           m(i) == (p.maskCtr + i - 1) % 4
           right(i) == LET w == Wire(ws)[at + i]
                       IN IF ws[w[2]].masked = 1 THEN p.mask[m(i) + 1] = w[2] /\ m(i) = (w[3] - 1) % 4
                          ELSE p.mask[m(i) + 1] = 0
           u == Unmasked(ws, p, at, n)
<1>1. f \in Nat /\ GoodFrame(r)
  BY DEF GoodStreams
<1>2. h \in Nat /\ r.shown \in Nat /\ r.masked \in 0 .. 1
  <2>1. HeadLen(r) \in Nat /\ r.shown \in Nat /\ r.masked \in 0 .. 1
    BY <1>1, FramesAre
  <2>2. FrameStart(ws)[f] \in Nat
    <3>1. FrameStart(ws) \in [1 .. Len(ws) + 1 -> Nat] /\ Len(ws) \in Nat
      BY StartIs DEF WirePlaces, GoodStreams
    <3> QED BY <3>1
  <2> QED BY <2>1, <2>2
<1>3. u = [i \in 1 .. n |-> <<Wire(ws)[at + i][2], IF right(i) THEN Wire(ws)[at + i][3] ELSE 0>>]
  BY DEF Unmasked
<1>4. \A i \in 1 .. n : Wire(ws)[at + i] = <<"data", f, k + i>>
  <2>1. \A x \in 1 .. r.shown : Wire(ws)[h + x] = <<"data", f, x>>
    BY StartIs DEF WirePlaces
  <2>2. \A i \in 1 .. n : k + i \in 1 .. r.shown /\ at + i = h + (k + i)
    BY <1>2
  <2> QED BY <2>1, <2>2
<1>5. p.maskCtr = k % 256 /\ p.masked = r.masked /\ (p.masked = 1 => \A i \in 1 .. 4 : p.mask[i] = f)
  BY DEF InPayload
<1> HIDE DEF u, r, m
<1>6. ASSUME NEW i \in 1 .. n
      PROVE  /\ u[i] = <<f, k + i>> \/ (r.masked = 0 /\ u[i] = <<f, 0>>)
             /\ u[i] \in Nat \X Nat
  <2> DEFINE b == Wire(ws)[at + i]
             t == right(i)
  <2>1. b = <<"data", f, k + i>> /\ b[2] = f /\ b[3] = k + i
    BY <1>4
  <2>2. u[i] = <<b[2], IF t THEN b[3] ELSE 0>>
    BY <1>3
  <2>3. ASSUME r.masked = 1
        PROVE  t
    <3>1. m(i) = ((k + i) - 1) % 4 /\ m(i) \in 0 .. 3
      BY <1>5, MaskPlace DEF m
    <3>2. p.mask[m(i) + 1] = f
      <4>1. m(i) + 1 \in 1 .. 4
        BY <3>1
      <4> QED BY <1>5, <2>3, <4>1
    <3>3. ws[b[2]].masked = 1
      BY <2>1, <2>3 DEF r
    <3> QED BY <2>1, <3>1, <3>2, <3>3
  <2> HIDE DEF b, t
  <2>4. CASE t
    BY <1>1, <2>1, <2>2, <2>4
  <2>5. CASE ~ t
    <3>1. r.masked = 0
      BY <1>2, <2>3, <2>5
    <3> QED BY <1>1, <2>1, <2>2, <2>5, <3>1
  <2> QED BY <2>4, <2>5
<1>7. u \in Seq(Nat \X Nat) /\ Len(u) = n
  <2>1. u \in [1 .. n -> Nat \X Nat]
    <3>1. DOMAIN u = 1 .. n /\ u = [i \in 1 .. n |-> u[i]]
      BY <1>3
    <3> QED BY <1>6, <3>1
  <2> QED BY <2>1
<1> QED BY <1>6, <1>7 DEF Restored, u, r

\* The events of payload bytes k + 1 to k + n.
More(r, f, k, n) == IF r.op = "other" THEN <<>> ELSE [i \in 1 .. n |-> PayloadEvent(r, f, k + i)]

\* They continue the events of the first k bytes.
LEMMA MoreIs ==
  ASSUME NEW r, GoodFrame(r), NEW f \in Nat, NEW k \in Nat, NEW n \in Nat
  PROVE  /\ More(r, f, k, n) \in Seq(EventSet)
         /\ PayloadEvents(r, f, k) \o More(r, f, k, n) = PayloadEvents(r, f, k + n)
         /\ PayloadEvents(r, f, n) = More(r, f, 0, n)
<1>1. CASE r.op = "other"
  <2>1. More(r, f, k, n) = <<>> /\ PayloadEvents(r, f, k) = <<>> /\ PayloadEvents(r, f, k + n) = <<>>
        /\ PayloadEvents(r, f, n) = <<>> /\ More(r, f, 0, n) = <<>>
    BY <1>1 DEF More, PayloadEvents
  <2>2. <<>> \in Seq(EventSet) /\ <<>> \o <<>> = <<>>
    OBVIOUS
  <2> QED BY <2>1, <2>2
<1>2. CASE r.op # "other"
  <2>1. \A i \in 1 .. n : PayloadEvent(r, f, k + i) \in EventSet
    <3>1. \A i \in 1 .. n : k + i \in Nat
      OBVIOUS
    <3> QED BY <3>1, PayloadEventIs
  <2> DEFINE x == More(r, f, k, n)
             y == PayloadEvents(r, f, k)
             z == PayloadEvents(r, f, k + n)
  <2>2. x \in Seq(EventSet) /\ Len(x) = n /\ \A i \in 1 .. n : x[i] = PayloadEvent(r, f, k + i)
    BY <1>2, <2>1 DEF More
  <2>3. y \in Seq(EventSet) /\ Len(y) = k /\ \A i \in 1 .. k : y[i] = PayloadEvent(r, f, i)
    BY <1>2, PayloadEventsAre
  <2>4. z \in Seq(EventSet) /\ Len(z) = k + n /\ \A i \in 1 .. k + n : z[i] = PayloadEvent(r, f, i)
    <3>1. k + n \in Nat
      OBVIOUS
    <3>2. PICK m \in Nat : m = k + n
      BY <3>1
    <3> QED BY <1>2, <3>2, PayloadEventsAre
  <2> HIDE DEF x, y, z
  <2>5. PICK w : w = y \o x
    OBVIOUS
  <2>6. w \in Seq(EventSet) /\ Len(w) = k + n /\ \A i \in 1 .. k + n : w[i] = IF i <= k THEN y[i] ELSE x[i - k]
    BY <2>2, <2>3, <2>5, ConcatProperties
  <2>7. ASSUME NEW i \in 1 .. k + n
        PROVE  w[i] = z[i]
    <3>1. CASE i <= k
      BY <2>3, <2>4, <2>6, <3>1
    <3>2. CASE ~ (i <= k)
      <4>1. i - k \in 1 .. n /\ k + (i - k) = i
        BY <3>2
      <4> QED BY <2>2, <2>4, <2>6, <3>2, <4>1
    <3> QED BY <3>1, <3>2
  <2>8. w = z
    BY <2>4, <2>6, <2>7, SeqEqual
  <2>9. PayloadEvents(r, f, n) = More(r, f, 0, n)
    <3>1. \A i \in 1 .. n : 0 + i = i
      OBVIOUS
    <3> QED BY <1>2, <3>1 DEF More, PayloadEvents
  <2> QED BY <2>2, <2>5, <2>8, <2>9 DEF x, y, z
<1> QED BY <1>1, <1>2

\* A payload leads to what is owed for it, and ends the reading as its frame does.
LEMMA HandledIs ==
  ASSUME NEW ws \in GoodStreams, NEW p \in FrameStates, NEW f \in 1 .. Len(ws), NEW k \in Nat, NEW n \in Nat,
         NEW c \in 0 .. 1, InPayload(p, ws[f], f, k, c), c = 0 => k = 0, c = 1 => ~ Refused(ws[f]),
         NEW u, Restored(u, ws[f], f, k, n)
  PROVE  /\ Handled(p, u) \in Seq(EventSet)
         /\ Ends(p) <=> Refused(ws[f])
         /\ Alike(ws, Handled(p, u),
                  IF Refused(ws[f]) THEN << RefusedBy(ws[f]) >>
                  ELSE (IF c = 0 THEN First1(ws[f]) ELSE <<>>) \o More(ws[f], f, k, n))
<1> DEFINE r == ws[f]
           s == Handled(p, u)
<1>1. f \in Nat /\ GoodFrame(r)
  BY DEF GoodStreams
<1>2. /\ r.op \in {"continue", "text", "binary", "ping", "close", "other"} /\ r.fin \in 0 .. 1 /\ r.masked \in 0 .. 1 /\ r.len \in Nat
  BY <1>1, FramesAre DEF Ops, DataOps
<1>3. /\ p.op = r.op /\ p.fin = r.fin /\ p.masked = r.masked /\ p.len = r.len - k /\ p.frameCont = c
  BY DEF InPayload
<1>4. u \in Seq(Nat \X Nat) /\ Len(u) = n /\ DOMAIN u = 1 .. n
      /\ \A i \in 1 .. n : u[i] = <<f, k + i>> \/ (r.masked = 0 /\ u[i] = <<f, 0>>)
  BY DEF Restored
<1>5. More(r, f, k, n) \in Seq(EventSet) /\ First1(r) \in Seq(EventSet)
  BY <1>1, MoreIs, FirstIs
<1> HIDE DEF r
<1>6. CASE Refused(r)
  <2>1. c = 0 /\ k = 0 /\ p.len = r.len
    BY <1>2, <1>3, <1>6 DEF r
  <2>2. Ends(p)
    BY <1>3, <1>6, <2>1 DEF Ends, Refused
  <2>3. s = << <<"close", "1002">> >> \/ (r.op = "close" /\ (s = << <<"close", "any">> >> \/ s = << <<"close", "as asked">> >>))
    <3>1. CASE r.op = "close"
      <4>1. s = <<<<"close", IF Len(u) >= 2 THEN "as asked" ELSE "any">>>>
        BY <1>3, <3>1 DEF Handled, DataOps
      <4> QED BY <3>1, <4>1
    <3>2. CASE r.op = "ping" /\ r.len > 125
      BY <1>3, <2>1, <3>2 DEF Handled, DataOps
    <3>3. CASE r.op \in DataOps /\ r.masked = 0
      BY <1>3, <3>3 DEF Handled, DataOps
    <3> QED BY <1>6, <3>1, <3>2, <3>3 DEF Refused
  <2>4. r.op # "close" => RefusedBy(r) = <<"close", "1002">>
    BY DEF RefusedBy
  <2>5. r.op = "close" => RefusedBy(r) = <<"close", "any">>
    BY DEF RefusedBy
  <2>6. r.op = "close" => s = << <<"close", "any">> >> \/ s = << <<"close", "as asked">> >>
    <3>1. r.op = "close" => s = <<<<"close", IF Len(u) >= 2 THEN "as asked" ELSE "any">>>>
      BY <1>3 DEF Handled, DataOps
    <3> QED BY <3>1
  <2>7. PICK e \in EventSet : s = <<e>> /\ Plain(ws, e) = Plain(ws, RefusedBy(r))
    <3>1. <<"close", "1002">> \in EventSet /\ <<"close", "any">> \in EventSet /\ <<"close", "as asked">> \in EventSet
      BY DEF EventSet
    <3>2. Plain(ws, <<"close", "any">>) = <<"close", "any">> /\ Plain(ws, <<"close", "as asked">>) = <<"close", "any">>
      BY DEF Plain
    <3> QED BY <2>3, <2>4, <2>5, <2>6, <3>1, <3>2
  <2>8. s \in Seq(EventSet) /\ Len(s) = 1 /\ s[1] = e
    BY <2>7
  <2>9. Alike(ws, s, << RefusedBy(r) >>)
    BY <2>7, <2>8 DEF Alike
  <2> QED BY <1>6, <2>2, <2>8, <2>9 DEF r
<1>7. CASE ~ Refused(r)
  <2>1. ~ Ends(p)
    <3>1. p.len <= r.len
      BY <1>2, <1>3
    <3>2. ~ (p.op = "close")
      BY <1>3, <1>7 DEF Refused
    <3>3. ~ (p.op = "ping" /\ p.len > 125)
      BY <1>2, <1>3, <1>7, <3>1 DEF Refused
    <3>4. ~ (p.op \in DataOps /\ p.masked = 0)
      BY <1>3, <1>7 DEF Refused
    <3> QED BY <3>2, <3>3, <3>4 DEF Ends
  <2>2. CASE r.op = "ping"
    <3> DEFINE x == [i \in 1 .. n |-> <<"echo", u[i]>>]
               a == IF c = 1 THEN <<>> ELSE <<<<"pong", p.len>>>>
               b == IF c = 0 THEN First1(r) ELSE <<>>
    <3>1. s = a \o x
      <4>1. ~ (p.len > 125)
        BY <1>2, <1>3, <1>7, <2>2 DEF Refused
      <4>2. p.op = "ping" /\ DOMAIN u = 1 .. n
        BY <1>3, <1>4, <2>2
      <4>3. (IF p.frameCont = 1 THEN <<>> ELSE <<<<"pong", p.len>>>>) = a
        BY <1>3
      <4> QED BY <4>1, <4>2, <4>3 DEF Handled, DataOps
    <3>2. a = b
      <4>1. c = 0 => p.len = r.len
        BY <1>2, <1>3
      <4>2. c = 0 \/ c = 1
        OBVIOUS
      <4> QED BY <2>2, <4>1, <4>2 DEF First1
    <3>3. b \in Seq(EventSet)
      <4>1. <<>> \in Seq(EventSet)
        OBVIOUS
      <4> QED BY <1>5, <4>1
    <3> HIDE DEF a, b
    <3>4. ASSUME NEW i \in 1 .. n
          PROVE  <<"echo", u[i]>> \in EventSet /\ Plain(ws, <<"echo", u[i]>>) = Plain(ws, PayloadEvent(r, f, k + i))
      <4>1. <<"echo", u[i]>> \in EventSet
        <5>1. u[i] \in Nat \X Nat
          BY <1>4
        <5> QED BY <5>1 DEF EventSet
      <4>2. PayloadEvent(r, f, k + i) = <<"echo", <<f, k + i>>>>
        BY <2>2 DEF PayloadEvent
      <4>3. CASE u[i] = <<f, k + i>>
        BY <4>1, <4>2, <4>3
      <4>4. CASE r.masked = 0 /\ u[i] = <<f, 0>>
        <5>1. Plain(ws, <<"echo", <<f, 0>>>>) = <<"echo", <<f, 0>>>>
          BY <4>4 DEF Plain, r
        <5>2. Plain(ws, <<"echo", <<f, k + i>>>>) = <<"echo", <<f, 0>>>>
          BY <4>4 DEF Plain, r
        <5> QED BY <4>1, <4>2, <4>4, <5>1, <5>2
      <4> QED BY <1>4, <4>3, <4>4
    <3>5. x \in Seq(EventSet) /\ Len(x) = n
      BY <3>4
    <3>6. Len(More(r, f, k, n)) = n /\ \A i \in 1 .. n : More(r, f, k, n)[i] = PayloadEvent(r, f, k + i)
      BY <2>2 DEF More
    <3>7. Alike(ws, x, More(r, f, k, n))
      BY <3>4, <3>5, <3>6 DEF Alike
    <3>8. Alike(ws, b, b)
      BY DEF Alike
    <3> HIDE DEF x
    <3>9. Alike(ws, b \o x, b \o More(r, f, k, n)) /\ b \o x \in Seq(EventSet)
      BY <1>5, <3>3, <3>5, <3>7, <3>8, AlikeJoined
    <3> QED BY <1>7, <2>1, <3>1, <3>2, <3>9 DEF b, r
  <2>3. CASE r.op \in DataOps
    <3> DEFINE x == [i \in 1 .. n |-> <<"data", u[i], 1 - p.fin, IF p.op = "binary" THEN 1 ELSE 0>>]
    <3>1. r.masked = 1
      BY <1>2, <1>7, <2>3 DEF Refused
    <3>2. s = x
      <4>1. p.op \in DataOps /\ p.op # "ping" /\ p.masked # 0
        BY <1>3, <2>3, <3>1 DEF DataOps
      <4>2. Handled(p, u) = Given(p, u)
        BY <4>1 DEF Handled, DataOps
      <4> QED BY <1>4, <4>2 DEF Given
    <3>3. \A i \in 1 .. n : u[i] = <<f, k + i>>
      BY <1>4, <3>1
    <3>4. x = More(r, f, k, n)
      <4>1. r.op # "ping" /\ r.op # "other"
        BY <2>3 DEF DataOps
      <4> QED BY <1>3, <3>3, <4>1 DEF More, PayloadEvent
    <3>5. First1(r) = <<>>
      BY <2>3 DEF First1, DataOps
    <3>6. <<>> \o More(r, f, k, n) = More(r, f, k, n)
      BY <1>5, ConcatEmptySeq
    <3>7. Alike(ws, x, More(r, f, k, n))
      BY <3>4 DEF Alike
    <3> HIDE DEF x
    <3> QED BY <1>5, <1>7, <2>1, <3>2, <3>4, <3>5, <3>6, <3>7 DEF r
  <2>4. CASE r.op = "other"
    <3>1. s = <<>>
      BY <1>3, <2>4 DEF Handled, DataOps
    <3>2. First1(r) = <<>> /\ More(r, f, k, n) = <<>>
      BY <2>4 DEF First1, More
    <3>3. <<>> \o <<>> = <<>> /\ <<>> \in Seq(EventSet) /\ Alike(ws, <<>>, <<>>)
      BY DEF Alike
    <3> QED BY <1>7, <2>1, <3>1, <3>2, <3>3 DEF r
  <2> QED BY <1>2, <1>7, <2>2, <2>3, <2>4 DEF Refused, DataOps
<1> QED BY <1>6, <1>7

\* Where the parser is in the stream: in the head of a frame, in its payload, or
\* behind the last frame.
NoneClosed(ws, f) == \A g \in 1 .. f - 1 : ~ Closes(ws, g)

\* In the head of frame f, with all handled that is owed of the frames before.
WsHeadAt(ws, at, p, out, f) ==
  /\ f \in 1 .. Len(ws)
  /\ \E j \in Nat : /\ j < HeadLen(ws[f]) /\ at = FrameStart(ws)[f] + j
                    /\ InHead(p, ws[f], f, j) /\ p.wsStatus # 14
  /\ Alike(ws, out, OwedBefore(ws)[f - 1])

\* In the payload of frame f, with all handled that is owed up to here.
WsPayloadAt(ws, at, p, out, f) ==
  /\ f \in 1 .. Len(ws) /\ ~ Refused(ws[f])
  /\ \E k \in Nat : /\ k <= ws[f].shown /\ at = FrameStart(ws)[f] + HeadLen(ws[f]) + k
                    /\ InPayload(p, ws[f], f, k, 1)
                    /\ Alike(ws, out, OwedBefore(ws)[f - 1] \o Events(ws, f, k))

\* Behind the last frame.
WsAtEnd(ws, at, out, f) ==
  f = Len(ws) + 1 /\ at = Len(Wire(ws)) /\ Alike(ws, out, OwedBefore(ws)[Len(ws)])

\* One of these, and no frame before has closed the websocket.
WsReading(ws, at, p, out) ==
  \E f \in 1 .. Len(ws) + 1 :
    /\ NoneClosed(ws, f)
    /\ WsHeadAt(ws, at, p, out, f) \/ WsPayloadAt(ws, at, p, out, f) \/ WsAtEnd(ws, at, out, f)

\* The numbers of a frame and its place.
LEMMA PlaceIs ==
  ASSUME NEW ws \in GoodStreams, NEW f \in 1 .. Len(ws)
  PROVE  /\ FrameStart(ws)[f] \in Nat /\ HeadLen(ws[f]) \in Nat /\ HeadLen(ws[f]) >= 2
         /\ ws[f].shown \in Nat /\ ws[f].len \in Nat /\ ws[f].shown <= ws[f].len
         /\ FrameStart(ws)[f + 1] = FrameStart(ws)[f] + HeadLen(ws[f]) + ws[f].shown
         /\ FrameStart(ws)[f + 1] <= Len(Wire(ws)) /\ Len(Wire(ws)) \in Nat
         /\ ws[f].shown # ws[f].len => FrameStart(ws)[f + 1] = Len(Wire(ws))
         /\ f = Len(ws) => FrameStart(ws)[f + 1] = Len(Wire(ws))
<1>1. Len(ws) \in Nat /\ GoodFrame(ws[f]) /\ f \in Nat /\ f + 1 \in 1 .. Len(ws) + 1
      /\ \A g \in 1 .. Len(ws) - 1 : ws[g].shown = ws[g].len
  BY DEF GoodStreams
<1>2. /\ FrameStart(ws) \in [1 .. Len(ws) + 1 -> Nat]
      /\ FrameStart(ws)[f + 1] = FrameStart(ws)[f] + HeadLen(ws[f]) + ws[f].shown
      /\ Len(Wire(ws)) = FrameStart(ws)[Len(ws) + 1]
  BY StartIs DEF WirePlaces
<1>3. /\ HeadLen(ws[f]) \in Nat /\ HeadLen(ws[f]) >= 2
      /\ ws[f].shown \in Nat /\ ws[f].len \in Nat /\ ws[f].shown <= ws[f].len
  BY <1>1, FramesAre
<1>4. FrameStart(ws)[f] \in Nat /\ Len(Wire(ws)) \in Nat /\ FrameStart(ws)[f + 1] \in Nat
  <2>1. f \in 1 .. Len(ws) + 1 /\ Len(ws) + 1 \in 1 .. Len(ws) + 1
    BY <1>1
  <2> QED BY <1>1, <1>2, <2>1
<1>5. f = Len(ws) => FrameStart(ws)[f + 1] = Len(Wire(ws))
  BY <1>2
<1>6. f # Len(ws) => f \in 1 .. Len(ws) - 1
  BY <1>1
<1>7. FrameStart(ws)[f + 1] <= Len(Wire(ws))
  <2>1. CASE f = Len(ws)
    BY <1>4, <1>5, <2>1
  <2>2. CASE f # Len(ws)
    <3>1. Len(ws) \in 1 .. Len(ws) /\ Len(ws) < Len(ws) + 1
      BY <1>1
    <3>2. PICK n : n = Len(ws)
      OBVIOUS
    <3>3. GoodFrame(ws[n])
      BY <3>1, <3>2 DEF GoodStreams
    <3>4. HeadLen(ws[n]) \in Nat /\ ws[n].shown \in Nat
      BY <3>3, FramesAre
    <3>5. f + 1 \in 1 .. n
      BY <1>1, <2>2, <3>2
    <3>6. PICK g \in 1 .. n : g = f + 1
      BY <3>5
    <3>7. g < Len(ws) + 1 /\ Len(ws) + 1 \in 1 .. Len(ws) + 1 /\ g \in 1 .. Len(ws)
      BY <1>1, <3>2
    <3>8. FrameStart(ws)[g] + HeadLen(ws[g]) + ws[g].shown <= FrameStart(ws)[Len(ws) + 1]
      BY <3>7, StartsApart, StartIs
    <3>9. GoodFrame(ws[g])
      BY <3>7 DEF GoodStreams
    <3>10. HeadLen(ws[g]) \in Nat /\ ws[g].shown \in Nat
      BY <3>9, FramesAre
    <3> QED BY <1>2, <1>4, <3>6, <3>8, <3>10
  <2> QED BY <2>1, <2>2
<1> QED BY <1>1, <1>2, <1>3, <1>4, <1>5, <1>6, <1>7

\* n payload bytes are handled at once, of the l that are left: all that are there.
Handling(ws, f, k, at, end, l, n) ==
  /\ k <= ws[f].shown /\ l = ws[f].len - k /\ at = FrameStart(ws)[f] + HeadLen(ws[f]) + k
  /\ at <= end /\ end <= Len(Wire(ws)) /\ n = IF end - at < l THEN end - at ELSE l

\* They lie in the frame, and the payload is done with them when none is left.
HandledTo(ws, f, k, at, end, l, n) ==
  /\ n \in Nat /\ k + n \in Nat /\ k + n <= ws[f].shown /\ k + n <= ws[f].len /\ n <= l /\ at \in Nat /\ at + n <= end
  /\ l = n => ws[f].shown = k + n /\ at + n = FrameStart(ws)[f + 1]
  /\ at + n = FrameStart(ws)[f] + (HeadLen(ws[f]) + (k + n))
  /\ at = FrameStart(ws)[f] + (HeadLen(ws[f]) + k)

\* What is handled at once is there.
LEMMA ThereIs ==
  ASSUME NEW ws \in GoodStreams, NEW f \in 1 .. Len(ws), NEW k \in Nat, NEW at, NEW end \in Nat, NEW l, NEW n,
         Handling(ws, f, k, at, end, l, n)
  PROVE  HandledTo(ws, f, k, at, end, l, n)
<1>1. PICK s, h, w, t, b, e : s = ws[f].shown /\ h = HeadLen(ws[f]) /\ w = ws[f].len /\ t = FrameStart(ws)[f]
                           /\ b = FrameStart(ws)[f + 1] /\ e = Len(Wire(ws))
  OBVIOUS
<1>2. /\ t \in Nat /\ h \in Nat /\ s \in Nat /\ w \in Nat /\ s <= w /\ b = t + h + s /\ b <= e /\ e \in Nat
      /\ s # w => b = e
  BY <1>1, PlaceIs
<1>3. at = t + h + k /\ l = w - k /\ k <= s /\ end <= e /\ at <= end /\ n = IF end - at < l THEN end - at ELSE l
  BY <1>1 DEF Handling
<1>4. /\ n \in Nat /\ k + n <= s /\ n <= l /\ at \in Nat /\ at + n <= end
      /\ l = n => s = k + n /\ at + n = b
      /\ at + n = t + h + (k + n)
  <2>1. at \in Nat
    BY <1>2, <1>3
  <2>2. n = IF end - at < w - k THEN end - at ELSE w - k
    BY <1>3
  <2>3. /\ n \in Nat /\ k + n <= s /\ n <= w - k /\ at + n <= end
        /\ w - k = n => s = k + n /\ at + n = b
        /\ at + n = t + h + (k + n)
    <3>1. PICK d, y : d = end - at /\ y = w - k
      OBVIOUS
    <3>2. d \in Nat /\ y \in Nat /\ n = (IF d < y THEN d ELSE y)
      <4>1. d \in Nat
        BY <1>3, <2>1, <3>1
      <4>2. y \in Nat
        BY <1>2, <1>3, <3>1
      <4> QED BY <2>2, <3>1, <4>1, <4>2
    <3>3. n \in Nat /\ n <= d /\ n <= y /\ (n = d \/ n = y)
      BY <3>2
    <3>4. at + n <= end
      BY <2>1, <3>1, <3>2, <3>3
    <3>5. at + n = t + h + (k + n)
      <4>1. \A t1, h1, k1, n1 \in Nat : (t1 + h1 + k1) + n1 = t1 + h1 + (k1 + n1)
        OBVIOUS
      <4>2. t \in Nat /\ h \in Nat /\ n \in Nat /\ at = t + h + k
        BY <1>2, <1>3, <3>3
      <4>3. (t + h + k) + n = t + h + (k + n)
        BY <4>1, <4>2
      <4> QED BY <4>2, <4>3, Zenon
    <3>6. k + n <= s
      <4>1. CASE s = w
        BY <1>2, <3>1, <3>3, <4>1
      <4>2. CASE s # w
        <5>1. b = e
          BY <1>2, <4>2
        <5> QED BY <1>2, <1>3, <3>3, <3>4, <3>5, <5>1
      <4> QED BY <4>1, <4>2
    <3>7. y = n => s = k + n /\ at + n = b
      <4>1. y = n => k + n = w
        BY <1>2, <3>1, <3>3
      <4>2. y = n => s = k + n
        BY <1>2, <3>3, <3>6, <4>1
      <4> QED BY <1>2, <3>5, <4>2
    <3> QED BY <3>1, <3>3, <3>4, <3>5, <3>6, <3>7
  <2> QED BY <1>3, <2>1, <2>3
<1>5. k + n \in Nat /\ k + n <= w
  <2>1. \A a, m, z \in Nat : a <= z /\ z <= m => a <= m
    OBVIOUS
  <2>2. k + n \in Nat
    BY <1>4
  <2> QED BY <1>2, <1>4, <2>1, <2>2
<1>6. t + h + (k + n) = t + (h + (k + n)) /\ at = t + (h + k)
  <2>1. \A a, m, z \in Nat : a + z + m = a + (z + m)
    OBVIOUS
  <2> QED BY <1>2, <1>3, <1>5, <2>1
<1> QED BY <1>1, <1>4, <1>5, <1>6 DEF HandledTo

\* The parser behind a piece of the payload.
LEMMA AfterPayloadIs ==
  ASSUME NEW p \in FrameStates, NEW r, GoodFrame(r), NEW f, NEW k \in Nat, NEW n \in Nat, NEW c \in 0 .. 1,
         InPayload(p, r, f, k, c), k + n <= r.len
  PROVE  LET q == AfterPayload(p, n)
         IN  /\ q \in FrameStates
             /\ p.len = n => q.wsStatus = 0
             /\ p.len # n => InPayload(q, r, f, k + n, 1)
<1> DEFINE l == p.len - n
           m == (p.maskCtr + n) % 256
           w == IF p.len = n THEN ST_FLAGS ELSE p.wsStatus
           d == IF p.len = n THEN p.frameCont ELSE 1
           q == [p EXCEPT !.len = l, !.maskCtr = m, !.wsStatus = w, !.frameCont = d]
<1>1. AfterPayload(p, n) = q
  BY Zenon DEF AfterPayload
<1>2. p.len \in 0 .. MaxShort /\ p.wsStatus \in 0 .. 14 /\ p.maskCtr \in 0 .. 255 /\ p.frameCont \in 0 .. 1
      /\ r.len \in Nat /\ r.len \in 0 .. MaxShort
  BY FieldsAre, FramesAre
<1>3. /\ p.wsStatus = 14 /\ p.op = r.op /\ p.fin = r.fin /\ p.masked = r.masked
      /\ p.len = r.len - k /\ p.maskCtr = k % 256
      /\ p.masked = 1 => \A i \in 1 .. 4 : p.mask[i] = f
  BY DEF InPayload
<1>4. l \in 0 .. MaxShort /\ l = r.len - (k + n)
  <2>1. l \in Nat /\ l = r.len - (k + n) /\ l <= r.len
    BY <1>2, <1>3
  <2>2. MaxShort \in Int
    BY SMT DEF MaxShort
  <2> QED BY <1>2, <2>1, <2>2
<1>5. m \in 0 .. 255 /\ m = (k + n) % 256
  BY <1>3
<1>6. w \in 0 .. 14 /\ d \in 0 .. 1 /\ (p.len = n => w = 0) /\ (p.len # n => w = 14 /\ d = 1)
  BY <1>2, <1>3 DEF ST_FLAGS
<1> HIDE DEF l, m, w, d
<1>7. q \in FrameStates
  BY <1>4, <1>5, <1>6, PayloadSet
<1>8. /\ q.len = l /\ q.maskCtr = m /\ q.wsStatus = w /\ q.frameCont = d
      /\ q.op = p.op /\ q.fin = p.fin /\ q.masked = p.masked /\ q.mask = p.mask
  BY DEF FrameStates
<1> HIDE DEF q
<1>9. p.len # n => InPayload(q, r, f, k + n, 1)
  BY <1>3, <1>4, <1>5, <1>6, <1>8 DEF InPayload
<1> QED BY <1>1, <1>6, <1>7, <1>8, <1>9

\* What is owed grows by what a payload leads to.
Grows(ws, f, k, n, c, o) ==
  (o \o (IF c = 0 THEN <<>> ELSE Events(ws, f, k))) \o ((IF c = 0 THEN First1(ws[f]) ELSE <<>>) \o More(ws[f], f, k, n))
  = o \o Events(ws, f, k + n)

\* What is handled of a payload makes up for what is owed of it.
LEMMA OwedGrows ==
  ASSUME NEW ws \in GoodStreams, NEW f \in 1 .. Len(ws), ~ Refused(ws[f]), NEW k \in Nat, NEW n \in Nat,
         NEW c \in 0 .. 1, c = 0 => k = 0, NEW o \in Seq(EventSet)
  PROVE  Grows(ws, f, k, n, c, o)
<1>1. f \in Nat /\ GoodFrame(ws[f])
  BY DEF GoodStreams
<1>2. PICK x, y, z, m : x = First1(ws[f]) /\ y = PayloadEvents(ws[f], f, k) /\ z = PayloadEvents(ws[f], f, k + n)
                        /\ m = More(ws[f], f, k, n)
  OBVIOUS
<1>3. k + n \in Nat
  OBVIOUS
<1>4. x \in Seq(EventSet) /\ y \in Seq(EventSet) /\ z \in Seq(EventSet) /\ m \in Seq(EventSet) /\ y \o m = z
  <2>1. x \in Seq(EventSet) /\ m \in Seq(EventSet) /\ y \o m = z
    BY <1>1, <1>2, FirstIs, MoreIs
  <2>2. \A i \in Nat : PayloadEvents(ws[f], f, i) \in Seq(EventSet)
    BY <1>1, PayloadEventsAre
  <2> QED BY <1>2, <1>3, <2>1, <2>2
<1>5. \A i \in Nat : Events(ws, f, i) = x \o PayloadEvents(ws[f], f, i)
  BY <1>1, <1>2, EventsIs
<1>6. Events(ws, f, k) = x \o y /\ Events(ws, f, k + n) = x \o z
  BY <1>2, <1>3, <1>5
<1>9. \A u, v, t \in Seq(EventSet) : (u \o v) \o t = u \o (v \o t)
  BY ConcatAssociative
<1>10. \A u, v \in Seq(EventSet) : u \o v \in Seq(EventSet)
  BY ConcatProperties
<1>7. CASE c = 1
  <2>1. PICK xy, xz : xy = x \o y /\ xz = x \o z
    OBVIOUS
  <2>2. xy \in Seq(EventSet) /\ xz \in Seq(EventSet) /\ xz = xy \o m
    <3>1. (x \o y) \o m = x \o (y \o m)
      BY <1>4, <1>9, Zenon
    <3> QED BY <1>4, <1>10, <2>1, <3>1, Zenon
  <2>3. (o \o xy) \o m = o \o (xy \o m)
    BY <1>4, <1>9, <2>2, Zenon
  <2>4. <<>> \o m = m
    BY <1>4, ConcatEmptySeq
  <2>5. (IF c = 0 THEN <<>> ELSE Events(ws, f, k)) = xy /\ (IF c = 0 THEN First1(ws[f]) ELSE <<>>) = <<>>
    BY <1>6, <1>7, <2>1
  <2> QED BY <1>2, <1>6, <2>1, <2>2, <2>3, <2>4, <2>5, Zenon DEF Grows
<1>8. CASE c = 0
  <2>1. k = 0 /\ k + n = n
    BY <1>8
  <2>2. m = z
    BY <1>1, <1>2, <2>1, MoreIs
  <2>3. o \o <<>> = o
    BY ConcatEmptySeq
  <2>5. (IF c = 0 THEN <<>> ELSE Events(ws, f, k)) = <<>> /\ (IF c = 0 THEN First1(ws[f]) ELSE <<>>) = x
    BY <1>2, <1>8
  <2> QED BY <1>2, <1>6, <2>2, <2>3, <2>5, Zenon DEF Grows
<1>11. c = 0 \/ c = 1
  OBVIOUS
<1> QED BY <1>7, <1>8, <1>11, Zenon

\* A frame that does not close is followed by the next, or by the end of the stream.
LEMMA NextFrame ==
  ASSUME NEW ws \in GoodStreams, NEW f \in 1 .. Len(ws), NoneClosed(ws, f), ~ Refused(ws[f]), NEW p, p.wsStatus = 0,
         NEW out, Alike(ws, out, OwedBefore(ws)[f - 1] \o Events(ws, f, ws[f].shown))
  PROVE  WsReading(ws, FrameStart(ws)[f + 1], p, out)
<1>1. f \in Nat /\ GoodFrame(ws[f]) /\ Len(ws) \in Nat
  BY DEF GoodStreams
<1>2. \A n \in Nat : Closes(ws, f) <=> Refused(ws[f])
  BY <1>1, EventsIs
<1>3. ~ Closes(ws, f)
  <2>1. 0 \in Nat
    OBVIOUS
  <2> QED BY <1>2, <2>1
<1>4. \A g \in 1 .. f : ~ Closes(ws, g)
  <2>1. \A g \in 1 .. f : g = f \/ g \in 1 .. f - 1
    BY <1>1
  <2> QED BY <1>3, <2>1 DEF NoneClosed
<1>5. OwedBefore(ws)[f] = OwedBefore(ws)[f - 1] \o Events(ws, f, ws[f].shown)
  BY <1>4, OwedBehind
<1>6. PICK e \in 1 .. Len(ws) + 1 : e = f + 1
  BY <1>1
<1>7. e - 1 = f
  BY <1>1, <1>6
<1>8. NoneClosed(ws, e)
  BY <1>4, <1>7 DEF NoneClosed
<1>9. Alike(ws, out, OwedBefore(ws)[e - 1])
  BY <1>5, <1>7
<1>10. CASE f = Len(ws)
  <2>1. FrameStart(ws)[e] = Len(Wire(ws))
    BY <1>6, <1>10, PlaceIs
  <2>2. WsAtEnd(ws, FrameStart(ws)[e], out, e)
    BY <1>6, <1>7, <1>9, <1>10, <2>1 DEF WsAtEnd
  <2> QED BY <1>6, <1>8, <2>2 DEF WsReading
<1>11. CASE f # Len(ws)
  <2>1. e \in 1 .. Len(ws)
    BY <1>1, <1>6, <1>11
  <2>2. HeadLen(ws[e]) \in Nat /\ HeadLen(ws[e]) >= 2 /\ FrameStart(ws)[e] \in Nat
    BY <2>1, PlaceIs
  <2>3. InHead(p, ws[e], e, 0)
    <3>1. 0 = 0 /\ ~ (0 >= 1) /\ ~ (0 = 1) /\ ~ (0 >= 2)
      OBVIOUS
    <3> QED BY <3>1 DEF InHead
  <2>4. 0 \in Nat /\ 0 < HeadLen(ws[e]) /\ FrameStart(ws)[e] = FrameStart(ws)[e] + 0 /\ p.wsStatus # 14
    BY <2>2
  <2>5. WsHeadAt(ws, FrameStart(ws)[e], p, out, e)
    BY <1>9, <2>1, <2>3, <2>4 DEF WsHeadAt
  <2> QED BY <1>6, <1>8, <2>5 DEF WsReading
<1> QED BY <1>10, <1>11

\* The payload that is there is handled.
PayloadDone(ws, end, p, at, n, s) ==
  /\ s \in Seq(EventSet) /\ at \in Nat /\ n \in Nat /\ at + n <= end
  /\ Ends(p) => Alike(ws, s, Owed(ws, at))
  /\ ~ Ends(p) => /\ AfterPayload(p, n) \in FrameStates /\ Alike(ws, s, Owed(ws, at + n))
                  /\ WsReading(ws, at + n, AfterPayload(p, n), s)

\* Handling what is there of a payload keeps what was sent alike to what is owed.
LEMMA PayloadTurn ==
  ASSUME NEW ws \in GoodStreams, NEW p \in FrameStates, NEW f \in 1 .. Len(ws), NoneClosed(ws, f),
         NEW k \in Nat, NEW c \in 0 .. 1, InPayload(p, ws[f], f, k, c), c = 0 => k = 0,
         c = 1 => ~ Refused(ws[f]), NEW at, NEW end \in Nat, NEW n, Handling(ws, f, k, at, end, p.len, n),
         NEW out \in Seq(EventSet),
         Alike(ws, out, OwedBefore(ws)[f - 1] \o (IF c = 0 THEN <<>> ELSE Events(ws, f, k)))
  PROVE  PayloadDone(ws, end, p, at, n, out \o Handled(p, Unmasked(ws, p, at, n)))
<1> DEFINE r == ws[f]
           u == Unmasked(ws, p, at, n)
           h == Handled(p, u)
           s == out \o h
           o == OwedBefore(ws)[f - 1]
           y == IF c = 0 THEN <<>> ELSE Events(ws, f, k)
           z == (IF c = 0 THEN First1(r) ELSE <<>>) \o More(r, f, k, n)
           q == AfterPayload(p, n)
<1>1. f \in Nat /\ GoodFrame(r)
  BY DEF GoodStreams
<1>2. /\ p.len = r.len - k
      /\ n \in Nat /\ k + n <= r.shown /\ k + n <= r.len /\ n <= p.len /\ at \in Nat /\ at + n <= end
      /\ p.len = n => r.shown = k + n /\ at + n = FrameStart(ws)[f + 1]
      /\ at + n = FrameStart(ws)[f] + (HeadLen(r) + (k + n)) /\ k + n \in Nat
      /\ at = FrameStart(ws)[f] + (HeadLen(r) + k)
  <2>1. HandledTo(ws, f, k, at, end, p.len, n)
    BY ThereIs
  <2>2. p.len = r.len - k
    BY DEF InPayload
  <2> QED BY <2>1, <2>2 DEF HandledTo
<1>3. Restored(u, r, f, k, n)
  <2>1. at = FrameStart(ws)[f] + HeadLen(ws[f]) + k
    BY DEF Handling
  <2> QED BY <1>2, <2>1, UnmaskedIs
<1>4. /\ h \in Seq(EventSet) /\ (Ends(p) <=> Refused(r))
      /\ Alike(ws, h, IF Refused(r) THEN << RefusedBy(r) >> ELSE z)
  BY <1>2, <1>3, HandledIs
<1>5. /\ FrameStart(ws)[f] \in Nat /\ HeadLen(r) \in Nat /\ HeadLen(r) >= 2 /\ r.shown \in Nat /\ r.len \in Nat
      /\ r.shown <= r.len
  BY PlaceIs
<1>6. \A m \in Nat : /\ Events(ws, f, m) \in Seq(EventSet)
                     /\ Refused(r) => Events(ws, f, m) = << RefusedBy(r) >>
  BY <1>1, EventsIs
<1>7. o \in Seq(EventSet) /\ Owed(ws, FrameStart(ws)[f] + (HeadLen(r) + k)) = o \o Events(ws, f, k)
      /\ Owed(ws, FrameStart(ws)[f] + (HeadLen(r) + (k + n))) = o \o Events(ws, f, k + n)
  <2>1. \A g \in 1 .. f - 1 : ~ Closes(ws, g)
    BY DEF NoneClosed
  <2>2. ASSUME NEW m \in Nat, m <= r.shown
        PROVE  Owed(ws, FrameStart(ws)[f] + (HeadLen(r) + m)) = o \o Events(ws, f, m) /\ o \in Seq(EventSet)
    <3>1. PICK j \in Nat : j = HeadLen(r) + m
      BY <1>5
    <3>2. j <= HeadLen(ws[f]) + ws[f].shown /\ ~ (j < HeadLen(ws[f])) /\ j - HeadLen(ws[f]) = m
      <4>1. \A a, b, d \in Nat : d <= b => a + d <= a + b /\ ~ (a + d < a) /\ (a + d) - a = d
        OBVIOUS
      <4> QED BY <1>5, <2>2, <3>1, <4>1
    <3>3. /\ Owed(ws, FrameStart(ws)[f] + j) = o \o (IF j < HeadLen(ws[f]) THEN <<>> ELSE Events(ws, f, j - HeadLen(ws[f])))
          /\ o \in Seq(EventSet)
      BY <2>1, <3>2, OwedIs
    <3> QED BY <3>1, <3>2, <3>3
  <2>4. PICK kn \in Nat : kn = k + n
    BY <1>2
  <2>5. k <= r.shown
    BY DEF Handling
  <2> QED BY <1>2, <2>2, <2>4, <2>5
<1>8. /\ y \in Seq(EventSet) /\ o \o y \in Seq(EventSet)
  <2>1. y \in Seq(EventSet)
    <3>1. <<>> \in Seq(EventSet)
      OBVIOUS
    <3> QED BY <1>6, <3>1
  <2> QED BY <1>7, <2>1, ConcatProperties
<1>9. Alike(ws, out, o \o y)
  OBVIOUS
<1>10. s \in Seq(EventSet)
  BY <1>4, ConcatProperties
<1>11. ASSUME Refused(r)
       PROVE  Alike(ws, s, Owed(ws, at))
  <2>1. c = 0 /\ k = 0
    <3>1. c = 0 \/ c = 1
      OBVIOUS
    <3> QED BY <1>11, <3>1
  <2>2. y = <<>> /\ o \o y = o
    BY <1>7, <2>1, ConcatEmptySeq
  <2>3. PICK x : x = << RefusedBy(r) >>
    OBVIOUS
  <2>4. x \in Seq(EventSet) /\ Alike(ws, h, x) /\ Events(ws, f, k) = x
    BY <1>4, <1>6, <1>11, <2>3
  <2>5. Alike(ws, out, o)
    BY <1>9, <2>2
  <2>6. Alike(ws, out \o h, o \o x)
    BY <1>4, <1>7, <2>4, <2>5, AlikeJoined
  <2>7. at = FrameStart(ws)[f] + (HeadLen(r) + k)
    BY <1>2
  <2> QED BY <1>7, <2>4, <2>6, <2>7
<1>12. ASSUME ~ Refused(r)
       PROVE  Alike(ws, s, o \o Events(ws, f, k + n))
  <2>1. z \in Seq(EventSet) /\ Alike(ws, h, z)
    <3>1. First1(r) \in Seq(EventSet) /\ More(r, f, k, n) \in Seq(EventSet) /\ <<>> \in Seq(EventSet)
      <4>1. <<>> \in Seq(EventSet)
        OBVIOUS
      <4>2. First1(r) \in Seq(EventSet)
        BY <1>1, FirstIs
      <4>3. More(r, f, k, n) \in Seq(EventSet)
        BY <1>1, <1>2, MoreIs
      <4> QED BY <4>1, <4>2, <4>3
    <3>2. PICK e \in Seq(EventSet) : e = IF c = 0 THEN First1(r) ELSE <<>>
      BY <3>1
    <3>3. e \o More(r, f, k, n) \in Seq(EventSet)
      BY <3>1, ConcatProperties
    <3> QED BY <1>4, <1>12, <3>2, <3>3
  <2>2. (o \o y) \o z = o \o Events(ws, f, k + n)
    <3>1. Grows(ws, f, k, n, c, o)
      BY <1>2, <1>7, <1>12, OwedGrows, Zenon
    <3> QED BY <3>1, Zenon DEF Grows
  <2>3. PICK oy \in Seq(EventSet) : oy = o \o y
    BY <1>8
  <2> HIDE DEF z, h, o, y
  <2>4. Alike(ws, out \o h, oy \o z)
    BY <1>4, <1>9, <2>1, <2>3, AlikeJoined
  <2> QED BY <2>2, <2>3, <2>4
<1>13. ASSUME ~ Refused(r)
       PROVE  q \in FrameStates /\ Alike(ws, s, Owed(ws, at + n)) /\ WsReading(ws, at + n, q, s)
  <2>1. at + n = FrameStart(ws)[f] + (HeadLen(r) + (k + n))
    BY <1>2
  <2>2. Alike(ws, s, Owed(ws, at + n))
    BY <1>7, <1>12, <1>13, <2>1
  <2>3. /\ q \in FrameStates
        /\ p.len = n => q.wsStatus = 0
        /\ p.len # n => InPayload(q, r, f, k + n, 1)
    <3>1. k + n <= r.len
      BY <1>2
    <3> QED BY <1>1, <1>2, <3>1, AfterPayloadIs
  <2> HIDE DEF s, q, o
  <2>4. CASE p.len = n
    <3>1. q.wsStatus = 0 /\ r.shown = k + n /\ at + n = FrameStart(ws)[f + 1]
      BY <1>2, <2>3, <2>4
    <3>2. Alike(ws, s, OwedBefore(ws)[f - 1] \o Events(ws, f, ws[f].shown))
      BY <1>12, <1>13, <3>1 DEF o
    <3>3. WsReading(ws, FrameStart(ws)[f + 1], q, s)
      BY <1>13, <3>1, <3>2, NextFrame
    <3> QED BY <2>2, <2>3, <3>1, <3>3
  <2>5. CASE p.len # n
    <3>1. PICK m \in Nat : m = k + n
      BY <1>2
    <3>2. WsPayloadAt(ws, at + n, q, s, f)
      <4>1. InPayload(q, ws[f], f, m, 1) /\ m <= ws[f].shown /\ at + n = FrameStart(ws)[f] + HeadLen(ws[f]) + m
        <5>1. FrameStart(ws)[f] + (HeadLen(r) + m) = FrameStart(ws)[f] + HeadLen(r) + m
          BY <1>5
        <5> QED BY <1>2, <2>3, <2>5, <3>1, <5>1
      <4>2. Alike(ws, s, OwedBefore(ws)[f - 1] \o Events(ws, f, m))
        BY <1>12, <1>13, <3>1 DEF o
      <4> QED BY <1>13, <4>1, <4>2 DEF WsPayloadAt
    <3>3. f \in 1 .. Len(ws) + 1
      BY DEF GoodStreams
    <3> QED BY <2>2, <2>3, <3>2, <3>3 DEF WsReading
  <2> QED BY <2>4, <2>5
<1> QED BY <1>2, <1>4, <1>10, <1>11, <1>13 DEF PayloadDone

\* The invariant: what was handed on is what is owed of the bytes handled, and while
\* the websocket is open the parser is where the bytes say.
WsGood(ws, at, end, p, out, open) ==
  /\ ws \in Streams /\ end \in 0 .. Len(Wire(ws)) /\ at \in 0 .. end
  /\ p \in FrameStates /\ out \in Seq(EventSet) /\ open \in 0 .. 1
  /\ Alike(ws, out, Owed(ws, at))
  /\ open = 1 => WsReading(ws, at, p, out)

WsInv == WsGood(wstream, wat, wend, wfr, wout, wopen)

LEMMA WsInitRight == WsInit => WsInv
<1> SUFFICES ASSUME WsInit PROVE WsInv
  OBVIOUS
<1>1. /\ wstream \in Streams /\ wat = 0 /\ wend = 0 /\ wfr = NoFrame /\ wout = <<>> /\ wopen = 1
  BY DEF WsInit
<1> DEFINE ws == wstream
<1>2. ws \in GoodStreams
  BY <1>1, StreamsAre
<1>3. Len(ws) \in Nat /\ 1 \in 1 .. Len(ws) /\ 1 \in 1 .. Len(ws) + 1
  BY <1>2 DEF GoodStreams
<1>4. FrameStart(ws)[1] = 0 /\ HeadLen(ws[1]) \in Nat /\ HeadLen(ws[1]) >= 2 /\ Len(Wire(ws)) \in Nat
  BY <1>2, <1>3, PlaceIs, StartIs DEF WirePlaces
<1>5. NoFrame \in FrameStates /\ NoFrame.wsStatus = 0
  <2>1. "continue" \in Ops /\ 0 \in 0 .. MaxShort
    <3>1. 0 \in 0 .. MaxShort
      BY SMT DEF MaxShort
    <3> QED BY <3>1 DEF Ops, DataOps
  <2>2. <<0, 0, 0, 0>> \in [1 .. 4 -> Nat]
    OBVIOUS
  <2> QED BY <2>1, <2>2 DEF NoFrame, FrameStates, ST_FLAGS
<1>6. OwedBefore(ws)[0] = <<>>
  BY <1>2, WholePartsAre DEF Joins
<1>7. Alike(ws, <<>>, <<>>) /\ <<>> \in Seq(EventSet)
  BY DEF Alike
<1>8. NoneClosed(ws, 1)
  BY DEF NoneClosed
<1>9. Owed(ws, 0) = <<>>
  <2>1. 0 \in Nat /\ 0 <= HeadLen(ws[1]) + ws[1].shown /\ 0 < HeadLen(ws[1]) /\ FrameStart(ws)[1] + 0 = 0 /\ 1 - 1 = 0
    BY <1>2, <1>3, <1>4, PlaceIs
  <2>2. \A g \in 1 .. 1 - 1 : ~ Closes(ws, g)
    BY <1>8 DEF NoneClosed
  <2>3. Owed(ws, FrameStart(ws)[1] + 0) = OwedBefore(ws)[1 - 1] \o (IF 0 < HeadLen(ws[1]) THEN <<>> ELSE Events(ws, 1, 0 - HeadLen(ws[1])))
    BY <1>2, <1>3, <2>1, <2>2, OwedIs
  <2>4. <<>> \o <<>> = <<>>
    OBVIOUS
  <2> QED BY <1>6, <2>1, <2>3, <2>4
<1>10. WsReading(ws, 0, NoFrame, <<>>)
  <2>1. InHead(NoFrame, ws[1], 1, 0)
    <3>1. 0 = 0 /\ ~ (0 >= 1) /\ ~ (0 = 1) /\ ~ (0 >= 2)
      OBVIOUS
    <3> QED BY <1>5, <3>1 DEF InHead
  <2>2. 0 \in Nat /\ 0 < HeadLen(ws[1]) /\ 0 = FrameStart(ws)[1] + 0 /\ NoFrame.wsStatus # 14 /\ 1 - 1 = 0
    BY <1>4, <1>5
  <2>3. Alike(ws, <<>>, OwedBefore(ws)[1 - 1])
    BY <1>6, <1>7, <2>2
  <2>4. WsHeadAt(ws, 0, NoFrame, <<>>, 1)
    BY <1>3, <2>1, <2>2, <2>3 DEF WsHeadAt
  <2> QED BY <1>3, <1>8, <2>4 DEF WsReading
<1>11. 0 \in 0 .. Len(Wire(ws)) /\ 0 \in 0 .. 0 /\ 1 \in 0 .. 1
  BY <1>4
<1> QED BY <1>1, <1>5, <1>7, <1>9, <1>10, <1>11 DEF WsInv, WsGood

\* A segment arrives.
LEMMA SegmentRight ==
  ASSUME WsInv, NEW n \in 1 .. Len(Wire(wstream)), Segment(n)
  PROVE  WsInv'
<1>1. wend' = wend + n /\ wend + n <= Len(Wire(wstream)) /\ UNCHANGED <<wstream, wat, wfr, wout, wopen>>
  BY DEF Segment
<1>2. wend \in 0 .. Len(Wire(wstream)) /\ wat \in 0 .. wend
  BY DEF WsInv, WsGood
<1>3. Len(Wire(wstream)) \in Nat
  <2>1. wstream \in GoodStreams
    BY StreamsAre DEF WsInv, WsGood
  <2>2. 1 \in 1 .. Len(wstream)
    BY <2>1 DEF GoodStreams
  <2> QED BY <2>1, <2>2, PlaceIs
<1>4. wend' \in 0 .. Len(Wire(wstream)) /\ wat \in 0 .. wend'
  BY <1>1, <1>2, <1>3
<1>5. WsGood(wstream, wat, wend', wfr, wout, wopen)
  BY <1>4 DEF WsInv, WsGood
<1> QED BY <1>1, <1>5 DEF WsInv

\* What a turn may leave behind.
WsTurned(ws, end, at, p, out, open) ==
  /\ at \in 0 .. end /\ p \in FrameStates /\ out \in Seq(EventSet) /\ open \in 0 .. 1
  /\ Alike(ws, out, Owed(ws, at))
  /\ open = 1 => WsReading(ws, at, p, out)

\* A byte of the head, but for the last.
LEMMA HeadTurn ==
  ASSUME NEW ws \in GoodStreams, NEW f \in 1 .. Len(ws), NoneClosed(ws, f), NEW j \in Nat, NEW q \in FrameStates,
         j < HeadLen(ws[f]), InHead(q, ws[f], f, j), q.wsStatus # 14, NEW at, at = FrameStart(ws)[f] + j,
         NEW out \in Seq(EventSet), Alike(ws, out, OwedBefore(ws)[f - 1])
  PROVE  /\ WsReading(ws, at, q, out) /\ Alike(ws, out, Owed(ws, at))
         /\ Alike(ws, out, OwedBefore(ws)[f - 1] \o <<>>)
<1>1. WsHeadAt(ws, at, q, out, f)
  BY DEF WsHeadAt
<1>2. f \in 1 .. Len(ws) + 1
  BY DEF GoodStreams
<1>3. WsReading(ws, at, q, out)
  BY <1>1, <1>2 DEF WsReading
<1>4. j <= HeadLen(ws[f]) + ws[f].shown
  <2>1. HeadLen(ws[f]) \in Nat /\ ws[f].shown \in Nat
    BY PlaceIs
  <2> QED BY <2>1
<1>5. \A g \in 1 .. f - 1 : ~ Closes(ws, g)
  BY DEF NoneClosed
<1>6. /\ Owed(ws, FrameStart(ws)[f] + j) = OwedBefore(ws)[f - 1] \o (IF j < HeadLen(ws[f]) THEN <<>> ELSE Events(ws, f, j - HeadLen(ws[f])))
      /\ OwedBefore(ws)[f - 1] \in Seq(EventSet)
  BY <1>4, <1>5, OwedIs
<1>7. OwedBefore(ws)[f - 1] \o <<>> = OwedBefore(ws)[f - 1]
  BY <1>6, ConcatEmptySeq
<1> QED BY <1>3, <1>6, <1>7

\* A turn of the loop keeps the invariant.
LEMMA TurnRight ==
  ASSUME WsInv, Turn
  PROVE  WsInv'
<1> DEFINE ws == wstream
           b == Wire(wstream)[wat + 1]
           inHead == wfr.wsStatus # ST_PAYLOAD
           p == IF inHead THEN HeaderByte(wfr, b) ELSE wfr
           at == IF inHead THEN wat + 1 ELSE wat
           sl == IF wend - at < p.len THEN wend - at ELSE p.len
           u == Unmasked(wstream, p, at, sl)
<1>1. /\ ws \in Streams /\ wend \in 0 .. Len(Wire(ws)) /\ wat \in 0 .. wend
      /\ wfr \in FrameStates /\ wout \in Seq(EventSet) /\ wopen \in 0 .. 1
      /\ Alike(ws, wout, Owed(ws, wat))
      /\ wopen = 1 => WsReading(ws, wat, wfr, wout)
  BY DEF WsInv, WsGood
<1>2. wopen = 1 /\ wat < wend /\ wstream' = wstream /\ wend' = wend
  BY DEF Turn
<1>3. IF p.wsStatus # 14 THEN wfr' = p /\ wat' = at /\ wout' = wout /\ wopen' = wopen
      ELSE /\ wout' = wout \o Handled(p, u)
           /\ wopen' = IF Ends(p) THEN 0 ELSE 1
           /\ wfr' = IF Ends(p) THEN p ELSE AfterPayload(p, sl)
           /\ wat' = IF Ends(p) THEN at ELSE at + sl
  BY Zenon DEF Turn, ST_PAYLOAD
<1>4. ws \in GoodStreams
  BY <1>1, StreamsAre
<1>5. Len(Wire(ws)) \in Nat /\ wend \in Nat /\ wat \in Nat /\ wend <= Len(Wire(ws)) /\ wat <= wend
  <2>1. 1 \in 1 .. Len(ws)
    BY <1>4 DEF GoodStreams
  <2>2. Len(Wire(ws)) \in Nat
    BY <1>4, <2>1, PlaceIs
  <2> QED BY <1>1, <2>2
<1>6. PICK f \in 1 .. Len(ws) + 1 :
        /\ NoneClosed(ws, f)
        /\ WsHeadAt(ws, wat, wfr, wout, f) \/ WsPayloadAt(ws, wat, wfr, wout, f) \/ WsAtEnd(ws, wat, wout, f)
  BY <1>1, <1>2 DEF WsReading
<1>7. inHead <=> wfr.wsStatus # 14
  BY DEF ST_PAYLOAD
<1> SUFFICES WsTurned(ws, wend, wat', wfr', wout', wopen')
  BY <1>1, <1>2 DEF WsTurned, WsInv, WsGood
<1> HIDE DEF ws, b, p, at, sl, u, inHead
<1>8. ~ WsAtEnd(ws, wat, wout, f)
  BY <1>2, <1>5 DEF WsAtEnd
\* The payload is handled.
<1>9. ASSUME NEW k \in Nat, NEW c \in 0 .. 1, f \in 1 .. Len(ws), InPayload(p, ws[f], f, k, c), c = 0 => k = 0,
             c = 1 => ~ Refused(ws[f]), k <= ws[f].shown, p \in FrameStates,
             at = FrameStart(ws)[f] + HeadLen(ws[f]) + k, at <= wend,
             Alike(ws, wout, OwedBefore(ws)[f - 1] \o (IF c = 0 THEN <<>> ELSE Events(ws, f, k)))
      PROVE  WsTurned(ws, wend, wat', wfr', wout', wopen')
  <2>1. Handling(ws, f, k, at, wend, p.len, sl)
    <3>1. p.len = ws[f].len - k
      BY <1>9 DEF InPayload
    <3> QED BY <1>5, <1>9, <3>1 DEF Handling, sl
  <2>2. PICK s : s = wout \o Handled(p, Unmasked(ws, p, at, sl))
    OBVIOUS
  <2>3. /\ s \in Seq(EventSet) /\ at \in Nat /\ sl \in Nat /\ at + sl <= wend
        /\ Ends(p) => Alike(ws, s, Owed(ws, at))
        /\ ~ Ends(p) => /\ AfterPayload(p, sl) \in FrameStates /\ Alike(ws, s, Owed(ws, at + sl))
                        /\ WsReading(ws, at + sl, AfterPayload(p, sl), s)
    <3>1. PayloadDone(ws, wend, p, at, sl, wout \o Handled(p, Unmasked(ws, p, at, sl)))
      BY <1>1, <1>4, <1>5, <1>6, <1>9, <2>1, PayloadTurn
    <3> QED BY <2>2, <3>1 DEF PayloadDone
  <2>4. p.wsStatus = 14
    BY <1>9 DEF InPayload
  <2>5. wout' = s
    BY <1>3, <2>2, <2>4 DEF u, ws
  <2>6. CASE Ends(p)
    <3>1. wopen' = 0 /\ wfr' = p /\ wat' = at
      BY <1>3, <2>4, <2>6
    <3>2. at \in 0 .. wend
      BY <1>5, <1>9, <2>3
    <3> QED BY <1>9, <2>3, <2>5, <2>6, <3>1, <3>2 DEF WsTurned
  <2>7. CASE ~ Ends(p)
    <3>1. wopen' = 1 /\ wfr' = AfterPayload(p, sl) /\ wat' = at + sl
      BY <1>3, <2>4, <2>7
    <3>2. at + sl \in 0 .. wend
      BY <1>5, <2>3
    <3> QED BY <2>3, <2>5, <2>7, <3>1, <3>2 DEF WsTurned
  <2> QED BY <2>6, <2>7
<1>10. CASE WsHeadAt(ws, wat, wfr, wout, f)
  <2>1. PICK j \in Nat : /\ j < HeadLen(ws[f]) /\ wat = FrameStart(ws)[f] + j
                         /\ InHead(wfr, ws[f], f, j) /\ wfr.wsStatus # 14
    BY <1>10 DEF WsHeadAt
  <2>2. f \in 1 .. Len(ws) /\ f \in Nat /\ Alike(ws, wout, OwedBefore(ws)[f - 1]) /\ GoodFrame(ws[f])
    BY <1>4, <1>10 DEF WsHeadAt, GoodStreams
  <2>3. FrameStart(ws)[f] \in Nat /\ HeadLen(ws[f]) \in Nat /\ ws[f].shown \in Nat
    BY <1>4, <2>2, PlaceIs
  <2>4. b = HeadByte(ws[f], f, j + 1)
    <3>1. j + 1 \in 1 .. HeadLen(ws[f]) /\ FrameStart(ws)[f] + (j + 1) = wat + 1
      BY <2>1, <2>3
    <3>2. \A k \in 1 .. HeadLen(ws[f]) : Wire(ws)[FrameStart(ws)[f] + k] = HeadByte(ws[f], f, k)
      BY <1>4, <2>2, StartIs DEF WirePlaces
    <3> QED BY <3>1, <3>2 DEF b, ws
  <2>5. p = HeaderByte(wfr, HeadByte(ws[f], f, j + 1)) /\ at = wat + 1
    BY <1>7, <2>1, <2>4 DEF p, at
  <2>6. /\ p \in FrameStates
        /\ IF j + 1 < HeadLen(ws[f]) THEN InHead(p, ws[f], f, j + 1) /\ p.wsStatus # 14 ELSE InPayload(p, ws[f], f, 0, 0)
    BY <1>1, <2>1, <2>2, <2>5, HeaderByteIs
  <2>7. PICK i \in Nat : i = j + 1
    OBVIOUS
  <2>8. at = FrameStart(ws)[f] + i /\ at <= wend /\ at \in Nat /\ at \in 0 .. wend
    <3>1. \A x, y \in Nat : x + y + 1 = x + (y + 1)
      OBVIOUS
    <3>2. FrameStart(ws)[f] + j + 1 = FrameStart(ws)[f] + (j + 1)
      BY <2>3, <3>1
    <3>3. at = FrameStart(ws)[f] + i
      BY <2>1, <2>5, <2>7, <3>2
    <3> QED BY <1>2, <1>5, <2>5, <3>3
  <2>9. CASE i < HeadLen(ws[f])
    <3>1. InHead(p, ws[f], f, i) /\ p.wsStatus # 14
      BY <2>6, <2>7, <2>9
    <3>2. WsReading(ws, at, p, wout) /\ Alike(ws, wout, Owed(ws, at))
      BY <1>1, <1>4, <1>6, <2>2, <2>6, <2>8, <2>9, <3>1, HeadTurn
    <3>3. wfr' = p /\ wat' = at /\ wout' = wout /\ wopen' = wopen
      BY <1>3, <3>1
    <3> QED BY <1>1, <2>6, <2>8, <3>2, <3>3 DEF WsTurned
  <2>10. CASE ~ (i < HeadLen(ws[f]))
    <3>1. InPayload(p, ws[f], f, 0, 0)
      BY <2>6, <2>7, <2>10
    <3>2. i = HeadLen(ws[f])
      BY <2>1, <2>3, <2>7, <2>10
    <3>3. at = FrameStart(ws)[f] + HeadLen(ws[f]) + 0
      BY <2>3, <2>8, <3>2
    <3>4. Alike(ws, wout, OwedBefore(ws)[f - 1] \o <<>>)
      BY <1>1, <1>4, <1>6, <2>1, <2>2, HeadTurn
    <3>5. 0 \in Nat /\ 0 \in 0 .. 1 /\ 0 <= ws[f].shown /\ 0 # 1
      BY <2>3
    <3> QED BY <1>9, <2>2, <2>6, <2>8, <3>1, <3>3, <3>4, <3>5
  <2> QED BY <2>9, <2>10
<1>11. CASE WsPayloadAt(ws, wat, wfr, wout, f)
  <2>1. PICK k \in Nat : /\ k <= ws[f].shown /\ wat = FrameStart(ws)[f] + HeadLen(ws[f]) + k
                         /\ InPayload(wfr, ws[f], f, k, 1)
                         /\ Alike(ws, wout, OwedBefore(ws)[f - 1] \o Events(ws, f, k))
    BY <1>11 DEF WsPayloadAt
  <2>2. f \in 1 .. Len(ws) /\ ~ Refused(ws[f])
    BY <1>11 DEF WsPayloadAt
  <2>3. wfr.wsStatus = 14
    BY <2>1 DEF InPayload
  <2>4. p = wfr /\ at = wat
    BY <1>7, <2>3 DEF p, at
  <2>5. 1 \in 0 .. 1 /\ 1 # 0
    OBVIOUS
  <2> QED BY <1>1, <1>5, <1>9, <2>1, <2>2, <2>4, <2>5
<1> QED BY <1>6, <1>8, <1>10, <1>11

LEMMA WsNextRight == WsInv /\ [WsNext]_wsVars => WsInv'
<1> SUFFICES ASSUME WsInv, [WsNext]_wsVars PROVE WsInv'
  OBVIOUS
<1>1. ASSUME NEW n \in 1 .. Len(Wire(wstream)), Segment(n) PROVE WsInv'
  BY <1>1, SegmentRight
<1>2. CASE Turn
  BY <1>2, TurnRight
<1>3. CASE UNCHANGED wsVars
  BY <1>3 DEF wsVars, WsInv
<1> QED BY <1>1, <1>2, <1>3 DEF WsNext

\* What is owed are events.
LEMMA OwedIn ==
  ASSUME NEW ws \in GoodStreams, NEW n \in Nat
  PROVE  Owed(ws, n) \in Seq(EventSet)
<1> DEFINE st == FrameStart(ws)
           p == OwedParts(ws, st, n)
<1>1. WirePlaces(ws, st)
  BY StartIs
<1>2. Owed(ws, n) = FlattenSeq(p)
  BY <1>1, OwedFrom
<1>3. ASSUME NEW f \in 1 .. Len(ws)
      PROVE  p[f] \in Seq(EventSet)
  <2>1. f \in Nat /\ GoodFrame(ws[f]) /\ f \in DOMAIN ws
    BY DEF GoodStreams
  <2>2. PICK k : k = n - st[f] - HeadLen(ws[f])
    OBVIOUS
  <2>3. k \in Int /\ ws[f].shown \in Nat
    <3>1. st[f] \in Nat /\ HeadLen(ws[f]) \in Nat /\ ws[f].shown \in Nat
      BY PlaceIs
    <3> QED BY <2>2, <3>1
  <2>4. p[f] = IF k >= 0 /\ \A g \in 1 .. f - 1 : ~ Closes(ws, g)
               THEN Events(ws, f, IF k < ws[f].shown THEN k ELSE ws[f].shown) ELSE <<>>
    BY <2>1, <2>2 DEF OwedParts
  <2>5. \A m \in Nat : Events(ws, f, m) \in Seq(EventSet)
    BY <2>1, EventsIs
  <2>6. k >= 0 => (IF k < ws[f].shown THEN k ELSE ws[f].shown) \in Nat
    BY <2>3
  <2>7. <<>> \in Seq(EventSet)
    OBVIOUS
  <2> HIDE DEF p
  <2> QED BY <2>4, <2>5, <2>6, <2>7
<1>4. p \in Seq(Seq(EventSet))
  <2>1. Len(ws) \in Nat /\ DOMAIN ws = 1 .. Len(ws)
    BY DEF GoodStreams
  <2>2. DOMAIN p = 1 .. Len(ws) /\ p = [f \in 1 .. Len(ws) |-> p[f]]
    BY <2>1 DEF OwedParts
  <2> HIDE DEF p
  <2>3. p \in [1 .. Len(ws) -> Seq(EventSet)]
    BY <1>3, <2>2
  <2> QED BY <2>1, <2>3
<1> HIDE DEF p
<1> QED BY <1>2, <1>4, FlattenPlaces

\* The invariant gives what was wanted.
LEMMA WsInvIsEnough == WsInv => FramesExact /\ WsTypeOK
<1> SUFFICES ASSUME WsInv PROVE FramesExact /\ WsTypeOK
  OBVIOUS
<1>1. /\ wstream \in Streams /\ wend \in 0 .. Len(Wire(wstream)) /\ wat \in 0 .. wend
      /\ wfr \in FrameStates /\ wout \in Seq(EventSet) /\ wopen \in 0 .. 1
      /\ Alike(wstream, wout, Owed(wstream, wat))
  BY DEF WsInv, WsGood
<1>2. Owed(wstream, wat) \in Seq(EventSet)
  <2>1. wstream \in GoodStreams
    BY <1>1, StreamsAre
  <2>2. 1 \in 1 .. Len(wstream)
    BY <2>1 DEF GoodStreams
  <2>3. Len(Wire(wstream)) \in Nat
    BY <2>1, <2>2, PlaceIs
  <2>4. wat \in Nat
    BY <1>1, <2>3
  <2> QED BY <2>1, <2>4, OwedIn
<1>4. FramesExact
  BY <1>1, <1>2, AlikeIs DEF FramesExact
<1>5. WsTypeOK
  <2>1. /\ wfr.wsStatus \in 0 .. 14 /\ wfr.len \in 0 .. MaxShort
        /\ wfr.maskCtr \in 0 .. 255 /\ wfr.frameCont \in 0 .. 1
    BY <1>1, FieldsAre
  <2> QED BY <1>1, <2>1 DEF WsTypeOK, ST_FLAGS, ST_PAYLOAD
<1> QED BY <1>4, <1>5

\* The number that the bytes after the first of a head are.
ValueOf(h) == CHOOSE v : v = [k \in 1 .. Len(h) |-> IF k = 1 THEN 0 ELSE 256 * v[k - 1] + h[k]]

\* It is the number that the check of HeadsExact computes.
LEMMA ValueIs ==
  ASSUME NEW h \in Seq(Nat)
  PROVE  \A k \in 1 .. Len(h) : ValueOf(h)[k] = IF k = 1 THEN 0 ELSE 256 * ValueOf(h)[k - 1] + h[k]
<1> DEFINE n == Len(h)
           G == [x \in (1 .. n) \X Nat |-> IF x[1] = 1 THEN 0 ELSE 256 * x[2] + h[x[1]]]
           Def(v) == [k \in 1 .. n |-> IF k = 1 THEN 0 ELSE 256 * v[k - 1] + h[k]]
<1>1. n \in Nat /\ \A k \in 1 .. n : h[k] \in Nat
  OBVIOUS
<1>2. \A k \in 1 .. n : \A s \in Nat : G[<<k, s>>] = IF k = 1 THEN 0 ELSE 256 * s + h[k]
  OBVIOUS
<1> HIDE DEF G, n
<1>3. Leads(G, n, Nat)
  <2>1. ASSUME NEW k \in 1 .. n, NEW s \in Nat
        PROVE  G[<<k, s>>] \in Nat
    <3>1. h[k] \in Nat
      BY <1>1
    <3>2. 256 * s + h[k] \in Nat
      BY <3>1
    <3> QED BY <1>2, <3>2
  <2> QED BY <2>1 DEF Leads
<1>4. PICK f : Steps(f, n, Nat, 0, G)
  BY <1>1, <1>3, StepsExist
<1>5. f \in [0 .. n -> Nat] /\ \A k \in 1 .. n : f[k] = G[<<k, f[k - 1]>>]
  BY <1>4 DEF Steps
<1> DEFINE v == [k \in 1 .. n |-> f[k]]
<1>6. v = Def(v)
  <2>1. ASSUME NEW k \in 1 .. n
        PROVE  f[k] = IF k = 1 THEN 0 ELSE 256 * v[k - 1] + h[k]
    <3>1. k - 1 \in 0 .. n /\ (k # 1 => k - 1 \in 1 .. n)
      BY <1>1
    <3>2. f[k - 1] \in Nat /\ f[k] = G[<<k, f[k - 1]>>]
      BY <1>5, <3>1
    <3>3. f[k] = IF k = 1 THEN 0 ELSE 256 * f[k - 1] + h[k]
      BY <1>2, <3>2
    <3> QED BY <3>1, <3>3
  <2> QED BY <2>1
<1>7. ValueOf(h) = Def(ValueOf(h))
  <2> HIDE DEF v
  <2> QED BY <1>6, Zenon DEF ValueOf, n
<1>8. ASSUME NEW k \in 1 .. n
      PROVE  ValueOf(h)[k] = IF k = 1 THEN 0 ELSE 256 * ValueOf(h)[k - 1] + h[k]
  BY <1>7
<1> QED BY <1>8 DEF n

\* The last byte of a number, and the number without it.
LEMMA LowAndUp ==
  ASSUME NEW n \in Nat, NEW m \in Nat, n < 256 * m, NEW q \in Int, NEW r \in Int, q = n \div 256, r = n % 256
  PROVE  q \in Nat /\ q < m /\ r \in 0 .. 255 /\ n = 256 * q + r
OBVIOUS

\* The head h says the length n.
HeadRight(n, h) ==
  IF n <= 125 THEN h = <<n>>
  ELSE h[1] = (IF n <= MaxShort THEN 126 ELSE 127) /\ ValueOf(h)[Len(h)] = n
       /\ Len(h) = (IF n <= MaxShort THEN 3 ELSE 9)

\* The largest int, written so that the provers can divide it.
LEMMA IntMaxIs == IntMax \in Int /\ IntMax >= 0 /\ IntMax + 1 = 256 * (256 * (256 * 128))
<1>1. IntMax \in Int
  BY SMT DEF IntMax
<1>2. IntMax >= 0
  BY SMT DEF IntMax
<1>3. IntMax + 1 = 256 * (256 * (256 * 128))
  BY SMT DEF IntMax
<1> QED BY <1>1, <1>2, <1>3

\* Every head that is sent says its length.
LEMMA SentHeadIs ==
  ASSUME NEW n \in 0 .. IntMax
  PROVE  HeadRight(n, sendFrameHead(n))
<1>1. MaxShort \in Nat /\ MaxShort + 1 = 256 * 256 /\ MaxShort >= 126
  BY SMT DEF MaxShort
<1>2. IntMax \in Int /\ \A m \in Nat : m <= IntMax => m < 256 * (256 * (256 * 128))
  <2>1. IntMax \in Int /\ IntMax + 1 = 256 * (256 * (256 * 128))
    BY IntMaxIs
  <2>2. PICK x : x = 256 * (256 * (256 * 128))
    OBVIOUS
  <2>3. \A m \in Nat : m <= IntMax => m < x
    BY <2>1, <2>2
  <2> QED BY <2>1, <2>2, <2>3
<1>3. n \in Nat /\ n < 256 * (256 * (256 * 128))
  BY <1>2
<1>4. PICK a, r0 : a = n \div 256 /\ r0 = n % 256
  OBVIOUS
<1>5. a \in Int /\ r0 \in Int
  BY <1>3, <1>4
<1>6. PICK b, r1 : b = a \div 256 /\ r1 = a % 256
  OBVIOUS
<1>7. PICK d, r2 : d = b \div 256 /\ r2 = b % 256
  OBVIOUS
<1>8. PICK r3 : r3 = d % 256
  OBVIOUS
<1>9. sendFrameHead(n) = IF n > MaxShort THEN <<127, 0, 0, 0, 0, r3, r2, r1, r0>>
                         ELSE IF n > 125 THEN <<126, r1, r0>> ELSE <<n>>
  <2>1. sendFrameHead(n) =
          IF n > MaxShort
          THEN <<127, 0, 0, 0, 0, (((n \div 256) \div 256) \div 256) % 256, ((n \div 256) \div 256) % 256,
                 (n \div 256) % 256, n % 256>>
          ELSE IF n > 125 THEN <<126, (n \div 256) % 256, n % 256>> ELSE <<n>>
    BY Zenon DEF sendFrameHead
  <2>2. (((n \div 256) \div 256) \div 256) % 256 = r3 /\ ((n \div 256) \div 256) % 256 = r2
        /\ (n \div 256) % 256 = r1 /\ n % 256 = r0
    BY <1>4, <1>6, <1>7, <1>8, Zenon
  <2> QED BY <2>1, <2>2, Zenon
<1>10. a \in Nat /\ a < 256 * (256 * 128) /\ r0 \in 0 .. 255 /\ n = 256 * a + r0
  <2>1. PICK m \in Nat : m = 256 * (256 * 128)
    OBVIOUS
  <2> QED BY <1>3, <1>4, <1>5, <2>1, LowAndUp
<1>11. b \in Int /\ r1 \in Int
  BY <1>6, <1>10
<1>12. b \in Nat /\ b < 256 * 128 /\ r1 \in 0 .. 255 /\ a = 256 * b + r1
  <2>1. PICK m \in Nat : m = 256 * 128
    OBVIOUS
  <2> QED BY <1>6, <1>10, <1>11, <2>1, LowAndUp
<1>13. d \in Int /\ r2 \in Int
  BY <1>7, <1>12
<1>14. d \in Nat /\ d < 128 /\ r2 \in 0 .. 255 /\ b = 256 * d + r2
  <2>1. PICK m \in Nat : m = 128
    OBVIOUS
  <2> QED BY <1>7, <1>12, <1>13, <2>1, LowAndUp
<1>15. r3 = d
  BY <1>8, <1>14
<1> DEFINE h == sendFrameHead(n)
<1>16. CASE n > MaxShort
  <2>1. h = <<127, 0, 0, 0, 0, d, r2, r1, r0>>
    BY <1>9, <1>15, <1>16
  <2>2. h \in Seq(Nat) /\ Len(h) = 9 /\ h[1] = 127 /\ h[2] = 0 /\ h[3] = 0 /\ h[4] = 0 /\ h[5] = 0
        /\ h[6] = d /\ h[7] = r2 /\ h[8] = r1 /\ h[9] = r0
    <3>1. d \in Nat /\ r2 \in Nat /\ r1 \in Nat /\ r0 \in Nat
      BY <1>10, <1>12, <1>14
    <3> HIDE DEF h
    <3> QED BY <2>1, <3>1
  <2> HIDE DEF h
  <2>3. PICK v : v = ValueOf(h)
    OBVIOUS
  <2>4. \A k \in 1 .. 9 : v[k] = IF k = 1 THEN 0 ELSE 256 * v[k - 1] + h[k]
    <3>1. \A k \in 1 .. Len(h) : ValueOf(h)[k] = IF k = 1 THEN 0 ELSE 256 * ValueOf(h)[k - 1] + h[k]
      BY <2>2, ValueIs
    <3> QED BY <2>2, <2>3, <3>1
  <2>5. v[1] = 0
    BY <2>4
  <2>6. v[2] = 0
    BY <2>2, <2>4, <2>5
  <2>7. v[3] = 0
    BY <2>2, <2>4, <2>6
  <2>8. v[4] = 0
    BY <2>2, <2>4, <2>7
  <2>9. v[5] = 0
    BY <2>2, <2>4, <2>8
  <2>10. v[6] = d
    BY <1>14, <2>2, <2>4, <2>9
  <2>11. v[7] = b
    BY <1>14, <2>2, <2>4, <2>10
  <2>12. v[8] = a
    BY <1>12, <2>2, <2>4, <2>11
  <2>13. v[9] = n
    BY <1>10, <2>2, <2>4, <2>12
  <2>14. ~ (n <= 125) /\ ~ (n <= MaxShort)
    BY <1>1, <1>3, <1>16
  <2> QED BY <2>2, <2>3, <2>13, <2>14 DEF HeadRight, h
<1>17. CASE n <= MaxShort /\ n > 125
  <2>1. a \in 0 .. 255 /\ r1 = a
    <3>1. a < 256
      BY <1>1, <1>3, <1>10, <1>17
    <3> QED BY <1>6, <1>10, <3>1
  <2>2. h = <<126, a, r0>>
    BY <1>1, <1>3, <1>9, <1>17, <2>1
  <2>3. h \in Seq(Nat) /\ Len(h) = 3 /\ h[1] = 126 /\ h[2] = a /\ h[3] = r0
    <3>1. a \in Nat /\ r0 \in Nat
      BY <1>10
    <3> HIDE DEF h
    <3> QED BY <2>2, <3>1
  <2> HIDE DEF h
  <2>4. PICK v : v = ValueOf(h)
    OBVIOUS
  <2>5. \A k \in 1 .. 3 : v[k] = IF k = 1 THEN 0 ELSE 256 * v[k - 1] + h[k]
    <3>1. \A k \in 1 .. Len(h) : ValueOf(h)[k] = IF k = 1 THEN 0 ELSE 256 * ValueOf(h)[k - 1] + h[k]
      BY <2>3, ValueIs
    <3> QED BY <2>3, <2>4, <3>1
  <2>6. v[1] = 0
    BY <2>5
  <2>7. v[2] = a
    BY <1>10, <2>3, <2>5, <2>6
  <2>8. v[3] = n
    BY <1>10, <2>3, <2>5, <2>7
  <2>9. ~ (n <= 125)
    BY <1>3, <1>17
  <2> QED BY <1>17, <2>3, <2>4, <2>8, <2>9 DEF HeadRight, h
<1>18. CASE n <= 125
  <2>1. ~ (n > MaxShort) /\ ~ (n > 125)
    BY <1>1, <1>3, <1>18
  <2> QED BY <1>9, <1>18, <2>1 DEF HeadRight
<1>19. n > MaxShort \/ (n <= MaxShort /\ n > 125) \/ n <= 125
  BY <1>1, <1>3
<1> QED BY <1>16, <1>17, <1>18, <1>19

\* So the heads are right.
LEMMA HeadsAreExact == HeadsExact
<1>1. \A n \in SendLens : HeadRight(n, sendFrameHead(n))
  BY SentHeadIs, WsFramesAssumption
<1> QED BY <1>1, Zenon DEF HeadsExact, HeadRight, ValueOf

\* A handler is given exactly the payload of the frames, wherever their bytes are
\* cut into segments, and the heads sent are right, for any frames and lengths.
THEOREM FramesRight == WsSpec => [](WsTypeOK /\ FramesExact /\ HeadsExact)
<1>1. WsInit => WsInv
  BY WsInitRight
<1>2. WsInv /\ [WsNext]_wsVars => WsInv'
  BY WsNextRight
<1>3. WsInv => WsTypeOK /\ FramesExact /\ HeadsExact
  BY WsInvIsEnough, HeadsAreExact
<1> QED BY <1>1, <1>2, <1>3, PTL DEF WsSpec

-----------------------------------------------------------------------------
(* What is sent of a template, a callback that was repeated counted once.  *)

\* What the callback may have been called for more than once counts once: the
\* places of what was sent are gone through.
MergeRun(m, sent, E) ==
  /\ m \in [0 .. Len(sent) -> Seq(E)] /\ m[0] = <<>>
  /\ \A k \in 1 .. Len(sent) : m[k] = IF Again(sent, k) THEN m[k - 1] ELSE Append(m[k - 1], sent[k])
  /\ Merged(sent) = m[Len(sent)]

\* Merging is such a run.
LEMMA MergeRuns ==
  ASSUME NEW E, NEW sent \in Seq(E)
  PROVE  \E m : MergeRun(m, sent, E)
<1> DEFINE n == Len(sent)
           S == Seq(E)
           ids == [i \in 1 .. n |-> i]
           b == <<>>
           Step(s, k) == IF Again(sent, k) THEN s ELSE Append(s, sent[k])
           G == [p \in (1 .. n) \X S |-> Step(p[2], p[1])]
           c == CHOOSE iter : iter = [s \in SUBSET (DOMAIN ids) |->
                  IF s = {} THEN b ELSE Step(iter[s \ {Max(s)}], ids[Max(s)])]
           fin == c[DOMAIN ids]
<1>1. n \in Nat /\ DOMAIN ids = 1 .. n /\ \A k \in 1 .. n : ids[k] = k
  OBVIOUS
<1>2. Merged(sent) = fin
  BY Zenon DEF Merged, FoldLeft, MapThenFoldSet
<1>3. b \in S
  OBVIOUS
<1>4. ASSUME NEW k \in 1 .. n, NEW s \in S
      PROVE  G[<<k, s>>] = Step(s, k) /\ G[<<k, s>>] \in S
  <2>1. Step(s, k) \in S
    OBVIOUS
  <2>2. <<k, s>> \in (1 .. n) \X S
    OBVIOUS
  <2> HIDE DEF S, Step
  <2> QED BY <2>1, <2>2
<1> HIDE DEF n, ids, b, S, G, Step
<1>5. Leads(G, n, S)
  BY <1>4 DEF Leads
<1>6. PICK h \in [SUBSET (1 .. n) -> S] : Folds1(h, n, b, G)
  BY <1>1, <1>3, <1>5, FoldExists
<1> DEFINE D(f) == [s \in SUBSET (1 .. n) |-> IF s = {} THEN b ELSE Step(f[s \ {Max(s)}], ids[Max(s)])]
<1>7. h = D(h)
  <2> DEFINE e == [s \in SUBSET (1 .. n) |-> IF s = {} THEN b ELSE G[<<Max(s), h[s \ {Max(s)}]>>]]
  <2>1. h = e
    BY <1>6, Zenon DEF Folds1
  <2>2. ASSUME NEW s \in SUBSET (1 .. n), s # {}
        PROVE  G[<<Max(s), h[s \ {Max(s)}]>>] = Step(h[s \ {Max(s)}], ids[Max(s)])
    <3>1. Max(s) \in 1 .. n
      BY <1>1, <2>2, MaxIs
    <3>2. h[s \ {Max(s)}] \in S
      BY <1>6
    <3> QED BY <1>1, <1>4, <3>1, <3>2
  <2>3. e = D(h)
    BY <2>2
  <2> QED BY <2>1, <2>3, Zenon
<1>8. c = D(c)
  BY <1>1, <1>7, Zenon
<1>9. \A s \in SUBSET (1 .. n) : c[s] = IF s = {} THEN b ELSE Step(c[s \ {Max(s)}], ids[Max(s)])
  <2> DEFINE d == D(c)
  <2>1. \A s \in SUBSET (1 .. n) : d[s] = IF s = {} THEN b ELSE Step(c[s \ {Max(s)}], ids[Max(s)])
    BY Zenon
  <2>2. c = d
    BY <1>8, Zenon
  <2> HIDE DEF d, c
  <2> QED BY <2>1, <2>2, Zenon
<1> HIDE DEF c
<1>10. c[{}] = b
  BY <1>9
<1>11. ASSUME NEW s \in SUBSET (1 .. n), s # {}, c[s \ {Max(s)}] \in S
       PROVE  c[s] = G[<<Max(s), c[s \ {Max(s)}]>>]
  <2>1. Max(s) \in 1 .. n
    BY <1>1, <1>11, MaxIs
  <2>2. ids[Max(s)] = Max(s)
    BY <1>1, <2>1
  <2>3. c[s] = Step(c[s \ {Max(s)}], Max(s))
    BY <1>9, <1>11, <2>2
  <2> QED BY <1>4, <1>11, <2>1, <2>3
<1>12. PICK st : Steps(st, n, S, b, G) /\ c[1 .. n] = st[n]
  <2>1. FoldSteps(c, n, S, G)
    BY <1>11 DEF FoldSteps
  <2>2. n \in Nat
    BY <1>1
  <2> QED BY <1>3, <1>5, <1>10, <2>1, <2>2, FoldRuns
<1>13. /\ st \in [0 .. n -> S] /\ st[0] = b /\ \A k \in 1 .. n : st[k] = G[<<k, st[k - 1]>>]
  BY <1>12 DEF Steps
<1>14. ASSUME NEW k \in 1 .. n
       PROVE  st[k] = Step(st[k - 1], k)
  <2>1. k - 1 \in 0 .. n
    BY <1>1
  <2>2. st[k - 1] \in S
    BY <1>13, <2>1
  <2> QED BY <1>4, <1>13, <2>2
<1>15. fin = st[n]
  BY <1>1, <1>12
<1> HIDE DEF fin
<1>16. Merged(sent) = st[n]
  BY <1>2, <1>15
<1> QED BY <1>13, <1>14, <1>16, Zenon DEF MergeRun, n, S, b, Step

\* Nothing merges to nothing, and what is merged is of the same kind.
LEMMA MergedIn ==
  ASSUME NEW E, NEW sent \in Seq(E)
  PROVE  Merged(sent) \in Seq(E) /\ (sent = <<>> => Merged(sent) = <<>>)
<1>1. PICK m : MergeRun(m, sent, E)
  BY MergeRuns
<1>2. Len(sent) \in Nat /\ Len(sent) \in 0 .. Len(sent) /\ (sent = <<>> => Len(sent) = 0)
  OBVIOUS
<1> QED BY <1>1, <1>2 DEF MergeRun

\* What is sent next is added, unless it is the same call again.
LEMMA MergedNext ==
  ASSUME NEW E, NEW sent \in Seq(E), NEW ev \in E
  PROVE  Merged(Append(sent, ev)) =
           IF Again(Append(sent, ev), Len(sent) + 1) THEN Merged(sent) ELSE Append(Merged(sent), ev)
<1> DEFINE n == Len(sent)
           t == Append(sent, ev)
<1>1. n \in Nat /\ t \in Seq(E) /\ Len(t) = n + 1 /\ t[n + 1] = ev /\ \A k \in 1 .. n : t[k] = sent[k]
  OBVIOUS
<1>2. PICK m : MergeRun(m, sent, E)
  BY MergeRuns
<1>3. PICK l : MergeRun(l, t, E)
  BY <1>1, MergeRuns
<1> HIDE DEF t, n
<1>4. ASSUME NEW k \in 1 .. n
      PROVE  Again(t, k) = Again(sent, k) /\ t[k] = sent[k]
  <2>1. t[k] = sent[k] /\ (k > 1 => t[k - 1] = sent[k - 1])
    BY <1>1
  <2> QED BY <2>1, Zenon DEF Again
<1>5. \A k \in 0 .. n : m[k] = l[k]
  <2> DEFINE T == { k \in 0 .. n : m[k] = l[k] }
  <2>1. 0 \in T
    BY <1>1, <1>2, <1>3 DEF MergeRun
  <2>2. ASSUME NEW k \in 0 .. n - 1, k \in T
        PROVE  k + 1 \in T
    <3>1. k + 1 \in 1 .. n /\ k + 1 \in 1 .. n + 1 /\ (k + 1) - 1 = k /\ m[k] = l[k]
      BY <1>1, <2>2
    <3>2. m[k + 1] = (IF Again(sent, k + 1) THEN m[k] ELSE Append(m[k], sent[k + 1]))
      BY <1>2, <3>1 DEF MergeRun, n
    <3>3. l[k + 1] = (IF Again(t, k + 1) THEN l[k] ELSE Append(l[k], t[k + 1]))
      BY <1>1, <1>3, <3>1 DEF MergeRun
    <3> QED BY <1>4, <3>1, <3>2, <3>3
  <2> HIDE DEF T
  <2>3. \A k \in 0 .. n : k \in T
    BY <1>1, <2>1, <2>2, UpTo
  <2> QED BY <2>3 DEF T
<1>6. Merged(sent) = l[n]
  BY <1>1, <1>2, <1>5 DEF MergeRun, n
<1>7. Merged(t) = (IF Again(t, n + 1) THEN l[n] ELSE Append(l[n], t[n + 1]))
  <2>1. n + 1 \in 1 .. n + 1 /\ (n + 1) - 1 = n
    BY <1>1
  <2> QED BY <1>1, <1>3, <2>1 DEF MergeRun
<1> QED BY <1>1, <1>6, <1>7 DEF n, t

\* Characters are never the same call again.
LEMMA MergedChar ==
  ASSUME NEW E, NEW sent \in Seq(E), NEW a, Char(a) \in E
  PROVE  Merged(Append(sent, Char(a))) = Append(Merged(sent), Char(a))
<1>1. Append(sent, Char(a))[Len(sent) + 1] = Char(a)
  OBVIOUS
<1>2. Len(Char(a)) = 2
  BY DEF Char
<1>3. ~ Again(Append(sent, Char(a)), Len(sent) + 1)
  BY <1>1, <1>2 DEF Again
<1> QED BY <1>3, MergedNext

\* The characters that are events.
SentAs(V, E) == \A a \in V : Char(a) \in E

\* A text that is sent is added as it is.
LEMMA MergedChars ==
  ASSUME NEW E, NEW sent \in Seq(E), NEW V, SentAs(V, E), NEW w \in Seq(V)
  PROVE  /\ Chars(w) \in Seq(E) /\ sent \o Chars(w) \in Seq(E)
         /\ Merged(sent \o Chars(w)) = Merged(sent) \o Chars(w)
<1> DEFINE n == Len(w)
           part1(k) == SubSeq(w, 1, k)
           T == { k \in 0 .. n : Merged(sent \o Chars(part1(k))) = Merged(sent) \o Chars(part1(k)) }
<1>0. n \in Nat /\ \A k \in 1 .. n : Char(w[k]) \in E
  BY DEF SentAs
<1>1. ASSUME NEW k \in 0 .. n
      PROVE  /\ Chars(part1(k)) \in Seq(E) /\ Len(Chars(part1(k))) = k
             /\ \A i \in 1 .. k : Chars(part1(k))[i] = Char(w[i])
  <2>1. part1(k) = [i \in 1 .. k |-> w[i]] /\ Len(part1(k)) = k
    BY <1>0
  <2>2. Chars(part1(k)) = [i \in 1 .. k |-> Char(w[i])]
    BY <2>1 DEF Chars
  <2> HIDE DEF part1
  <2>3. k \in Nat /\ \A i \in 1 .. k : Char(w[i]) \in E
    BY <1>0
  <2> QED BY <2>2, <2>3
<1>2. 0 \in T
  <2>1. Chars(part1(0)) = <<>>
    BY <1>0, <1>1
  <2>2. Merged(sent) \in Seq(E)
    BY MergedIn
  <2>3. sent \o <<>> = sent /\ Merged(sent) \o <<>> = Merged(sent)
    BY <2>2, ConcatEmptySeq
  <2>4. 0 \in 0 .. n
    BY <1>0
  <2> HIDE DEF part1, n
  <2> QED BY <2>1, <2>3, <2>4
<1>3. ASSUME NEW k \in 0 .. n - 1, k \in T
      PROVE  k + 1 \in T
  <2>1. k + 1 \in 0 .. n /\ k \in 0 .. n /\ k + 1 \in 1 .. n
    BY <1>0
  <2> DEFINE u == Chars(part1(k))
             v == Chars(part1(k + 1))
             e == Char(w[k + 1])
  <2>2. u \in Seq(E) /\ e \in E /\ v = Append(u, e)
    <3>1. /\ u \in Seq(E) /\ v \in Seq(E) /\ Len(u) = k /\ Len(v) = k + 1 /\ e \in E
          /\ \A i \in 1 .. k : u[i] = Char(w[i])
          /\ \A i \in 1 .. k + 1 : v[i] = Char(w[i])
      BY <1>0, <1>1, <2>1
    <3> HIDE DEF u, v, e
    <3>2. v[k + 1] = e
      BY <2>1, <3>1 DEF e
    <3>3. Len(Append(u, e)) = k + 1 /\ \A i \in 1 .. k + 1 : Append(u, e)[i] = v[i]
      BY <2>1, <3>1, <3>2
    <3> QED BY <2>1, <3>1, <3>3
  <2>3. Merged(sent \o u) = Merged(sent) \o u
    BY <1>3
  <2> HIDE DEF u, v, e
  <2>4. sent \o v = Append(sent \o u, e) /\ sent \o u \in Seq(E)
    BY <2>2
  <2>5. Merged(sent) \in Seq(E) /\ Merged(sent) \o v = Append(Merged(sent) \o u, e)
    BY <2>2, MergedIn
  <2>6. Merged(Append(sent \o u, e)) = Append(Merged(sent \o u), e)
    BY <2>2, <2>4, MergedChar DEF e
  <2>7. Merged(sent \o v) = Merged(sent) \o v
    BY <2>3, <2>4, <2>5, <2>6
  <2> QED BY <2>1, <2>7 DEF v
<1>4. n \in T
  <2> HIDE DEF T
  <2>1. \A k \in 0 .. n : k \in T
    BY <1>0, <1>2, <1>3, UpTo
  <2> QED BY <1>0, <2>1
<1>5. part1(n) = w
  OBVIOUS
<1>6. Chars(w) \in Seq(E)
  <2>1. n \in 0 .. n
    BY <1>0
  <2> HIDE DEF part1, n
  <2> QED BY <1>1, <1>5, <2>1
<1>7. sent \o Chars(w) \in Seq(E)
  BY <1>6
<1>8. Merged(sent \o Chars(w)) = Merged(sent) \o Chars(w)
  <2>1. Merged(sent \o Chars(part1(n))) = Merged(sent) \o Chars(part1(n))
    BY <1>4
  <2> HIDE DEF part1
  <2> QED BY <1>5, <2>1
<1> QED BY <1>6, <1>7, <1>8

-----------------------------------------------------------------------------
(* What a template expands to.                                             *)

TplEvents == ({"char"} \X Alphabet) \cup ({"token"} \X Seq(Alphabet) \X (0 .. 1) \X Nat)

\* Where a token that begins behind i may end.
Stops(text, fs, i) ==
  { j \in i + 1 .. Len(text) :
      \/ text[j] = "%"
      \/ fs = "espfs" /\ (text[j] = " " \/ j - i > TokenMax) }

FirstOf(s) == CHOOSE k \in s : \A l \in s : k <= l

NameIn(text, i, j) == SubSeq(text, i + 1, IF j - 1 < i + TokenMax THEN j - 1 ELSE i + TokenMax)

TokenOf(text, fs, i, j) ==
  LET w == NameIn(text, i, j) IN
  IF fs = "espfs" /\ w[1] = "h" THEN <<"token", Tail(w), 1, 0>> ELSE <<"token", w, 0, 0>>

ExpandedToken(text, fs, i, j) ==
  IF text[j] # "%" THEN Chars(SubSeq(text, i, j))
  ELSE IF j = i + 1 THEN <<Char("%")>>
  ELSE <<TokenOf(text, fs, i, j)>>

ExpandFrom(F, text, fs, i) ==
  IF i = Len(text) + 1 THEN <<>>
  ELSE IF text[i] # "%" THEN <<Char(text[i])>> \o F[i + 1]
  ELSE IF Stops(text, fs, i) = {} THEN <<>>
  ELSE ExpandedToken(text, fs, i, FirstOf(Stops(text, fs, i))) \o F[FirstOf(Stops(text, fs, i)) + 1]

\* The reference from each place on.
Expansion(text, fs) == CHOOSE f : f = [i \in 1 .. Len(text) + 1 |-> ExpandFrom(f, text, fs, i)]

\* The texts are sequences of characters.
LEMMA TextsAre ==
  ASSUME NEW text \in Texts
  PROVE  text \in Seq(Alphabet) /\ Len(text) \in 0 .. MaxText
<1>1. PICK n \in 0 .. MaxText : text \in [1 .. n -> Alphabet]
  BY DEF Texts
<1>2. n \in Nat
  BY TemplateAssumption
<1> QED BY <1>1, <1>2

\* The first of some places.
LEMMA FirstIsLeast ==
  ASSUME NEW n \in Nat, NEW s \in SUBSET (1 .. n), s # {}
  PROVE  FirstOf(s) \in s /\ \A l \in s : FirstOf(s) <= l
<1>1. s \subseteq Nat
  OBVIOUS
<1>2. PICK i \in s : \A j \in s : ~ (<<j, i>> \in OpToRel(<, Nat))
  BY <1>1, NatLessThanWellFounded, WFMin, Zenon
<1>3. ASSUME NEW l \in s
      PROVE  i <= l
  <2>1. l < i => <<l, i>> \in OpToRel(<, Nat)
    BY <1>1 DEF OpToRel
  <2>2. ~ (l < i)
    BY <1>2, <2>1
  <2> QED BY <1>1, <2>2
<1>4. \E k \in s : \A l \in s : k <= l
  BY <1>3
<1> QED BY <1>4, Zenon DEF FirstOf

\* A token ends behind the place where it begins.
LEMMA StopsAre ==
  ASSUME NEW text \in Texts, NEW fs, NEW i \in 1 .. Len(text), Stops(text, fs, i) # {}
  PROVE  LET j == FirstOf(Stops(text, fs, i))
         IN  /\ j \in Stops(text, fs, i) /\ j \in i + 1 .. Len(text)
             /\ \A l \in Stops(text, fs, i) : j <= l
<1>1. Len(text) \in Nat
  BY TextsAre
<1>2. Stops(text, fs, i) \subseteq i + 1 .. Len(text)
  BY DEF Stops
<1>3. Stops(text, fs, i) \in SUBSET (1 .. Len(text))
  BY <1>1, <1>2
<1> QED BY <1>1, <1>2, <1>3, FirstIsLeast

\* A name is a piece of the text.
LEMMA NameIs ==
  ASSUME NEW text \in Texts, NEW i \in 1 .. Len(text), NEW j \in i + 1 .. Len(text) + 1
  PROVE  /\ NameIn(text, i, j) \in Seq(Alphabet)
         /\ Len(NameIn(text, i, j)) = (IF j - 1 < i + TokenMax THEN j - 1 - i ELSE TokenMax)
         /\ \A k \in 1 .. Len(NameIn(text, i, j)) : NameIn(text, i, j)[k] = text[i + k]
<1>1. Len(text) \in Nat /\ text \in Seq(Alphabet) /\ TokenMax \in Nat \ {0}
  BY TextsAre, TemplateAssumption
<1> DEFINE m == IF j - 1 < i + TokenMax THEN j - 1 ELSE i + TokenMax
<1>2. m \in i .. Len(text) /\ m - i = (IF j - 1 < i + TokenMax THEN j - 1 - i ELSE TokenMax)
  BY <1>1
<1>3. NameIn(text, i, j) = SubSeq(text, i + 1, m)
  BY DEF NameIn
<1> HIDE DEF m
<1>4. SubSeq(text, i + 1, m) \in Seq(Alphabet) /\ Len(SubSeq(text, i + 1, m)) = m - i
  BY <1>1, <1>2
<1>5. \A k \in 1 .. m - i : SubSeq(text, i + 1, m)[k] = text[i + k]
  BY <1>1, <1>2
<1> QED BY <1>2, <1>3, <1>4, <1>5

\* The events of a text that is sent as it is.
LEMMA CharsAre ==
  ASSUME NEW w \in Seq(Alphabet)
  PROVE  Chars(w) \in Seq(TplEvents) /\ Len(Chars(w)) = Len(w) /\ \A k \in 1 .. Len(w) : Chars(w)[k] = Char(w[k])
<1>1. \A k \in 1 .. Len(w) : Char(w[k]) \in TplEvents
  BY DEF Char, TplEvents
<1> QED BY <1>1 DEF Chars

\* What a token expands to are events.
LEMMA ExpandedIs ==
  ASSUME NEW text \in Texts, NEW fs, NEW i \in 1 .. Len(text), NEW j \in i + 1 .. Len(text)
  PROVE  ExpandedToken(text, fs, i, j) \in Seq(TplEvents)
<1>1. text \in Seq(Alphabet) /\ Len(text) \in Nat /\ TokenMax \in Nat \ {0}
  BY TextsAre, TemplateAssumption
<1>2. CASE text[j] # "%"
  <2>1. SubSeq(text, i, j) \in Seq(Alphabet)
    BY <1>1
  <2> QED BY <1>2, <2>1, CharsAre DEF ExpandedToken
<1>3. CASE text[j] = "%" /\ j = i + 1
  <2>1. Char("%") \in TplEvents
    BY DEF Char, TplEvents, Alphabet
  <2> QED BY <1>3, <2>1 DEF ExpandedToken
<1>4. CASE text[j] = "%" /\ j # i + 1
  <2> DEFINE w == NameIn(text, i, j)
  <2>1. w \in Seq(Alphabet) /\ w # <<>>
    <3>1. j - 1 - i >= 1
      BY <1>1, <1>4
    <3>2. j \in i + 1 .. Len(text) + 1
      BY <1>1
    <3>3. w \in Seq(Alphabet) /\ Len(w) = (IF j - 1 < i + TokenMax THEN j - 1 - i ELSE TokenMax)
      BY <3>2, NameIs
    <3> QED BY <1>1, <3>1, <3>3
  <2> HIDE DEF w
  <2>2. Tail(w) \in Seq(Alphabet)
    BY <2>1
  <2>3. <<"token", Tail(w), 1, 0>> \in TplEvents /\ <<"token", w, 0, 0>> \in TplEvents
    BY <2>1, <2>2 DEF TplEvents
  <2>4. TokenOf(text, fs, i, j) \in TplEvents
    BY <2>3 DEF TokenOf, w
  <2> QED BY <1>4, <2>4 DEF ExpandedToken
<1> QED BY <1>2, <1>3, <1>4

\* The reference is given place by place from behind.
LEMMA ExpansionIs ==
  ASSUME NEW text \in Texts, NEW fs
  PROVE  /\ Expansion(text, fs) \in [1 .. Len(text) + 1 -> Seq(TplEvents)]
         /\ \A i \in 1 .. Len(text) + 1 : Expansion(text, fs)[i] = ExpandFrom(Expansion(text, fs), text, fs, i)
<1> DEFINE n == Len(text)
           N == n + 1
           S == Seq(TplEvents)
           H == [p \in (1 .. N) \X UNION { [i + 1 .. N -> S] : i \in 1 .. N } |-> ExpandFrom(p[2], text, fs, p[1])]
<1>1. n \in Nat /\ N \in Nat /\ \A i \in 1 .. n : text[i] \in Alphabet
  BY TextsAre
<1>2. ASSUME NEW i \in 1 .. N, NEW F, \A j \in i + 1 .. N : F[j] \in S
      PROVE  ExpandFrom(F, text, fs, i) \in S
  <2>1. CASE i = N
    BY <2>1 DEF ExpandFrom
  <2>2. CASE i # N /\ text[i] # "%"
    <3>1. F[i + 1] \in S /\ Char(text[i]) \in TplEvents
      BY <1>1, <1>2, <2>2 DEF Char, TplEvents
    <3>2. ExpandFrom(F, text, fs, i) = <<Char(text[i])>> \o F[i + 1]
      BY <2>2 DEF ExpandFrom
    <3> QED BY <3>1, <3>2
  <2>3. CASE i # N /\ text[i] = "%" /\ Stops(text, fs, i) = {}
    BY <2>3 DEF ExpandFrom
  <2>4. CASE i # N /\ text[i] = "%" /\ Stops(text, fs, i) # {}
    <3> DEFINE j == FirstOf(Stops(text, fs, i))
    <3>1. i \in 1 .. n
      BY <1>1, <2>4
    <3>2. j \in i + 1 .. n
      BY <2>4, <3>1, StopsAre
    <3>3. ExpandFrom(F, text, fs, i) = ExpandedToken(text, fs, i, j) \o F[j + 1]
      BY <2>4 DEF ExpandFrom
    <3> HIDE DEF j
    <3>4. ExpandedToken(text, fs, i, j) \in S
      BY <3>1, <3>2, ExpandedIs
    <3>5. F[j + 1] \in S
      BY <1>1, <1>2, <3>1, <3>2
    <3> QED BY <3>3, <3>4, <3>5
  <2> QED BY <2>1, <2>2, <2>3, <2>4
<1> HIDE DEF n, S
<1>3. ASSUME NEW i \in 1 .. N, NEW g \in [i + 1 .. N -> S]
      PROVE  H[<<i, g>>] = ExpandFrom(g, text, fs, i)
  <2>1. <<i, g>> \in (1 .. N) \X UNION { [j + 1 .. N -> S] : j \in 1 .. N }
    OBVIOUS
  <2> QED BY <2>1
<1>4. LeadsBack(H, N, S)
  BY <1>2, <1>3 DEF LeadsBack
<1> HIDE DEF H
<1>5. PICK F : Backwards(F, 1, N, S, H)
  BY <1>1, <1>4, BackExists
<1>6. F \in [1 .. N -> S] /\ \A i \in 1 .. N : F[i] = H[<<i, [j \in i + 1 .. N |-> F[j]]>>]
  BY <1>5 DEF Backwards
<1>7. ASSUME NEW i \in 1 .. N
      PROVE  F[i] = ExpandFrom(F, text, fs, i)
  <2> DEFINE g == [j \in i + 1 .. N |-> F[j]]
  <2>1. g \in [i + 1 .. N -> S] /\ \A j \in i + 1 .. N : g[j] = F[j]
    BY <1>6
  <2>2. F[i] = ExpandFrom(g, text, fs, i)
    BY <1>3, <1>6, <2>1
  <2> HIDE DEF g
  <2>3. ExpandFrom(g, text, fs, i) = ExpandFrom(F, text, fs, i)
    <3>1. i # n + 1 => i + 1 \in i + 1 .. N /\ i \in 1 .. n
      BY <1>1
    <3>2. i # n + 1 => g[i + 1] = F[i + 1]
      BY <2>1, <3>1
    <3>3. i # n + 1 /\ Stops(text, fs, i) # {} => g[FirstOf(Stops(text, fs, i)) + 1] = F[FirstOf(Stops(text, fs, i)) + 1]
      <4> SUFFICES ASSUME i # n + 1, Stops(text, fs, i) # {}
                   PROVE  g[FirstOf(Stops(text, fs, i)) + 1] = F[FirstOf(Stops(text, fs, i)) + 1]
        OBVIOUS
      <4>1. FirstOf(Stops(text, fs, i)) \in i + 1 .. n
        BY <3>1, StopsAre DEF n
      <4>2. FirstOf(Stops(text, fs, i)) + 1 \in i + 1 .. N
        BY <1>1, <4>1
      <4> QED BY <2>1, <4>2
    <3> QED BY <3>2, <3>3, Zenon DEF ExpandFrom, n
  <2> QED BY <2>2, <2>3
<1>8. F = [i \in 1 .. N |-> ExpandFrom(F, text, fs, i)]
  BY <1>6, <1>7
<1> DEFINE c == Expansion(text, fs)
<1>10. c = [i \in 1 .. N |-> ExpandFrom(c, text, fs, i)]
  BY <1>8, Zenon DEF Expansion, n
<1> HIDE DEF c
<1>11. \A i \in 1 .. N : c[i] = ExpandFrom(c, text, fs, i)
  BY <1>10, Zenon
<1>12. \A i \in 1 .. N : c[i] \in S
  <2> DEFINE T == { i \in 1 .. N : c[i] \in S }
  <2>1. ASSUME NEW i \in 1 .. N, \A j \in i + 1 .. N : j \in T
        PROVE  i \in T
    <3>1. \A j \in i + 1 .. N : c[j] \in S
      BY <2>1
    <3> QED BY <1>2, <1>11, <3>1
  <2> HIDE DEF T
  <2>2. \A i \in 1 .. N : i \in T
    BY <1>1, <2>1, DownFrom
  <2> QED BY <2>2 DEF T
<1>13. c \in [1 .. N -> S]
  BY <1>10, <1>12
<1> QED BY <1>11, <1>13 DEF n, c, S

\* That is the reference of the property.
LEMMA ExpandIs == Expand = Expansion(ttext, tfs)[1]
BY Zenon DEF Expand, Expansion, ExpandFrom, ExpandedToken, TokenOf, NameIn, FirstOf, Stops

-----------------------------------------------------------------------------
(* The loop over a buffer.                                                 *)

\* Whatever a buffer and what is behind it in memory hold.
Letters(b) == Alphabet \cup { b[i] : i \in Nat }
LetterEvents(b) == ({"char"} \X Letters(b)) \cup ({"token"} \X Seq(Letters(b)) \X (0 .. 1) \X Nat)

\* The states of the loop over a buffer.
TplDatas(b) ==
  [pos : Nat, token : Seq(Letters(b)), enc : 0 .. 1, buff : {b}, e : Nat \ {0}, sp : Nat,
   resume : Nat, calls : Nat, off : Nat]
TplRuns(b) == [t : TplDatas(b), out : Seq(LetterEvents(b)), stopped : 0 .. 1]

\* The fields of such a state.
Fields(s, pos, token, enc, e, sp, resume, calls, out, stopped) ==
  /\ s.t.pos = pos /\ s.t.token = token /\ s.t.enc = enc /\ s.t.e = e /\ s.t.sp = sp
  /\ s.t.resume = resume /\ s.t.calls = calls /\ s.out = out /\ s.stopped = stopped

\* One field is set.
LEMMA SetPos ==
  ASSUME NEW b, NEW s \in TplRuns(b), NEW v \in Nat, NEW r, r = [s EXCEPT !.t.pos = v]
  PROVE  /\ r \in TplRuns(b) /\ r.t.off = s.t.off
         /\ Fields(r, v, s.t.token, s.t.enc, s.t.e, s.t.sp, s.t.resume, s.t.calls, s.out, s.stopped)
BY DEF TplRuns, TplDatas, Fields

\* The token, and so on for each of the others.
LEMMA SetToken ==
  ASSUME NEW b, NEW s \in TplRuns(b), NEW v \in Seq(Letters(b)), NEW r, r = [s EXCEPT !.t.token = v]
  PROVE  /\ r \in TplRuns(b) /\ r.t.off = s.t.off
         /\ Fields(r, s.t.pos, v, s.t.enc, s.t.e, s.t.sp, s.t.resume, s.t.calls, s.out, s.stopped)
BY DEF TplRuns, TplDatas, Fields

\* The encoding.
LEMMA SetEnc ==
  ASSUME NEW b, NEW s \in TplRuns(b), NEW v \in 0 .. 1, NEW r, r = [s EXCEPT !.t.enc = v]
  PROVE  /\ r \in TplRuns(b) /\ r.t.off = s.t.off
         /\ Fields(r, s.t.pos, s.t.token, v, s.t.e, s.t.sp, s.t.resume, s.t.calls, s.out, s.stopped)
BY DEF TplRuns, TplDatas, Fields

\* The place where the text begins that is not yet sent.
LEMMA SetE ==
  ASSUME NEW b, NEW s \in TplRuns(b), NEW v \in Nat \ {0}, NEW r, r = [s EXCEPT !.t.e = v]
  PROVE  /\ r \in TplRuns(b) /\ r.t.off = s.t.off
         /\ Fields(r, s.t.pos, s.t.token, s.t.enc, v, s.t.sp, s.t.resume, s.t.calls, s.out, s.stopped)
BY DEF TplRuns, TplDatas, Fields

\* Its length.
LEMMA SetSp ==
  ASSUME NEW b, NEW s \in TplRuns(b), NEW v \in Nat, NEW r, r = [s EXCEPT !.t.sp = v]
  PROVE  /\ r \in TplRuns(b) /\ r.t.off = s.t.off
         /\ Fields(r, s.t.pos, s.t.token, s.t.enc, s.t.e, v, s.t.resume, s.t.calls, s.out, s.stopped)
BY DEF TplRuns, TplDatas, Fields

\* The place to go on from.
LEMMA SetResume ==
  ASSUME NEW b, NEW s \in TplRuns(b), NEW v \in Nat, NEW r, r = [s EXCEPT !.t.resume = v]
  PROVE  /\ r \in TplRuns(b) /\ r.t.off = s.t.off
         /\ Fields(r, s.t.pos, s.t.token, s.t.enc, s.t.e, s.t.sp, v, s.t.calls, s.out, s.stopped)
BY DEF TplRuns, TplDatas, Fields

\* How often the callback was called for this token.
LEMMA SetCalls ==
  ASSUME NEW b, NEW s \in TplRuns(b), NEW v \in Nat, NEW r, r = [s EXCEPT !.t.calls = v]
  PROVE  /\ r \in TplRuns(b) /\ r.t.off = s.t.off
         /\ Fields(r, s.t.pos, s.t.token, s.t.enc, s.t.e, s.t.sp, s.t.resume, v, s.out, s.stopped)
BY DEF TplRuns, TplDatas, Fields

\* What was sent.
LEMMA SetOut ==
  ASSUME NEW b, NEW s \in TplRuns(b), NEW v \in Seq(LetterEvents(b)), NEW r, r = [s EXCEPT !.out = v]
  PROVE  /\ r \in TplRuns(b) /\ r.t.off = s.t.off
         /\ Fields(r, s.t.pos, s.t.token, s.t.enc, s.t.e, s.t.sp, s.t.resume, s.t.calls, v, s.stopped)
BY DEF TplRuns, TplDatas, Fields

\* Whether the loop has stopped.
LEMMA SetStopped ==
  ASSUME NEW b, NEW s \in TplRuns(b), NEW v \in 0 .. 1, NEW r, r = [s EXCEPT !.stopped = v]
  PROVE  /\ r \in TplRuns(b) /\ r.t.off = s.t.off
         /\ Fields(r, s.t.pos, s.t.token, s.t.enc, s.t.e, s.t.sp, s.t.resume, s.t.calls, s.out, v)
BY DEF TplRuns, TplDatas, Fields

\* Back in the text, behind x.
LEMMA BackToTextIs ==
  ASSUME NEW b, NEW s \in TplRuns(b), NEW x \in Nat, NEW r, r = BackToText(s, x)
  PROVE  /\ r \in TplRuns(b) /\ r.t.off = s.t.off
         /\ Fields(r, 0, <<>>, s.t.enc, x + 1, s.t.sp, s.t.resume, s.t.calls, s.out, s.stopped)
<1> DEFINE u == [s EXCEPT !.t.pos = 0]
           v == [u EXCEPT !.t.token = <<>>]
           w == [v EXCEPT !.t.e = x + 1]
<1>1. r = w
  BY Zenon DEF BackToText
<1>2. /\ u \in TplRuns(b) /\ u.t.off = s.t.off
      /\ Fields(u, 0, s.t.token, s.t.enc, s.t.e, s.t.sp, s.t.resume, s.t.calls, s.out, s.stopped)
  BY SetPos
<1> HIDE DEF u
<1>3. <<>> \in Seq(Letters(b)) /\ x + 1 \in Nat \ {0}
  OBVIOUS
<1>4. /\ v \in TplRuns(b) /\ v.t.off = u.t.off
      /\ Fields(v, u.t.pos, <<>>, u.t.enc, u.t.e, u.t.sp, u.t.resume, u.t.calls, u.out, u.stopped)
  BY <1>2, <1>3, SetToken
<1> HIDE DEF v
<1>5. /\ w \in TplRuns(b) /\ w.t.off = v.t.off
      /\ Fields(w, v.t.pos, v.t.token, v.t.enc, x + 1, v.t.sp, v.t.resume, v.t.calls, v.out, v.stopped)
  BY <1>3, <1>4, SetE
<1> HIDE DEF w
<1> QED BY <1>1, <1>2, <1>4, <1>5, Zenon DEF Fields

\* The fields have their types.
LEMMA FieldTypes ==
  ASSUME NEW b, NEW s \in TplRuns(b)
  PROVE  /\ s.t.pos \in Nat /\ s.t.token \in Seq(Letters(b)) /\ s.t.enc \in 0 .. 1 /\ s.t.buff = b
         /\ s.t.e \in Nat \ {0} /\ s.t.sp \in Nat /\ s.t.resume \in Nat /\ s.t.calls \in Nat
         /\ s.t.off \in Nat /\ s.out \in Seq(LetterEvents(b)) /\ s.stopped \in 0 .. 1
BY DEF TplRuns, TplDatas

\* A piece of the buffer, and of what is behind it, is a text.
LEMMA PieceIn ==
  ASSUME NEW b, NEW e \in Nat \ {0}, NEW sp \in Nat
  PROVE  SubSeq(b, e, e + sp - 1) \in Seq(Letters(b)) /\ Len(SubSeq(b, e, e + sp - 1)) = sp
<1>1. PICK n \in Int : n = e + sp - 1
  OBVIOUS
<1>2. \A i \in e .. n : b[i] \in Letters(b)
  BY DEF Letters
<1>3. SubSeq(b, e, n) \in Seq(Letters(b)) /\ Len(SubSeq(b, e, n)) = IF e <= n THEN n - e + 1 ELSE 0
  BY <1>2, SubSeqProperties
<1> QED BY <1>1, <1>3

\* Its characters are those of the buffer.
LEMMA CharsOfPiece ==
  ASSUME NEW b, NEW e \in Nat \ {0}, NEW sp \in Nat
  PROVE  SubSeq(b, e, e + sp - 1) = [i \in 1 .. sp |-> b[e + i - 1]]
<1>1. PICK n \in Int : n = e + sp - 1
  OBVIOUS
<1>5. PICK w : w = SubSeq(b, e, n)
  OBVIOUS
<1>2. \A i \in e .. n : b[i] \in Letters(b)
  BY DEF Letters
<1>3. \A i \in 1 .. n - e + 1 : SubSeq(b, e, n)[i] = b[e + i - 1]
  BY <1>2, SubSeqProperties
<1>4. w \in Seq(Letters(b)) /\ Len(w) = sp
  BY <1>1, <1>5, PieceIn
<1> QED BY <1>1, <1>3, <1>4, <1>5

\* Its characters are events.
LEMMA LettersSent ==
  ASSUME NEW b, NEW w \in Seq(Letters(b))
  PROVE  Chars(w) \in Seq(LetterEvents(b)) /\ Len(Chars(w)) = Len(w) /\ \A k \in 1 .. Len(w) : Chars(w)[k] = Char(w[k])
<1>1. \A k \in 1 .. Len(w) : Char(w[k]) \in LetterEvents(b)
  BY DEF Char, LetterEvents
<1> QED BY <1>1 DEF Chars

\* In the text: another character, or the beginning of a token.
LEMMA InTextIs ==
  ASSUME NEW b, NEW s \in TplRuns(b), NEW x \in Nat, NEW c, NEW r, r = InText(s, x, c)
  PROVE  /\ r \in TplRuns(b) /\ r.t.off = s.t.off
         /\ c # "%" => Fields(r, s.t.pos, s.t.token, s.t.enc, s.t.e, s.t.sp + 1, s.t.resume, s.t.calls,
                              s.out, s.stopped)
         /\ c = "%" => Fields(r, 1, <<>>, s.t.enc, s.t.e, 0, s.t.resume, s.t.calls,
                              s.out \o Chars(SubSeq(b, s.t.e, s.t.e + s.t.sp - 1)), s.stopped)
<1>1. CASE c # "%"
  <2>1. r = [s EXCEPT !.t.sp = s.t.sp + 1]
    BY <1>1, Zenon DEF InText
  <2>2. s.t.sp + 1 \in Nat
    BY FieldTypes
  <2> DEFINE v == s.t.sp + 1
  <2>3. v \in Nat /\ r = [s EXCEPT !.t.sp = v]
    BY <2>1, <2>2
  <2> HIDE DEF v
  <2>4. /\ r \in TplRuns(b) /\ r.t.off = s.t.off
        /\ Fields(r, s.t.pos, s.t.token, s.t.enc, s.t.e, v, s.t.resume, s.t.calls, s.out, s.stopped)
    BY <2>3, SetSp
  <2> QED BY <1>1, <2>4, Zenon DEF v
<1>2. CASE c = "%"
  <2> DEFINE o == s.out \o Chars(SubSeq(s.t.buff, s.t.e, s.t.e + s.t.sp - 1))
             u == [s EXCEPT !.out = o]
             v == [u EXCEPT !.t.sp = 0]
             w == [v EXCEPT !.t.pos = 1]
             y == [w EXCEPT !.t.token = <<>>]
  <2>1. r = y
    BY <1>2, Zenon DEF InText
  <2>2. o = s.out \o Chars(SubSeq(b, s.t.e, s.t.e + s.t.sp - 1)) /\ o \in Seq(LetterEvents(b))
    <3>1. s.t.buff = b /\ s.out \in Seq(LetterEvents(b))
      BY FieldTypes
    <3>2. Chars(SubSeq(b, s.t.e, s.t.e + s.t.sp - 1)) \in Seq(LetterEvents(b))
      BY FieldTypes, PieceIn, LettersSent
    <3> QED BY <3>1, <3>2
  <2> HIDE DEF o
  <2>3. /\ u \in TplRuns(b) /\ u.t.off = s.t.off
        /\ Fields(u, s.t.pos, s.t.token, s.t.enc, s.t.e, s.t.sp, s.t.resume, s.t.calls, o, s.stopped)
    <3>1. o \in Seq(LetterEvents(b))
      BY <2>2
    <3> QED BY <3>1, SetOut
  <2> HIDE DEF u
  <2>4. /\ v \in TplRuns(b) /\ v.t.off = u.t.off
        /\ Fields(v, u.t.pos, u.t.token, u.t.enc, u.t.e, 0, u.t.resume, u.t.calls, u.out, u.stopped)
    BY <2>3, SetSp
  <2> HIDE DEF v
  <2>5. /\ w \in TplRuns(b) /\ w.t.off = v.t.off
        /\ Fields(w, 1, v.t.token, v.t.enc, v.t.e, v.t.sp, v.t.resume, v.t.calls, v.out, v.stopped)
    BY <2>4, SetPos
  <2> HIDE DEF w
  <2>6. /\ y \in TplRuns(b) /\ y.t.off = w.t.off
        /\ Fields(y, w.t.pos, <<>>, w.t.enc, w.t.e, w.t.sp, w.t.resume, w.t.calls, w.out, w.stopped)
    <3>1. <<>> \in Seq(Letters(b))
      OBVIOUS
    <3> QED BY <2>5, <3>1, SetToken
  <2> HIDE DEF y
  <2> QED BY <1>2, <2>1, <2>2, <2>3, <2>4, <2>5, <2>6, Zenon DEF Fields
<1> QED BY <1>1, <1>2

\* The name and the encoding that the callback is called with.
CutOff(s) == tfs = "espfs" /\ s.t.calls = 0 /\ s.t.token[1] = "h"
CallEnc(s) == IF s.t.calls # 0 THEN s.t.enc ELSE IF CutOff(s) THEN 1 ELSE 0
CallName(s) == IF CutOff(s) THEN Tail(s.t.token) ELSE s.t.token
CallEvent(s) == <<"token", CallName(s), CallEnc(s), s.t.calls>>

\* A call of the callback is sent as one event.
LEMMA CallEventIs ==
  ASSUME NEW b, NEW s \in TplRuns(b), s.t.calls = 0 => s.t.token # <<>>
  PROVE  /\ CallName(s) \in Seq(Letters(b)) /\ CallEnc(s) \in 0 .. 1 /\ CallEvent(s) \in LetterEvents(b)
         /\ Append(s.out, CallEvent(s)) \in Seq(LetterEvents(b))
<1>1. s.t.token \in Seq(Letters(b)) /\ s.t.enc \in 0 .. 1 /\ s.t.calls \in Nat /\ s.out \in Seq(LetterEvents(b))
  BY FieldTypes
<1>2. CallName(s) \in Seq(Letters(b))
  BY <1>1 DEF CallName, CutOff
<1>3. CallEnc(s) \in 0 .. 1
  BY <1>1 DEF CallEnc
<1>4. CallEvent(s) \in LetterEvents(b)
  BY <1>1, <1>2, <1>3 DEF CallEvent, LetterEvents
<1> QED BY <1>1, <1>2, <1>3, <1>4

\* The callback wants to be called again for the token, or the token is done.
LEMMA CallBackIs ==
  ASSUME NEW b, NEW s \in TplRuns(b), s.t.calls = 0 => s.t.token # <<>>, NEW x \in Nat, NEW stop, NEW r, r = CallBack(s, x, stop)
  PROVE  /\ r \in TplRuns(b) /\ r.t.off = s.t.off
         /\ stop = x => Fields(r, s.t.pos, CallName(s), CallEnc(s), s.t.e, s.t.sp, x, s.t.calls + 1,
                               Append(s.out, CallEvent(s)), 1)
         /\ stop # x => Fields(r, 0, <<>>, CallEnc(s), x + 1, s.t.sp, 0, 0, Append(s.out, CallEvent(s)), s.stopped)
<1> DEFINE o == Append(s.out, CallEvent(s))
           u == [s EXCEPT !.out = o]
<1>1. CallName(s) \in Seq(Letters(b)) /\ CallEnc(s) \in 0 .. 1 /\ o \in Seq(LetterEvents(b))
  BY CallEventIs
<1>2. s.t.calls + 1 \in Nat
  BY FieldTypes
<1> HIDE DEF o
<1>3. /\ u \in TplRuns(b) /\ u.t.off = s.t.off
      /\ Fields(u, s.t.pos, s.t.token, s.t.enc, s.t.e, s.t.sp, s.t.resume, s.t.calls, o, s.stopped)
  BY <1>1, SetOut
<1>4. CASE stop = x
  <2> DEFINE v == [u EXCEPT !.t.token = CallName(s)]
             w == [v EXCEPT !.t.enc = CallEnc(s)]
             y == [w EXCEPT !.t.calls = s.t.calls + 1]
             z == [y EXCEPT !.t.resume = x]
             a == [z EXCEPT !.stopped = 1]
  <2>1. r = a
    <3>1. r = [s EXCEPT !.out = o, !.t.token = CallName(s), !.t.enc = CallEnc(s), !.t.calls = s.t.calls + 1,
                        !.t.resume = x, !.stopped = 1]
      BY <1>4, Zenon DEF CallBack, o, CallEvent, CallName, CallEnc, CutOff
    <3> QED BY <3>1, Zenon
  <2> HIDE DEF u
  <2>3. /\ v \in TplRuns(b) /\ v.t.off = u.t.off
        /\ Fields(v, u.t.pos, CallName(s), u.t.enc, u.t.e, u.t.sp, u.t.resume, u.t.calls, u.out, u.stopped)
    BY <1>1, <1>3, SetToken
  <2> HIDE DEF v
  <2>4. /\ w \in TplRuns(b) /\ w.t.off = v.t.off
        /\ Fields(w, v.t.pos, v.t.token, CallEnc(s), v.t.e, v.t.sp, v.t.resume, v.t.calls, v.out, v.stopped)
    BY <1>1, <2>3, SetEnc
  <2> HIDE DEF w
  <2>5. /\ y \in TplRuns(b) /\ y.t.off = w.t.off
        /\ Fields(y, w.t.pos, w.t.token, w.t.enc, w.t.e, w.t.sp, w.t.resume, s.t.calls + 1, w.out, w.stopped)
    BY <1>2, <2>4, SetCalls
  <2> HIDE DEF y
  <2>6. /\ z \in TplRuns(b) /\ z.t.off = y.t.off
        /\ Fields(z, y.t.pos, y.t.token, y.t.enc, y.t.e, y.t.sp, x, y.t.calls, y.out, y.stopped)
    BY <2>5, SetResume
  <2> HIDE DEF z
  <2>7. /\ a \in TplRuns(b) /\ a.t.off = z.t.off
        /\ Fields(a, z.t.pos, z.t.token, z.t.enc, z.t.e, z.t.sp, z.t.resume, z.t.calls, z.out, 1)
    BY <2>6, SetStopped
  <2> HIDE DEF a
  <2> QED BY <1>3, <1>4, <2>1, <2>3, <2>4, <2>5, <2>6, <2>7, Zenon DEF Fields, o
<1>5. CASE stop # x
  <2> DEFINE v == [u EXCEPT !.t.enc = CallEnc(s)]
             w == [v EXCEPT !.t.calls = 0]
             y == [w EXCEPT !.t.resume = 0]
  <2>1. r = BackToText(y, x)
    <3>1. r = BackToText([s EXCEPT !.out = o, !.t.enc = CallEnc(s), !.t.calls = 0, !.t.resume = 0], x)
      BY <1>5, Zenon DEF CallBack, o, CallEvent, CallName, CallEnc, CutOff
    <3>2. y = [s EXCEPT !.out = o, !.t.enc = CallEnc(s), !.t.calls = 0, !.t.resume = 0]
      BY Zenon
    <3> HIDE DEF y
    <3> QED BY <3>1, <3>2, Zenon
  <2> HIDE DEF u
  <2>3. /\ v \in TplRuns(b) /\ v.t.off = u.t.off
        /\ Fields(v, u.t.pos, u.t.token, CallEnc(s), u.t.e, u.t.sp, u.t.resume, u.t.calls, u.out, u.stopped)
    BY <1>1, <1>3, SetEnc
  <2> HIDE DEF v
  <2>4. /\ w \in TplRuns(b) /\ w.t.off = v.t.off
        /\ Fields(w, v.t.pos, v.t.token, v.t.enc, v.t.e, v.t.sp, v.t.resume, 0, v.out, v.stopped)
    BY <2>3, SetCalls
  <2> HIDE DEF w
  <2>5. /\ y \in TplRuns(b) /\ y.t.off = w.t.off
        /\ Fields(y, w.t.pos, w.t.token, w.t.enc, w.t.e, w.t.sp, 0, w.t.calls, w.out, w.stopped)
    BY <2>4, SetResume
  <2> HIDE DEF y
  <2>6. /\ r \in TplRuns(b) /\ r.t.off = y.t.off
        /\ Fields(r, 0, <<>>, y.t.enc, x + 1, y.t.sp, y.t.resume, y.t.calls, y.out, y.stopped)
    BY <2>1, <2>5, BackToTextIs
  <2> QED BY <1>3, <1>5, <2>3, <2>4, <2>5, <2>6, Zenon DEF Fields, o
<1> QED BY <1>4, <1>5

\* %% is sent as %.
LEMMA PercentedIs ==
  ASSUME NEW b, NEW s \in TplRuns(b), NEW x \in Nat, NEW r, r = Percented(s, x)
  PROVE  /\ r \in TplRuns(b) /\ r.t.off = s.t.off
         /\ Fields(r, 0, <<>>, s.t.enc, x + 1, s.t.sp, s.t.resume, s.t.calls, Append(s.out, Char("%")), s.stopped)
<1> DEFINE o == Append(s.out, Char("%"))
           u == [s EXCEPT !.out = o]
<1>1. r = BackToText(u, x)
  BY Zenon DEF Percented
<1>2. o \in Seq(LetterEvents(b))
  <2>1. Char("%") \in LetterEvents(b)
    BY DEF Char, LetterEvents, Letters, Alphabet
  <2> QED BY <2>1, FieldTypes
<1> HIDE DEF o
<1>3. /\ u \in TplRuns(b) /\ u.t.off = s.t.off
      /\ Fields(u, s.t.pos, s.t.token, s.t.enc, s.t.e, s.t.sp, s.t.resume, s.t.calls, o, s.stopped)
  BY <1>2, SetOut
<1> HIDE DEF u
<1>4. /\ r \in TplRuns(b) /\ r.t.off = u.t.off
      /\ Fields(r, 0, <<>>, u.t.enc, x + 1, u.t.sp, u.t.resume, u.t.calls, u.out, u.stopped)
  BY <1>1, <1>3, BackToTextIs
<1> QED BY <1>3, <1>4, Zenon DEF Fields, o

\* A character of a token is collected.
LEMMA CollectedIs ==
  ASSUME NEW b, NEW s \in TplRuns(b), NEW c \in Letters(b), NEW r, r = Collected(s, c)
  PROVE  /\ r \in TplRuns(b) /\ r.t.off = s.t.off
         /\ Fields(r, s.t.pos + 1, Append(s.t.token, c), s.t.enc, s.t.e, s.t.sp, s.t.resume, s.t.calls,
                   s.out, s.stopped)
<1> DEFINE k == Append(s.t.token, c)
           u == [s EXCEPT !.t.token = k]
           v == [u EXCEPT !.t.pos = s.t.pos + 1]
<1>1. r = v
  <2>1. r = [s EXCEPT !.t.token = k, !.t.pos = s.t.pos + 1]
    BY Zenon DEF Collected
  <2> QED BY <2>1, Zenon
<1>2. k \in Seq(Letters(b)) /\ s.t.pos + 1 \in Nat
  BY FieldTypes
<1> HIDE DEF k
<1>3. /\ u \in TplRuns(b) /\ u.t.off = s.t.off
      /\ Fields(u, s.t.pos, k, s.t.enc, s.t.e, s.t.sp, s.t.resume, s.t.calls, s.out, s.stopped)
  BY <1>2, SetToken
<1> HIDE DEF u
<1>4. /\ v \in TplRuns(b) /\ v.t.off = u.t.off
      /\ Fields(v, s.t.pos + 1, u.t.token, u.t.enc, u.t.e, u.t.sp, u.t.resume, u.t.calls, u.out, u.stopped)
  BY <1>2, <1>3, SetPos
<1> HIDE DEF v
<1> QED BY <1>1, <1>3, <1>4, Zenon DEF Fields, k

\* What was taken for a token is sent as it is.
Refused1(s, c) == s.out \o <<Char("%")>> \o Chars(s.t.token) \o <<Char(c)>>

Garbled(s, c, x) == BackToText([s EXCEPT !.out = Refused1(s, c)], x)

\* The token ends and reading goes on in the text.
LEMMA GarbageIs ==
  ASSUME NEW b, NEW s \in TplRuns(b), NEW x \in Nat, NEW c \in Letters(b), NEW r, r = Garbled(s, c, x)
  PROVE  /\ r \in TplRuns(b) /\ r.t.off = s.t.off
         /\ Fields(r, 0, <<>>, s.t.enc, x + 1, s.t.sp, s.t.resume, s.t.calls, Refused1(s, c), s.stopped)
<1> DEFINE o == Refused1(s, c)
           u == [s EXCEPT !.out = o]
<1>2. o \in Seq(LetterEvents(b))
  <2>1. Char("%") \in LetterEvents(b) /\ Char(c) \in LetterEvents(b)
    BY DEF Char, LetterEvents, Letters, Alphabet
  <2>2. Chars(s.t.token) \in Seq(LetterEvents(b)) /\ s.out \in Seq(LetterEvents(b))
    BY FieldTypes, LettersSent
  <2> QED BY <2>1, <2>2 DEF Refused1
<1> HIDE DEF o
<1>3. /\ u \in TplRuns(b) /\ u.t.off = s.t.off
      /\ Fields(u, s.t.pos, s.t.token, s.t.enc, s.t.e, s.t.sp, s.t.resume, s.t.calls, o, s.stopped)
  BY <1>2, SetOut
<1>5. r = BackToText(u, x)
  BY Zenon DEF Garbled, o
<1> HIDE DEF u
<1>4. /\ r \in TplRuns(b) /\ r.t.off = u.t.off
      /\ Fields(r, 0, <<>>, u.t.enc, x + 1, u.t.sp, u.t.resume, u.t.calls, u.out, u.stopped)
  BY <1>5, <1>3, BackToTextIs
<1> QED BY <1>3, <1>4, Zenon DEF Fields, o

\* A token that was not yet given to the callback has as many characters as were collected.
TplFolds(b) == { s \in TplRuns(b) : s.t.calls = 0 /\ s.t.pos # 0 => s.t.pos = 1 + Len(s.t.token) }

\* What a character in a token may do.
TokenStep(s, x, c, stop, r) ==
  /\ c = "%" /\ s.t.pos = 1 => r = Percented(s, x)
  /\ c = "%" /\ s.t.pos # 1 => r = CallBack(s, x, stop)
  /\ c # "%" /\ tfs = "espfs" /\ Garbage(s, c) => r = Garbled(s, c, x)
  /\ c # "%" /\ tfs = "espfs" /\ ~ Garbage(s, c) => r = Collected(s, c)
  /\ c # "%" /\ tfs # "espfs" /\ s.t.pos > TokenMax => r = s
  /\ c # "%" /\ tfs # "espfs" /\ ~ (s.t.pos > TokenMax) => r = Collected(s, c)

\* TplStep in a token is such a step.
LEMMA InTokenIs ==
  ASSUME NEW s, NEW x, NEW c, NEW stop, NEW r, s.stopped = 0, s.t.pos # 0, s.t.buff[x] = c, r = TplStep(s, x, stop)
  PROVE  TokenStep(s, x, c, stop, r)
<1>1. s.stopped # 1
  OBVIOUS
<1>2. tfs = "espfs" => r = InTokenEspFs(s, x, c, stop)
  BY <1>1, Zenon DEF TplStep
<1>3. tfs # "espfs" => r = InTokenVfs(s, x, c, stop)
  BY <1>1, Zenon DEF TplStep
<1>4. CASE tfs = "espfs"
  <2>1. c = "%" /\ s.t.pos = 1 => r = Percented(s, x)
    BY <1>2, <1>4, Zenon DEF InTokenEspFs
  <2>2. c = "%" /\ s.t.pos # 1 => r = CallBack(s, x, stop)
    BY <1>2, <1>4, Zenon DEF InTokenEspFs
  <2>3. c # "%" /\ Garbage(s, c) => r = Garbled(s, c, x)
    BY <1>2, <1>4, Zenon DEF InTokenEspFs, Refused1, Garbled
  <2>4. c # "%" /\ ~ Garbage(s, c) => r = Collected(s, c)
    BY <1>2, <1>4, Zenon DEF InTokenEspFs
  <2> QED BY <1>4, <2>1, <2>2, <2>3, <2>4, Zenon DEF TokenStep
<1>5. CASE tfs # "espfs"
  <2>1. c = "%" /\ s.t.pos = 1 => r = Percented(s, x)
    BY <1>3, <1>5, Zenon DEF InTokenVfs
  <2>2. c = "%" /\ s.t.pos # 1 => r = CallBack(s, x, stop)
    BY <1>3, <1>5, Zenon DEF InTokenVfs
  <2>3. c # "%" /\ s.t.pos > TokenMax => r = s
    BY <1>3, <1>5, Zenon DEF InTokenVfs
  <2>4. c # "%" /\ ~ (s.t.pos > TokenMax) => r = Collected(s, c)
    BY <1>3, <1>5, Zenon DEF InTokenVfs
  <2> QED BY <1>5, <2>1, <2>2, <2>3, <2>4, Zenon DEF TokenStep
<1> QED BY <1>4, <1>5, Zenon

\* A step leads to a state of the loop.
LEMMA TplStepStays ==
  ASSUME NEW b, NEW s \in TplFolds(b), NEW x \in Nat, NEW stop
  PROVE  TplStep(s, x, stop) \in TplFolds(b)
<1>0. PICK r : r = TplStep(s, x, stop)
  OBVIOUS
<1>00. PICK c : c = b[x]
  OBVIOUS
<1>1. s \in TplRuns(b) /\ (s.t.calls = 0 /\ s.t.pos # 0 => s.t.pos = 1 + Len(s.t.token))
  BY DEF TplFolds
<1>2. s.t.buff[x] = c /\ c \in Letters(b) /\ s.t.pos \in Nat /\ s.stopped \in 0 .. 1 /\ s.t.token \in Seq(Letters(b))
      /\ s.t.calls \in Nat
  <2>1. c \in Letters(b)
    BY <1>00 DEF Letters
  <2>2. s.t.buff = b
    BY <1>1, FieldTypes
  <2> QED BY <1>00, <1>1, <2>1, <2>2, FieldTypes
<1>6. ASSUME r \in TplRuns(b), r.t.calls = 0 /\ r.t.pos # 0 => r.t.pos = 1 + Len(r.t.token)
      PROVE  r \in TplFolds(b)
  BY <1>6 DEF TplFolds
<1>3. CASE s.stopped = 1
  <2>1. r = s
    BY <1>0, <1>3, Zenon DEF TplStep
  <2> QED BY <1>0, <2>1
<1>4. CASE s.stopped # 1 /\ s.t.pos = 0
  <2>1. r = InText(s, x, c)
    BY <1>0, <1>2, <1>4, Zenon DEF TplStep
  <2>2. /\ r \in TplRuns(b) /\ r.t.off = s.t.off
        /\ c # "%" => Fields(r, s.t.pos, s.t.token, s.t.enc, s.t.e, s.t.sp + 1, s.t.resume, s.t.calls,
                             s.out, s.stopped)
        /\ c = "%" => Fields(r, 1, <<>>, s.t.enc, s.t.e, 0, s.t.resume, s.t.calls,
                             s.out \o Chars(SubSeq(b, s.t.e, s.t.e + s.t.sp - 1)), s.stopped)
    BY <1>1, <2>1, InTextIs
  <2>3. (c # "%" => r.t.pos = s.t.pos) /\ (c = "%" => r.t.pos = 1 /\ r.t.token = <<>>)
    BY <2>2, Zenon DEF Fields
  <2>4. r.t.pos # 0 => r.t.pos = 1 + Len(r.t.token)
    BY <1>4, <2>3
  <2>5. r \in TplFolds(b)
    BY <1>6, <2>2, <2>4
  <2> QED BY <1>0, <2>5
<1>5. CASE s.stopped # 1 /\ s.t.pos # 0
  <2>0. s.stopped = 0
    BY <1>2, <1>5
  <2>1. TokenStep(s, x, c, stop, r)
    <3>1. s.stopped = 0 /\ s.t.pos # 0 /\ s.t.buff[x] = c
      BY <1>2, <1>5, <2>0
    <3> QED BY <1>0, <3>1, InTokenIs, Zenon
  <2>2. ASSUME r = Percented(s, x) PROVE r \in TplFolds(b)
    <3>1. /\ r \in TplRuns(b) /\ r.t.off = s.t.off
          /\ Fields(r, 0, <<>>, s.t.enc, x + 1, s.t.sp, s.t.resume, s.t.calls, Append(s.out, Char("%")), s.stopped)
      BY <1>1, <2>2, PercentedIs
    <3>2. r.t.pos = 0
      BY <3>1, Zenon DEF Fields
    <3> QED BY <1>6, <3>1, <3>2
  <2>3. ASSUME r = CallBack(s, x, stop), s.t.pos # 1 PROVE r \in TplFolds(b)
    <3>1. s.t.calls = 0 => s.t.token # <<>>
      BY <1>1, <1>2, <1>5, <2>3
    <3>2. /\ r \in TplRuns(b) /\ r.t.off = s.t.off
          /\ stop = x => Fields(r, s.t.pos, CallName(s), CallEnc(s), s.t.e, s.t.sp, x, s.t.calls + 1,
                                Append(s.out, CallEvent(s)), 1)
          /\ stop # x => Fields(r, 0, <<>>, CallEnc(s), x + 1, s.t.sp, 0, 0, Append(s.out, CallEvent(s)), s.stopped)
      BY <1>1, <2>3, <3>1, CallBackIs
    <3>3. (stop = x => r.t.calls = s.t.calls + 1) /\ (stop # x => r.t.pos = 0)
      BY <3>2, Zenon DEF Fields
    <3> QED BY <1>2, <1>6, <3>2, <3>3
  <2>4. ASSUME r = Garbled(s, c, x) PROVE r \in TplFolds(b)
    <3>1. /\ r \in TplRuns(b) /\ r.t.off = s.t.off
          /\ Fields(r, 0, <<>>, s.t.enc, x + 1, s.t.sp, s.t.resume, s.t.calls, Refused1(s, c), s.stopped)
      <4>1. c \in Letters(b)
        BY <1>2
      <4>2. r \in TplRuns(b)
        BY <1>1, <2>4, <4>1, GarbageIs
      <4>3. r.t.off = s.t.off
        BY <1>1, <2>4, <4>1, GarbageIs
      <4>4. Fields(r, 0, <<>>, s.t.enc, x + 1, s.t.sp, s.t.resume, s.t.calls, Refused1(s, c), s.stopped)
        BY <1>1, <2>4, <4>1, GarbageIs
      <4> QED BY <4>2, <4>3, <4>4
    <3>2. r.t.pos = 0
      BY <3>1, Zenon DEF Fields
    <3> QED BY <1>6, <3>1, <3>2
  <2>5. ASSUME r = Collected(s, c) PROVE r \in TplFolds(b)
    <3>1. /\ r \in TplRuns(b) /\ r.t.off = s.t.off
          /\ Fields(r, s.t.pos + 1, Append(s.t.token, c), s.t.enc, s.t.e, s.t.sp, s.t.resume, s.t.calls,
                    s.out, s.stopped)
      BY <1>1, <1>2, <2>5, CollectedIs
    <3>2. r.t.pos = s.t.pos + 1 /\ r.t.token = Append(s.t.token, c) /\ r.t.calls = s.t.calls
      BY <3>1, Zenon DEF Fields
    <3>3. Len(r.t.token) = Len(s.t.token) + 1 /\ Len(s.t.token) \in Nat
      BY <1>2, <3>2
    <3>4. r.t.calls = 0 => r.t.pos = 1 + Len(r.t.token)
      BY <1>1, <1>5, <3>2, <3>3
    <3> QED BY <1>6, <3>1, <3>4
  <2>6. ASSUME r = s PROVE r \in TplFolds(b)
    BY <2>6
  <2>7. \/ r = Percented(s, x) \/ (r = CallBack(s, x, stop) /\ s.t.pos # 1)
        \/ r = Garbled(s, c, x)
        \/ r = Collected(s, c) \/ r = s
    BY <2>1, Zenon DEF TokenStep
  <2> QED BY <1>0, <2>2, <2>3, <2>4, <2>5, <2>6, <2>7, Zenon
<1> QED BY <1>0, <1>3, <1>4, <1>5

\* The loop runs over the buffer from a place on.
LoopRun(st, b, a, n, from, stop) ==
  /\ st \in [0 .. n -> TplFolds(b)] /\ st[0] = a
  /\ \A k \in 1 .. n : st[k] = TplStep(st[k - 1], from + k - 1, stop)

Looped(a, n, from, stop) ==
  FoldLeft(LAMBDA acc, x : TplStep(acc, x, stop), a, [i \in 1 .. n |-> from + i - 1])

\* Going over the buffer with a fold is such a run.
LEMMA LoopRuns ==
  ASSUME NEW b, NEW a \in TplFolds(b), NEW n \in Nat, NEW from \in Nat \ {0}, NEW stop
  PROVE  \E st : LoopRun(st, b, a, n, from, stop) /\ Looped(a, n, from, stop) = st[n]
<1> DEFINE S == TplFolds(b)
           ids == [i \in 1 .. n |-> from + i - 1]
           Step(s, k) == TplStep(s, from + k - 1, stop)
           G == [p \in (1 .. n) \X S |-> Step(p[2], p[1])]
           c == CHOOSE iter : iter = [s \in SUBSET (DOMAIN ids) |->
                  IF s = {} THEN a ELSE TplStep(iter[s \ {Max(s)}], ids[Max(s)], stop)]
           fin == c[DOMAIN ids]
<1>1. DOMAIN ids = 1 .. n /\ \A k \in 1 .. n : ids[k] = from + k - 1 /\ from + k - 1 \in Nat
  OBVIOUS
<1>2. Looped(a, n, from, stop) = fin
  BY Zenon DEF Looped, FoldLeft, MapThenFoldSet
<1> HIDE DEF ids
<1>4. ASSUME NEW k \in 1 .. n, NEW s \in S
      PROVE  G[<<k, s>>] = Step(s, k) /\ G[<<k, s>>] \in S
  <2>1. Step(s, k) \in S
    BY <1>1, TplStepStays
  <2>2. <<k, s>> \in (1 .. n) \X S
    OBVIOUS
  <2> HIDE DEF S, Step
  <2> QED BY <2>1, <2>2
<1>3. a \in S
  OBVIOUS
<1>20. ASSUME NEW k \in 1 .. n, NEW s
       PROVE  Step(s, k) = TplStep(s, ids[k], stop)
  BY <1>1
<1> HIDE DEF S, G, Step
<1>5. Leads(G, n, S)
  BY <1>4 DEF Leads
<1>6. PICK h \in [SUBSET (1 .. n) -> S] : Folds1(h, n, a, G)
  BY <1>3, <1>5, FoldExists
<1> DEFINE D(f) == [s \in SUBSET (1 .. n) |-> IF s = {} THEN a ELSE TplStep(f[s \ {Max(s)}], ids[Max(s)], stop)]
<1>7. h = D(h)
  <2> DEFINE e == [s \in SUBSET (1 .. n) |-> IF s = {} THEN a ELSE G[<<Max(s), h[s \ {Max(s)}]>>]]
  <2>1. h = e
    BY <1>6, Zenon DEF Folds1
  <2>2. ASSUME NEW s \in SUBSET (1 .. n), s # {}
        PROVE  G[<<Max(s), h[s \ {Max(s)}]>>] = TplStep(h[s \ {Max(s)}], ids[Max(s)], stop)
    <3>1. Max(s) \in 1 .. n
      BY <2>2, MaxIs
    <3>2. h[s \ {Max(s)}] \in S
      BY <1>6
    <3> QED BY <1>4, <1>20, <3>1, <3>2
  <2>3. e = D(h)
    BY <2>2
  <2> QED BY <2>1, <2>3, Zenon
<1>8. c = D(c)
  BY <1>1, <1>7, Zenon
<1>9. \A s \in SUBSET (1 .. n) : c[s] = IF s = {} THEN a ELSE TplStep(c[s \ {Max(s)}], ids[Max(s)], stop)
  <2> DEFINE d == D(c)
  <2>1. \A s \in SUBSET (1 .. n) : d[s] = IF s = {} THEN a ELSE TplStep(c[s \ {Max(s)}], ids[Max(s)], stop)
    BY Zenon
  <2>2. c = d
    BY <1>8, Zenon
  <2> HIDE DEF d, c
  <2> QED BY <2>1, <2>2, Zenon
<1> HIDE DEF c
<1>10. c[{}] = a
  BY <1>9
<1>11. ASSUME NEW s \in SUBSET (1 .. n), s # {}, c[s \ {Max(s)}] \in S
       PROVE  c[s] = G[<<Max(s), c[s \ {Max(s)}]>>]
  <2>1. Max(s) \in 1 .. n
    BY <1>11, MaxIs
  <2>3. c[s] = Step(c[s \ {Max(s)}], Max(s))
    BY <1>9, <1>11, <1>20, <2>1
  <2> QED BY <1>4, <1>11, <2>1, <2>3
<1>12. PICK st : Steps(st, n, S, a, G) /\ c[1 .. n] = st[n]
  <2>1. FoldSteps(c, n, S, G)
    BY <1>11 DEF FoldSteps
  <2> QED BY <1>3, <1>5, <1>10, <2>1, FoldRuns
<1>13. /\ st \in [0 .. n -> S] /\ st[0] = a /\ \A k \in 1 .. n : st[k] = G[<<k, st[k - 1]>>]
  BY <1>12 DEF Steps
<1>14. ASSUME NEW k \in 1 .. n
       PROVE  st[k] = Step(st[k - 1], k)
  <2>1. k - 1 \in 0 .. n
    OBVIOUS
  <2>2. st[k - 1] \in S
    BY <1>13, <2>1
  <2> QED BY <1>4, <1>13, <2>2
<1>15. fin = st[n]
  BY <1>1, <1>12
<1> HIDE DEF fin
<1>16. Looped(a, n, from, stop) = st[n]
  BY <1>2, <1>15
<1>17. LoopRun(st, b, a, n, from, stop)
  BY <1>13, <1>14, Zenon DEF LoopRun, S, Step
<1> QED BY <1>16, <1>17

-----------------------------------------------------------------------------
(* What the loop keeps.                                                    *)

\* What is sent and what the text expands to from i on make up the whole.
SoFar(out, text, fs, i) ==
  /\ i \in 1 .. Len(text) + 1
  /\ out \o Expansion(text, fs)[i] = Expansion(text, fs)[1]

\* A character in the text.
LEMMA SoFarChar ==
  ASSUME NEW text \in Texts, NEW fs, NEW i \in 1 .. Len(text), NEW out \in Seq(TplEvents),
         SoFar(out, text, fs, i), text[i] # "%"
  PROVE  SoFar(Append(out, Char(text[i])), text, fs, i + 1)
<1> DEFINE F == Expansion(text, fs)
<1>1. Len(text) \in Nat /\ text[i] \in Alphabet
  BY TextsAre
<1>2. F[i] = <<Char(text[i])>> \o F[i + 1]
  <2>1. F[i] = ExpandFrom(F, text, fs, i)
    BY ExpansionIs
  <2>2. i # Len(text) + 1
    BY <1>1
  <2> HIDE DEF F
  <2> QED BY <2>1, <2>2, Zenon DEF ExpandFrom
<1>3. F[i + 1] \in Seq(TplEvents) /\ Char(text[i]) \in TplEvents
  <2>1. i + 1 \in 1 .. Len(text) + 1
    BY <1>1
  <2> QED BY <1>1, <2>1, ExpansionIs DEF Char, TplEvents
<1>4. out \o F[i] = F[1]
  BY DEF SoFar
<1> HIDE DEF F
<1>5. \A u \in TplEvents, w \in Seq(TplEvents) : Append(out, u) \o w = out \o (<<u>> \o w)
  OBVIOUS
<1>6. Append(out, Char(text[i])) \o F[i + 1] = F[1]
  BY <1>2, <1>3, <1>4, <1>5
<1> QED BY <1>1, <1>6 DEF SoFar, F

\* A token that ends at j.
LEMMA SoFarToken ==
  ASSUME NEW text \in Texts, NEW fs, NEW i \in 1 .. Len(text), NEW out \in Seq(TplEvents),
         SoFar(out, text, fs, i), text[i] = "%", NEW j \in Stops(text, fs, i),
         \A k \in i + 1 .. j - 1 : k \notin Stops(text, fs, i)
  PROVE  SoFar(out \o ExpandedToken(text, fs, i, j), text, fs, j + 1)
<1> DEFINE F == Expansion(text, fs)
<1>1. Len(text) \in Nat /\ j \in i + 1 .. Len(text)
  <2>1. j \in i + 1 .. Len(text)
    BY DEF Stops
  <2> QED BY <2>1, TextsAre
<1>0. FirstOf(Stops(text, fs, i)) = j
  <2>1. Stops(text, fs, i) # {}
    OBVIOUS
  <2> DEFINE k == FirstOf(Stops(text, fs, i))
  <2>2. k \in Stops(text, fs, i) /\ k \in i + 1 .. Len(text) /\ k <= j
    BY <2>1, StopsAre
  <2> HIDE DEF k
  <2>3. k = j
    BY <1>1, <2>2
  <2> QED BY <2>3 DEF k
<1>2. F[i] = ExpandedToken(text, fs, i, j) \o F[j + 1]
  <2>1. F[i] = ExpandFrom(F, text, fs, i)
    BY ExpansionIs
  <2>2. i # Len(text) + 1 /\ Stops(text, fs, i) # {}
    BY <1>1
  <2> HIDE DEF F
  <2> QED BY <1>0, <2>1, <2>2, Zenon DEF ExpandFrom
<1>3. F[j + 1] \in Seq(TplEvents) /\ ExpandedToken(text, fs, i, j) \in Seq(TplEvents)
  <2>1. j + 1 \in 1 .. Len(text) + 1
    BY <1>1
  <2> QED BY <1>1, <2>1, ExpansionIs, ExpandedIs
<1>4. out \o F[i] = F[1]
  BY DEF SoFar
<1> HIDE DEF F
<1>5. \A u \in Seq(TplEvents), w \in Seq(TplEvents) : (out \o u) \o w = out \o (u \o w)
  OBVIOUS
<1>6. (out \o ExpandedToken(text, fs, i, j)) \o F[j + 1] = F[1]
  BY <1>2, <1>3, <1>4, <1>5
<1> QED BY <1>1, <1>6 DEF SoFar, F

\* At the end of the text everything is sent; a token that does not end is left out.
LEMMA SoFarEnd ==
  ASSUME NEW text \in Texts, NEW fs, NEW i, NEW out \in Seq(TplEvents), SoFar(out, text, fs, i),
         i = Len(text) + 1 \/ (text[i] = "%" /\ Stops(text, fs, i) = {})
  PROVE  out = Expansion(text, fs)[1]
<1> DEFINE F == Expansion(text, fs)
<1>1. i \in 1 .. Len(text) + 1 /\ out \o F[i] = F[1]
  BY DEF SoFar
<1>2. F[i] = ExpandFrom(F, text, fs, i)
  BY <1>1, ExpansionIs
<1> HIDE DEF F
<1>3. F[i] = <<>>
  BY <1>2 DEF ExpandFrom
<1>4. out \o <<>> = out
  OBVIOUS
<1> QED BY <1>1, <1>3, <1>4 DEF F

\* What is sent is a part of it.
LEMMA SoFarPart ==
  ASSUME NEW text \in Texts, NEW fs, NEW i, NEW out \in Seq(TplEvents), SoFar(out, text, fs, i)
  PROVE  IsPrefix(out, Expansion(text, fs)[1])
<1> DEFINE w == Expansion(text, fs)[i]
<1>1. w \in Seq(TplEvents) /\ out \o w = Expansion(text, fs)[1]
  BY ExpansionIs DEF SoFar
<1> HIDE DEF w
<1>3. w \in Seq(TplEvents) /\ Len(w) \in Nat /\ Len(out) \in Nat
  BY <1>1
<1>2. IsPrefix(out, out \o w)
  <2> DEFINE u == out \o w
  <2>1. u \in Seq(TplEvents) /\ Len(u) = Len(out) + Len(w)
    BY <1>3
  <2>3. \A k \in 1 .. Len(out) : u[k] = out[k]
    <3> SUFFICES ASSUME NEW k \in 1 .. Len(out) PROVE (out \o w)[k] = out[k]
      OBVIOUS
    <3> QED BY <1>3
  <2> HIDE DEF u
  <2>2. SubSeq(u, 1, Len(out)) = SubSeq(out, 1, Len(out))
    BY <2>1, <2>3, <1>3
  <2> QED BY <1>3, <2>1, <2>2 DEF IsPrefix, u
<1> QED BY <1>1, <1>2

\* One more character of a piece.
LEMMA OneMore ==
  ASSUME NEW b, NEW e \in Nat \ {0}, NEW sp \in Nat
  PROVE  Chars(SubSeq(b, e, e + (sp + 1) - 1)) = Append(Chars(SubSeq(b, e, e + sp - 1)), Char(b[e + sp]))
<1> DEFINE u == SubSeq(b, e, e + sp - 1)
           v == SubSeq(b, e, e + (sp + 1) - 1)
<1>1. u \in Seq(Letters(b)) /\ Len(u) = sp /\ \A i \in 1 .. sp : u[i] = b[e + i - 1]
  <2>1. u \in Seq(Letters(b)) /\ Len(u) = sp
    BY PieceIn
  <2>2. u = [i \in 1 .. sp |-> b[e + i - 1]]
    BY CharsOfPiece
  <2> HIDE DEF u
  <2> QED BY <2>1, <2>2
<1>2. v \in Seq(Letters(b)) /\ Len(v) = sp + 1 /\ \A i \in 1 .. sp + 1 : v[i] = b[e + i - 1]
  <2> DEFINE m == sp + 1
  <2>0. m \in Nat
    OBVIOUS
  <2> HIDE DEF m
  <2>1. SubSeq(b, e, e + m - 1) \in Seq(Letters(b)) /\ Len(SubSeq(b, e, e + m - 1)) = m
    BY <2>0, PieceIn
  <2>2. SubSeq(b, e, e + m - 1) = [i \in 1 .. m |-> b[e + i - 1]]
    BY <2>0, CharsOfPiece
  <2>3. v = SubSeq(b, e, e + m - 1)
    BY DEF m
  <2> HIDE DEF v
  <2> QED BY <2>1, <2>2, <2>3 DEF m
<1> HIDE DEF u, v
<1>3. Chars(u) \in Seq(LetterEvents(b)) /\ Len(Chars(u)) = sp /\ \A k \in 1 .. sp : Chars(u)[k] = Char(b[e + k - 1])
  <2>1. Chars(u) \in Seq(LetterEvents(b)) /\ Len(Chars(u)) = Len(u) /\ \A k \in 1 .. Len(u) : Chars(u)[k] = Char(u[k])
    BY <1>1, LettersSent
  <2> QED BY <1>1, <2>1
<1>4. Chars(v) \in Seq(LetterEvents(b)) /\ Len(Chars(v)) = sp + 1 /\ \A k \in 1 .. sp + 1 : Chars(v)[k] = Char(b[e + k - 1])
  <2>1. Chars(v) \in Seq(LetterEvents(b)) /\ Len(Chars(v)) = Len(v) /\ \A k \in 1 .. Len(v) : Chars(v)[k] = Char(v[k])
    BY <1>2, LettersSent
  <2> QED BY <1>2, <2>1
<1> DEFINE f == Chars(u)
           g == Chars(v)
           ch == Char(b[e + sp])
           h == Append(f, ch)
<1>5. f \in Seq(LetterEvents(b)) /\ Len(f) = sp /\ g \in Seq(LetterEvents(b)) /\ Len(g) = sp + 1
      /\ (\A k \in 1 .. sp : g[k] = f[k]) /\ g[sp + 1] = ch
  BY <1>3, <1>4
<1> HIDE DEF f, g, ch
<1>6. g = Append(f, ch)
  BY <1>5
<1> QED BY <1>6 DEF f, g, ch, u, v

\* Nothing to send.
LEMMA NoPieceLeft ==
  ASSUME NEW b, NEW e \in Nat \ {0}
  PROVE  Chars(SubSeq(b, e, e + 0 - 1)) = <<>>
<1> DEFINE u == SubSeq(b, e, e + 0 - 1)
<1>1. u \in Seq(Letters(b)) /\ Len(u) = 0
  BY PieceIn
<1> HIDE DEF u
<1> QED BY <1>1 DEF Chars, u

\* A character that no token has.
Blank(c) == c = " "

\* A token that began at i and has not ended at q.
TokenAt(text, fs, i, q, token) ==
  /\ i \in 1 .. q /\ q \in 1 .. Len(text) /\ text[i] = "%"
  /\ \A k \in i + 1 .. q : k \notin Stops(text, fs, i)
  /\ token = NameIn(text, i, q + 1)

\* Its name is what was read of it.
LEMMA TokenIs ==
  ASSUME NEW text \in Texts, NEW fs, NEW i \in Nat, NEW q \in Nat, NEW token \in Seq(Alphabet), TokenAt(text, fs, i, q, token)
  PROVE  /\ Len(text) \in Nat /\ q \in 1 .. Len(text) /\ i \in 1 .. q /\ TokenMax \in Nat \ {0}
         /\ token \in Seq(Alphabet)
         /\ Len(token) = (IF q < i + TokenMax THEN q - i ELSE TokenMax)
         /\ \A k \in 1 .. Len(token) : token[k] = text[i + k]
<1>1. Len(text) \in Nat /\ q \in 1 .. Len(text) /\ i \in 1 .. q /\ TokenMax \in Nat \ {0} /\ token = NameIn(text, i, q + 1)
  BY TextsAre, TemplateAssumption DEF TokenAt
<1> DEFINE j == q + 1
<1>2. i \in 1 .. Len(text) /\ j \in i + 1 .. Len(text) + 1 /\ token = NameIn(text, i, j) /\ j - 1 = q
  BY <1>1
<1> HIDE DEF j
<1>3. /\ NameIn(text, i, j) \in Seq(Alphabet)
      /\ Len(NameIn(text, i, j)) = (IF j - 1 < i + TokenMax THEN j - 1 - i ELSE TokenMax)
      /\ \A k \in 1 .. Len(NameIn(text, i, j)) : NameIn(text, i, j)[k] = text[i + k]
  BY <1>2, NameIs
<1> QED BY <1>1, <1>2, <1>3

\* Two sequences with the same items.
LEMMA SameName ==
  ASSUME NEW u \in Seq(Alphabet), NEW v \in Seq(Alphabet), Len(u) = Len(v),
         \A k \in 1 .. Len(u) : u[k] = v[k]
  PROVE  u = v
OBVIOUS

\* A token begins.
LEMMA TokenBegins ==
  ASSUME NEW text \in Texts, NEW fs, NEW q \in 1 .. Len(text), text[q] = "%"
  PROVE  TokenAt(text, fs, q, q, <<>>)
<1>1. Len(text) \in Nat /\ TokenMax \in Nat \ {0}
  BY TextsAre, TemplateAssumption
<1> DEFINE j == q + 1
           u == NameIn(text, q, j)
<1>2. j \in q + 1 .. Len(text) + 1 /\ j - 1 = q
  BY <1>1
<1>3. u \in Seq(Alphabet) /\ Len(u) = (IF j - 1 < q + TokenMax THEN j - 1 - q ELSE TokenMax)
  BY <1>2, NameIs
<1>4. Len(u) = 0
  BY <1>1, <1>2, <1>3
<1>5. u = <<>>
  <2> HIDE DEF u
  <2> QED BY <1>3, <1>4
<1>6. \A k \in q + 1 .. q : k \notin Stops(text, fs, q)
  BY <1>1
<1> QED BY <1>1, <1>5, <1>6 DEF TokenAt

\* A token goes on.
LEMMA TokenGoesOn ==
  ASSUME NEW text \in Texts, NEW fs, NEW i \in Nat, NEW q \in Nat, NEW token \in Seq(Alphabet), TokenAt(text, fs, i, q, token),
         q < Len(text), text[q + 1] # "%", ~ (fs = "espfs" /\ (Blank(text[q + 1]) \/ TokenMax <= Len(token)))
  PROVE  /\ Len(token) < TokenMax => TokenAt(text, fs, i, q + 1, Append(token, text[q + 1]))
         /\ ~ (Len(token) < TokenMax) => TokenAt(text, fs, i, q + 1, token)
<1>1. /\ Len(text) \in Nat /\ q \in 1 .. Len(text) /\ i \in 1 .. q /\ TokenMax \in Nat \ {0}
      /\ token \in Seq(Alphabet) /\ Len(token) \in Nat
      /\ Len(token) = (IF q < i + TokenMax THEN q - i ELSE TokenMax)
      /\ \A k \in 1 .. Len(token) : token[k] = text[i + k]
  BY TokenIs
<1> DEFINE p == q + 1
           j == p + 1
           u == NameIn(text, i, j)
           c == text[p]
           l == Len(token)
<1>2. /\ p \in 1 .. Len(text) /\ i \in 1 .. p /\ i \in 1 .. Len(text) /\ j \in i + 1 .. Len(text) + 1 /\ j - 1 = p
      /\ c \in Alphabet
  <2>1. p \in 1 .. Len(text) /\ i \in 1 .. p /\ i \in 1 .. Len(text) /\ j \in i + 1 .. Len(text) + 1 /\ j - 1 = p
    BY <1>1
  <2> QED BY <2>1, TextsAre
<1>3. /\ u \in Seq(Alphabet) /\ Len(u) = (IF p < i + TokenMax THEN p - i ELSE TokenMax)
      /\ \A k \in 1 .. Len(u) : u[k] = text[i + k]
  <2>1. /\ u \in Seq(Alphabet) /\ Len(u) = (IF j - 1 < i + TokenMax THEN j - 1 - i ELSE TokenMax)
        /\ \A k \in 1 .. Len(u) : u[k] = text[i + k]
    BY <1>2, NameIs
  <2> HIDE DEF u, j
  <2> QED BY <1>2, <2>1
<1>4. p \notin Stops(text, fs, i)
  <2>1. fs = "espfs" => p - i <= TokenMax
    BY <1>1
  <2>2. c # "%" /\ ~ (fs = "espfs" /\ Blank(c))
    OBVIOUS
  <2>3. ~ (fs = "espfs" /\ p - i > TokenMax)
    BY <1>1, <1>2, <2>1
  <2> HIDE DEF p
  <2> QED BY <2>2, <2>3, Zenon DEF Stops, c, Blank
<1>5. \A k \in i + 1 .. p : k \notin Stops(text, fs, i)
  <2>1. \A k \in i + 1 .. q : k \notin Stops(text, fs, i)
    BY DEF TokenAt
  <2>2. \A k \in i + 1 .. p : k \in i + 1 .. q \/ k = p
    BY <1>1
  <2> QED BY <1>4, <2>1, <2>2
<1>6. text[i] = "%"
  BY DEF TokenAt
<1>7. CASE Len(token) < TokenMax
  <2>1. q < i + TokenMax /\ l = q - i /\ Len(u) = l + 1 /\ i + (l + 1) = p
    BY <1>1, <1>3, <1>7
  <2> DEFINE v == Append(token, c)
  <2>2. v \in Seq(Alphabet) /\ Len(v) = l + 1 /\ v[l + 1] = c /\ \A k \in 1 .. l : v[k] = token[k]
    <3> HIDE DEF c
    <3> QED BY <1>1, <1>2
  <2>3. \A k \in 1 .. l + 1 : v[k] = u[k]
    <3> SUFFICES ASSUME NEW k \in 1 .. l + 1
                 PROVE  v[k] = u[k]
      OBVIOUS
    <3>1. u[k] = text[i + k]
      BY <1>3, <2>1
    <3>2. CASE k = l + 1
      <4>1. i + k = p
        BY <2>1, <3>2
      <4> HIDE DEF v, u, p
      <4> QED BY <2>2, <3>1, <3>2, <4>1 DEF c
    <3>3. CASE k # l + 1
      <4>1. k \in 1 .. l
        BY <1>1, <3>3
      <4> HIDE DEF v, u, p
      <4> QED BY <1>1, <2>2, <3>1, <4>1
    <3> QED BY <3>2, <3>3
  <2> HIDE DEF v, u
  <2>4. v = u
    BY <1>3, <2>1, <2>2, <2>3, SameName
  <2>5. TokenAt(text, fs, i, p, v)
    BY <1>2, <1>5, <1>6, <2>4 DEF TokenAt, u
  <2> QED BY <1>7, <2>5 DEF v
<1>8. CASE ~ (Len(token) < TokenMax)
  <2>1. l = TokenMax /\ Len(u) = l /\ \A k \in 1 .. l : token[k] = u[k]
    <3>1. l = TokenMax /\ Len(u) = l
      BY <1>1, <1>3, <1>8
    <3> HIDE DEF u
    <3> QED BY <1>1, <1>3, <3>1
  <2> HIDE DEF u
  <2>2. token = u
    BY <1>1, <1>3, <2>1, SameName
  <2>3. TokenAt(text, fs, i, p, token)
    BY <1>2, <1>5, <1>6, <2>2 DEF TokenAt, u
  <2> QED BY <1>8, <2>3
<1> QED BY <1>7, <1>8

\* The event of a token with this name.
NamedToken(fs, token) ==
  IF fs = "espfs" /\ token[1] = "h" THEN <<"token", Tail(token), 1, 0>> ELSE <<"token", token, 0, 0>>

\* A token is closed.
LEMMA TokenCloses ==
  ASSUME NEW text \in Texts, NEW fs, NEW i \in Nat, NEW q \in Nat, NEW token \in Seq(Alphabet), TokenAt(text, fs, i, q, token),
         q < Len(text), text[q + 1] = "%"
  PROVE  /\ q + 1 \in Stops(text, fs, i)
         /\ ExpandedToken(text, fs, i, q + 1) = IF token = <<>> THEN <<Char("%")>> ELSE <<NamedToken(fs, token)>>
<1>1. /\ Len(text) \in Nat /\ q \in 1 .. Len(text) /\ i \in 1 .. q /\ TokenMax \in Nat \ {0}
      /\ token \in Seq(Alphabet) /\ Len(token) \in Nat
      /\ Len(token) = (IF q < i + TokenMax THEN q - i ELSE TokenMax)
  BY TokenIs
<1>2. q + 1 \in i + 1 .. Len(text)
  BY <1>1
<1>3. q + 1 \in Stops(text, fs, i)
  BY <1>2, Zenon DEF Stops
<1>4. token = <<>> <=> q + 1 = i + 1
  <2>1. token = <<>> <=> Len(token) = 0
    BY <1>1
  <2>2. Len(token) = 0 <=> q + 1 = i + 1
    BY <1>1
  <2> QED BY <2>1, <2>2
<1>5. token = NameIn(text, i, q + 1)
  BY DEF TokenAt
<1>6. TokenOf(text, fs, i, q + 1) = NamedToken(fs, token)
  BY <1>5, Zenon DEF TokenOf, NamedToken
<1>7. CASE token = <<>>
  BY <1>3, <1>4, <1>7 DEF ExpandedToken
<1>8. CASE token # <<>>
  <2>1. ExpandedToken(text, fs, i, q + 1) = <<TokenOf(text, fs, i, q + 1)>>
    BY <1>4, <1>8 DEF ExpandedToken
  <2> QED BY <1>3, <1>6, <1>8, <2>1
<1> QED BY <1>7, <1>8

\* A token is broken.
LEMMA TokenBreaks ==
  ASSUME NEW text \in Texts, NEW i \in Nat, NEW q \in Nat, NEW token \in Seq(Alphabet), TokenAt(text, "espfs", i, q, token),
         q < Len(text), text[q + 1] # "%", Blank(text[q + 1]) \/ TokenMax <= Len(token)
  PROVE  /\ q + 1 \in Stops(text, "espfs", i)
         /\ ExpandedToken(text, "espfs", i, q + 1) = <<Char("%")>> \o Chars(token) \o <<Char(text[q + 1])>>
<1>1. /\ Len(text) \in Nat /\ q \in 1 .. Len(text) /\ i \in 1 .. q /\ TokenMax \in Nat \ {0}
      /\ token \in Seq(Alphabet) /\ Len(token) \in Nat
      /\ Len(token) = (IF q < i + TokenMax THEN q - i ELSE TokenMax)
      /\ \A k \in 1 .. Len(token) : token[k] = text[i + k]
  BY TokenIs
<1>2. q + 1 \in i + 1 .. Len(text)
  BY <1>1
<1>3. Blank(text[q + 1]) \/ (q + 1) - i > TokenMax
  <2>1. TokenMax <= Len(token) => (q + 1) - i > TokenMax
    BY <1>1
  <2> QED BY <2>1
<1>4. q + 1 \in Stops(text, "espfs", i)
  BY <1>2, <1>3, Zenon DEF Stops, Blank
<1>5. Len(token) = q - i
  <2>1. CASE q = i
    BY <1>1, <2>1
  <2>2. CASE q # i
    <3>1. q \in i + 1 .. q /\ q \in i + 1 .. Len(text)
      BY <1>1, <2>2
    <3>2. q \notin Stops(text, "espfs", i)
      BY <3>1 DEF TokenAt
    <3>3. ~ (q - i > TokenMax)
      BY <3>1, <3>2, Zenon DEF Stops
    <3> QED BY <1>1, <3>3
  <2> QED BY <2>1, <2>2
<1> DEFINE l == Len(token)
           p == q + 1
           u == SubSeq(text, i, p)
           c == text[p]
<1>6. text \in Seq(Alphabet) /\ c \in Alphabet /\ "%" \in Alphabet
  <2>1. p \in 1 .. Len(text)
    BY <1>1
  <2>2. "%" \in Alphabet
    BY Zenon DEF Alphabet
  <2> QED BY <2>1, <2>2, TextsAre
<1>7. u \in Seq(Alphabet) /\ Len(u) = l + 2 /\ \A k \in 1 .. l + 2 : u[k] = text[i + k - 1]
  <2>1. i \in 1 .. Len(text) /\ p \in 1 .. Len(text) /\ i <= p /\ p - i + 1 = l + 2
    BY <1>1, <1>5
  <2>2. u \in Seq(Alphabet) /\ Len(u) = p - i + 1
    <3> HIDE DEF p, l
    <3> QED BY <1>6, <2>1
  <2>3. \A k \in 1 .. p - i + 1 : u[k] = text[i + k - 1]
    <3> HIDE DEF p, l
    <3> QED BY <1>6, <2>1
  <2> HIDE DEF u, p, l
  <2> QED BY <2>1, <2>2, <2>3
<1>8. Chars(u) \in Seq(TplEvents) /\ Len(Chars(u)) = l + 2 /\ \A k \in 1 .. l + 2 : Chars(u)[k] = Char(u[k])
  <2> HIDE DEF u
  <2>1. Chars(u) \in Seq(TplEvents) /\ Len(Chars(u)) = Len(u) /\ \A k \in 1 .. Len(u) : Chars(u)[k] = Char(u[k])
    BY <1>7, CharsAre
  <2> QED BY <1>7, <2>1
<1>9. Chars(token) \in Seq(TplEvents) /\ Len(Chars(token)) = l /\ \A k \in 1 .. l : Chars(token)[k] = Char(token[k])
  BY <1>1, CharsAre
<1>10. Char("%") \in TplEvents /\ Char(c) \in TplEvents
  <2> HIDE DEF c
  <2> QED BY <1>6 DEF Char, TplEvents
<1> DEFINE f == Chars(u)
           g == Chars(token)
           a == Char("%")
           z == Char(c)
<1>11. f[1] = a /\ f[l + 2] = z /\ \A k \in 1 .. l : f[k + 1] = g[k]
  <2>1. 1 \in 1 .. l + 2 /\ l + 2 \in 1 .. l + 2 /\ i + (l + 2) - 1 = p /\ i + 1 - 1 = i
    BY <1>1, <1>5
  <2>2. text[i] = "%"
    BY DEF TokenAt
  <2> HIDE DEF u, p
  <2>3. u[1] = "%" /\ u[l + 2] = c
    BY <1>7, <2>1, <2>2
  <2>4. ASSUME NEW k \in 1 .. l
        PROVE  f[k + 1] = g[k]
    <3>1. k + 1 \in 1 .. l + 2 /\ i + (k + 1) - 1 = i + k
      BY <1>1
    <3>2. u[k + 1] = token[k]
      BY <1>1, <1>7, <3>1
    <3> HIDE DEF l
    <3> QED BY <1>8, <1>9, <3>1, <3>2
  <2> QED BY <1>8, <2>1, <2>3, <2>4
<1>12. f \in Seq(TplEvents) /\ g \in Seq(TplEvents) /\ a \in TplEvents /\ z \in TplEvents /\ l \in Nat /\ Len(f) = l + 2 /\ Len(g) = l
  BY <1>1, <1>8, <1>9, <1>10
<1> HIDE DEF f, g, a, z, l
<1>13. f = <<a>> \o g \o <<z>>
  <2> DEFINE h == <<a>> \o g \o <<z>>
  <2>1. h \in Seq(TplEvents) /\ Len(h) = l + 2
    BY <1>12
  <2>2. h[1] = a /\ h[l + 2] = z /\ \A k \in 1 .. l : h[k + 1] = g[k]
    BY <1>12
  <2> HIDE DEF h
  <2>3. ASSUME NEW k \in 1 .. l + 2
        PROVE  f[k] = h[k]
    <3>1. k = 1 \/ k = l + 2 \/ ((k - 1) \in 1 .. l /\ (k - 1) + 1 = k)
      BY <1>12
    <3>2. CASE k = 1
      BY <1>11, <2>2, <3>2
    <3>3. CASE k = l + 2
      BY <1>11, <2>2, <3>3
    <3>4. CASE (k - 1) \in 1 .. l /\ (k - 1) + 1 = k
      BY <1>11, <2>2, <3>4
    <3> QED BY <3>1, <3>2, <3>3, <3>4
  <2>4. f = h
    BY <1>12, <2>1, <2>3
  <2> QED BY <2>4 DEF h
<1>14. ExpandedToken(text, "espfs", i, p) = f
  <2> HIDE DEF p
  <2> QED BY DEF ExpandedToken, f, u, p
<1> QED BY <1>4, <1>13, <1>14 DEF f, g, a, z

\* The buffer is the text behind base.
Window(b, text, base) ==
  /\ base \in Nat /\ b \in Seq(Alphabet) /\ base + Len(b) <= Len(text)
  /\ \A k \in 1 .. Len(b) : b[k] = text[base + k]

\* Outside a token, when x characters of the buffer were read.
InTextAt(s, b, text, fs, base, x) ==
  /\ s.t.pos = 0 /\ s.t.token = <<>> /\ s.t.calls = 0 /\ s.t.resume = 0 /\ s.t.e + s.t.sp = x + 1
  /\ SoFar(Merged(s.out) \o Chars(SubSeq(b, s.t.e, s.t.e + s.t.sp - 1)), text, fs, base + x + 1)

\* In a token, when q characters of the text were read.
InTokenAt(s, text, fs, q) ==
  /\ s.t.calls = 0 /\ s.t.resume = 0 /\ s.t.sp = 0 /\ s.t.pos = 1 + Len(s.t.token)
  /\ \E i \in Nat : TokenAt(text, fs, i, q, s.t.token) /\ SoFar(Merged(s.out), text, fs, i)

\* At the end of a token whose callback is to be called again.
AgainAt(s, b, text, fs, base) ==
  /\ s.t.calls # 0 /\ s.t.sp = 0 /\ s.t.pos \in 2 .. TokenMax + 1
  /\ s.t.resume \in 1 .. Len(b) /\ text[base + s.t.resume] = "%"
  /\ s.t.token \in Seq(Alphabet)
  /\ Len(s.out) # 0 /\ s.out[Len(s.out)] = <<"token", s.t.token, s.t.enc, s.t.calls - 1>>
  /\ SoFar(Merged(s.out), text, fs, base + s.t.resume + 1)

\* The state of the loop when x characters of the buffer were read.
TplAt(s, b, text, fs, base, x) ==
  /\ s \in TplRuns(b) /\ s.out \in Seq(TplEvents) /\ s.t.e + s.t.sp <= Len(b) + 1
  /\ \/ s.stopped = 1 /\ AgainAt(s, b, text, fs, base)
     \/ s.stopped = 0 /\ InTextAt(s, b, text, fs, base, x)
     \/ s.stopped = 0 /\ InTokenAt(s, text, fs, base + x)
     \/ s.stopped = 0 /\ AgainAt(s, b, text, fs, base) /\ s.t.resume = x + 1

\* A piece of the buffer.
LEMMA PieceOf ==
  ASSUME NEW b \in Seq(Alphabet), NEW e \in Nat \ {0}, NEW sp \in Nat, e + sp <= Len(b) + 1
  PROVE  SubSeq(b, e, e + sp - 1) \in Seq(Alphabet) /\ Len(SubSeq(b, e, e + sp - 1)) = sp
<1>1. \A i \in 1 .. sp : b[e + i - 1] \in Alphabet
  <2> SUFFICES ASSUME NEW i \in 1 .. sp PROVE b[e + i - 1] \in Alphabet
    OBVIOUS
  <2>1. e + i - 1 \in 1 .. Len(b)
    OBVIOUS
  <2> QED BY <2>1
<1> DEFINE f == [i \in 1 .. sp |-> b[e + i - 1]]
<1>2. f \in Seq(Alphabet) /\ Len(f) = sp
  BY <1>1
<1>3. SubSeq(b, e, e + sp - 1) = f
  <2>1. SubSeq(b, e, e + sp - 1) = [i \in 1 .. sp |-> b[e + i - 1]]
    BY CharsOfPiece
  <2> QED BY <2>1, Zenon
<1> HIDE DEF f
<1> QED BY <1>2, <1>3, Zenon

\* One more behind two sequences.
LEMMA AppendToSecond ==
  ASSUME NEW u \in Seq(TplEvents), NEW v \in Seq(TplEvents), NEW a \in TplEvents
  PROVE  Append(u \o v, a) = u \o Append(v, a)
<1> DEFINE f == Append(u \o v, a)
           g == u \o Append(v, a)
           n == Len(u) + Len(v)
<1>1. Len(u) \in Nat /\ Len(v) \in Nat /\ u \o v \in Seq(TplEvents) /\ Len(u \o v) = n /\ Append(v, a) \in Seq(TplEvents)
      /\ Len(Append(v, a)) = Len(v) + 1
  OBVIOUS
<1>2. f \in Seq(TplEvents) /\ g \in Seq(TplEvents) /\ Len(f) = n + 1 /\ Len(g) = n + 1
  BY <1>1
<1>3. ASSUME NEW k \in 1 .. n + 1
      PROVE  f[k] = g[k]
  <2>1. CASE k \in 1 .. Len(u)
    BY <1>1, <2>1
  <2>2. CASE k \in Len(u) + 1 .. n
    <3>1. f[k] = (u \o v)[k] /\ (u \o v)[k] = v[k - Len(u)]
      BY <1>1, <2>2
    <3>2. g[k] = Append(v, a)[k - Len(u)] /\ Append(v, a)[k - Len(u)] = v[k - Len(u)]
      BY <1>1, <2>2
    <3> QED BY <3>1, <3>2
  <2>3. CASE k = n + 1
    <3>1. f[k] = a
      BY <1>1, <2>3
    <3>2. g[k] = Append(v, a)[k - Len(u)] /\ Append(v, a)[k - Len(u)] = a
      BY <1>1, <2>3
    <3> QED BY <3>1, <3>2
  <2> QED BY <1>1, <2>1, <2>2, <2>3
<1> HIDE DEF f, g
<1>4. f = g
  BY <1>1, <1>2, <1>3
<1> QED BY <1>4 DEF f, g

\* It is sent as it is.
LEMMA PieceSent ==
  ASSUME NEW w \in Seq(Alphabet), NEW out \in Seq(TplEvents)
  PROVE  /\ Chars(w) \in Seq(TplEvents) /\ out \o Chars(w) \in Seq(TplEvents)
         /\ Merged(out \o Chars(w)) = Merged(out) \o Chars(w)
<1>1. SentAs(Alphabet, TplEvents)
  BY DEF Char, TplEvents, SentAs
<1> QED BY <1>1, MergedChars

\* A character in the text.
LEMMA TextStep ==
  ASSUME NEW text \in Texts, NEW fs, NEW b, NEW base \in Nat, Window(b, text, base), NEW s \in TplRuns(b),
         s.out \in Seq(TplEvents), NEW x \in 1 .. Len(b), s.t.e + s.t.sp <= Len(b) + 1,
         InTextAt(s, b, text, fs, base, x - 1),
         NEW r, r = InText(s, x, b[x])
  PROVE  /\ r \in TplRuns(b) /\ r.out \in Seq(TplEvents) /\ r.t.off = s.t.off /\ r.stopped = s.stopped
         /\ r.t.e + r.t.sp <= Len(b) + 1
         /\ InTextAt(r, b, text, fs, base, x) \/ InTokenAt(r, text, fs, base + x)
<1>1. /\ Len(text) \in Nat /\ Len(b) \in Nat /\ x \in Nat /\ base + x \in 1 .. Len(text) /\ base + (x - 1) + 1 = base + x
      /\ b \in Seq(Alphabet)
  <2>1. Len(text) \in Nat /\ b \in Seq(Alphabet) /\ base + Len(b) <= Len(text)
    BY TextsAre DEF Window
  <2> QED BY <2>1
<1>2. b[x] = text[base + x] /\ b[x] \in Alphabet
  BY <1>1 DEF Window
<1>3. s.t.e \in Nat \ {0} /\ s.t.sp \in Nat /\ s.out \in Seq(TplEvents) /\ s.t.pos \in Nat
  BY FieldTypes
<1>4. s.t.pos = 0 /\ s.t.token = <<>> /\ s.t.calls = 0 /\ s.t.resume = 0 /\ s.t.e + s.t.sp = x
  BY <1>1, <1>3 DEF InTextAt
<1> DEFINE w == SubSeq(b, s.t.e, s.t.e + s.t.sp - 1)
           m == Merged(s.out)
<1>5. SoFar(m \o Chars(w), text, fs, base + x)
  BY <1>1 DEF InTextAt
<1>6. m \in Seq(TplEvents)
  BY MergedIn
<1>7. w \in Seq(Alphabet)
  BY <1>1, <1>3, PieceOf
<1>8. Chars(w) \in Seq(TplEvents) /\ s.out \o Chars(w) \in Seq(TplEvents) /\ Merged(s.out \o Chars(w)) = m \o Chars(w)
  BY <1>7, PieceSent
<1>9. m \o Chars(w) \in Seq(TplEvents)
  BY <1>6, <1>8
<1>10. /\ r \in TplRuns(b) /\ r.t.off = s.t.off
       /\ b[x] # "%" => Fields(r, s.t.pos, s.t.token, s.t.enc, s.t.e, s.t.sp + 1, s.t.resume, s.t.calls,
                              s.out, s.stopped)
       /\ b[x] = "%" => Fields(r, 1, <<>>, s.t.enc, s.t.e, 0, s.t.resume, s.t.calls, s.out \o Chars(w), s.stopped)
  BY <1>1, InTextIs
<1>11. CASE b[x] # "%"
  <2>1. /\ r.t.pos = 0 /\ r.t.calls = 0 /\ r.t.resume = 0 /\ r.t.e = s.t.e /\ r.t.sp = s.t.sp + 1 /\ r.out = s.out
        /\ r.stopped = s.stopped /\ r.t.token = <<>>
    BY <1>4, <1>10, <1>11, Zenon DEF Fields
  <2>2. Chars(SubSeq(b, s.t.e, s.t.e + (s.t.sp + 1) - 1)) = Append(Chars(w), Char(b[s.t.e + s.t.sp]))
    BY <1>3, OneMore
  <2>3. b[s.t.e + s.t.sp] = text[base + x]
    BY <1>2, <1>4
  <2> DEFINE ch == Char(text[base + x])
             v == m \o Chars(w)
             y == Chars(SubSeq(b, s.t.e, s.t.e + (s.t.sp + 1) - 1))
  <2>4. y = Append(Chars(w), ch)
    BY <2>2, <2>3
  <2>5. SoFar(Append(v, ch), text, fs, base + x + 1)
    <3>1. text[base + x] # "%"
      BY <1>2, <1>11
    <3>2. SoFar(v, text, fs, base + x) /\ v \in Seq(TplEvents)
      BY <1>5, <1>9
    <3> HIDE DEF v
    <3> QED BY <1>1, <3>1, <3>2, SoFarChar
  <2>6. ch \in TplEvents
    BY <1>2 DEF Char, TplEvents
  <2> HIDE DEF w, m, ch, y
  <2>7. Append(v, ch) = m \o y
    <3> DEFINE k == Chars(w)
    <3>1. m \in Seq(TplEvents) /\ k \in Seq(TplEvents) /\ ch \in TplEvents /\ y = Append(k, ch) /\ v = m \o k
      BY <1>6, <1>8, <2>4, <2>6
    <3> HIDE DEF k, v
    <3>2. Append(m \o k, ch) = m \o Append(k, ch)
      BY <3>1, AppendToSecond
    <3> QED BY <3>1, <3>2
  <2> HIDE DEF v
  <2>8. r.t.e + r.t.sp = x + 1 /\ r.t.e + r.t.sp <= Len(b) + 1
    <3>1. s.t.e + s.t.sp = x /\ x \in Nat /\ x <= Len(b) /\ Len(b) \in Nat /\ s.t.e \in Nat /\ s.t.sp \in Nat
      BY <1>1, <1>3, <1>4
    <3>2. r.t.e = s.t.e /\ r.t.sp = s.t.sp + 1
      BY <2>1
    <3>3. r.t.e + r.t.sp = s.t.e + (s.t.sp + 1)
      BY <3>2, Zenon
    <3>4. \A e1, sp1, l \in Nat : e1 + sp1 = x /\ x <= l => e1 + (sp1 + 1) = x + 1 /\ e1 + (sp1 + 1) <= l + 1
      BY <3>1
    <3> QED BY <3>1, <3>3, <3>4
  <2>9. m \o y = Merged(r.out) \o Chars(SubSeq(b, r.t.e, r.t.e + r.t.sp - 1))
    BY <2>1 DEF m, y
  <2>10. SoFar(Merged(r.out) \o Chars(SubSeq(b, r.t.e, r.t.e + r.t.sp - 1)), text, fs, base + x + 1)
    BY <2>5, <2>7, <2>9
  <2>11. InTextAt(r, b, text, fs, base, x)
    BY <2>1, <2>8, <2>10, Zenon DEF InTextAt
  <2> QED BY <1>3, <1>10, <2>1, <2>8, <2>11
<1>12. CASE b[x] = "%"
  <2>1. /\ r.t.pos = 1 /\ r.t.token = <<>> /\ r.t.calls = 0 /\ r.t.resume = 0 /\ r.t.e = s.t.e /\ r.t.sp = 0
        /\ r.out = s.out \o Chars(w) /\ r.stopped = s.stopped
    BY <1>4, <1>10, <1>12, Zenon DEF Fields
  <2>2. TokenAt(text, fs, base + x, base + x, <<>>)
    BY <1>1, <1>2, <1>12, TokenBegins
  <2> HIDE DEF w, m
  <2>3. SoFar(Merged(r.out), text, fs, base + x) /\ r.out \in Seq(TplEvents)
    BY <1>5, <1>8, <2>1
  <2>4. r.t.pos = 1 + Len(r.t.token) /\ base + x \in Nat /\ r.t.e + r.t.sp <= Len(b) + 1
    BY <1>1, <1>3, <1>4, <2>1
  <2>5. InTokenAt(r, text, fs, base + x)
    BY <2>1, <2>2, <2>3, <2>4, Zenon DEF InTokenAt
  <2> QED BY <1>10, <2>1, <2>3, <2>4, <2>5
<1> QED BY <1>11, <1>12

\* Behind a token the text goes on.
LEMMA BackInText ==
  ASSUME NEW text, NEW fs, NEW b, NEW base \in Nat, NEW x \in 1 .. Len(b), NEW r \in TplRuns(b),
         r.out \in Seq(TplEvents), r.stopped = 0,
         r.t.pos = 0, r.t.token = <<>>, r.t.calls = 0, r.t.resume = 0, r.t.e = x + 1, r.t.sp = 0,
         SoFar(Merged(r.out), text, fs, base + x + 1), Len(b) \in Nat
  PROVE  TplAt(r, b, text, fs, base, x)
<1>1. Chars(SubSeq(b, r.t.e, r.t.e + r.t.sp - 1)) = <<>>
  <2>1. r.t.e \in Nat \ {0}
    OBVIOUS
  <2> QED BY <2>1, NoPieceLeft
<1>2. Merged(r.out) \o <<>> = Merged(r.out)
  <2>1. Merged(r.out) \in Seq(TplEvents)
    BY MergedIn
  <2> QED BY <2>1, ConcatEmptySeq
<1>3. SoFar(Merged(r.out) \o Chars(SubSeq(b, r.t.e, r.t.e + r.t.sp - 1)), text, fs, base + x + 1)
  BY <1>1, <1>2
<1>4. r.t.e + r.t.sp = x + 1 /\ r.t.e + r.t.sp <= Len(b) + 1
  OBVIOUS
<1>5. InTextAt(r, b, text, fs, base, x)
  BY <1>3, <1>4, Zenon DEF InTextAt
<1> QED BY <1>4, <1>5, Zenon DEF TplAt

\* An event that is not a repeated call.
LEMMA FirstCall ==
  ASSUME NEW out \in Seq(TplEvents), NEW ev \in TplEvents, Len(ev) = 4 => ~ (ev[4] > 0)
  PROVE  Append(out, ev) \in Seq(TplEvents) /\ Merged(Append(out, ev)) = Merged(out) \o <<ev>>
<1>1. Append(out, ev)[Len(out) + 1] = ev /\ Append(out, ev) \in Seq(TplEvents)
  OBVIOUS
<1>2. ~ Again(Append(out, ev), Len(out) + 1)
  BY <1>1 DEF Again
<1>3. Merged(Append(out, ev)) = Append(Merged(out), ev)
  BY <1>2, MergedNext
<1>4. Merged(out) \in Seq(TplEvents)
  BY MergedIn
<1>5. Append(Merged(out), ev) = Merged(out) \o <<ev>>
  BY <1>4
<1> QED BY <1>1, <1>3, <1>5

\* A repeated call counts once.
LEMMA NextCall ==
  ASSUME NEW out \in Seq(TplEvents), NEW name \in Seq(Alphabet), NEW enc \in 0 .. 1, NEW k \in Nat, k # 0, Len(out) # 0,
         out[Len(out)] = <<"token", name, enc, k - 1>>
  PROVE  /\ Append(out, <<"token", name, enc, k>>) \in Seq(TplEvents)
         /\ Merged(Append(out, <<"token", name, enc, k>>)) = Merged(out)
<1> DEFINE ev == <<"token", name, enc, k>>
           n == Len(out) + 1
           sent == Append(out, ev)
<1>1. ev \in TplEvents
  BY DEF TplEvents
<1>2. Len(ev) = 4 /\ ev[4] = k /\ [ev EXCEPT ![4] = k - 1] = <<"token", name, enc, k - 1>>
  OBVIOUS
<1>3. [ev EXCEPT ![4] = @ - 1] = <<"token", name, enc, k - 1>>
  OBVIOUS
<1> HIDE DEF ev
<1>4. n > 1 /\ n - 1 = Len(out) /\ sent[n] = ev /\ sent[n - 1] = out[Len(out)] /\ sent \in Seq(TplEvents)
  BY <1>1
<1> HIDE DEF sent
<1>5. Again(sent, n)
  <2>1. sent[n - 1] = [sent[n] EXCEPT ![4] = @ - 1]
    BY <1>3, <1>4
  <2>2. Len(sent[n]) = 4 /\ sent[n][4] > 0
    BY <1>2, <1>4
  <2> QED BY <1>4, <2>1, <2>2, Zenon DEF Again
<1>6. Merged(sent) = Merged(out)
  BY <1>1, <1>5, MergedNext DEF sent
<1> QED BY <1>4, <1>6 DEF sent, ev

\* The callback is called again for a token.
LEMMA AgainStep ==
  ASSUME NEW b, NEW base \in Nat, ttext \in Texts, Window(b, ttext, base), NEW s \in TplRuns(b),
         s.out \in Seq(TplEvents), s.stopped = 0, NEW x \in 1 .. Len(b), AgainAt(s, b, ttext, tfs, base), s.t.resume = x,
         s.t.e + s.t.sp <= Len(b) + 1,
         NEW stop, NEW r, r = CallBack(s, x, stop)
  PROVE  TplAt(r, b, ttext, tfs, base, x) /\ r.t.off = s.t.off
<1>1. /\ s.t.calls # 0 /\ s.t.sp = 0 /\ s.t.pos \in 2 .. TokenMax + 1
      /\ ttext[base + x] = "%" /\ s.t.token \in Seq(Alphabet)
      /\ Len(s.out) # 0 /\ s.out[Len(s.out)] = <<"token", s.t.token, s.t.enc, s.t.calls - 1>>
      /\ SoFar(Merged(s.out), ttext, tfs, base + x + 1)
  BY Zenon DEF AgainAt
<1>2. s.t.calls \in Nat /\ s.t.enc \in 0 .. 1 /\ s.t.e \in Nat \ {0} /\ s.t.sp \in Nat
  BY FieldTypes
<1>3. CallName(s) = s.t.token /\ CallEnc(s) = s.t.enc /\ CallEvent(s) = <<"token", s.t.token, s.t.enc, s.t.calls>>
  BY <1>1, Zenon DEF CallName, CallEnc, CallEvent, CutOff
<1>4. /\ Append(s.out, CallEvent(s)) \in Seq(TplEvents)
      /\ Merged(Append(s.out, CallEvent(s))) = Merged(s.out)
  <2>1. PICK name, enc, k, o : name = s.t.token /\ enc = s.t.enc /\ k = s.t.calls /\ o = s.out
    OBVIOUS
  <2>2. /\ o \in Seq(TplEvents) /\ name \in Seq(Alphabet) /\ enc \in 0 .. 1 /\ k \in Nat /\ k # 0 /\ Len(o) # 0
        /\ o[Len(o)] = <<"token", name, enc, k - 1>>
    BY <1>1, <1>2, <2>1
  <2>3. /\ Append(o, <<"token", name, enc, k>>) \in Seq(TplEvents)
        /\ Merged(Append(o, <<"token", name, enc, k>>)) = Merged(o)
    BY <2>2, NextCall
  <2> QED BY <1>3, <2>1, <2>3
<1>5. x \in Nat /\ Len(b) \in Nat
  BY DEF Window
<1>6. /\ r \in TplRuns(b) /\ r.t.off = s.t.off
      /\ stop = x => Fields(r, s.t.pos, CallName(s), CallEnc(s), s.t.e, s.t.sp, x, s.t.calls + 1,
                            Append(s.out, CallEvent(s)), 1)
      /\ stop # x => Fields(r, 0, <<>>, CallEnc(s), x + 1, s.t.sp, 0, 0, Append(s.out, CallEvent(s)), s.stopped)
  BY <1>1, <1>5, CallBackIs
<1>7. CASE stop = x
  <2>1. /\ r.t.pos = s.t.pos /\ r.t.token = s.t.token /\ r.t.enc = s.t.enc /\ r.t.e = s.t.e /\ r.t.sp = 0
        /\ r.t.resume = x /\ r.t.calls = s.t.calls + 1 /\ r.out = Append(s.out, CallEvent(s)) /\ r.stopped = 1
    BY <1>1, <1>3, <1>6, <1>7, Zenon DEF Fields
  <2>2. r.t.calls # 0 /\ r.t.calls - 1 = s.t.calls
    BY <1>2, <2>1
  <2>3. Len(r.out) # 0 /\ r.out[Len(r.out)] = CallEvent(s)
    <3> DEFINE ev == CallEvent(s)
    <3> HIDE DEF ev
    <3>1. Len(Append(s.out, ev)) # 0 /\ Append(s.out, ev)[Len(Append(s.out, ev))] = ev
      OBVIOUS
    <3> QED BY <2>1, <3>1 DEF ev
  <2>4. r.out[Len(r.out)] = <<"token", r.t.token, r.t.enc, r.t.calls - 1>>
    BY <1>3, <2>1, <2>2, <2>3
  <2>5. SoFar(Merged(r.out), ttext, tfs, base + x + 1)
    BY <1>1, <1>4, <2>1
  <2>6. AgainAt(r, b, ttext, tfs, base)
    BY <1>1, <2>1, <2>2, <2>3, <2>4, <2>5, Zenon DEF AgainAt
  <2>7. r.out \in Seq(TplEvents) /\ r.t.e + r.t.sp <= Len(b) + 1
    BY <1>1, <1>4, <2>1
  <2> QED BY <1>6, <2>1, <2>6, <2>7, Zenon DEF TplAt
<1>8. CASE stop # x
  <2>1. /\ r.t.pos = 0 /\ r.t.token = <<>> /\ r.t.e = x + 1 /\ r.t.sp = 0 /\ r.t.resume = 0 /\ r.t.calls = 0
        /\ r.out = Append(s.out, CallEvent(s)) /\ r.stopped = 0
    BY <1>1, <1>6, <1>8, Zenon DEF Fields
  <2>2. SoFar(Merged(r.out), ttext, tfs, base + x + 1) /\ r.out \in Seq(TplEvents)
    BY <1>1, <1>4, <2>1
  <2> QED BY <1>5, <1>6, <2>1, <2>2, BackInText
<1> QED BY <1>7, <1>8

\* In a token, before x is read.
TokenBefore(s, text, fs, base, x) == InTokenAt(s, text, fs, base + (x - 1))

\* What is known of a token that is being read.
ReadIs(s, b, text, fs, base, x, i, q) ==
  /\ q + 1 = base + x /\ q < Len(text) /\ text[q + 1] = b[x] /\ b[x] \in Alphabet
  /\ i \in 1 .. Len(text) /\ text[i] = "%" /\ \A k \in i + 1 .. (base + x) - 1 : k \notin Stops(text, fs, i)
  /\ TokenAt(text, fs, i, q, s.t.token) /\ SoFar(Merged(s.out), text, fs, i)
  /\ s.t.token \in Seq(Alphabet) /\ Len(s.t.token) \in 0 .. TokenMax
  /\ base + x \in Nat /\ Len(b) \in Nat

\* So it is with every character read in a token.
LEMMA ReadOfToken ==
  ASSUME NEW text \in Texts, NEW fs, NEW b, NEW base \in Nat, Window(b, text, base), NEW s \in TplRuns(b),
         s.out \in Seq(TplEvents), NEW x \in 1 .. Len(b), TokenBefore(s, text, fs, base, x)
  PROVE  \E i \in Nat, q \in Nat : ReadIs(s, b, text, fs, base, x, i, q)
<1>1. PICK i \in Nat : TokenAt(text, fs, i, base + (x - 1), s.t.token) /\ SoFar(Merged(s.out), text, fs, i)
  BY DEF InTokenAt, TokenBefore
<1>2. PICK q : q = base + (x - 1)
  OBVIOUS
<1>3. TokenAt(text, fs, i, q, s.t.token)
  BY <1>1, <1>2
<1>4. Len(text) \in Nat /\ Len(b) \in Nat /\ base + Len(b) <= Len(text)
  BY TextsAre DEF Window
<1>5. q \in Nat /\ q + 1 = base + x /\ q < Len(text) /\ base + x \in Nat /\ (base + x) - 1 = q
  BY <1>2, <1>4
<1>6. text[q + 1] = b[x] /\ b[x] \in Alphabet
  BY <1>5 DEF Window
<1>7. i \in 1 .. q /\ text[i] = "%" /\ \A k \in i + 1 .. q : k \notin Stops(text, fs, i)
  BY <1>3 DEF TokenAt
<1>8. s.t.token \in Seq(Alphabet)
  <2>1. PICK j : j = q + 1
    OBVIOUS
  <2>2. i \in 1 .. Len(text) /\ j \in i + 1 .. Len(text) + 1
    BY <1>4, <1>5, <1>7, <2>1
  <2>3. NameIn(text, i, j) \in Seq(Alphabet)
    BY <2>2, NameIs
  <2> QED BY <1>3, <2>1, <2>3 DEF TokenAt
<1>9. Len(s.t.token) \in 0 .. TokenMax
  <2>1. PICK token : token = s.t.token
    OBVIOUS
  <2>2. token \in Seq(Alphabet) /\ TokenAt(text, fs, i, q, token)
    BY <1>3, <1>8, <2>1
  <2>3. Len(token) = (IF q < i + TokenMax THEN q - i ELSE TokenMax) /\ TokenMax \in Nat \ {0} /\ i \in 1 .. q
    BY <1>5, <2>2, TokenIs
  <2>4. Len(token) \in 0 .. TokenMax
    BY <1>5, <2>3
  <2> QED BY <2>1, <2>4
<1>10. i \in 1 .. Len(text)
  BY <1>4, <1>5, <1>7
<1>11. ReadIs(s, b, text, fs, base, x, i, q)
  BY <1>1, <1>3, <1>4, <1>5, <1>6, <1>7, <1>8, <1>9, <1>10 DEF ReadIs
<1> QED BY <1>5, <1>11

\* The event of the first call.
LEMMA FirstCallIs ==
  ASSUME NEW s, s.t.calls = 0
  PROVE  /\ CallEvent(s) = NamedToken(tfs, s.t.token)
         /\ CallEvent(s) = <<"token", CallName(s), CallEnc(s), 0>>
<1>1. CASE CutOff(s)
  BY <1>1, Zenon DEF CallEvent, NamedToken, CallName, CallEnc, CutOff
<1>2. CASE ~ CutOff(s)
  BY <1>2, Zenon DEF CallEvent, NamedToken, CallName, CallEnc, CutOff
<1> QED BY <1>1, <1>2

\* The name of a first call is one of characters that a token may hold.
LEMMA FirstNameIs ==
  ASSUME NEW s, s.t.calls = 0, s.t.token \in Seq(Alphabet), s.t.token # <<>>
  PROVE  CallName(s) \in Seq(Alphabet) /\ CallEnc(s) \in 0 .. 1 /\ CallEvent(s) \in TplEvents
<1>1. CallName(s) \in Seq(Alphabet)
  BY DEF CallName
<1>2. CallEnc(s) \in 0 .. 1
  BY DEF CallEnc
<1>3. <<"token", CallName(s), CallEnc(s), 0>> \in TplEvents
  BY <1>1, <1>2 DEF TplEvents
<1> QED BY <1>1, <1>2, <1>3, FirstCallIs

\* A broken token, its state afterwards.
Broke(s, b, x, c, r) ==
  /\ r \in TplRuns(b) /\ r.t.off = s.t.off
  /\ Fields(r, 0, <<>>, s.t.enc, x + 1, s.t.sp, s.t.resume, s.t.calls, Refused1(s, c), s.stopped)

\* What GarbageIs says, in one word.
LEMMA TokenBroke ==
  ASSUME NEW b, NEW s \in TplRuns(b), NEW x \in Nat, NEW c \in Letters(b), NEW r, r = Garbled(s, c, x)
  PROVE  Broke(s, b, x, c, r)
<1>1. /\ r \in TplRuns(b) /\ r.t.off = s.t.off
      /\ Fields(r, 0, <<>>, s.t.enc, x + 1, s.t.sp, s.t.resume, s.t.calls, Refused1(s, c), s.stopped)
  BY GarbageIs
<1> QED BY <1>1, Zenon DEF Broke

\* The loop goes on.
Running(s, b) == s \in TplRuns(b) /\ s.out \in Seq(TplEvents) /\ s.stopped = 0 /\ s.t.e + s.t.sp <= Len(b) + 1

\* A character in a token.
LEMMA TokenStepKeeps ==
  ASSUME NEW b, NEW base \in Nat, ttext \in Texts, Window(b, ttext, base), NEW s, Running(s, b),
         NEW x \in 1 .. Len(b), TokenBefore(s, ttext, tfs, base, x),
         NEW stop, NEW c, c = b[x], NEW r, TokenStep(s, x, c, stop, r)
  PROVE  TplAt(r, b, ttext, tfs, base, x) /\ r.t.off = s.t.off
<1> DEFINE token == s.t.token
           m == Merged(s.out)
           p == base + x
<1> s \in TplRuns(b)
  BY DEF Running
<1> s.out \in Seq(TplEvents)
  BY DEF Running
<1> s.stopped = 0
  BY DEF Running
<1> s.t.e + s.t.sp <= Len(b) + 1
  BY DEF Running
<1>1. PICK i \in Nat, q \in Nat :
           /\ q + 1 = p /\ q < Len(ttext) /\ ttext[q + 1] = c /\ c \in Alphabet
           /\ i \in 1 .. Len(ttext) /\ ttext[i] = "%" /\ \A k \in i + 1 .. p - 1 : k \notin Stops(ttext, tfs, i)
           /\ TokenAt(ttext, tfs, i, q, token) /\ SoFar(m, ttext, tfs, i)
           /\ token \in Seq(Alphabet) /\ Len(token) \in 0 .. TokenMax
           /\ p \in Nat /\ Len(b) \in Nat
  <2>1. PICK i \in Nat, q \in Nat : ReadIs(s, b, ttext, tfs, base, x, i, q)
    BY ReadOfToken
  <2> QED BY <2>1, Zenon DEF ReadIs
<1>2. s.t.calls = 0 /\ s.t.resume = 0 /\ s.t.sp = 0 /\ s.t.pos = 1 + Len(token)
  BY Zenon DEF InTokenAt, TokenBefore
<1>3. x \in Nat /\ m \in Seq(TplEvents) /\ s.t.e \in Nat \ {0} /\ c \in Letters(b)
  <2>1. c \in Letters(b)
    BY <1>1 DEF Letters
  <2> QED BY <1>1, <2>1, FieldTypes, MergedIn
<1>4. ASSUME p \in Stops(ttext, tfs, i)
      PROVE  SoFar(m \o ExpandedToken(ttext, tfs, i, p), ttext, tfs, base + x + 1)
  <2> HIDE DEF m, p, token
  <2>1. SoFar(m \o ExpandedToken(ttext, tfs, i, p), ttext, tfs, p + 1)
    BY <1>1, <1>3, <1>4, SoFarToken
  <2> QED BY <2>1 DEF p
<1>5. token = <<>> <=> s.t.pos = 1
  <2>1. token = <<>> <=> Len(token) = 0
    BY <1>1
  <2> QED BY <1>1, <1>2, <2>1
<1> HIDE DEF token, m, p
<1>6. c = "%" => /\ p \in Stops(ttext, tfs, i)
                 /\ ExpandedToken(ttext, tfs, i, p) = IF token = <<>> THEN <<Char("%")>> ELSE <<NamedToken(tfs, token)>>
  <2> SUFFICES ASSUME c = "%" PROVE /\ p \in Stops(ttext, tfs, i)
                 /\ ExpandedToken(ttext, tfs, i, p) = IF token = <<>> THEN <<Char("%")>> ELSE <<NamedToken(tfs, token)>>
    OBVIOUS
  <2>1. /\ q + 1 \in Stops(ttext, tfs, i)
        /\ ExpandedToken(ttext, tfs, i, q + 1) = IF token = <<>> THEN <<Char("%")>> ELSE <<NamedToken(tfs, token)>>
    <3>1. q < Len(ttext) /\ ttext[q + 1] = "%" /\ TokenAt(ttext, tfs, i, q, token) /\ token \in Seq(Alphabet)
      BY <1>1
    <3> QED BY <3>1, TokenCloses
  <2> QED BY <1>1, <2>1
<1>7. CASE c = "%" /\ s.t.pos = 1
  <2>1. r = Percented(s, x)
    BY <1>7, Zenon DEF TokenStep
  <2>2. /\ r \in TplRuns(b) /\ r.t.off = s.t.off
        /\ Fields(r, 0, <<>>, s.t.enc, x + 1, s.t.sp, s.t.resume, s.t.calls, Append(s.out, Char("%")), s.stopped)
    BY <1>3, <2>1, PercentedIs
  <2>3. r.t.pos = 0 /\ r.t.token = <<>> /\ r.t.e = x + 1 /\ r.t.sp = 0 /\ r.t.resume = 0 /\ r.t.calls = 0
        /\ r.out = Append(s.out, Char("%")) /\ r.stopped = 0
    BY <1>2, <2>2, Zenon DEF Fields
  <2>4. SoFar(m \o <<Char("%")>>, ttext, tfs, base + x + 1)
    BY <1>4, <1>5, <1>6, <1>7
  <2>5. Append(s.out, Char("%")) \in Seq(TplEvents) /\ Merged(Append(s.out, Char("%"))) = m \o <<Char("%")>>
    <3>1. "%" \in Alphabet
      BY Zenon DEF Alphabet
    <3>2. Char("%") \in TplEvents /\ Len(Char("%")) = 2
      BY <3>1 DEF Char, TplEvents
    <3> QED BY <3>2, FirstCall DEF m
  <2>6. SoFar(Merged(r.out), ttext, tfs, base + x + 1) /\ r.out \in Seq(TplEvents)
    BY <2>3, <2>4, <2>5
  <2> QED BY <1>1, <2>2, <2>3, <2>6, BackInText
<1>8. CASE c = "%" /\ s.t.pos # 1
  <2>1. r = CallBack(s, x, stop)
    BY <1>8, Zenon DEF TokenStep
  <2>2. token # <<>> /\ SoFar(m \o <<NamedToken(tfs, token)>>, ttext, tfs, base + x + 1)
    BY <1>4, <1>5, <1>6, <1>8
  <2> DEFINE ev == CallEvent(s)
             o == Append(s.out, ev)
  <2>3. /\ ev = NamedToken(tfs, token) /\ ev = <<"token", CallName(s), CallEnc(s), 0>>
        /\ CallName(s) \in Seq(Alphabet) /\ CallEnc(s) \in 0 .. 1 /\ ev \in TplEvents
    <3>1. ev = NamedToken(tfs, token) /\ ev = <<"token", CallName(s), CallEnc(s), 0>>
      BY <1>2, FirstCallIs DEF token
    <3>2. CallName(s) \in Seq(Alphabet) /\ CallEnc(s) \in 0 .. 1 /\ ev \in TplEvents
      BY <1>1, <1>2, <2>2, FirstNameIs DEF token
    <3> QED BY <3>1, <3>2
  <2> HIDE DEF ev
  <2>4. o \in Seq(TplEvents) /\ Merged(o) = m \o <<ev>> /\ Len(o) # 0 /\ o[Len(o)] = ev
    <3>1. ~ (ev[4] > 0)
      BY <2>3
    <3>2. o \in Seq(TplEvents) /\ Merged(o) = m \o <<ev>>
      BY <2>3, <3>1, FirstCall DEF m
    <3>3. Len(o) # 0 /\ o[Len(o)] = ev
      OBVIOUS
    <3> QED BY <3>2, <3>3
  <2>5. SoFar(Merged(o), ttext, tfs, base + x + 1)
    BY <2>2, <2>3, <2>4
  <2>6. /\ r \in TplRuns(b) /\ r.t.off = s.t.off
        /\ stop = x => Fields(r, s.t.pos, CallName(s), CallEnc(s), s.t.e, s.t.sp, x, s.t.calls + 1, o, 1)
        /\ stop # x => Fields(r, 0, <<>>, CallEnc(s), x + 1, s.t.sp, 0, 0, o, s.stopped)
    BY <1>3, <2>1, <2>2, CallBackIs DEF token, ev
  <2> HIDE DEF o
  <2>7. CASE stop = x
    <3>1. /\ r.t.pos = s.t.pos /\ r.t.token = CallName(s) /\ r.t.enc = CallEnc(s) /\ r.t.e = s.t.e /\ r.t.sp = 0
          /\ r.t.resume = x /\ r.t.calls = s.t.calls + 1 /\ r.out = o /\ r.stopped = 1
      BY <1>2, <2>6, <2>7, Zenon DEF Fields
    <3>2. r.t.calls # 0 /\ r.t.calls - 1 = 0 /\ r.t.pos \in 2 .. TokenMax + 1
      BY <1>1, <1>2, <1>8, <3>1, TemplateAssumption
    <3>3. r.out[Len(r.out)] = <<"token", r.t.token, r.t.enc, r.t.calls - 1>>
      BY <2>3, <2>4, <3>1, <3>2
    <3>4. r.t.resume \in 1 .. Len(b) /\ ttext[base + r.t.resume] = "%"
      BY <1>1, <1>8, <3>1 DEF p
    <3>5. SoFar(Merged(r.out), ttext, tfs, base + r.t.resume + 1) /\ Len(r.out) # 0 /\ r.t.token \in Seq(Alphabet)
      BY <2>3, <2>4, <2>5, <3>1
    <3>6. AgainAt(r, b, ttext, tfs, base)
      BY <3>1, <3>2, <3>3, <3>4, <3>5, Zenon DEF AgainAt
    <3>7. r.out \in Seq(TplEvents) /\ r.t.e + r.t.sp <= Len(b) + 1
      BY <1>2, <2>4, <3>1
    <3> QED BY <2>6, <3>1, <3>6, <3>7, Zenon DEF TplAt
  <2>8. CASE stop # x
    <3>1. r.t.pos = 0 /\ r.t.token = <<>> /\ r.t.e = x + 1 /\ r.t.sp = 0 /\ r.t.resume = 0 /\ r.t.calls = 0 /\ r.out = o /\ r.stopped = 0
      BY <1>2, <2>6, <2>8, Zenon DEF Fields
    <3>2. SoFar(Merged(r.out), ttext, tfs, base + x + 1) /\ r.out \in Seq(TplEvents)
      BY <2>4, <2>5, <3>1
    <3> QED BY <1>1, <2>6, <3>1, <3>2, BackInText
  <2> QED BY <2>7, <2>8
<1>9. CASE c # "%" /\ tfs = "espfs" /\ Garbage(s, c)
  <2> DEFINE o == Refused1(s, c)
  <2>1. r = Garbled(s, c, x)
    BY <1>9, Zenon DEF TokenStep
  <2>2. /\ r \in TplRuns(b) /\ r.t.off = s.t.off
        /\ Fields(r, 0, <<>>, s.t.enc, x + 1, s.t.sp, s.t.resume, s.t.calls, o, s.stopped)
    <3>1. /\ r \in TplRuns(b) /\ r.t.off = s.t.off
          /\ Fields(r, 0, <<>>, s.t.enc, x + 1, s.t.sp, s.t.resume, s.t.calls, Refused1(s, c), s.stopped)
      <4>1. x \in Nat /\ c \in Letters(b)
        BY <1>3
      <4>2. Broke(s, b, x, c, r)
        BY <2>1, <4>1, TokenBroke
      <4> QED BY <4>2, Zenon DEF Broke
    <3> QED BY <3>1, Zenon
  <2>3. Blank(c) \/ TokenMax <= Len(token)
    <3>1. s.t.pos > TokenMax \/ Blank(c)
      BY <1>9, Zenon DEF Garbage, Blank
    <3>2. s.t.pos > TokenMax => TokenMax <= Len(token)
      BY <1>1, <1>2, TemplateAssumption
    <3> QED BY <3>1, <3>2
  <2>4. /\ p \in Stops(ttext, tfs, i)
        /\ ExpandedToken(ttext, tfs, i, p) = <<Char("%")>> \o Chars(token) \o <<Char(c)>>
    <3>1. /\ q + 1 \in Stops(ttext, "espfs", i)
          /\ ExpandedToken(ttext, "espfs", i, q + 1) = <<Char("%")>> \o Chars(token) \o <<Char(ttext[q + 1])>>
      <4>1. TokenAt(ttext, "espfs", i, q, token)
        BY <1>1, <1>9
      <4>2. ttext[q + 1] # "%" /\ (Blank(ttext[q + 1]) \/ TokenMax <= Len(token))
        BY <1>1, <1>9, <2>3
      <4>3. q < Len(ttext) /\ token \in Seq(Alphabet)
        BY <1>1
      <4> QED BY <4>1, <4>2, <4>3, TokenBreaks
    <3> QED BY <1>1, <1>9, <3>1
  <2>5. SoFar(m \o (<<Char("%")>> \o Chars(token) \o <<Char(c)>>), ttext, tfs, base + x + 1)
    BY <1>4, <2>4
  <2>6. o \in Seq(TplEvents) /\ Merged(o) = m \o (<<Char("%")>> \o Chars(token) \o <<Char(c)>>)
    <3> DEFINE a == Char("%")
               z == Char(c)
               g == Chars(token)
               o1 == Append(s.out, a)
               o2 == o1 \o g
               o3 == Append(o2, z)
    <3>1. a \in TplEvents /\ z \in TplEvents /\ Len(a) = 2 /\ Len(z) = 2
      <4>1. "%" \in Alphabet
        BY Zenon DEF Alphabet
      <4> QED BY <1>1, <4>1 DEF Char, TplEvents
    <3>2. o1 \in Seq(TplEvents) /\ Merged(o1) = m \o <<a>>
      BY <3>1, FirstCall DEF m
    <3> HIDE DEF a, z, o1
    <3>3. g \in Seq(TplEvents) /\ o2 \in Seq(TplEvents) /\ Merged(o2) = Merged(o1) \o g
      BY <1>1, <3>2, PieceSent
    <3> HIDE DEF g, o2
    <3>4. o3 \in Seq(TplEvents) /\ Merged(o3) = Merged(o2) \o <<z>>
      <4>1. Len(z) = 4 => ~ (z[4] > 0)
        <5>1. Len(z) # 4
          BY <3>1
        <5> QED BY <5>1, Zenon
      <4> QED BY <3>1, <3>3, <4>1, FirstCall
    <3>5. o = o3
      <4>1. o = s.out \o <<a>> \o g \o <<z>>
        BY DEF Refused1, a, g, z, token
      <4>2. \A u \in Seq(TplEvents), e \in TplEvents : u \o <<e>> = Append(u, e)
        OBVIOUS
      <4>3. s.out \o <<a>> = o1
        BY <3>1, <4>2 DEF o1
      <4>4. o2 \o <<z>> = o3
        BY <3>1, <3>3, <4>2
      <4> HIDE DEF o, o3
      <4> QED BY <4>1, <4>3, <4>4 DEF o2
    <3>6. \A u \in Seq(TplEvents), v \in Seq(TplEvents), w \in Seq(TplEvents) : (u \o v) \o w = u \o (v \o w)
      OBVIOUS
    <3>7. <<a>> \in Seq(TplEvents) /\ <<z>> \in Seq(TplEvents) /\ <<a>> \o g \in Seq(TplEvents) /\ m \o <<a>> \in Seq(TplEvents)
      BY <1>3, <3>1, <3>3
    <3>8. ((m \o <<a>>) \o g) \o <<z>> = m \o ((<<a>> \o g) \o <<z>>)
      <4>1. (m \o <<a>>) \o g = m \o (<<a>> \o g)
        BY <1>3, <3>3, <3>6, <3>7
      <4>2. (m \o (<<a>> \o g)) \o <<z>> = m \o ((<<a>> \o g) \o <<z>>)
        BY <1>3, <3>6, <3>7
      <4> QED BY <4>1, <4>2
    <3> HIDE DEF o, o3
    <3> QED BY <3>2, <3>3, <3>4, <3>5, <3>8 DEF a, z, g
  <2> HIDE DEF o
  <2>7. r.t.pos = 0 /\ r.t.token = <<>> /\ r.t.e = x + 1 /\ r.t.sp = 0 /\ r.t.resume = 0 /\ r.t.calls = 0 /\ r.out = o /\ r.stopped = 0
    BY <1>2, <2>2, Zenon DEF Fields
  <2>8. SoFar(Merged(r.out), ttext, tfs, base + x + 1) /\ r.out \in Seq(TplEvents)
    BY <2>5, <2>6, <2>7
  <2> QED BY <1>1, <2>2, <2>7, <2>8, BackInText
<1>10. CASE c # "%" /\ ~ (tfs = "espfs" /\ Garbage(s, c))
  <2>1. IF s.t.pos > TokenMax THEN r = s ELSE r = Collected(s, c)
    <3>1. tfs = "espfs" => ~ Garbage(s, c) /\ ~ (s.t.pos > TokenMax)
      BY <1>10, Zenon DEF Garbage
    <3> QED BY <1>10, <3>1, Zenon DEF TokenStep
  <2>2. ~ (tfs = "espfs" /\ (Blank(c) \/ TokenMax <= Len(token)))
    <3>1. ~ (tfs = "espfs" /\ (s.t.pos > TokenMax \/ Blank(c)))
      BY <1>10, Zenon DEF Garbage, Blank
    <3>2. TokenMax <= Len(token) => s.t.pos > TokenMax
      BY <1>1, <1>2, TemplateAssumption
    <3> QED BY <3>1, <3>2
  <2>3. /\ Len(token) < TokenMax => TokenAt(ttext, tfs, i, p, Append(token, c))
        /\ ~ (Len(token) < TokenMax) => TokenAt(ttext, tfs, i, p, token)
    <3>1. /\ Len(token) < TokenMax => TokenAt(ttext, tfs, i, q + 1, Append(token, ttext[q + 1]))
          /\ ~ (Len(token) < TokenMax) => TokenAt(ttext, tfs, i, q + 1, token)
      <4>1. ttext[q + 1] # "%" /\ ~ (tfs = "espfs" /\ (Blank(ttext[q + 1]) \/ TokenMax <= Len(token)))
        BY <1>1, <1>10, <2>2
      <4> QED BY <1>1, <4>1, TokenGoesOn
    <3> QED BY <1>1, <3>1
  <2>4. s.t.pos > TokenMax <=> ~ (Len(token) < TokenMax)
    BY <1>1, <1>2, TemplateAssumption
  <2>5. CASE s.t.pos > TokenMax
    <3>1. r = s /\ TokenAt(ttext, tfs, i, p, s.t.token)
      BY <2>1, <2>3, <2>4, <2>5 DEF token
    <3>2. InTokenAt(s, ttext, tfs, p)
      BY <1>1, <1>2, <3>1, Zenon DEF InTokenAt, m, token
    <3> QED BY <3>1, <3>2, Zenon DEF TplAt, p
  <2>6. CASE ~ (s.t.pos > TokenMax)
    <3>1. r = Collected(s, c)
      BY <2>1, <2>6
    <3>2. /\ r \in TplRuns(b) /\ r.t.off = s.t.off
          /\ Fields(r, s.t.pos + 1, Append(token, c), s.t.enc, s.t.e, s.t.sp, s.t.resume, s.t.calls, s.out, s.stopped)
      BY <1>3, <3>1, CollectedIs DEF token
    <3>3. /\ r.t.pos = s.t.pos + 1 /\ r.t.token = Append(token, c) /\ r.t.e = s.t.e /\ r.t.sp = 0
          /\ r.t.resume = 0 /\ r.t.calls = 0 /\ r.out = s.out /\ r.stopped = 0
      BY <1>2, <3>2, Zenon DEF Fields
    <3>4. r.t.pos = 1 + Len(r.t.token)
      BY <1>1, <1>2, <3>3
    <3>5. TokenAt(ttext, tfs, i, p, r.t.token) /\ SoFar(Merged(r.out), ttext, tfs, i)
      BY <1>1, <2>3, <2>4, <2>6, <3>3 DEF m
    <3>6. InTokenAt(r, ttext, tfs, p)
      BY <3>3, <3>4, <3>5, Zenon DEF InTokenAt
    <3>7. r.t.e + r.t.sp <= Len(b) + 1 /\ r.out \in Seq(TplEvents)
      BY <1>2, <3>3
    <3> QED BY <3>2, <3>3, <3>6, <3>7, Zenon DEF TplAt, p
  <2> QED BY <2>5, <2>6
<1> QED BY <1>7, <1>8, <1>9, <1>10

\* One step of the loop keeps it.
LEMMA TplStepKeeps ==
  ASSUME NEW b, NEW base \in Nat, ttext \in Texts, Window(b, ttext, base), NEW x \in 1 .. Len(b), NEW s,
         TplAt(s, b, ttext, tfs, base, x - 1), NEW stop, NEW r, r = TplStep(s, x, stop)
  PROVE  TplAt(r, b, ttext, tfs, base, x) /\ r.t.off = s.t.off
<1>1. s \in TplRuns(b) /\ s.out \in Seq(TplEvents) /\ s.t.e + s.t.sp <= Len(b) + 1
  BY DEF TplAt
<1>2. s.t.buff = b /\ s.t.pos \in Nat
  BY <1>1, FieldTypes
<1>3. \/ s.stopped = 1 /\ AgainAt(s, b, ttext, tfs, base)
      \/ s.stopped = 0 /\ InTextAt(s, b, ttext, tfs, base, x - 1)
      \/ s.stopped = 0 /\ InTokenAt(s, ttext, tfs, base + (x - 1))
      \/ s.stopped = 0 /\ AgainAt(s, b, ttext, tfs, base) /\ s.t.resume = x
  <2>1. (x - 1) + 1 = x
    OBVIOUS
  <2> QED BY <2>1 DEF TplAt
<1>4. CASE s.stopped = 1 /\ AgainAt(s, b, ttext, tfs, base)
  <2>1. r = s
    BY <1>4, Zenon DEF TplStep
  <2> QED BY <1>1, <1>4, <2>1, Zenon DEF TplAt
<1>5. CASE s.stopped = 0 /\ InTextAt(s, b, ttext, tfs, base, x - 1)
  <2>1. s.stopped # 1 /\ s.t.pos = 0
    BY <1>5 DEF InTextAt
  <2>2. r = InText(s, x, b[x])
    BY <1>2, <2>1, Zenon DEF TplStep
  <2>3. /\ r \in TplRuns(b) /\ r.out \in Seq(TplEvents) /\ r.t.off = s.t.off /\ r.stopped = s.stopped
        /\ r.t.e + r.t.sp <= Len(b) + 1
        /\ InTextAt(r, b, ttext, tfs, base, x) \/ InTokenAt(r, ttext, tfs, base + x)
    BY <1>1, <1>5, <2>2, TextStep
  <2>4. r.stopped = 0
    BY <1>5, <2>3
  <2> QED BY <2>3, <2>4, Zenon DEF TplAt
<1>6. CASE s.stopped = 0 /\ InTokenAt(s, ttext, tfs, base + (x - 1))
  <2>1. s.t.pos # 0
    <3>1. Len(s.t.token) \in 0 .. TokenMax
      <4>1. TokenBefore(s, ttext, tfs, base, x)
        BY <1>6 DEF TokenBefore
      <4>2. PICK i \in Nat, q \in Nat : ReadIs(s, b, ttext, tfs, base, x, i, q)
        BY <1>1, <4>1, ReadOfToken
      <4> QED BY <4>2 DEF ReadIs
    <3>2. s.t.pos = 1 + Len(s.t.token)
      BY <1>6 DEF InTokenAt
    <3> QED BY <3>1, <3>2
  <2>2. TokenStep(s, x, b[x], stop, r)
    BY <1>2, <1>6, <2>1, InTokenIs
  <2>3. s \in TplRuns(b) /\ s.out \in Seq(TplEvents) /\ s.t.e + s.t.sp <= Len(b) + 1
        /\ s.stopped = 0 /\ InTokenAt(s, ttext, tfs, base + (x - 1))
    BY <1>1, <1>6
  <2>4. TokenBefore(s, ttext, tfs, base, x)
    BY <2>3 DEF TokenBefore
  <2>5. PICK c : c = b[x]
    OBVIOUS
  <2>6. TokenStep(s, x, c, stop, r)
    BY <2>2, <2>5
  <2>7. Running(s, b)
    BY <2>3 DEF Running
  <2>8. TplAt(r, b, ttext, tfs, base, x)
    BY <2>4, <2>5, <2>6, <2>7, TokenStepKeeps
  <2>9. r.t.off = s.t.off
    BY <2>4, <2>5, <2>6, <2>7, TokenStepKeeps
  <2> QED BY <2>8, <2>9
<1>7. CASE s.stopped = 0 /\ AgainAt(s, b, ttext, tfs, base) /\ s.t.resume = x
  <2>1. s.t.pos # 0 /\ s.t.pos # 1 /\ ttext[base + x] = "%"
    BY <1>7 DEF AgainAt
  <2>2. b[x] = "%"
    BY <2>1 DEF Window
  <2>3. TokenStep(s, x, b[x], stop, r)
    BY <1>2, <1>7, <2>1, InTokenIs
  <2>4. r = CallBack(s, x, stop)
    BY <2>1, <2>2, <2>3, Zenon DEF TokenStep
  <2> QED BY <1>1, <1>7, <2>4, AgainStep
<1> QED BY <1>3, <1>4, <1>5, <1>6, <1>7

\* Such a state is one of the loop.
LEMMA AtFolds ==
  ASSUME NEW b, NEW text \in Texts, NEW fs, NEW base, NEW x, NEW s, TplAt(s, b, text, fs, base, x)
  PROVE  s \in TplFolds(b)
<1>1. s \in TplRuns(b)
  BY DEF TplAt
<1>2. s.t.calls = 0 /\ s.t.pos # 0 => s.t.pos = 1 + Len(s.t.token)
  <2>1. ~ AgainAt(s, b, text, fs, base) => InTextAt(s, b, text, fs, base, x) \/ InTokenAt(s, text, fs, base + x)
    BY Zenon DEF TplAt
  <2>2. AgainAt(s, b, text, fs, base) => s.t.calls # 0
    BY Zenon DEF AgainAt
  <2>3. InTextAt(s, b, text, fs, base, x) => s.t.pos = 0
    BY Zenon DEF InTextAt
  <2>4. InTokenAt(s, text, fs, base + x) => s.t.pos = 1 + Len(s.t.token)
    BY Zenon DEF InTokenAt
  <2> QED BY <2>1, <2>2, <2>3, <2>4, Zenon
<1> QED BY <1>1, <1>2 DEF TplFolds

\* The loop to the end of the buffer keeps it.
LEMMA LoopKeeps ==
  ASSUME NEW b, NEW base \in Nat, ttext \in Texts, Window(b, ttext, base), NEW from \in Nat \ {0}, NEW n \in Nat,
         from + n - 1 = Len(b), NEW a, TplAt(a, b, ttext, tfs, base, from - 1), NEW stop,
         NEW s, s = Looped(a, n, from, stop)
  PROVE  TplAt(s, b, ttext, tfs, base, Len(b)) /\ s.t.off = a.t.off
<1>1. a \in TplFolds(b)
  BY AtFolds
<1>2. PICK st : LoopRun(st, b, a, n, from, stop) /\ Looped(a, n, from, stop) = st[n]
  BY <1>1, LoopRuns
<1>3. st[0] = a /\ \A k \in 1 .. n : st[k] = TplStep(st[k - 1], from + k - 1, stop)
  BY <1>2 DEF LoopRun
<1> DEFINE T == { k \in 0 .. n : TplAt(st[k], b, ttext, tfs, base, from + k - 1) /\ st[k].t.off = a.t.off }
<1>4. 0 \in T
  <2>1. 0 \in 0 .. n /\ from + 0 - 1 = from - 1
    OBVIOUS
  <2> QED BY <1>3, <2>1
<1>5. ASSUME NEW k \in 0 .. n - 1, k \in T
      PROVE  k + 1 \in T
  <2>1. PICK x : x = from + k
    OBVIOUS
  <2>2. /\ x \in 1 .. Len(b) /\ from + k - 1 = x - 1 /\ from + (k + 1) - 1 = x /\ k + 1 \in 1 .. n /\ k + 1 \in 0 .. n
        /\ (k + 1) - 1 = k
    BY <2>1
  <2>3. st[k + 1] = TplStep(st[k], x, stop)
    BY <1>3, <2>2
  <2>4. TplAt(st[k], b, ttext, tfs, base, x - 1) /\ st[k].t.off = a.t.off
    BY <1>5, <2>2
  <2>5. PICK u, v : u = st[k] /\ v = st[k + 1]
    OBVIOUS
  <2>6. TplAt(u, b, ttext, tfs, base, x - 1) /\ v = TplStep(u, x, stop)
    BY <2>3, <2>4, <2>5
  <2>7. TplAt(v, b, ttext, tfs, base, x) /\ v.t.off = u.t.off
    BY <2>2, <2>6, TplStepKeeps
  <2> QED BY <2>2, <2>4, <2>5, <2>7
<1>6. n \in T
  <2> HIDE DEF T
  <2>1. \A k \in 0 .. n : k \in T
    BY <1>4, <1>5, UpTo
  <2> QED BY <2>1
<1> QED BY <1>2, <1>6

\* What is kept between two calls: in the text all that was read is sent, in a
\* token its beginning is known, and at a token whose callback is to be called
\* again its place in the buffer.
Between(t, out) == [t |-> t, out |-> out, stopped |-> 0]

Halted(s, b, text, fs) ==
  \E base \in Nat : /\ Window(b, text, base) /\ s.t.off = base + Len(b) /\ AgainAt(s, b, text, fs, base)
                    /\ Len(b) = Chunk \/ s.t.off = Len(text)

BetweenAt(s, text, fs) ==
  /\ s \in TplRuns(s.t.buff) /\ s.out \in Seq(TplEvents) /\ s.t.token \in Seq(Alphabet)
  /\ s.t.off \in 0 .. Len(text) /\ s.t.e + s.t.sp <= Len(s.t.buff) + 1
  /\ \/ s.t.resume # 0 /\ Halted(s, s.t.buff, text, fs)
     \/ /\ s.t.resume = 0 /\ s.t.pos = 0 /\ s.t.token = <<>> /\ s.t.calls = 0
        /\ SoFar(Merged(s.out), text, fs, s.t.off + 1)
     \/ s.t.resume = 0 /\ InTokenAt(s, text, fs, s.t.off)

\* So it is at the beginning.
LEMMA BetweenInit ==
  ASSUME NEW text \in Texts, NEW fs
  PROVE  BetweenAt(Between(NoTpl, <<>>), text, fs)
<1> DEFINE s == Between(NoTpl, <<>>)
<1>1. /\ s.t = NoTpl /\ s.out = <<>> /\ s.stopped = 0
  BY DEF Between
<1>2. /\ s.t.pos = 0 /\ s.t.token = <<>> /\ s.t.buff = <<>> /\ s.t.e = 1 /\ s.t.sp = 0 /\ s.t.resume = 0 /\ s.t.calls = 0
      /\ s.t.off = 0
  BY <1>1 DEF NoTpl
<1>3. s \in TplRuns(<<>>)
  BY DEF Between, NoTpl, TplRuns, TplDatas
<1> HIDE DEF s
<1>4. Merged(s.out) = <<>>
  <2>1. s.out \in Seq(TplEvents) /\ s.out = <<>>
    BY <1>1
  <2> QED BY <2>1, MergedIn
<1>5. SoFar(<<>>, text, fs, 1)
  <2> DEFINE w == Expansion(text, fs)[1]
  <2>1. 1 \in 1 .. Len(text) + 1
    BY TextsAre
  <2>2. w \in Seq(TplEvents)
    BY <2>1, ExpansionIs
  <2>3. <<>> \o w = w
    BY <2>2
  <2> QED BY <2>1, <2>3 DEF SoFar
<1>6. s.t.off \in 0 .. Len(text) /\ s.t.off + 1 = 1 /\ s.t.e + s.t.sp <= Len(s.t.buff) + 1
  BY <1>2, TextsAre
<1>7. s \in TplRuns(s.t.buff) /\ s.out \in Seq(TplEvents) /\ s.t.token \in Seq(Alphabet)
  BY <1>1, <1>2, <1>3
<1>8. SoFar(Merged(s.out), text, fs, s.t.off + 1)
  BY <1>4, <1>5, <1>6
<1>9. BetweenAt(s, text, fs)
  BY <1>2, <1>6, <1>7, <1>8, Zenon DEF BetweenAt
<1> QED BY <1>9 DEF s

\* The next buffer is filled.
LEMMA FilledIs ==
  ASSUME ttext \in Texts, NEW b, NEW t \in TplDatas(b), t.resume = 0, t.off \in 0 .. Len(ttext), t.token \in Seq(Alphabet),
         NEW r, r = Filled(t)
  PROVE  /\ r \in TplDatas(r.buff) /\ Window(r.buff, ttext, t.off) /\ r.off = t.off + Len(r.buff)
         /\ (Len(r.buff) = Chunk \/ r.off = Len(ttext)) /\ Len(r.buff) <= Chunk
         /\ r.pos = t.pos /\ r.token = t.token /\ r.e = 1 /\ r.sp = 0 /\ r.resume = 0 /\ r.calls = t.calls
<1> DEFINE l == Len(ttext)
           n == IF l - t.off < Chunk THEN l - t.off ELSE Chunk
           d == SubSeq(ttext, t.off + 1, t.off + n)
           a1 == [t EXCEPT !.buff = d]
           a2 == [a1 EXCEPT !.off = t.off + n]
           a3 == [a2 EXCEPT !.e = 1]
           a4 == [a3 EXCEPT !.sp = 0]
<1>1. r = a4
  <2>1. r = [t EXCEPT !.buff = d, !.off = t.off + n, !.e = 1, !.sp = 0]
    <3>1. ~ (t.resume > 0)
      OBVIOUS
    <3> QED BY <3>1, Zenon DEF Filled
  <2> QED BY <2>1, Zenon
<1>2. l \in Nat /\ t.off \in 0 .. l /\ Chunk \in Nat \ {0} /\ ttext \in Seq(Alphabet)
  BY TextsAre, TemplateAssumption
<1> HIDE DEF l
<1>3. n \in 0 .. Chunk /\ t.off + n \in 0 .. l /\ (n = Chunk \/ t.off + n = l)
  BY <1>2
<1> HIDE DEF n
<1>4. d \in Seq(Alphabet) /\ Len(d) = n /\ \A k \in 1 .. n : d[k] = ttext[t.off + k]
  <2>1. PICK o, h : o = t.off /\ h = t.off + n
    OBVIOUS
  <2>2. o \in Nat /\ h \in o .. l /\ h - o = n
    BY <1>2, <1>3, <2>1
  <2>3. d = SubSeq(ttext, o + 1, h)
    BY <2>1
  <2> HIDE DEF d
  <2>4. d \in Seq(Alphabet) /\ Len(d) = h - o
    BY <1>2, <2>2, <2>3 DEF l
  <2>5. \A k \in 1 .. h - o : d[k] = ttext[o + k]
    BY <1>2, <2>2, <2>3 DEF l
  <2> QED BY <2>1, <2>2, <2>4, <2>5
<1> HIDE DEF d
<1>5. /\ t.pos \in Nat /\ t.token \in Seq(Alphabet) /\ t.enc \in 0 .. 1 /\ t.e \in Nat \ {0} /\ t.sp \in Nat
      /\ t.resume \in Nat /\ t.calls \in Nat /\ t.off \in Nat
  BY DEF TplDatas
<1>6. t.token \in Seq(Letters(d))
  <2>1. Alphabet \subseteq Letters(d)
    BY DEF Letters
  <2> QED BY <1>5, <2>1
<1>7. r = [pos |-> t.pos, token |-> t.token, enc |-> t.enc, buff |-> d, e |-> 1, sp |-> 0, resume |-> t.resume,
           calls |-> t.calls, off |-> t.off + n]
  <2>1. t = [pos |-> t.pos, token |-> t.token, enc |-> t.enc, buff |-> t.buff, e |-> t.e, sp |-> t.sp,
             resume |-> t.resume, calls |-> t.calls, off |-> t.off]
    BY DEF TplDatas
  <2> QED BY <1>1, <2>1
<1>8. /\ r.buff = d /\ r.off = t.off + n
      /\ r.pos = t.pos /\ r.token = t.token /\ r.e = 1 /\ r.sp = 0 /\ r.resume = 0 /\ r.calls = t.calls
  BY <1>7
<1>9. r \in TplDatas(d)
  <2>1. t.off + n \in Nat
    BY <1>2, <1>3
  <2> QED BY <1>5, <1>6, <1>7, <2>1 DEF TplDatas
<1>10. Window(d, ttext, t.off)
  BY <1>2, <1>3, <1>4, <1>5 DEF Window, l
<1>11. n <= Chunk
  BY <1>2, <1>3
<1> QED BY <1>3, <1>4, <1>8, <1>9, <1>10, <1>11 DEF l

\* A state between two calls is one of the loop.
LEMMA BetweenRuns ==
  ASSUME NEW b, NEW t \in TplDatas(b), NEW out \in Seq(TplEvents)
  PROVE  /\ Between(t, out) \in TplRuns(b) /\ Between(t, out).t = t /\ Between(t, out).out = out
         /\ Between(t, out).stopped = 0
<1>1. TplEvents \subseteq LetterEvents(b)
  <2>1. Alphabet \subseteq Letters(b)
    BY DEF Letters
  <2>2. Seq(Alphabet) \subseteq Seq(Letters(b))
    BY <2>1
  <2> QED BY <2>1, <2>2 DEF TplEvents, LetterEvents
<1>2. out \in Seq(LetterEvents(b))
  <2>1. PICK E1, E2 : E1 = TplEvents /\ E2 = LetterEvents(b)
    OBVIOUS
  <2>2. out \in Seq(E1) /\ E1 \subseteq E2
    BY <1>1, <2>1
  <2>3. out \in Seq(E2)
    BY <2>2
  <2> QED BY <2>1, <2>3
<1> QED BY <1>2 DEF Between, TplRuns

\* One call: the loop from its place on, and the rest of the buffer.
From(t) == IF t.resume > 0 THEN t.resume ELSE 1
CallLoop(t, out, from, stop) == Looped(Between(Filled(t), out), Len(Filled(t).buff) - from + 1, from, stop)

\* tplCall is that loop.
LEMMA TplCallIs ==
  ASSUME TplCall
  PROVE  \E stop, s :
           /\ s = CallLoop(tpd, tout, From(tpd), stop)
           /\ tpd' = s.t
           /\ tout' = s.out \o (IF s.stopped = 1 THEN <<>>
                                ELSE Chars(SubSeq(Filled(tpd).buff, s.t.e, s.t.e + s.t.sp - 1)))
           /\ tphase' = (IF s.stopped = 0 /\ Len(Filled(tpd).buff) # Chunk THEN "done" ELSE "more")
           /\ UNCHANGED <<tfs, ttext>>
<1> DEFINE s(stop) == CallLoop(tpd, tout, From(tpd), stop)
<1>1. \E stop :
        /\ tpd' = s(stop).t
        /\ tout' = s(stop).out \o (IF s(stop).stopped = 1 THEN <<>>
                              ELSE Chars(SubSeq(Filled(tpd).buff, s(stop).t.e, s(stop).t.e + s(stop).t.sp - 1)))
        /\ tphase' = (IF s(stop).stopped = 0 /\ Len(Filled(tpd).buff) # Chunk THEN "done" ELSE "more")
        /\ UNCHANGED <<tfs, ttext>>
  BY ZenonT(90) DEF TplCall, Looped, Between, CallLoop, From, FoldLeft, MapThenFoldSet
<1> HIDE DEF s
<1>2. \A stop : s(stop) = CallLoop(tpd, tout, From(tpd), stop)
  BY DEF s
<1> QED BY <1>1, <1>2, Zenon

\* Where a call begins.
CallStart(a, b, base, from, n) ==
  /\ Window(b, ttext, base) /\ base \in Nat /\ a.t.off = base + Len(b) /\ (Len(b) = Chunk \/ a.t.off = Len(ttext))
  /\ from \in Nat \ {0} /\ n \in Nat /\ from + n - 1 = Len(b) /\ TplAt(a, b, ttext, tfs, base, from - 1)

\* Every call of the handler begins like this.
LEMMA CallStarts ==
  ASSUME ttext \in Texts, BetweenAt(Between(tpd, tout), ttext, tfs), NEW t, t = Filled(tpd), NEW b, b = t.buff,
         NEW from, from = From(tpd)
  PROVE  \E base : CallStart(Between(t, tout), b, base, from, Len(b) - from + 1)
<1> DEFINE o == Between(tpd, tout)
           a == Between(t, tout)
<1>1. o.t = tpd /\ o.out = tout /\ o.stopped = 0 /\ a.t = t /\ a.out = tout /\ a.stopped = 0
  BY DEF Between
<1>2. /\ o \in TplRuns(tpd.buff) /\ tout \in Seq(TplEvents) /\ tpd.token \in Seq(Alphabet)
      /\ tpd.off \in 0 .. Len(ttext) /\ tpd.e + tpd.sp <= Len(tpd.buff) + 1
      /\ \/ tpd.resume # 0 /\ Halted(o, tpd.buff, ttext, tfs)
         \/ /\ tpd.resume = 0 /\ tpd.pos = 0 /\ tpd.token = <<>> /\ tpd.calls = 0
            /\ SoFar(Merged(tout), ttext, tfs, tpd.off + 1)
         \/ tpd.resume = 0 /\ InTokenAt(o, ttext, tfs, tpd.off)
  BY <1>1, Zenon DEF BetweenAt
<1>3. tpd \in TplDatas(tpd.buff) /\ tpd.resume \in Nat
  <2>1. o.t \in TplDatas(tpd.buff)
    BY <1>2 DEF TplRuns
  <2>2. tpd \in TplDatas(tpd.buff)
    BY <1>1, <2>1, Zenon
  <2> QED BY <2>2 DEF TplDatas
<1> HIDE DEF o, a
<1>4. CASE tpd.resume # 0
  <2>1. tpd.resume > 0
    BY <1>3, <1>4
  <2>2. t = tpd
    BY <2>1, Zenon DEF Filled
  <2>3. a = o /\ b = tpd.buff
    BY <2>2 DEF a, o
  <2>4. PICK base \in Nat : /\ Window(b, ttext, base) /\ o.t.off = base + Len(b) /\ AgainAt(o, b, ttext, tfs, base)
                            /\ Len(b) = Chunk \/ o.t.off = Len(ttext)
    BY <1>2, <1>4, <2>3 DEF Halted
  <2>5. from = tpd.resume /\ from \in 1 .. Len(b)
    <3>1. o.t.resume \in 1 .. Len(b)
      BY <2>4 DEF AgainAt
    <3>2. from = tpd.resume
      BY <2>1 DEF From
    <3> QED BY <1>1, <3>1, <3>2
  <2>6. Len(b) \in Nat
    BY <2>4 DEF Window
  <2>7. from \in Nat \ {0} /\ Len(b) - from + 1 \in Nat /\ from + (Len(b) - from + 1) - 1 = Len(b) /\ (from - 1) + 1 = from
    BY <2>5, <2>6
  <2>8. TplAt(o, b, ttext, tfs, base, from - 1)
    <3>1. o.t.resume = (from - 1) + 1
      BY <1>1, <2>5, <2>7
    <3>2. o \in TplRuns(b) /\ o.out \in Seq(TplEvents) /\ o.t.e + o.t.sp <= Len(b) + 1
      BY <1>1, <1>2, <2>3
    <3> QED BY <1>1, <2>4, <3>1, <3>2, Zenon DEF TplAt
  <2>9. CallStart(o, b, base, from, Len(b) - from + 1)
    BY <2>4, <2>7, <2>8, Zenon DEF CallStart
  <2> QED BY <2>3, <2>9 DEF a
<1>5. CASE tpd.resume = 0
  <2>1. from = 1
    BY <1>5 DEF From
  <2>2. /\ t \in TplDatas(b) /\ Window(b, ttext, tpd.off) /\ t.off = tpd.off + Len(b)
        /\ (Len(b) = Chunk \/ t.off = Len(ttext)) /\ Len(b) <= Chunk
        /\ t.pos = tpd.pos /\ t.token = tpd.token /\ t.e = 1 /\ t.sp = 0 /\ t.resume = 0 /\ t.calls = tpd.calls
    <3>1. PICK c : c = tpd.buff
      OBVIOUS
    <3>2. tpd \in TplDatas(c)
      BY <1>3, <3>1
    <3> QED BY <1>2, <1>5, <3>2, FilledIs
  <2>3. Len(b) \in Nat
    BY <2>2 DEF Window
  <2>4. /\ from \in Nat \ {0} /\ Len(b) - from + 1 \in Nat /\ from + (Len(b) - from + 1) - 1 = Len(b) /\ from - 1 = 0
        /\ tpd.off \in Nat /\ tpd.off + 0 + 1 = tpd.off + 1 /\ tpd.off + 0 = tpd.off
    BY <1>2, <2>1, <2>3, TextsAre
  <2>5. a \in TplRuns(b)
    BY <1>2, <2>2, BetweenRuns DEF a
  <2>6. CASE tpd.pos = 0 /\ tpd.token = <<>> /\ tpd.calls = 0 /\ SoFar(Merged(tout), ttext, tfs, tpd.off + 1)
    <3>1. Chars(SubSeq(b, a.t.e, a.t.e + a.t.sp - 1)) = <<>>
      <4>1. a.t.e = 1 /\ a.t.sp = 0
        BY <1>1, <2>2
      <4>2. Chars(SubSeq(b, 1, 1 + 0 - 1)) = <<>>
        BY NoPieceLeft
      <4> QED BY <4>1, <4>2
    <3>2. Merged(tout) \o <<>> = Merged(tout)
      <4>1. Merged(tout) \in Seq(TplEvents)
        BY <1>2, MergedIn
      <4> QED BY <4>1, ConcatEmptySeq
    <3>3. SoFar(Merged(a.out) \o Chars(SubSeq(b, a.t.e, a.t.e + a.t.sp - 1)), ttext, tfs, tpd.off + 0 + 1)
      BY <1>1, <2>4, <2>6, <3>1, <3>2
    <3>4. a.t.pos = 0 /\ a.t.token = <<>> /\ a.t.calls = 0 /\ a.t.resume = 0 /\ a.t.e + a.t.sp = 0 + 1
      BY <1>1, <2>2, <2>6
    <3>5. InTextAt(a, b, ttext, tfs, tpd.off, 0)
      BY <3>3, <3>4, Zenon DEF InTextAt
    <3>6. a.t.e + a.t.sp <= Len(b) + 1
      BY <2>3, <3>4
    <3>7. TplAt(a, b, ttext, tfs, tpd.off, from - 1)
      BY <1>1, <1>2, <2>4, <2>5, <3>5, <3>6, Zenon DEF TplAt
    <3>8. CallStart(a, b, tpd.off, from, Len(b) - from + 1)
      BY <1>1, <2>2, <2>4, <3>7, Zenon DEF CallStart
    <3> QED BY <3>8 DEF a
  <2>7. CASE InTokenAt(o, ttext, tfs, tpd.off)
    <3>1. /\ tpd.calls = 0 /\ tpd.pos = 1 + Len(tpd.token)
          /\ \E i \in Nat : TokenAt(ttext, tfs, i, tpd.off, tpd.token) /\ SoFar(Merged(tout), ttext, tfs, i)
      BY <1>1, <2>7, Zenon DEF InTokenAt
    <3>2. InTokenAt(a, ttext, tfs, tpd.off + 0)
      BY <1>1, <2>2, <2>4, <3>1, Zenon DEF InTokenAt
    <3>3. a.t.e + a.t.sp <= Len(b) + 1
      BY <1>1, <2>2, <2>3
    <3>4. TplAt(a, b, ttext, tfs, tpd.off, from - 1)
      BY <1>1, <1>2, <2>4, <2>5, <3>2, <3>3, Zenon DEF TplAt
    <3>5. CallStart(a, b, tpd.off, from, Len(b) - from + 1)
      BY <1>1, <2>2, <2>4, <3>4, Zenon DEF CallStart
    <3> QED BY <3>5 DEF a
  <2> QED BY <1>2, <1>5, <2>6, <2>7
<1> QED BY <1>4, <1>5

\* What a call leaves.
CallLeft(t, out, phase) ==
  /\ BetweenAt(Between(t, out), ttext, tfs)
  /\ phase = "done" => Merged(out) = Expansion(ttext, tfs)[1]

\* r is what lies between two calls that leave the bookkeeping t and the output out.
IsBetween(r, b, t, out) == r \in TplRuns(b) /\ r.t = t /\ r.out = out /\ r.stopped = 0

\* What lies between two calls is a state the loop may start from.
LEMMA BetweenIs ==
  ASSUME NEW b, NEW s, s.t \in TplDatas(b), NEW out \in Seq(TplEvents)
  PROVE  IsBetween(Between(s.t, out), b, s.t, out)
<1>1. PICK t : t = s.t
  OBVIOUS
<1>2. t \in TplDatas(b)
  BY <1>1
<1>3. IsBetween(Between(t, out), b, t, out)
  BY <1>2, BetweenRuns DEF IsBetween
<1> QED BY <1>1, <1>3

\* A text that is read to its end is sent.
LEMMA CallLeaves ==
  ASSUME ttext \in Texts, NEW a, NEW b, NEW base, NEW from, NEW n, CallStart(a, b, base, from, n), NEW stop,
         NEW s, s = Looped(a, n, from, stop), NEW out,
         out = s.out \o (IF s.stopped = 1 THEN <<>> ELSE Chars(SubSeq(b, s.t.e, s.t.e + s.t.sp - 1))),
         NEW phase, phase = (IF s.stopped = 0 /\ Len(b) # Chunk THEN "done" ELSE "more")
  PROVE  CallLeft(s.t, out, phase)
<1>1. /\ Window(b, ttext, base) /\ base \in Nat /\ a.t.off = base + Len(b) /\ (Len(b) = Chunk \/ a.t.off = Len(ttext))
      /\ from \in Nat \ {0} /\ n \in Nat /\ from + n - 1 = Len(b) /\ TplAt(a, b, ttext, tfs, base, from - 1)
  BY Zenon DEF CallStart
<1>2. TplAt(s, b, ttext, tfs, base, Len(b)) /\ s.t.off = a.t.off
  BY <1>1, LoopKeeps
<1>3. s \in TplRuns(b) /\ s.out \in Seq(TplEvents) /\ s.t.e + s.t.sp <= Len(b) + 1
  BY <1>2, Zenon DEF TplAt
<1>4. /\ s.t.buff = b /\ s.t.e \in Nat \ {0} /\ s.t.sp \in Nat /\ s.t.resume \in Nat /\ s.t \in TplDatas(b)
      /\ s.stopped \in 0 .. 1
  <2>1. s.t \in TplDatas(b)
    BY <1>3 DEF TplRuns
  <2> QED BY <1>3, <2>1, FieldTypes
<1>5. Len(ttext) \in Nat /\ Len(b) \in Nat /\ b \in Seq(Alphabet) /\ base + Len(b) <= Len(ttext)
  BY <1>1, TextsAre DEF Window
<1>6. s.t.off \in 0 .. Len(ttext) /\ s.t.off = base + Len(b)
  BY <1>1, <1>2, <1>5
<1> DEFINE u == Between(s.t, out)
<1>7. ASSUME out \in Seq(TplEvents), s.t.token \in Seq(Alphabet),
             \/ s.t.resume # 0 /\ Halted(u, b, ttext, tfs)
             \/ /\ s.t.resume = 0 /\ s.t.pos = 0 /\ s.t.token = <<>> /\ s.t.calls = 0
                /\ SoFar(Merged(out), ttext, tfs, s.t.off + 1)
             \/ s.t.resume = 0 /\ InTokenAt(u, ttext, tfs, s.t.off)
      PROVE  BetweenAt(u, ttext, tfs)
  <2>1. u \in TplRuns(b) /\ u.t = s.t /\ u.out = out /\ u.stopped = 0
    <3>1. IsBetween(u, b, s.t, out)
      <4>1. s.t \in TplDatas(b)
        BY <1>4
      <4>2. out \in Seq(TplEvents)
        BY <1>7
      <4> QED BY <4>1, <4>2, BetweenIs
    <3> HIDE DEF u
    <3> QED BY <3>1, Zenon DEF IsBetween
  <2> HIDE DEF u
  <2>2. u \in TplRuns(u.t.buff) /\ u.t.buff = b
    BY <1>4, <2>1
  <2> QED BY <1>3, <1>6, <1>7, <2>1, <2>2, Zenon DEF BetweenAt
<1>8. u.t = s.t /\ u.out = out
  BY DEF Between
<1> HIDE DEF u
<1>9. CASE s.stopped = 1
  <2>1. AgainAt(s, b, ttext, tfs, base)
    BY <1>2, <1>9 DEF TplAt
  <2>2. out = s.out
    <3>1. s.out \o <<>> = s.out
      BY <1>3, ConcatEmptySeq
    <3> QED BY <1>9, <3>1
  <2>3. AgainAt(u, b, ttext, tfs, base)
    BY <1>8, <2>1, <2>2, Zenon DEF AgainAt
  <2>4. Halted(u, b, ttext, tfs)
    BY <1>1, <1>2, <1>8, <2>3 DEF Halted
  <2>5. s.t.token \in Seq(Alphabet) /\ s.t.resume # 0
    BY <2>1 DEF AgainAt
  <2>6. BetweenAt(u, ttext, tfs)
    BY <1>3, <1>7, <2>2, <2>4, <2>5
  <2>7. phase # "done"
    BY <1>9
  <2> QED BY <2>6, <2>7 DEF CallLeft, u
<1>10. CASE s.stopped = 0 /\ InTextAt(s, b, ttext, tfs, base, Len(b))
  <2> DEFINE w == SubSeq(b, s.t.e, s.t.e + s.t.sp - 1)
  <2>1. /\ s.t.pos = 0 /\ s.t.token = <<>> /\ s.t.calls = 0 /\ s.t.resume = 0
        /\ SoFar(Merged(s.out) \o Chars(w), ttext, tfs, base + Len(b) + 1)
    BY <1>10, Zenon DEF InTextAt
  <2>2. w \in Seq(Alphabet)
    BY <1>3, <1>4, <1>5, PieceOf
  <2>3. out = s.out \o Chars(w)
    BY <1>10
  <2> HIDE DEF w
  <2>4. out \in Seq(TplEvents) /\ Merged(out) = Merged(s.out) \o Chars(w)
    BY <1>3, <2>2, <2>3, PieceSent
  <2>5. SoFar(Merged(out), ttext, tfs, s.t.off + 1)
    BY <1>6, <2>1, <2>4
  <2>6. s.t.token \in Seq(Alphabet)
    BY <2>1
  <2>7. BetweenAt(u, ttext, tfs)
    BY <1>7, <2>1, <2>4, <2>5, <2>6
  <2>8. phase = "done" => Merged(out) = Expansion(ttext, tfs)[1]
    <3> SUFFICES ASSUME phase = "done" PROVE Merged(out) = Expansion(ttext, tfs)[1]
      OBVIOUS
    <3>1. Len(b) # Chunk
      BY <1>10
    <3>2. s.t.off = Len(ttext)
      BY <1>1, <1>2, <3>1
    <3>3. SoFar(Merged(out), ttext, tfs, Len(ttext) + 1)
      BY <2>5, <3>2
    <3>4. Merged(out) \in Seq(TplEvents)
      BY <2>4, MergedIn
    <3> QED BY <3>3, <3>4, SoFarEnd
  <2> QED BY <2>7, <2>8 DEF CallLeft, u
<1>11. CASE s.stopped = 0 /\ InTokenAt(s, ttext, tfs, base + Len(b))
  <2>1. s.t.calls = 0 /\ s.t.resume = 0 /\ s.t.sp = 0 /\ s.t.pos = 1 + Len(s.t.token)
    BY <1>11, Zenon DEF InTokenAt
  <2>2. PICK i \in Nat : TokenAt(ttext, tfs, i, base + Len(b), s.t.token) /\ SoFar(Merged(s.out), ttext, tfs, i)
    BY <1>11, Zenon DEF InTokenAt
  <2>3. out = s.out
    <3>1. Chars(SubSeq(b, s.t.e, s.t.e + 0 - 1)) = <<>>
      BY <1>4, NoPieceLeft
    <3>2. s.out \o <<>> = s.out
      BY <1>3, ConcatEmptySeq
    <3>3. out = s.out \o Chars(SubSeq(b, s.t.e, s.t.e + 0 - 1))
      BY <1>11, <2>1
    <3> QED BY <3>1, <3>2, <3>3
  <2>4. TokenAt(ttext, tfs, i, s.t.off, s.t.token)
    BY <1>6, <2>2
  <2>5. InTokenAt(u, ttext, tfs, s.t.off)
    BY <1>8, <2>1, <2>2, <2>3, <2>4, Zenon DEF InTokenAt
  <2>6. s.t.off \in 1 .. Len(ttext) /\ i \in 1 .. s.t.off /\ i \in 1 .. Len(ttext) /\ s.t.token = NameIn(ttext, i, s.t.off + 1)
    <3>1. s.t.off \in 1 .. Len(ttext) /\ i \in 1 .. s.t.off /\ s.t.token = NameIn(ttext, i, s.t.off + 1)
      BY <2>4, Zenon DEF TokenAt
    <3> QED BY <1>5, <3>1
  <2>7. s.t.token \in Seq(Alphabet)
    <3>1. PICK j : j = s.t.off + 1
      OBVIOUS
    <3>2. j \in i + 1 .. Len(ttext) + 1
      BY <1>5, <2>6, <3>1
    <3>3. NameIn(ttext, i, j) \in Seq(Alphabet)
      BY <2>6, <3>2, NameIs
    <3> QED BY <2>6, <3>1, <3>3
  <2>8. BetweenAt(u, ttext, tfs)
    BY <1>3, <1>7, <2>1, <2>3, <2>5, <2>7
  <2>9. phase = "done" => Merged(out) = Expansion(ttext, tfs)[1]
    <3> SUFFICES ASSUME phase = "done" PROVE Merged(out) = Expansion(ttext, tfs)[1]
      OBVIOUS
    <3>1. Len(b) # Chunk
      BY <1>11
    <3>2. s.t.off = Len(ttext)
      BY <1>1, <1>2, <3>1
    <3>3. ttext[i] = "%" /\ \A k \in i + 1 .. Len(ttext) : k \notin Stops(ttext, tfs, i)
      BY <2>4, <3>2 DEF TokenAt
    <3>4. Stops(ttext, tfs, i) \subseteq i + 1 .. Len(ttext)
      BY DEF Stops
    <3>5. Stops(ttext, tfs, i) = {}
      BY <3>3, <3>4
    <3>6. Merged(out) \in Seq(TplEvents) /\ SoFar(Merged(out), ttext, tfs, i)
      BY <1>3, <2>2, <2>3, MergedIn
    <3> QED BY <3>3, <3>5, <3>6, SoFarEnd
  <2> QED BY <2>8, <2>9 DEF CallLeft, u
<1>12. ~ (AgainAt(s, b, ttext, tfs, base) /\ s.t.resume = Len(b) + 1)
  <2>1. AgainAt(s, b, ttext, tfs, base) => s.t.resume \in 1 .. Len(b)
    BY Zenon DEF AgainAt
  <2> QED BY <1>5, <2>1
<1> QED BY <1>2, <1>9, <1>10, <1>11, <1>12, Zenon DEF TplAt

-----------------------------------------------------------------------------
(* What the send buffer refuses.                                           *)

Sents == [fill : Int, lost : SUBSET Nat, wrote : Nat]

\* k characters are taken if they fit.
Fitted(b, k, o) ==
  /\ o \in Sents /\ o.wrote = b.wrote
  /\ b.fill + k <= Room => o.fill = b.fill + k /\ o.lost = b.lost

LEMMA OfferIs ==
  ASSUME NEW b \in Sents, NEW i \in Nat, NEW j \in Int, NEW k, k = j - i + 1, NEW o, o = Offer(b, i, j)
  PROVE  Fitted(b, k, o)
<1>0. k \in Int
  OBVIOUS
<1>1. CASE b.fill + k <= Room
  <2>1. o = [b EXCEPT !.fill = b.fill + k]
    BY <1>1, Zenon DEF Offer
  <2>2. b.fill + k \in Int
    BY <1>0 DEF Sents
  <2>3. o \in Sents /\ o.wrote = b.wrote /\ o.fill = b.fill + k /\ o.lost = b.lost
    BY <2>1, <2>2 DEF Sents
  <2> QED BY <2>3 DEF Fitted
<1>2. CASE ~ (b.fill + k <= Room)
  <2>1. o = [b EXCEPT !.lost = b.lost \cup i .. j]
    BY <1>2, Zenon DEF Offer
  <2>2. i .. j \subseteq Nat
    OBVIOUS
  <2>3. o \in Sents /\ o.wrote = b.wrote
    BY <2>1, <2>2 DEF Sents
  <2> QED BY <1>2, <2>3 DEF Fitted
<1> QED BY <1>1, <1>2

\* A text that is offered.
LEMMA TextOffered ==
  ASSUME NEW b \in Sents, NEW n \in Nat, NEW m \in Nat, NEW o, o = Offer(b, n + 1, m), NEW k, k = m - n
  PROVE  Fitted(b, k, o)
<1>1. PICK i : i = n + 1
  OBVIOUS
<1>2. i \in Nat /\ m \in Int /\ k = m - i + 1
  BY <1>1
<1>3. o = Offer(b, i, m)
  BY <1>1
<1> QED BY <1>2, <1>3, OfferIs

\* A bad token is offered in three parts.
BadToken(b, n, m) == Offer(Offer(Offer(b, n + 1, n + 1), n + 2, m - 1), m, m)

LEMMA BadTokenIs ==
  ASSUME NEW b \in Sents, NEW n \in Nat, NEW m \in Nat, m > n + 1, NEW o, o = BadToken(b, n, m), NEW l, l = m - n
  PROVE  Fitted(b, l, o)
<1>1. PICK i1, i2, m1, k : i1 = n + 1 /\ i2 = n + 2 /\ m1 = m - 1 /\ k = m - n - 2
  OBVIOUS
<1>2. /\ i1 \in Nat /\ i1 \in Int /\ i2 \in Nat /\ m1 \in Int /\ k \in Int /\ k >= 0 /\ m \in Int
      /\ 1 = i1 - i1 + 1 /\ k = m1 - i2 + 1 /\ 1 = m - m + 1
  BY <1>1
<1>3. PICK b1 : b1 = Offer(b, i1, i1)
  OBVIOUS
<1>4. PICK b2 : b2 = Offer(b1, i2, m1)
  OBVIOUS
<1>5. o = Offer(b2, m, m)
  BY <1>1, <1>3, <1>4 DEF BadToken
<1>6. Fitted(b, 1, b1)
  BY <1>2, <1>3, OfferIs
<1>7. Fitted(b1, k, b2)
  <2>1. b1 \in Sents
    BY <1>6 DEF Fitted
  <2> QED BY <1>2, <1>4, <2>1, OfferIs
<1>8. Fitted(b2, 1, o)
  <2>1. b2 \in Sents
    BY <1>7 DEF Fitted
  <2> QED BY <1>2, <1>5, <2>1, OfferIs
<1>9. PICK f : f = b.fill
  OBVIOUS
<1>10. f \in Int /\ Room \in Nat
  BY <1>9, TemplateAssumption DEF Sents
<1>11. ASSUME f + l <= Room
       PROVE  o.fill = f + l /\ o.lost = b.lost
  <2>1. b1.fill = f + 1 /\ b1.lost = b.lost
    <3>1. f + 1 <= Room
      BY <1>10, <1>11
    <3> QED BY <1>6, <1>9, <3>1 DEF Fitted
  <2>2. b2.fill = f + 1 + k /\ b2.lost = b.lost
    <3>1. f + 1 + k <= Room
      BY <1>1, <1>10, <1>11
    <3> QED BY <1>7, <2>1, <3>1 DEF Fitted
  <2>3. f + 1 + k + 1 = f + l
    BY <1>1, <1>10
  <2> QED BY <1>8, <1>11, <2>2, <2>3 DEF Fitted
<1>12. o \in Sents /\ o.wrote = b.wrote
  BY <1>6, <1>7, <1>8 DEF Fitted
<1> QED BY <1>9, <1>11, <1>12 DEF Fitted

\* So are those of a step, all of them, when they fit; a callback writes no more than it wants to.
CalledBack(b, w, o) == o \in Sents /\ o.wrote = b.wrote + w /\ o.lost = b.lost /\ o.fill <= b.fill + w

LEMMA OfferedIs ==
  ASSUME NEW b \in Sents, NEW s, NEW r, NEW n \in Nat, n = Len(s.out), NEW m \in Nat, m = Len(r.out), NEW x, NEW w,
         NEW k, k = m - n, NEW o, o = Offered(b, s, r, x, w)
  PROVE  /\ CallsBack(s, x) /\ w \in Nat => CalledBack(b, w, o)
         /\ ~ CallsBack(s, x) => Fitted(b, k, o)
<1>1. ASSUME CallsBack(s, x), w \in Nat
      PROVE  CalledBack(b, w, o)
  <2>1. PICK f : f = IF b.fill + w <= Room THEN b.fill + w ELSE b.fill
    OBVIOUS
  <2>2. PICK g : g = b.wrote + w
    OBVIOUS
  <2>3. f \in Int /\ f <= b.fill + w /\ g \in Nat
    BY <1>1, <2>1, <2>2 DEF Sents
  <2>4. o = [b EXCEPT !.wrote = g, !.fill = f]
    BY <1>1, <2>1, <2>2, Zenon DEF Offered
  <2>5. o = [fill |-> f, lost |-> b.lost, wrote |-> g]
    BY <2>4 DEF Sents
  <2>6. o \in Sents /\ o.wrote = g /\ o.lost = b.lost /\ o.fill = f
    BY <2>3, <2>5 DEF Sents
  <2> QED BY <2>2, <2>3, <2>6 DEF CalledBack
<1>2. ASSUME ~ CallsBack(s, x), s.t.pos > 0 /\ m > n + 1
      PROVE  Fitted(b, k, o)
  <2>1. o = BadToken(b, n, m)
    BY <1>2, Zenon DEF Offered, BadToken
  <2>2. PICK n1, m1 : n1 = n /\ m1 = m
    OBVIOUS
  <2>3. n1 \in Nat /\ m1 \in Nat /\ m1 > n1 + 1 /\ o = BadToken(b, n1, m1) /\ k = m1 - n1
    BY <1>2, <2>1, <2>2
  <2> QED BY <2>3, BadTokenIs
<1>3. ASSUME ~ CallsBack(s, x), ~ (s.t.pos > 0 /\ m > n + 1)
      PROVE  Fitted(b, k, o)
  <2>1. o = Offer(b, n + 1, m)
    BY <1>3, Zenon DEF Offered
  <2>2. PICK n1, m1 : n1 = n /\ m1 = m
    OBVIOUS
  <2>3. n1 \in Nat /\ m1 \in Nat /\ o = Offer(b, n1 + 1, m1) /\ k = m1 - n1
    BY <2>1, <2>2
  <2> QED BY <2>3, TextOffered
<1> QED BY <1>1, <1>2, <1>3

\* Every callback of the buffer writes something.
Written(w, b) == \A y \in 1 .. Len(b) : b[y] = "%" => w[y] \in Nat

Passes(b) == [run : TplFolds(b), sent : Sents]

\* A step leads to a state of the loop and of the send buffer.
LEMMA SendStepStays ==
  ASSUME NEW b, NEW p \in Passes(b), NEW w, Written(w, b), NEW x \in Nat, x \in 1 .. Len(b), NEW stop
  PROVE  SendStep(p, x, stop, w) \in Passes(b)
<1>1. PICK s, r : s = p.run /\ r = TplStep(s, x, stop)
  OBVIOUS
<1>2. s \in TplFolds(b) /\ p.sent \in Sents
  BY <1>1 DEF Passes
<1>3. r \in TplFolds(b)
  BY <1>1, <1>2, TplStepStays
<1>4. s \in TplRuns(b) /\ r \in TplRuns(b)
  BY <1>2, <1>3 DEF TplFolds
<1>5. s.t.buff = b /\ s.out \in Seq(LetterEvents(b)) /\ r.out \in Seq(LetterEvents(b))
  BY <1>4, FieldTypes
<1>6. PICK n, m : n = Len(s.out) /\ m = Len(r.out)
  OBVIOUS
<1>7. n \in Nat /\ m \in Nat
  BY <1>5, <1>6
<1>8. CallsBack(s, x) => w[x] \in Nat
  <2>1. CallsBack(s, x) => b[x] = "%"
    BY <1>5, Zenon DEF CallsBack
  <2> QED BY <2>1 DEF Written
<1>9. PICK o : o = Offered(p.sent, s, r, x, w[x])
  OBVIOUS
<1>10. o \in Sents
  <2>1. PICK d, v, k : d = p.sent /\ v = w[x] /\ k = m - n
    OBVIOUS
  <2>2. d \in Sents /\ o = Offered(d, s, r, x, v)
    BY <1>2, <1>9, <2>1
  <2>3. (CallsBack(s, x) /\ v \in Nat => CalledBack(d, v, o)) /\ (~ CallsBack(s, x) => Fitted(d, k, o))
    BY <1>6, <1>7, <2>1, <2>2, OfferedIs
  <2>4. (CallsBack(s, x) => v \in Nat)
    BY <1>8, <2>1
  <2> QED BY <2>3, <2>4 DEF CalledBack, Fitted
<1>11. SendStep(p, x, stop, w) = [run |-> r, sent |-> o]
  BY <1>1, <1>9, Zenon DEF SendStep
<1> QED BY <1>3, <1>10, <1>11 DEF Passes

\* The loop with the send buffer runs over the buffer from a place on.
SendRun(st, b, a, n, from, stop, w) ==
  /\ st \in [0 .. n -> Passes(b)] /\ st[0] = a
  /\ \A k \in 1 .. n : st[k] = SendStep(st[k - 1], from + k - 1, stop, w)

SendLooped(a, n, from, stop, w) ==
  FoldLeft(LAMBDA acc, x : SendStep(acc, x, stop, w), a, [i \in 1 .. n |-> from + i - 1])

RunsTo(b, a, n, from, stop, w) ==
  \E st : SendRun(st, b, a, n, from, stop, w) /\ SendLooped(a, n, from, stop, w) = st[n]

\* Going over the buffer with a fold is such a run.
LEMMA SendLoopRuns ==
  ASSUME NEW b, NEW a \in Passes(b), NEW n \in Nat, NEW from \in Nat \ {0}, Len(b) \in Nat, from + n - 1 = Len(b), NEW stop,
         NEW w, Written(w, b)
  PROVE  RunsTo(b, a, n, from, stop, w)
<1> DEFINE S == Passes(b)
           ids == [i \in 1 .. n |-> from + i - 1]
           Step(s, k) == SendStep(s, from + k - 1, stop, w)
           G == [p \in (1 .. n) \X S |-> Step(p[2], p[1])]
           c == CHOOSE iter : iter = [s \in SUBSET (DOMAIN ids) |->
                  IF s = {} THEN a ELSE SendStep(iter[s \ {Max(s)}], ids[Max(s)], stop, w)]
           fin == c[DOMAIN ids]
<1>1. DOMAIN ids = 1 .. n /\ \A k \in 1 .. n : /\ ids[k] = from + k - 1 /\ from + k - 1 \in Nat
                                               /\ from + k - 1 \in 1 .. Len(b)
  OBVIOUS
<1>2. SendLooped(a, n, from, stop, w) = fin
  BY Zenon DEF SendLooped, FoldLeft, MapThenFoldSet
<1> HIDE DEF ids
<1>4. ASSUME NEW k \in 1 .. n, NEW s \in S
      PROVE  G[<<k, s>>] = Step(s, k) /\ G[<<k, s>>] \in S
  <2>1. Step(s, k) \in S
    BY <1>1, SendStepStays
  <2>2. <<k, s>> \in (1 .. n) \X S
    OBVIOUS
  <2> HIDE DEF S, Step
  <2> QED BY <2>1, <2>2
<1>3. a \in S
  OBVIOUS
<1>20. ASSUME NEW k \in 1 .. n, NEW s
       PROVE  Step(s, k) = SendStep(s, ids[k], stop, w)
  BY <1>1
<1> HIDE DEF S, G, Step
<1>5. Leads(G, n, S)
  BY <1>4 DEF Leads
<1>6. PICK h \in [SUBSET (1 .. n) -> S] : Folds1(h, n, a, G)
  BY <1>3, <1>5, FoldExists
<1> DEFINE D(f) == [s \in SUBSET (1 .. n) |-> IF s = {} THEN a ELSE SendStep(f[s \ {Max(s)}], ids[Max(s)], stop, w)]
<1>7. h = D(h)
  <2> DEFINE e == [s \in SUBSET (1 .. n) |-> IF s = {} THEN a ELSE G[<<Max(s), h[s \ {Max(s)}]>>]]
  <2>1. h = e
    BY <1>6, Zenon DEF Folds1
  <2>2. ASSUME NEW s \in SUBSET (1 .. n), s # {}
        PROVE  G[<<Max(s), h[s \ {Max(s)}]>>] = SendStep(h[s \ {Max(s)}], ids[Max(s)], stop, w)
    <3>1. Max(s) \in 1 .. n
      BY <2>2, MaxIs
    <3>2. h[s \ {Max(s)}] \in S
      BY <1>6
    <3> QED BY <1>4, <1>20, <3>1, <3>2
  <2>3. e = D(h)
    BY <2>2
  <2> QED BY <2>1, <2>3, Zenon
<1>8. c = D(c)
  BY <1>1, <1>7, Zenon
<1>9. \A s \in SUBSET (1 .. n) : c[s] = IF s = {} THEN a ELSE SendStep(c[s \ {Max(s)}], ids[Max(s)], stop, w)
  <2> DEFINE d == D(c)
  <2>1. \A s \in SUBSET (1 .. n) : d[s] = IF s = {} THEN a ELSE SendStep(c[s \ {Max(s)}], ids[Max(s)], stop, w)
    BY Zenon
  <2>2. c = d
    BY <1>8, Zenon
  <2> HIDE DEF d, c
  <2> QED BY <2>1, <2>2, Zenon
<1> HIDE DEF c
<1>10. c[{}] = a
  BY <1>9
<1>11. ASSUME NEW s \in SUBSET (1 .. n), s # {}, c[s \ {Max(s)}] \in S
       PROVE  c[s] = G[<<Max(s), c[s \ {Max(s)}]>>]
  <2>1. Max(s) \in 1 .. n
    BY <1>11, MaxIs
  <2>3. c[s] = Step(c[s \ {Max(s)}], Max(s))
    BY <1>9, <1>11, <1>20, <2>1
  <2> QED BY <1>4, <1>11, <2>1, <2>3
<1>12. PICK st : Steps(st, n, S, a, G) /\ c[1 .. n] = st[n]
  <2>1. FoldSteps(c, n, S, G)
    BY <1>11 DEF FoldSteps
  <2> QED BY <1>3, <1>5, <1>10, <2>1, FoldRuns
<1>13. /\ st \in [0 .. n -> S] /\ st[0] = a /\ \A k \in 1 .. n : st[k] = G[<<k, st[k - 1]>>]
  BY <1>12 DEF Steps
<1>14. ASSUME NEW k \in 1 .. n
       PROVE  st[k] = Step(st[k - 1], k)
  <2>1. k - 1 \in 0 .. n
    OBVIOUS
  <2>2. st[k - 1] \in S
    BY <1>13, <2>1
  <2> QED BY <1>4, <1>13, <2>2
<1>15. fin = st[n]
  BY <1>1, <1>12
<1> HIDE DEF fin
<1>16. SendLooped(a, n, from, stop, w) = st[n]
  BY <1>2, <1>15
<1>17. SendRun(st, b, a, n, from, stop, w)
  BY <1>13, <1>14, Zenon DEF SendRun, S, Step
<1> QED BY <1>16, <1>17 DEF RunsTo

LEMMA LenOfTwo ==
  ASSUME NEW S, NEW g \in Seq(S), NEW v \in Seq(S), NEW h, h = g \o v
  PROVE  Len(h) = Len(g) + Len(v)
OBVIOUS

LEMMA JoinIn ==
  ASSUME NEW S, NEW g \in Seq(S), NEW v \in Seq(S), NEW h, h = g \o v
  PROVE  h \in Seq(S)
OBVIOUS

\* The arithmetic of a callback, of a bad token, and of what is offered.
LEMMA CalledSum ==
  ASSUME NEW sp \in Nat, NEW po \in Nat, NEW rsp, NEW rpo, rsp = sp, rpo = 0 \/ rpo = po
  PROVE  rsp + rpo <= sp + po
OBVIOUS

LEMMA BadSum ==
  ASSUME NEW n \in Nat, NEW l \in Nat, NEW m, m = n + 1 + l + 1, NEW sp \in Nat, NEW po, po = 1 + l, NEW rsp, rsp = sp,
         NEW rpo, rpo = 0
  PROVE  m >= n /\ (m - n) + rsp + rpo <= sp + po + 1
OBVIOUS

CalledTerms(df, dw, ofi, ow, v, sp, po, rsp, rpo, had, M) ==
  /\ df \in Int /\ dw \in Nat /\ ofi \in Int /\ ow \in Nat /\ v \in Nat /\ sp \in Nat /\ po \in Nat
  /\ rsp \in Nat /\ rpo \in Nat /\ had \in Nat /\ M \in Nat
  /\ ow = dw + v /\ ofi <= df + v /\ rsp + rpo <= sp + po /\ ow + M <= Room

LEMMA CalledLeft ==
  ASSUME NEW df, NEW dw, NEW ofi, NEW ow, NEW v, NEW sp, NEW po, NEW rsp, NEW rpo, NEW had, NEW M,
         CalledTerms(df, dw, ofi, ow, v, sp, po, rsp, rpo, had, M)
  PROVE  dw + M <= Room /\ (df + sp + po <= dw + had => ofi + rsp + rpo <= ow + (had + 1))
BY TemplateAssumption DEF CalledTerms

OfferedTerms(df, dw, k, sp, po, rsp, rpo, had, M) ==
  /\ df \in Int /\ dw \in Nat /\ k \in Int /\ sp \in Nat /\ po \in Nat /\ rsp \in Nat /\ rpo \in Nat
  /\ had \in Nat /\ M \in Nat
  /\ k + rsp + rpo <= sp + po + 1 /\ dw + M <= Room /\ df + sp + po <= dw + had /\ had + 1 <= M

LEMMA OfferedLeft ==
  ASSUME NEW df, NEW dw, NEW k, NEW sp, NEW po, NEW rsp, NEW rpo, NEW had, NEW M,
         OfferedTerms(df, dw, k, sp, po, rsp, rpo, had, M)
  PROVE  df + k <= Room /\ (df + k) + rsp + rpo <= dw + (had + 1)
BY TemplateAssumption DEF OfferedTerms

LEMMA TextLeft ==
  ASSUME NEW df \in Int, NEW dw \in Nat, NEW k \in Nat, NEW po \in Nat, NEW all \in Nat, NEW M \in Nat, NEW room \in Nat,
         df + k + po <= dw + all, dw + M <= room, all <= M
  PROVE  df + k <= room
OBVIOUS

\* A step adds at most one character to what is offered, waits to be sent or is
\* collected; a callback adds none.
LEMMA StepGrows ==
  ASSUME NEW b, NEW base \in Nat, ttext \in Texts, Window(b, ttext, base), NEW x \in 1 .. Len(b), NEW s,
         TplAt(s, b, ttext, tfs, base, x - 1), NEW stop, NEW r, r = TplStep(s, x, stop), r \in TplRuns(b),
         NEW n, n = Len(s.out), NEW m, m = Len(r.out)
  PROVE  /\ n \in Nat /\ m \in Nat /\ s.t.sp \in Nat /\ s.t.pos \in Nat /\ r.t.sp \in Nat /\ r.t.pos \in Nat
         /\ CallsBack(s, x) => r.t.sp + r.t.pos <= s.t.sp + s.t.pos
         /\ ~ CallsBack(s, x) => m >= n /\ (m - n) + r.t.sp + r.t.pos <= s.t.sp + s.t.pos + 1
<1>1. s \in TplRuns(b) /\ Len(b) \in Nat /\ b \in Seq(Alphabet) /\ x \in Nat
  BY DEF TplAt, Window
<1>2. PICK c : c = b[x]
  OBVIOUS
<1>3. /\ s.t.buff[x] = c /\ c \in Letters(b) /\ s.t.pos \in Nat /\ s.t.sp \in Nat /\ s.stopped \in 0 .. 1
      /\ s.t.token \in Seq(Letters(b)) /\ s.t.calls \in Nat /\ s.out \in Seq(LetterEvents(b)) /\ s.t.e \in Nat \ {0}
  <2>1. c \in Letters(b)
    BY <1>1, <1>2 DEF Letters
  <2>2. s.t.buff = b
    BY <1>1, FieldTypes
  <2> QED BY <1>1, <1>2, <2>1, <2>2, FieldTypes
<1>4. r.t.pos \in Nat /\ r.t.sp \in Nat /\ r.out \in Seq(LetterEvents(b))
  BY FieldTypes
<1>5. n \in Nat /\ m \in Nat
  BY <1>3, <1>4
<1>6. CASE s.stopped = 1
  <2>1. r = s
    BY <1>6, Zenon DEF TplStep
  <2>2. ~ CallsBack(s, x)
    BY <1>6 DEF CallsBack
  <2> QED BY <1>3, <1>4, <1>5, <2>1, <2>2
<1>7. CASE s.stopped # 1 /\ s.t.pos = 0
  <2>1. r = InText(s, x, c)
    BY <1>3, <1>7, Zenon DEF TplStep
  <2>2. ~ CallsBack(s, x)
    BY <1>7 DEF CallsBack
  <2>3. /\ r \in TplRuns(b) /\ r.t.off = s.t.off
        /\ c # "%" => Fields(r, s.t.pos, s.t.token, s.t.enc, s.t.e, s.t.sp + 1, s.t.resume, s.t.calls,
                             s.out, s.stopped)
        /\ c = "%" => Fields(r, 1, <<>>, s.t.enc, s.t.e, 0, s.t.resume, s.t.calls,
                             s.out \o Chars(SubSeq(b, s.t.e, s.t.e + s.t.sp - 1)), s.stopped)
    BY <1>1, <2>1, InTextIs
  <2>4. CASE c # "%"
    <3>1. r.t.pos = 0 /\ r.t.sp = s.t.sp + 1 /\ r.out = s.out
      BY <1>7, <2>3, <2>4 DEF Fields
    <3> QED BY <1>3, <1>4, <1>5, <1>7, <2>2, <3>1
  <2>5. CASE c = "%"
    <3>0. PICK g, h : g = s.out /\ h = r.out
      OBVIOUS
    <3>1. PICK w : w = SubSeq(b, s.t.e, s.t.e + s.t.sp - 1)
      OBVIOUS
    <3>2. r.t.pos = 1 /\ r.t.sp = 0 /\ r.out = s.out \o Chars(w)
      BY <2>3, <2>5, <3>1 DEF Fields
    <3>3. w \in Seq(Letters(b)) /\ Len(w) = s.t.sp
      BY <1>3, <3>1, PieceIn
    <3>4. Chars(w) \in Seq(LetterEvents(b)) /\ Len(Chars(w)) = s.t.sp
      BY <3>3, LettersSent
    <3>5. m = n + s.t.sp
      <4>1. PICK v : v = Chars(w)
        OBVIOUS
      <4>2. h = g \o v /\ g \in Seq(LetterEvents(b)) /\ v \in Seq(LetterEvents(b)) /\ Len(v) = s.t.sp
        BY <1>3, <3>0, <3>2, <3>4, <4>1
      <4>3. Len(h) = Len(g) + Len(v)
        BY <4>2, LenOfTwo, Zenon
      <4> QED BY <3>0, <4>2, <4>3
    <3> QED BY <1>3, <1>4, <1>5, <1>7, <2>2, <3>2, <3>5
  <2> QED BY <2>4, <2>5
<1>8. CASE s.stopped # 1 /\ s.t.pos # 0
  <2>0. s.stopped = 0
    BY <1>3, <1>8
  <2>1. TokenStep(s, x, c, stop, r)
    <3>1. s.stopped = 0 /\ s.t.pos # 0 /\ s.t.buff[x] = c
      BY <1>3, <1>8, <2>0
    <3> QED BY <3>1, InTokenIs, Zenon
  <2>2. CASE r = Percented(s, x) /\ c = "%" /\ s.t.pos = 1
    <3>1. Fields(r, 0, <<>>, s.t.enc, x + 1, s.t.sp, s.t.resume, s.t.calls, Append(s.out, Char("%")), s.stopped)
      BY <1>1, <2>2, PercentedIs
    <3>2. r.t.pos = 0 /\ r.t.sp = s.t.sp /\ r.out = Append(s.out, Char("%"))
      BY <3>1, Zenon DEF Fields
    <3>3. m = n + 1
      BY <1>3, <3>2
    <3>4. ~ CallsBack(s, x)
      BY <2>2 DEF CallsBack
    <3> QED BY <1>3, <1>4, <1>5, <2>2, <3>2, <3>3, <3>4
  <2>3. CASE r = CallBack(s, x, stop) /\ c = "%" /\ s.t.pos # 1
    <3>0. s.t.calls = 0 => s.t.token # <<>>
      <4>1. s.t.calls = 0 => s.t.pos = 1 + Len(s.t.token)
        <5>0. PICK x0 : x0 = x - 1
          OBVIOUS
        <5>1. s \in TplFolds(b)
          <6>1. TplAt(s, b, ttext, tfs, base, x0)
            BY <5>0
          <6> QED BY <6>1, AtFolds
        <5> QED BY <1>8, <5>1 DEF TplFolds
      <4> QED BY <1>3, <1>8, <2>3, <4>1
    <3>1. /\ stop = x => Fields(r, s.t.pos, CallName(s), CallEnc(s), s.t.e, s.t.sp, x, s.t.calls + 1,
                                Append(s.out, CallEvent(s)), 1)
          /\ stop # x => Fields(r, 0, <<>>, CallEnc(s), x + 1, s.t.sp, 0, 0, Append(s.out, CallEvent(s)), s.stopped)
      BY <1>1, <2>3, <3>0, CallBackIs
    <3>2. r.t.sp = s.t.sp /\ (r.t.pos = 0 \/ r.t.pos = s.t.pos)
      BY <3>1, Zenon DEF Fields
    <3>3. CallsBack(s, x)
      BY <1>3, <1>8, <2>0, <2>3 DEF CallsBack
    <3>4. r.t.sp + r.t.pos <= s.t.sp + s.t.pos
      BY <1>3, <3>2, CalledSum, Zenon
    <3> QED BY <1>3, <1>4, <1>5, <3>3, <3>4, Zenon
  <2>4. CASE r = Garbled(s, c, x) /\ c # "%"
    <3>1. Fields(r, 0, <<>>, s.t.enc, x + 1, s.t.sp, s.t.resume, s.t.calls, Refused1(s, c), s.stopped)
      BY <1>1, <1>3, <2>4, GarbageIs
    <3>2. r.t.pos = 0 /\ r.t.sp = s.t.sp /\ r.out = Refused1(s, c)
      BY <3>1, Zenon DEF Fields
    <3>3. Chars(s.t.token) \in Seq(LetterEvents(b)) /\ Len(Chars(s.t.token)) = Len(s.t.token)
      BY <1>3, LettersSent
    <3>4. m = n + 1 + Len(s.t.token) + 1
      <4>1. PICK g, h, v, l : g = s.out /\ h = r.out /\ v = Chars(s.t.token) /\ l = Len(s.t.token)
        OBVIOUS
      <4>2. /\ h = g \o <<Char("%")>> \o v \o <<Char(c)>>
            /\ g \in Seq(LetterEvents(b)) /\ v \in Seq(LetterEvents(b)) /\ Len(v) = l
        BY <1>3, <3>2, <3>3, <4>1 DEF Refused1
      <4>3. Char("%") \in LetterEvents(b) /\ Char(c) \in LetterEvents(b)
        BY <1>3 DEF Char, LetterEvents, Letters, Alphabet
      <4>5. PICK y, z : y = <<Char("%")>> /\ z = <<Char(c)>>
        OBVIOUS
      <4>6. y \in Seq(LetterEvents(b)) /\ Len(y) = 1 /\ z \in Seq(LetterEvents(b)) /\ Len(z) = 1
        BY <4>3, <4>5
      <4>7. h = g \o y \o v \o z
        BY <4>2, <4>5, Zenon
      <4>8. PICK a1 : a1 = g \o y
        OBVIOUS
      <4>9. PICK a2 : a2 = a1 \o v
        OBVIOUS
      <4>10. a1 \in Seq(LetterEvents(b)) /\ Len(a1) = Len(g) + Len(y)
        BY <4>2, <4>6, <4>8, JoinIn, LenOfTwo, Zenon
      <4>11. a2 \in Seq(LetterEvents(b)) /\ Len(a2) = Len(a1) + Len(v)
        BY <4>2, <4>9, <4>10, JoinIn, LenOfTwo, Zenon
      <4>12. h = a2 \o z
        BY <4>7, <4>8, <4>9, Zenon
      <4>13. Len(h) = Len(a2) + Len(z)
        BY <4>6, <4>11, <4>12, LenOfTwo, Zenon
      <4>4. Len(h) = Len(g) + 1 + Len(v) + 1
        BY <4>6, <4>10, <4>11, <4>13, Zenon
      <4> QED BY <4>1, <4>2, <4>4
    <3>5. s.t.pos = 1 + Len(s.t.token)
      <4>1. ~ (AgainAt(s, b, ttext, tfs, base) /\ s.t.resume = x)
        <5>1. AgainAt(s, b, ttext, tfs, base) /\ s.t.resume = x => ttext[base + x] = "%"
          BY Zenon DEF AgainAt
        <5>2. ttext[base + x] = c
          BY <1>2 DEF Window
        <5> QED BY <2>4, <5>1, <5>2
      <4>2. (x - 1) + 1 = x
        OBVIOUS
      <4>3. ~ InTextAt(s, b, ttext, tfs, base, x - 1)
        BY <1>8 DEF InTextAt
      <4>4. InTokenAt(s, ttext, tfs, base + (x - 1))
        BY <2>0, <4>1, <4>2, <4>3 DEF TplAt
      <4> QED BY <4>4, Zenon DEF InTokenAt
    <3>6. ~ CallsBack(s, x)
      BY <1>3, <2>4 DEF CallsBack
    <3>7. Len(s.t.token) \in Nat
      BY <1>3
    <3>8. m >= n /\ (m - n) + r.t.sp + r.t.pos <= s.t.sp + s.t.pos + 1
      BY <1>3, <1>5, <3>2, <3>4, <3>5, <3>7, BadSum, Zenon
    <3> QED BY <1>3, <1>4, <1>5, <3>6, <3>8, Zenon
  <2>5. CASE r = Collected(s, c) /\ c # "%"
    <3>1. Fields(r, s.t.pos + 1, Append(s.t.token, c), s.t.enc, s.t.e, s.t.sp, s.t.resume, s.t.calls,
                 s.out, s.stopped)
      BY <1>1, <1>3, <2>5, CollectedIs
    <3>2. r.t.pos = s.t.pos + 1 /\ r.t.sp = s.t.sp /\ r.out = s.out
      BY <3>1, Zenon DEF Fields
    <3>3. ~ CallsBack(s, x)
      BY <1>3, <2>5 DEF CallsBack
    <3> QED BY <1>3, <1>4, <1>5, <3>2, <3>3
  <2>6. CASE r = s /\ c # "%"
    <3>1. ~ CallsBack(s, x)
      BY <1>3, <2>6 DEF CallsBack
    <3> QED BY <1>3, <1>4, <1>5, <2>6, <3>1
  <2> QED BY <2>1, <2>2, <2>3, <2>4, <2>5, <2>6, Zenon DEF TokenStep
<1> QED BY <1>6, <1>7, <1>8

\* When the callbacks leave as much room as there is text, M characters, all fits.
Roomy(p, M, old, had) ==
  /\ p.sent.wrote + M <= Room => p.sent.lost = old /\ p.sent.fill + p.run.t.sp + p.run.t.pos <= p.sent.wrote + had

\* A step keeps it, with one more character.
LEMMA SendStepFits ==
  ASSUME NEW b, NEW base \in Nat, ttext \in Texts, Window(b, ttext, base), NEW x \in 1 .. Len(b), NEW p \in Passes(b),
         TplAt(p.run, b, ttext, tfs, base, x - 1), NEW stop, NEW w, Written(w, b), NEW q, q = SendStep(p, x, stop, w),
         NEW M \in Nat, NEW old, NEW had \in Nat, had + 1 <= M, Roomy(p, M, old, had)
  PROVE  q \in Passes(b) /\ TplAt(q.run, b, ttext, tfs, base, x) /\ Roomy(q, M, old, had + 1)
<1>1. Len(b) \in Nat /\ x \in Nat
  BY DEF Window
<1>2. q \in Passes(b)
  BY <1>1, SendStepStays
<1>3. PICK s, r : s = p.run /\ r = TplStep(s, x, stop)
  OBVIOUS
<1>4. PICK d, o : d = p.sent /\ o = Offered(d, s, r, x, w[x])
  OBVIOUS
<1>5. q.run = r /\ q.sent = o
  <2>1. q = [run |-> r, sent |-> o]
    BY <1>3, <1>4, Zenon DEF SendStep
  <2> QED BY <2>1
<1>6. TplAt(r, b, ttext, tfs, base, x)
  BY <1>3, TplStepKeeps
<1>7. r \in TplRuns(b)
  BY <1>6 DEF TplAt
<1>8. d \in Sents /\ o \in Sents /\ s \in TplFolds(b)
  BY <1>2, <1>3, <1>4, <1>5 DEF Passes
<1>9. PICK n, m : n = Len(s.out) /\ m = Len(r.out)
  OBVIOUS
<1>10. /\ n \in Nat /\ m \in Nat /\ s.t.sp \in Nat /\ s.t.pos \in Nat /\ r.t.sp \in Nat /\ r.t.pos \in Nat
       /\ CallsBack(s, x) => r.t.sp + r.t.pos <= s.t.sp + s.t.pos
       /\ ~ CallsBack(s, x) => m >= n /\ (m - n) + r.t.sp + r.t.pos <= s.t.sp + s.t.pos + 1
  BY <1>3, <1>7, <1>9, StepGrows
<1>11. CallsBack(s, x) => w[x] \in Nat
  <2>1. s.t.buff = b
    <3>1. s \in TplRuns(b)
      BY <1>8 DEF TplFolds
    <3> QED BY <3>1, FieldTypes
  <2>2. CallsBack(s, x) => b[x] = "%"
    BY <2>1, Zenon DEF CallsBack
  <2> QED BY <2>2 DEF Written
<1>12. PICK v, k : v = w[x] /\ k = m - n
  OBVIOUS
<1>16. (CallsBack(s, x) => v \in Nat /\ CalledBack(d, v, o)) /\ (~ CallsBack(s, x) => Fitted(d, k, o))
  <2>1. o = Offered(d, s, r, x, v)
    BY <1>4, <1>12
  <2>2. (CallsBack(s, x) /\ v \in Nat => CalledBack(d, v, o)) /\ (~ CallsBack(s, x) => Fitted(d, k, o))
    BY <1>8, <1>9, <1>10, <1>12, <2>1, OfferedIs
  <2> QED BY <1>11, <1>12, <2>2
<1>13. d.wrote \in Nat /\ d.fill \in Int /\ o.wrote \in Nat /\ o.fill \in Int /\ Room \in Nat
  BY <1>8, TemplateAssumption DEF Sents
<1>14. d.wrote + M <= Room => d.lost = old /\ d.fill + s.t.sp + s.t.pos <= d.wrote + had
  BY <1>3, <1>4 DEF Roomy
<1>15. ASSUME o.wrote + M <= Room
       PROVE  o.lost = old /\ o.fill + r.t.sp + r.t.pos <= o.wrote + (had + 1)
  <2>1. CASE CallsBack(s, x)
    <3>1. v \in Nat /\ o.wrote = d.wrote + v /\ o.lost = d.lost /\ o.fill <= d.fill + v
      BY <1>16, <2>1 DEF CalledBack
    <3>2. r.t.sp + r.t.pos <= s.t.sp + s.t.pos
      BY <1>10, <2>1, Zenon
    <3>4. CalledTerms(d.fill, d.wrote, o.fill, o.wrote, v, s.t.sp, s.t.pos, r.t.sp, r.t.pos, had, M)
      BY <1>10, <1>13, <1>15, <3>1, <3>2, Zenon DEF CalledTerms
    <3>3. /\ d.wrote + M <= Room
          /\ d.fill + s.t.sp + s.t.pos <= d.wrote + had => o.fill + r.t.sp + r.t.pos <= o.wrote + (had + 1)
      BY <3>4, CalledLeft, Zenon
    <3> QED BY <1>14, <3>1, <3>3, Zenon
  <2>2. CASE ~ CallsBack(s, x)
    <3>1. Fitted(d, k, o) /\ o.wrote = d.wrote
      BY <1>16, <2>2 DEF Fitted
    <3>2. d.wrote + M <= Room /\ d.lost = old /\ d.fill + s.t.sp + s.t.pos <= d.wrote + had
      BY <1>14, <1>15, <3>1, Zenon
    <3>3. k \in Int
      BY <1>10, <1>12
    <3>4. k + r.t.sp + r.t.pos <= s.t.sp + s.t.pos + 1
      BY <1>10, <1>12, <2>2, Zenon
    <3>7. OfferedTerms(d.fill, d.wrote, k, s.t.sp, s.t.pos, r.t.sp, r.t.pos, had, M)
      BY <1>10, <1>13, <3>2, <3>3, <3>4, Zenon DEF OfferedTerms
    <3>5. d.fill + k <= Room /\ (d.fill + k) + r.t.sp + r.t.pos <= d.wrote + (had + 1)
      BY <3>7, OfferedLeft, Zenon
    <3>6. o.fill = d.fill + k /\ o.lost = d.lost
      BY <3>1, <3>5, Zenon DEF Fitted
    <3> QED BY <3>1, <3>2, <3>5, <3>6, Zenon
  <2> QED BY <2>1, <2>2
<1> QED BY <1>2, <1>5, <1>6, <1>15 DEF Roomy

\* Whatever is refused in a call, the callbacks wrote more than a buffer and a
\* token leave.
LEMMA SentFits ==
  ASSUME ttext \in Texts, tlost \subseteq Nat, NEW a, NEW b, NEW base, NEW from, NEW n, CallStart(a, b, base, from, n),
         a.stopped = 0, Len(b) <= Chunk, NEW stop, NEW w, Written(w, b), NEW r,
         r = Sent(a, [i \in 1 .. n |-> from + i - 1], stop, w)
  PROVE  r \in Sents /\ (r.wrote + Chunk + TokenMax + 1 <= Room => r.lost = tlost)
<1>1. /\ Window(b, ttext, base) /\ base \in Nat /\ from \in Nat \ {0} /\ n \in Nat /\ from + n - 1 = Len(b)
      /\ TplAt(a, b, ttext, tfs, base, from - 1)
  BY Zenon DEF CallStart
<1>2. Len(b) \in Nat /\ Chunk \in Nat \ {0} /\ TokenMax \in Nat \ {0} /\ Room \in Nat
  BY <1>1, TemplateAssumption DEF Window
<1>3. a \in TplFolds(b)
  BY <1>1, AtFolds
<1>4. PICK p0 : p0 = [run |-> a, sent |-> [fill |-> 0, lost |-> tlost, wrote |-> 0]]
  OBVIOUS
<1>5. p0 \in Passes(b) /\ p0.run = a /\ p0.sent.fill = 0 /\ p0.sent.lost = tlost /\ p0.sent.wrote = 0
  BY <1>3, <1>4 DEF Passes, Sents
<1>6. PICK st : SendRun(st, b, p0, n, from, stop, w) /\ SendLooped(p0, n, from, stop, w) = st[n]
  <2>1. RunsTo(b, p0, n, from, stop, w)
    BY <1>1, <1>2, <1>5, SendLoopRuns
  <2> QED BY <2>1, Zenon DEF RunsTo
<1>7. /\ st \in [0 .. n -> Passes(b)] /\ st[0] = p0
      /\ \A k \in 1 .. n : st[k] = SendStep(st[k - 1], from + k - 1, stop, w)
  BY <1>6 DEF SendRun
<1>8. a.t.sp \in Nat /\ a.t.pos \in Nat
  <2>1. a \in TplRuns(b)
    BY <1>3 DEF TplFolds
  <2> QED BY <2>1, FieldTypes
<1>9. PICK had, M : had = a.t.sp + a.t.pos /\ M = Chunk + TokenMax + 1
  OBVIOUS
<1>10. had \in Nat /\ M \in Nat /\ had + n <= M
  <2>1. CASE InTextAt(a, b, ttext, tfs, base, from - 1)
    <3>1. a.t.pos = 0 /\ a.t.e + a.t.sp = (from - 1) + 1
      BY <2>1, Zenon DEF InTextAt
    <3>2. a.t.e \in Nat \ {0}
      <4>1. a \in TplRuns(b)
        BY <1>3 DEF TplFolds
      <4> QED BY <4>1, FieldTypes
    <3>3. a.t.sp <= from - 1
      BY <1>1, <1>8, <3>1, <3>2
    <3> QED BY <1>1, <1>2, <1>8, <1>9, <3>1, <3>3
  <2>2. CASE InTokenAt(a, ttext, tfs, base + (from - 1))
    <3>1. PICK i \in Nat : TokenAt(ttext, tfs, i, base + (from - 1), a.t.token)
      BY <2>2, Zenon DEF InTokenAt
    <3>2. a.t.sp = 0 /\ a.t.pos = 1 + Len(a.t.token)
      BY <2>2, Zenon DEF InTokenAt
    <3>3. Len(a.t.token) \in 0 .. TokenMax
      <4>1. PICK q, z : q = base + (from - 1) /\ z = a.t.token
        OBVIOUS
      <4>2. q \in Nat
        BY <1>1, <4>1
      <4>3. TokenAt(ttext, tfs, i, q, z)
        BY <3>1, <4>1
      <4>4. q \in 1 .. Len(ttext) /\ i \in 1 .. q /\ i \in 1 .. Len(ttext) /\ z = NameIn(ttext, i, q + 1)
        <5>1. q \in 1 .. Len(ttext) /\ i \in 1 .. q /\ z = NameIn(ttext, i, q + 1)
          BY <4>3, Zenon DEF TokenAt
        <5>2. Len(ttext) \in Nat
          BY TextsAre
        <5> QED BY <5>1, <5>2
      <4>5. z \in Seq(Alphabet)
        <5>1. PICK j : j = q + 1
          OBVIOUS
        <5>2. j \in i + 1 .. Len(ttext) + 1
          BY <4>4, <5>1, TextsAre
        <5>3. NameIn(ttext, i, j) \in Seq(Alphabet)
          BY <4>4, <5>2, NameIs
        <5> QED BY <4>4, <5>1, <5>3
      <4>6. Len(z) = (IF q < i + TokenMax THEN q - i ELSE TokenMax)
        BY <4>2, <4>3, <4>5, TokenIs
      <4> QED BY <1>2, <4>1, <4>2, <4>4, <4>6
    <3>4. a.t.sp + a.t.pos <= TokenMax + 1
      BY <1>2, <3>2, <3>3
    <3> QED BY <1>1, <1>2, <1>8, <1>9, <3>4
  <2>3. CASE AgainAt(a, b, ttext, tfs, base)
    <3>1. a.t.sp = 0 /\ a.t.pos \in 2 .. TokenMax + 1
      BY <2>3, Zenon DEF AgainAt
    <3> QED BY <1>1, <1>2, <1>8, <1>9, <3>1
  <2> QED BY <1>1, <2>1, <2>2, <2>3 DEF TplAt
<1> DEFINE T == { k \in 0 .. n : TplAt(st[k].run, b, ttext, tfs, base, from + k - 1) /\ Roomy(st[k], M, tlost, had + k) }
<1>11. 0 \in T
  <2>1. 0 \in 0 .. n /\ from + 0 - 1 = from - 1 /\ had + 0 = had
    BY <1>1, <1>10
  <2>2. Roomy(p0, M, tlost, had)
    BY <1>5, <1>8, <1>9 DEF Roomy
  <2> QED BY <1>1, <1>5, <1>7, <2>1, <2>2
<1>12. ASSUME NEW k \in 0 .. n - 1, k \in T
       PROVE  k + 1 \in T
  <2>1. PICK x, h : x = from + k /\ h = had + k
    OBVIOUS
  <2>2. /\ x \in 1 .. Len(b) /\ from + k - 1 = x - 1 /\ from + (k + 1) - 1 = x /\ k + 1 \in 1 .. n /\ k + 1 \in 0 .. n
        /\ (k + 1) - 1 = k /\ k \in 0 .. n /\ h \in Nat /\ h + 1 <= M /\ had + (k + 1) = h + 1
    BY <1>1, <1>10, <2>1
  <2>3. PICK u, v : u = st[k] /\ v = st[k + 1]
    OBVIOUS
  <2>4. v = SendStep(u, x, stop, w) /\ u \in Passes(b)
    BY <1>7, <2>2, <2>3
  <2>5. TplAt(u.run, b, ttext, tfs, base, x - 1) /\ Roomy(u, M, tlost, h)
    BY <1>12, <2>1, <2>2, <2>3
  <2>6. TplAt(v.run, b, ttext, tfs, base, x) /\ Roomy(v, M, tlost, h + 1)
    BY <1>1, <1>10, <2>2, <2>4, <2>5, SendStepFits
  <2> QED BY <2>2, <2>3, <2>6
<1>13. n \in T
  <2> HIDE DEF T
  <2>1. \A k \in 0 .. n : k \in T
    BY <1>1, <1>11, <1>12, UpTo
  <2> QED BY <1>1, <2>1
<1>14. PICK p, s, d : p = st[n] /\ s = p.run /\ d = p.sent
  OBVIOUS
<1>15. p \in Passes(b) /\ s \in TplFolds(b) /\ d \in Sents
  <2>1. p \in Passes(b)
    BY <1>1, <1>7, <1>14
  <2> QED BY <1>14, <2>1 DEF Passes
<1>16. s \in TplRuns(b) /\ s.t.sp \in Nat /\ s.t.pos \in Nat /\ s.out \in Seq(LetterEvents(b))
  <2>1. s \in TplRuns(b)
    BY <1>15 DEF TplFolds
  <2> QED BY <2>1, FieldTypes
<1>17. PICK m : m = Len(s.out)
  OBVIOUS
<1>18. m \in Nat
  BY <1>16, <1>17
<1>19. r = IF s.stopped = 1 THEN d ELSE Offer(d, m + 1, m + s.t.sp)
  <2>1. SendLooped(p0, n, from, stop, w) = p
    BY <1>6, <1>14
  <2>2. r = LET both == SendLooped(p0, n, from, stop, w)
                l == Len(both.run.out)
            IN IF both.run.stopped = 1 THEN both.sent ELSE Offer(both.sent, l + 1, l + both.run.t.sp)
    BY <1>4, Zenon DEF Sent, SendLooped
  <2> QED BY <1>14, <1>17, <2>1, <2>2, Zenon
<1>20. d.wrote + M <= Room => d.lost = tlost /\ d.fill + s.t.sp + s.t.pos <= d.wrote + (had + n)
  BY <1>13, <1>14 DEF Roomy
<1>21. d.wrote \in Nat /\ d.fill \in Int
  BY <1>15 DEF Sents
<1>22. CASE s.stopped = 1
  <2>1. r = d
    BY <1>19, <1>22
  <2> QED BY <1>2, <1>9, <1>15, <1>20, <1>21, <2>1
<1>23. CASE s.stopped # 1
  <2>1. r = Offer(d, m + 1, m + s.t.sp)
    BY <1>19, <1>23
  <2>2. PICK k : k = s.t.sp
    OBVIOUS
  <2>3. Fitted(d, k, r)
    <3>1. PICK j : j = m + k
      OBVIOUS
    <3>2. j \in Nat /\ k = j - m /\ r = Offer(d, m + 1, j)
      BY <1>16, <1>18, <2>1, <2>2, <3>1
    <3> QED BY <1>15, <1>18, <3>2, TextOffered
  <2>4. r \in Sents /\ r.wrote = d.wrote
    BY <2>3 DEF Fitted
  <2>5. ASSUME r.wrote + Chunk + TokenMax + 1 <= Room
        PROVE  r.lost = tlost
    <3>1. d.wrote + M <= Room
      BY <1>2, <1>9, <1>21, <2>4, <2>5
    <3>2. d.lost = tlost /\ d.fill + s.t.sp + s.t.pos <= d.wrote + (had + n)
      BY <1>20, <3>1
    <3>3. PICK df, dw, p1 : df = d.fill /\ dw = d.wrote /\ p1 = s.t.pos
      OBVIOUS
    <3>4. df + k + p1 <= dw + (had + n) /\ dw + M <= Room /\ p1 \in Nat /\ k \in Nat
      BY <1>16, <2>2, <3>1, <3>2, <3>3
    <3>6. PICK all : all = had + n
      OBVIOUS
    <3>8. all \in Nat
      BY <1>1, <1>10, <3>6
    <3>7. all <= M /\ df \in Int /\ dw \in Nat /\ df + k + p1 <= dw + all
      BY <1>10, <1>21, <3>3, <3>4, <3>6, Zenon
    <3>5. df + k <= Room
      BY <1>2, <1>10, <3>4, <3>7, <3>8, TextLeft, Zenon
    <3> QED BY <2>3, <3>2, <3>3, <3>5 DEF Fitted
  <2> QED BY <2>4, <2>5
<1> QED BY <1>22, <1>23

\* What was filled is no longer than a buffer.
LEMMA FilledFits ==
  ASSUME ttext \in Texts, BetweenAt(Between(tpd, tout), ttext, tfs), Len(tpd.buff) \in 0 .. Chunk, NEW t, t = Filled(tpd)
  PROVE  Len(t.buff) \in 0 .. Chunk
<1> DEFINE o == Between(tpd, tout)
<1>1. o.t = tpd
  BY DEF Between
<1>2. ttext \in Texts /\ o \in TplRuns(tpd.buff) /\ tpd.off \in 0 .. Len(ttext) /\ tpd.token \in Seq(Alphabet)
  BY <1>1, Zenon DEF BetweenAt
<1>3. tpd \in TplDatas(tpd.buff) /\ tpd.resume \in Nat
  <2>1. o.t \in TplDatas(tpd.buff)
    BY <1>2 DEF TplRuns
  <2>2. tpd \in TplDatas(tpd.buff)
    BY <1>1, <2>1, Zenon
  <2> QED BY <2>2 DEF TplDatas
<1>4. CASE tpd.resume > 0
  <2>1. t = tpd
    BY <1>4, Zenon DEF Filled
  <2> QED BY <2>1
<1>5. CASE tpd.resume = 0
  <2>1. Window(t.buff, ttext, tpd.off) /\ Len(t.buff) <= Chunk
    BY <1>2, <1>3, <1>5, FilledIs
  <2>2. Len(t.buff) \in Nat
    BY <2>1 DEF Window
  <2> QED BY <2>1, <2>2, TemplateAssumption
<1> QED BY <1>3, <1>4, <1>5

\* A call refuses text only so, and keeps count; the buffer it leaves is no longer.
RefusedInv ==
  /\ Len(tpd.buff) \in 0 .. Chunk /\ tlost \subseteq Nat /\ tmost \in Nat
  /\ tmost + Chunk + TokenMax + 1 <= Room => tlost = {}

\* What a call does with the send buffer.
LEMMA TplCallSends ==
  ASSUME TplCall
  PROVE  \E stop, w, r :
           /\ w \in [{ x \in 1 .. Len(Filled(tpd).buff) : Filled(tpd).buff[x] = "%" } -> Writes]
           /\ r = Sent(Between(Filled(tpd), tout),
                       [i \in 1 .. Len(Filled(tpd).buff) - From(tpd) + 1 |-> From(tpd) + i - 1], stop, w)
           /\ tlost' = r.lost /\ tmost' = IF r.wrote > tmost THEN r.wrote ELSE tmost
<1> DEFINE R(stop, w) == Sent(Between(Filled(tpd), tout),
                              [i \in 1 .. Len(Filled(tpd).buff) - From(tpd) + 1 |-> From(tpd) + i - 1], stop, w)
<1>1. \E stop :
        \E w \in [{ x \in 1 .. Len(Filled(tpd).buff) : Filled(tpd).buff[x] = "%" } -> Writes] :
          tlost' = R(stop, w).lost /\ tmost' = IF R(stop, w).wrote > tmost THEN R(stop, w).wrote ELSE tmost
  BY Zenon DEF TplCall, Between, From, FoldLeft, MapThenFoldSet
<1> HIDE DEF R
<1>2. \A stop, w : R(stop, w) = Sent(Between(Filled(tpd), tout),
                        [i \in 1 .. Len(Filled(tpd).buff) - From(tpd) + 1 |-> From(tpd) + i - 1], stop, w)
  BY Zenon DEF R
<1> QED BY <1>1, <1>2, Zenon

\* Every call keeps it.
LEMMA RefusedNext ==
  ASSUME ttext \in Texts, BetweenAt(Between(tpd, tout), ttext, tfs), RefusedInv, TplCall
  PROVE  RefusedInv'
<1>1. PICK stop, w, r :
           /\ w \in [{ x \in 1 .. Len(Filled(tpd).buff) : Filled(tpd).buff[x] = "%" } -> Writes]
           /\ r = Sent(Between(Filled(tpd), tout),
                       [i \in 1 .. Len(Filled(tpd).buff) - From(tpd) + 1 |-> From(tpd) + i - 1], stop, w)
           /\ tlost' = r.lost /\ tmost' = IF r.wrote > tmost THEN r.wrote ELSE tmost
  BY TplCallSends
<1>2. PICK t, from : t = Filled(tpd) /\ from = From(tpd)
  OBVIOUS
<1>3. PICK b : b = t.buff
  OBVIOUS
<1>4. PICK n, a : n = Len(b) - from + 1 /\ a = Between(t, tout)
  OBVIOUS
<1>5. PICK base : CallStart(a, b, base, from, n)
  BY <1>2, <1>3, <1>4, CallStarts
<1>6. Written(w, b)
  <2>1. w \in [{ x \in 1 .. Len(b) : b[x] = "%" } -> Writes]
    BY <1>1, <1>2, <1>3
  <2>2. Writes \subseteq Nat
    BY TemplateAssumption
  <2> QED BY <2>1, <2>2 DEF Written
<1>7. r = Sent(a, [i \in 1 .. n |-> from + i - 1], stop, w)
  BY <1>1, <1>2, <1>3, <1>4
<1>8. a.stopped = 0 /\ Len(b) \in 0 .. Chunk /\ Len(b) <= Chunk /\ tlost \subseteq Nat
  <2>1. Len(tpd.buff) \in 0 .. Chunk /\ tlost \subseteq Nat
    BY DEF RefusedInv
  <2>2. Len(b) \in 0 .. Chunk
    BY <1>2, <1>3, <2>1, FilledFits
  <2>3. a.stopped = 0
    BY <1>4 DEF Between
  <2>4. Len(b) <= Chunk
    BY <2>2, TemplateAssumption
  <2> QED BY <2>1, <2>2, <2>3, <2>4
<1>9. r \in Sents /\ (r.wrote + Chunk + TokenMax + 1 <= Room => r.lost = tlost)
  BY <1>5, <1>6, <1>7, <1>8, SentFits
<1>10. r.lost \subseteq Nat /\ r.wrote \in Nat /\ tmost \in Nat /\ Chunk \in Nat /\ TokenMax \in Nat /\ Room \in Nat
  BY <1>9, TemplateAssumption DEF Sents, RefusedInv
<1>11. PICK l, g : l = tlost' /\ g = tmost'
  OBVIOUS
<1>12. l = r.lost /\ g = IF r.wrote > tmost THEN r.wrote ELSE tmost
  BY <1>1, <1>11
<1>13. g \in Nat /\ g >= r.wrote /\ g >= tmost
  BY <1>10, <1>12
<1>14. g + Chunk + TokenMax + 1 <= Room => l = {}
  <2> SUFFICES ASSUME g + Chunk + TokenMax + 1 <= Room PROVE l = {}
    OBVIOUS
  <2>1. r.wrote + Chunk + TokenMax + 1 <= Room /\ tmost + Chunk + TokenMax + 1 <= Room
    BY <1>10, <1>13
  <2> QED BY <1>9, <1>12, <2>1 DEF RefusedInv
<1>15. tlost' \subseteq Nat /\ tmost' \in Nat /\ (tmost' + Chunk + TokenMax + 1 <= Room => tlost' = {})
  BY <1>10, <1>11, <1>12, <1>13, <1>14
<1>16. Len(tpd'.buff) \in 0 .. Chunk
  <2>0. PICK halt, s : s = CallLoop(tpd, tout, From(tpd), halt) /\ tpd' = s.t
    BY TplCallIs
  <2>1. s = Looped(a, n, from, halt)
    BY <1>2, <1>3, <1>4, <2>0, Zenon DEF CallLoop
  <2>2. tpd' = s.t
    BY <2>0
  <2>3. TplAt(s, b, ttext, tfs, base, Len(b))
    <3>1. /\ Window(b, ttext, base) /\ base \in Nat /\ from \in Nat \ {0} /\ n \in Nat /\ from + n - 1 = Len(b)
          /\ TplAt(a, b, ttext, tfs, base, from - 1)
      BY <1>5, Zenon DEF CallStart
    <3> QED BY <2>1, <3>1, LoopKeeps
  <2>4. s.t.buff = b
    <3>1. s \in TplRuns(b)
      BY <2>3, Zenon DEF TplAt
    <3> QED BY <3>1, FieldTypes
  <2> QED BY <1>8, <2>2, <2>4
<1> QED BY <1>15, <1>16 DEF RefusedInv

-----------------------------------------------------------------------------
(* Both together.                                                          *)

\* The invariant of a template: nothing is sent twice, out of order or left out.
ExpandInv ==
  /\ RefusedInv
  /\ ttext \in Texts /\ BetweenAt(Between(tpd, tout), ttext, tfs)
  /\ tphase = "done" => Merged(tout) = Expansion(ttext, tfs)[1]

\* It holds before the first call.
LEMMA ExpandInit ==
  ASSUME TplInit
  PROVE  ExpandInv
<1>1. ttext \in Texts /\ tpd = NoTpl /\ tout = <<>> /\ tphase # "done"
  BY DEF TplInit
<1>2. BetweenAt(Between(NoTpl, <<>>), ttext, tfs)
  BY <1>1, BetweenInit
<1>3. RefusedInv
  <2>1. Len(tpd.buff) = 0 /\ tlost = {} /\ tmost = 0
    BY DEF TplInit, NoTpl
  <2> QED BY <2>1, TemplateAssumption DEF RefusedInv
<1> QED BY <1>1, <1>2, <1>3 DEF ExpandInv

\* Every call keeps it.
LEMMA ExpandNext ==
  ASSUME ExpandInv, TplNext \/ UNCHANGED tplVars
  PROVE  ExpandInv'
<1>1. ASSUME UNCHANGED <<tfs, ttext, tpd, tout, tlost, tmost>>, tphase' # "done" \/ tphase' = tphase
      PROVE  ExpandInv'
  BY <1>1 DEF ExpandInv, RefusedInv
<1>2. CASE TplFirst
  BY <1>1, <1>2 DEF TplFirst
<1>3. CASE TplNotFound
  BY <1>1, <1>3 DEF TplNotFound
<1>4. CASE TplAbort
  BY <1>1, <1>4 DEF TplAbort
<1>5. CASE UNCHANGED tplVars
  BY <1>1, <1>5 DEF tplVars
<1>6. CASE TplCall
  <2>1. PICK stop, s :
           /\ s = CallLoop(tpd, tout, From(tpd), stop)
           /\ tpd' = s.t
           /\ tout' = s.out \o (IF s.stopped = 1 THEN <<>>
                                ELSE Chars(SubSeq(Filled(tpd).buff, s.t.e, s.t.e + s.t.sp - 1)))
           /\ tphase' = (IF s.stopped = 0 /\ Len(Filled(tpd).buff) # Chunk THEN "done" ELSE "more")
           /\ UNCHANGED <<tfs, ttext>>
    BY <1>6, TplCallIs
  <2>2. PICK t, from : t = Filled(tpd) /\ from = From(tpd)
    OBVIOUS
  <2>3. PICK b : b = t.buff
    OBVIOUS
  <2>4. PICK n, a : n = Len(b) - from + 1 /\ a = Between(t, tout)
    OBVIOUS
  <2>5. PICK base : CallStart(a, b, base, from, n)
    <3>1. ttext \in Texts /\ BetweenAt(Between(tpd, tout), ttext, tfs)
      BY DEF ExpandInv
    <3> QED BY <2>2, <2>3, <2>4, <3>1, CallStarts
  <2>6. s = Looped(a, n, from, stop)
    BY <2>1, <2>2, <2>3, <2>4, Zenon DEF CallLoop
  <2>7. PICK out, phase : out = tout' /\ phase = tphase'
    OBVIOUS
  <2>8. /\ out = s.out \o (IF s.stopped = 1 THEN <<>> ELSE Chars(SubSeq(b, s.t.e, s.t.e + s.t.sp - 1)))
        /\ phase = (IF s.stopped = 0 /\ Len(b) # Chunk THEN "done" ELSE "more")
    BY <2>1, <2>2, <2>3, <2>7, Zenon
  <2>9. ttext \in Texts
    BY DEF ExpandInv
  <2>10. CallLeft(s.t, out, phase)
    BY <2>5, <2>6, <2>8, <2>9, CallLeaves
  <2>11. BetweenAt(Between(s.t, out), ttext, tfs) /\ (phase = "done" => Merged(out) = Expansion(ttext, tfs)[1])
    BY <2>10 DEF CallLeft
  <2>12. tpd' = s.t /\ tout' = out /\ tphase' = phase /\ tfs' = tfs /\ ttext' = ttext
    BY <2>1, <2>7
  <2>13. RefusedInv'
    BY <1>6, RefusedNext DEF ExpandInv
  <2> QED BY <2>9, <2>11, <2>12, <2>13 DEF ExpandInv
<1> QED BY <1>2, <1>3, <1>4, <1>5, <1>6 DEF TplNext

\* It says that what was sent is read off the template.
LEMMA ExpandInvIsEnough ==
  ASSUME ExpandInv
  PROVE  ExpandsAsRead
<1> DEFINE s == Between(tpd, tout)
<1>1. ttext \in Texts /\ BetweenAt(s, ttext, tfs)
  BY DEF ExpandInv
<1>2. s.out = tout /\ tout \in Seq(TplEvents)
  <2>1. s.out = tout
    BY DEF Between
  <2> HIDE DEF s
  <2>2. s.out \in Seq(TplEvents)
    BY <1>1, Zenon DEF BetweenAt
  <2> QED BY <2>1, <2>2
<1> HIDE DEF s
<1>3. Merged(tout) \in Seq(TplEvents)
  BY <1>2, MergedIn
<1>4. \E i : SoFar(Merged(tout), ttext, tfs, i)
  <2>1. Halted(s, s.t.buff, ttext, tfs) => \E i : SoFar(Merged(s.out), ttext, tfs, i)
    BY Zenon DEF Halted, AgainAt
  <2>2. InTokenAt(s, ttext, tfs, s.t.off) => \E i : SoFar(Merged(s.out), ttext, tfs, i)
    BY Zenon DEF InTokenAt
  <2>3. \E i : SoFar(Merged(s.out), ttext, tfs, i)
    BY <1>1, <2>1, <2>2, Zenon DEF BetweenAt
  <2> QED BY <1>2, <2>3
<1>5. IsPrefix(Merged(tout), Expansion(ttext, tfs)[1])
  BY <1>1, <1>3, <1>4, SoFarPart
<1> QED BY <1>5, ExpandIs DEF ExpandInv, RefusedInv, ExpandsAsRead

\* What is sent of a template is the expansion of the whole text.
THEOREM TemplateExpands == TplSpec => []ExpandsAsRead
<1>1. TplInit => ExpandInv
  BY ExpandInit
<1>2. ExpandInv /\ [TplNext]_tplVars => ExpandInv'
  BY ExpandNext
<1>3. ExpandInv => ExpandsAsRead
  BY ExpandInvIsEnough
<1> QED BY <1>1, <1>2, <1>3, PTL DEF TplSpec

-----------------------------------------------------------------------------
(* The handlers together: a behaviour is one of a single handler.          *)

HandlersInv ==
  /\ part = "template" => TplInv
  /\ part = "response" => RespInv
  /\ part = "files" => FilesInv

LEMMA HandlersInitRight ==
  ASSUME Init
  PROVE  HandlersInv
  BY TplInitRight, RespInitRight, FilesInitRight DEF Init, HandlersInv

LEMMA TplUnchangedRight ==
  ASSUME TplInv, UNCHANGED tplVars
  PROVE  TplInv'
  BY DEF TplInv, tplVars, TplHolds

LEMMA RespUnchangedRight ==
  ASSUME RespInv, UNCHANGED mrVars
  PROVE  RespInv'
  BY DEF RespInv, mrVars

\* Each handler takes its own steps or none.
LEMMA StepOfOne ==
  ASSUME [Next]_handlerVars
  PROVE  /\ part' = part
         /\ part = "template" => TplNext \/ UNCHANGED tplVars
         /\ part = "response" => MultiNext \/ UNCHANGED mrVars
         /\ part = "files" => FilesNext \/ UNCHANGED fileVars
         /\ part = "text" => TextNext \/ UNCHANGED textVars
         /\ part = "dns" => DnsNext \/ UNCHANGED dnsVars
         /\ part = "routes" => RoutesNext \/ UNCHANGED routeVars
         /\ part = "frames" => WsNext \/ UNCHANGED wsVars
<1>1. CASE UNCHANGED handlerVars
  BY <1>1 DEF handlerVars
<1>2. CASE Next
  BY <1>2 DEF Next
<1> QED
  BY <1>1, <1>2

LEMMA HandlersNextRight ==
  ASSUME HandlersInv, [Next]_handlerVars
  PROVE  HandlersInv'
<1>1. CASE part = "template"
  BY <1>1, StepOfOne, TplNextRight, TplUnchangedRight DEF HandlersInv
<1>2. CASE part = "response"
  BY <1>2, StepOfOne, RespNextRight, RespUnchangedRight DEF HandlersInv
<1>3. CASE part = "files"
  BY <1>3, StepOfOne, FilesNextRight, FilesUnchangedRight DEF HandlersInv
<1>4. CASE part \notin {"template", "response", "files"}
  BY <1>4, StepOfOne DEF HandlersInv
<1> QED
  BY <1>1, <1>2, <1>3, <1>4

\* However a request ends, done, refused or broken off between two calls, its
\* template, response or file handler has given back all files and, once, all
\* memory but what the single-call form of cgiResponseCommon and a response
\* without memory for its state keep; and the template's callback was told of the
\* end exactly once.
THEOREM EverythingIsGivenBack == Spec => []NothingHeld
<1>1. Init => HandlersInv
  BY HandlersInitRight
<1>2. HandlersInv /\ [Next]_handlerVars => HandlersInv'
  BY HandlersNextRight
<1>3. HandlersInv => NothingHeld
  BY TplInvIsEnough, RespInvIsEnough, FilesInvIsEnough DEF HandlersInv, NothingHeld
<1> QED
  BY <1>1, <1>2, <1>3, PTL DEF Spec

\* The files' part of the invariant needs nothing of the others.
LEMMA FilesPartRight ==
  Spec => [](part = "files" => FilesInv)
<1>1. Init => (part = "files" => FilesInv)
  BY FilesInitRight DEF Init
<1>2. (part = "files" => FilesInv) /\ [Next]_handlerVars => (part = "files" => FilesInv)'
  BY StepOfOne, FilesNextRight, FilesUnchangedRight
<1> QED
  BY <1>1, <1>2, PTL DEF Spec

\* The same for a long response, for the routes, for the frames and for a template.
LEMMA ResponsePartRight ==
  Spec => [](part = "response" => OrderInv)
<1>1. Init => (part = "response" => OrderInv)
  BY OrderInit DEF Init
<1>2. (part = "response" => OrderInv) /\ [Next]_handlerVars => (part = "response" => OrderInv)'
  BY StepOfOne, OrderNext, OrderUnchanged
<1> QED
  BY <1>1, <1>2, PTL DEF Spec

LEMMA RoutesPartRight ==
  Spec => [](part = "routes" => RoutesInv)
<1>1. Init => (part = "routes" => RoutesInv)
  BY RoutesInitRight DEF Init
<1>2. (part = "routes" => RoutesInv) /\ [Next]_handlerVars => (part = "routes" => RoutesInv)'
  BY StepOfOne, RoutesNextRight, RoutesUnchangedRight
<1> QED
  BY <1>1, <1>2, PTL DEF Spec

LEMMA FramesPartRight ==
  Spec => [](part = "frames" => WsInv)
<1>1. Init => (part = "frames" => WsInv)
  BY WsInitRight DEF Init
<1>2. (part = "frames" => WsInv) /\ [Next]_handlerVars => (part = "frames" => WsInv)'
  BY StepOfOne, WsNextRight
<1> QED
  BY <1>1, <1>2, PTL DEF Spec

LEMMA TemplatePartRight ==
  Spec => [](part = "template" => ExpandInv)
<1>1. Init => (part = "template" => ExpandInv)
  BY ExpandInit DEF Init
<1>2. (part = "template" => ExpandInv) /\ [Next]_handlerVars => (part = "template" => ExpandInv)'
  BY StepOfOne, ExpandNext
<1> QED
  BY <1>1, <1>2, PTL DEF Spec

\* What goes out over several calls is what was to be sent, whole, in order and
\* once: the expansion of a template, a long response, a download, and the data
\* of a websocket's frames, wherever the buffers, pieces and segments are cut.
THEOREM PiecesAreWhole ==
  Spec => []OutputExact
<1>1. /\ part = "template" => ExpandInv
      /\ part = "response" => OrderInv
      /\ part = "files" => FilesInv
      /\ part = "frames" => WsInv
      => OutputExact
  BY ExpandInvIsEnough, FilesInvIsEnough, OrderIsEnough, WsInvIsEnough, HeadsAreExact DEF OutputExact
<1> QED
  BY <1>1, TemplatePartRight, FilesPartRight, ResponsePartRight, FramesPartRight, PTL

\* The calls on texts, beside the other handlers.
LEMMA TextPartRight ==
  Spec => [](part = "text" => DecodedInv)
<1>1. Init => (part = "text" => DecodedInv)
  BY DEF Init, TextInit, DecodedInv
<1>2. (part = "text" => DecodedInv) /\ [Next]_handlerVars => (part = "text" => DecodedInv)'
  <2> SUFFICES ASSUME part = "text" => DecodedInv, [Next]_handlerVars, part' = "text"
               PROVE  DecodedInv'
    OBVIOUS
  <2>1. part' = part /\ (TextNext \/ UNCHANGED textVars)
    BY StepOfOne
  <2> QED BY <2>1 DEF DecodedInv, TextNext, textVars
<1> QED
  BY <1>1, <1>2, PTL DEF Spec

\* The DNS server, beside the handlers.
LEMMA DnsPartRight ==
  Spec => [](part = "dns" => DnsInv)
<1>1. Init => (part = "dns" => DnsInv)
  BY DnsBegins DEF Init
<1>2. (part = "dns" => DnsInv) /\ [Next]_handlerVars => (part = "dns" => DnsInv)'
  <2> SUFFICES ASSUME part = "dns" => DnsInv, [Next]_handlerVars, part' = "dns"
               PROVE  DnsInv'
    OBVIOUS
  <2>1. part' = part /\ (DnsNext \/ UNCHANGED dnsVars)
    BY StepOfOne
  <2> QED BY <2>1, DnsGoesOn
<1> QED
  BY <1>1, <1>2, PTL DEF Spec

\* Beside the other handlers too, the text of a request is decoded as it should,
\* a name query is answered as asked, and the first route that wants the request
\* gets it.
THEOREM RequestsAreUnderstood ==
  Spec => []InputExact
<1>1. (part = "text" => DecodedInv) /\ (part = "dns" => DnsInv) /\ (part = "routes" => RoutesInv)
      => InputExact
  BY CallsDecode, CallsFind, CallsJoin, CallsEscape, CallsReadBack, RoutesInvIsEnough DEF InputExact, DnsInv
<1> QED
  BY <1>1, TextPartRight, DnsPartRight, RoutesPartRight, PTL

\* An upload that answers success (cgiEspVfsUpload) has stored its whole body,
\* for bodies of any length cut anywhere, unless another connection emptied the
\* file meanwhile, except exactly the end that fclose could not write out, at
\* whose result nobody looks.
THEOREM SuccessMeansStored == Spec => []UploadStored
<1>1. (part = "files" => FilesInv) => UploadStored
  BY FilesInvIsEnough DEF UploadStored
<1> QED
  BY <1>1, FilesPartRight, PTL

-----------------------------------------------------------------------------
(* The types.                                                              *)

\* The loop stops only where the callback asks for it.
LEMMA StopsWhereAsked ==
  ASSUME NEW b, NEW s \in TplFolds(b), NEW x \in Nat, NEW stop, stop # x, s.stopped = 0
  PROVE  TplStep(s, x, stop).stopped = 0
<1>0. PICK r : r = TplStep(s, x, stop)
  OBVIOUS
<1>00. PICK c : c = b[x]
  OBVIOUS
<1>1. s \in TplRuns(b) /\ (s.t.calls = 0 /\ s.t.pos # 0 => s.t.pos = 1 + Len(s.t.token))
  BY DEF TplFolds
<1>2. s.t.buff[x] = c /\ c \in Letters(b) /\ s.t.pos \in Nat /\ s.t.token \in Seq(Letters(b))
      /\ s.t.calls \in Nat /\ s.stopped # 1
  <2>1. c \in Letters(b)
    BY <1>00 DEF Letters
  <2>2. s.t.buff = b
    BY <1>1, FieldTypes
  <2> QED BY <1>00, <1>1, <2>1, <2>2, FieldTypes
<1>4. CASE s.t.pos = 0
  <2>1. r = InText(s, x, c)
    BY <1>0, <1>2, <1>4, Zenon DEF TplStep
  <2>2. /\ c # "%" => Fields(r, s.t.pos, s.t.token, s.t.enc, s.t.e, s.t.sp + 1, s.t.resume, s.t.calls,
                             s.out, s.stopped)
        /\ c = "%" => Fields(r, 1, <<>>, s.t.enc, s.t.e, 0, s.t.resume, s.t.calls,
                             s.out \o Chars(SubSeq(b, s.t.e, s.t.e + s.t.sp - 1)), s.stopped)
    BY <1>1, <2>1, InTextIs
  <2>3. r.stopped = s.stopped
    BY <2>2, Zenon DEF Fields
  <2> QED BY <1>0, <2>3
<1>5. CASE s.t.pos # 0
  <2>1. TokenStep(s, x, c, stop, r)
    BY <1>0, <1>2, <1>5, InTokenIs, Zenon
  <2>2. ASSUME r = Percented(s, x) PROVE r.stopped = s.stopped
    <3>1. Fields(r, 0, <<>>, s.t.enc, x + 1, s.t.sp, s.t.resume, s.t.calls, Append(s.out, Char("%")), s.stopped)
      BY <1>1, <2>2, PercentedIs
    <3> QED BY <3>1, Zenon DEF Fields
  <2>3. ASSUME r = CallBack(s, x, stop), s.t.pos # 1 PROVE r.stopped = s.stopped
    <3>1. s.t.calls = 0 => s.t.token # <<>>
      BY <1>1, <1>2, <1>5, <2>3
    <3>2. Fields(r, 0, <<>>, CallEnc(s), x + 1, s.t.sp, 0, 0, Append(s.out, CallEvent(s)), s.stopped)
      BY <1>1, <2>3, <3>1, CallBackIs
    <3> QED BY <3>2, Zenon DEF Fields
  <2>4. ASSUME r = Garbled(s, c, x) PROVE r.stopped = s.stopped
    <3>1. c \in Letters(b)
      BY <1>2
    <3>2. Fields(r, 0, <<>>, s.t.enc, x + 1, s.t.sp, s.t.resume, s.t.calls, Refused1(s, c), s.stopped)
      BY <1>1, <2>4, <3>1, GarbageIs
    <3> QED BY <3>2, Zenon DEF Fields
  <2>5. ASSUME r = Collected(s, c) PROVE r.stopped = s.stopped
    <3>1. Fields(r, s.t.pos + 1, Append(s.t.token, c), s.t.enc, s.t.e, s.t.sp, s.t.resume, s.t.calls,
                 s.out, s.stopped)
      BY <1>1, <1>2, <2>5, CollectedIs
    <3> QED BY <3>1, Zenon DEF Fields
  <2>6. ASSUME r = s PROVE r.stopped = s.stopped
    BY <2>6
  <2>7. \/ r = Percented(s, x) \/ (r = CallBack(s, x, stop) /\ s.t.pos # 1)
        \/ r = Garbled(s, c, x)
        \/ r = Collected(s, c) \/ r = s
    BY <2>1, Zenon DEF TokenStep
  <2> QED BY <1>0, <2>2, <2>3, <2>4, <2>5, <2>6, <2>7, Zenon
<1> QED BY <1>4, <1>5

\* Where nothing is asked for the loop runs to its end.
LEMMA RunsThrough ==
  ASSUME NEW b, NEW a \in TplFolds(b), a.stopped = 0, NEW n \in Nat, NEW from \in Nat \ {0}
  PROVE  Looped(a, n, from, 0).stopped = 0
<1>1. PICK st : LoopRun(st, b, a, n, from, 0) /\ Looped(a, n, from, 0) = st[n]
  BY LoopRuns
<1>2. /\ st \in [0 .. n -> TplFolds(b)] /\ st[0] = a
      /\ \A k \in 1 .. n : st[k] = TplStep(st[k - 1], from + k - 1, 0)
  BY <1>1 DEF LoopRun
<1> DEFINE T == { k \in 0 .. n : st[k].stopped = 0 }
<1>3. 0 \in T
  BY <1>2
<1>4. ASSUME NEW k \in 0 .. n - 1, k \in T
      PROVE  k + 1 \in T
  <2>1. PICK x : x = from + k
    OBVIOUS
  <2>2. x \in Nat /\ 0 # x /\ from + (k + 1) - 1 = x /\ k + 1 \in 1 .. n /\ k + 1 \in 0 .. n /\ (k + 1) - 1 = k
        /\ k \in 0 .. n
    BY <2>1
  <2>3. st[k + 1] = TplStep(st[k], x, 0) /\ st[k] \in TplFolds(b) /\ st[k].stopped = 0
    BY <1>2, <1>4, <2>2
  <2>4. PICK u : u = st[k]
    OBVIOUS
  <2>5. TplStep(u, x, 0).stopped = 0
    BY <2>2, <2>3, <2>4, StopsWhereAsked
  <2> QED BY <2>2, <2>3, <2>4, <2>5
<1>5. n \in T
  <2> HIDE DEF T
  <2>1. \A k \in 0 .. n : k \in T
    BY <1>3, <1>4, UpTo
  <2> QED BY <2>1
<1> QED BY <1>1, <1>5

\* What a call leaves of the buffer and of the callback's wishes.
LEMMA TplCallCounts ==
  ASSUME TplCall
  PROVE  \E stop, s :
           /\ stop \in (IF tfs = "espfs" /\ tmores < MaxMore THEN 0 .. Chunk ELSE {0})
           /\ s = CallLoop(tpd, tout, From(tpd), stop)
           /\ tpd' = s.t /\ tmores' = tmores + s.stopped /\ tfs' = tfs
<1> DEFINE s(stop) == CallLoop(tpd, tout, From(tpd), stop)
<1>1. \E stop :
        /\ stop \in (IF tfs = "espfs" /\ tmores < MaxMore THEN 0 .. Chunk ELSE {0})
        /\ tpd' = s(stop).t /\ tmores' = tmores + s(stop).stopped /\ tfs' = tfs
  BY ZenonT(90) DEF TplCall, Looped, Between, CallLoop, From, FoldLeft, MapThenFoldSet
<1> HIDE DEF s
<1>2. \A stop : s(stop) = CallLoop(tpd, tout, From(tpd), stop)
  BY DEF s
<1> QED BY <1>1, <1>2, Zenon

\* The callback asks no more often than it may.
TplBounds ==
  /\ tfs \in {"espfs", "vfs"} /\ tmores \in 0 .. MaxMore

\* Every call keeps the bounds.
LEMMA TplBoundsNext ==
  ASSUME ExpandInv, TplBounds, TplNext \/ UNCHANGED tplVars
  PROVE  TplBounds'
<1>1. ASSUME UNCHANGED <<tfs, tpd, tmores>> PROVE TplBounds'
  BY <1>1 DEF TplBounds
<1>2. CASE TplFirst
  BY <1>1, <1>2 DEF TplFirst
<1>3. CASE TplNotFound
  BY <1>1, <1>3 DEF TplNotFound
<1>4. CASE TplAbort
  BY <1>1, <1>4 DEF TplAbort
<1>5. CASE UNCHANGED tplVars
  BY <1>1, <1>5 DEF tplVars
<1>6. CASE TplCall
  <2>1. PICK stop, s :
           /\ stop \in (IF tfs = "espfs" /\ tmores < MaxMore THEN 0 .. Chunk ELSE {0})
           /\ s = CallLoop(tpd, tout, From(tpd), stop)
           /\ tpd' = s.t /\ tmores' = tmores + s.stopped /\ tfs' = tfs
    BY <1>6, TplCallCounts
  <2>2. PICK t, from : t = Filled(tpd) /\ from = From(tpd)
    OBVIOUS
  <2>3. PICK b : b = t.buff
    OBVIOUS
  <2>4. PICK n, a : n = Len(b) - from + 1 /\ a = Between(t, tout)
    OBVIOUS
  <2>5. PICK base : CallStart(a, b, base, from, n)
    <3>1. ttext \in Texts /\ BetweenAt(Between(tpd, tout), ttext, tfs)
      BY DEF ExpandInv
    <3> QED BY <2>2, <2>3, <2>4, <3>1, CallStarts
  <2>6. s = Looped(a, n, from, stop)
    BY <2>1, <2>2, <2>3, <2>4, Zenon DEF CallLoop
  <2>7. /\ Window(b, ttext, base) /\ base \in Nat /\ from \in Nat \ {0} /\ n \in Nat /\ from + n - 1 = Len(b)
        /\ TplAt(a, b, ttext, tfs, base, from - 1) /\ ttext \in Texts
    BY <2>5, Zenon DEF CallStart, ExpandInv
  <2>8. TplAt(s, b, ttext, tfs, base, Len(b))
    BY <2>6, <2>7, LoopKeeps
  <2>9. s \in TplRuns(b) /\ s.t.buff = b /\ s.stopped \in 0 .. 1
    <3>1. s \in TplRuns(b)
      BY <2>8, Zenon DEF TplAt
    <3> QED BY <3>1, FieldTypes
  <2>11. a \in TplFolds(b) /\ a.stopped = 0
    <3>1. a.stopped = 0
      BY <2>4 DEF Between
    <3> QED BY <2>7, <3>1, AtFolds
  <2>12. stop = 0 => s.stopped = 0
    BY <2>6, <2>7, <2>11, RunsThrough
  <2>13. s.stopped = 1 => tmores < MaxMore
    BY <2>1, <2>12
  <2>14. tmores' \in 0 .. MaxMore
    BY <2>1, <2>9, <2>13, TemplateAssumption DEF TplBounds
  <2> QED BY <2>1, <2>14 DEF TplBounds
<1> QED BY <1>2, <1>3, <1>4, <1>5, <1>6 DEF TplNext

\* They hold before the first call.
LEMMA TplBoundsInit ==
  ASSUME TplInit
  PROVE  TplBounds
  BY TemplateAssumption DEF TplInit, TplBounds

\* With the invariants of a template they give its types.
LEMMA TplTypesHold ==
  ASSUME TplInv, ExpandInv, TplBounds
  PROVE  TplTypeOK
<1> DEFINE o == Between(tpd, tout)
<1>1. o.t = tpd
  BY DEF Between
<1>2. /\ ttext \in Texts /\ o \in TplRuns(tpd.buff) /\ tpd.off \in 0 .. Len(ttext) /\ tpd.token \in Seq(Alphabet)
      /\ tpd.e + tpd.sp <= Len(tpd.buff) + 1
      /\ \/ tpd.resume # 0 /\ Halted(o, tpd.buff, ttext, tfs)
         \/ tpd.resume = 0 /\ tpd.pos = 0
         \/ tpd.resume = 0 /\ InTokenAt(o, ttext, tfs, tpd.off)
  BY <1>1, Zenon DEF ExpandInv, BetweenAt
<1>3. tpd.pos \in Nat /\ tpd.e \in Nat \ {0} /\ tpd.sp \in Nat /\ tpd.enc \in 0 .. 1 /\ tpd.off \in Nat /\ tpd.resume \in Nat
  <2>1. /\ o.t.pos \in Nat /\ o.t.e \in Nat \ {0} /\ o.t.sp \in Nat /\ o.t.enc \in 0 .. 1 /\ o.t.off \in Nat
        /\ o.t.resume \in Nat
    BY <1>2, FieldTypes
  <2> QED BY <1>1, <2>1, Zenon
<1> HIDE DEF o
<1>4. /\ Chunk \in Nat \ {0} /\ TokenMax \in Nat \ {0} /\ MaxText \in Nat
      /\ Len(ttext) \in 0 .. MaxText
  BY <1>2, TextsAre, TemplateAssumption
<1>5. RefusedInv
  BY DEF ExpandInv
<1>6. Len(tpd.buff) \in Nat
  BY <1>5, TemplateAssumption DEF RefusedInv
<1>7. tpd.pos \in 0 .. TokenMax + 1 /\ tpd.resume \in 0 .. Chunk
  <2>1. CASE tpd.resume # 0 /\ Halted(o, tpd.buff, ttext, tfs)
    <3>1. PICK base : AgainAt(o, tpd.buff, ttext, tfs, base)
      BY <2>1, Zenon DEF Halted
    <3>2. o.t.pos \in 2 .. TokenMax + 1 /\ o.t.resume \in 1 .. Len(tpd.buff)
      BY <3>1, Zenon DEF AgainAt
    <3> QED BY <1>1, <1>4, <1>5, <1>6, <3>2 DEF RefusedInv
  <2>2. CASE tpd.resume = 0 /\ tpd.pos = 0
    BY <1>4, <2>2
  <2>3. CASE tpd.resume = 0 /\ InTokenAt(o, ttext, tfs, tpd.off)
    <3>1. o.t.pos = 1 + Len(o.t.token) /\ \E i \in Nat : TokenAt(ttext, tfs, i, tpd.off, o.t.token)
      BY <2>3, Zenon DEF InTokenAt
    <3>2. PICK i \in Nat : TokenAt(ttext, tfs, i, tpd.off, tpd.token)
      BY <1>1, <3>1, Zenon
    <3>3. /\ tpd.off \in 1 .. Len(ttext) /\ i \in 1 .. tpd.off
          /\ Len(tpd.token) = (IF tpd.off < i + TokenMax THEN tpd.off - i ELSE TokenMax)
      <4>1. PICK q, w : q = tpd.off /\ w = tpd.token
        OBVIOUS
      <4>2. ttext \in Texts /\ i \in Nat /\ q \in Nat /\ w \in Seq(Alphabet) /\ TokenAt(ttext, tfs, i, q, w)
        BY <1>2, <1>3, <3>2, <4>1
      <4>3. q \in 1 .. Len(ttext) /\ i \in 1 .. q /\ Len(w) = (IF q < i + TokenMax THEN q - i ELSE TokenMax)
        BY <4>2, TokenIs
      <4> QED BY <4>1, <4>3
    <3>4. tpd.pos = 1 + Len(tpd.token)
      BY <1>1, <3>1
    <3> QED BY <1>3, <1>4, <2>3, <3>3, <3>4
  <2> QED BY <1>2, <2>1, <2>2, <2>3
<1>8. theld \in [{"mem", "file"} -> 0 .. 1]
  BY DEF TplInv
<1>9. tpd.e \in 1 .. Chunk + 1 /\ tpd.sp \in 0 .. Chunk
  BY <1>2, <1>3, <1>4, <1>5, <1>6 DEF RefusedInv
<1>10. tpd.off \in 0 .. MaxText
  BY <1>2, <1>4
<1>11. tnull \in 0 .. 2 /\ tphase \in {"new", "more", "notfound", "done", "aborted"}
  BY DEF TplInv
<1> QED BY <1>2, <1>3, <1>5, <1>7, <1>8, <1>9, <1>10, <1>11 DEF TplTypeOK, TplBounds, RefusedInv

\* Only an upload has written.
NoneWritten == \A c \in FConns : freq[c].kind # "put" => freq[c].written = 0

\* Nothing is written before the first request.
LEMMA NoneWrittenInit ==
  ASSUME FilesInit
  PROVE  NoneWritten
  BY DEF FilesInit, NoneWritten, NoFile

\* The requests of a step: one is new or goes on, the others are noticed at most.
LEMMA NoneWrittenBy ==
  ASSUME NoneWritten, FilesTypes, NEW c \in FConns, NEW r, freq' = [freq EXCEPT ![c] = r],
         r.kind # "put" => r.written = 0
  PROVE  NoneWritten'
  BY DEF NoneWritten, FilesTypes

\* A request that is read for is not written for.
LEMMA ReadsWrite ==
  ASSUME NEW r \in FileReq, NEW q
  PROVE  /\ \A g, v : q = [r EXCEPT !.got = g, !.served = v] => q.written = r.written /\ q.kind = r.kind
         /\ \A k, v : q = [r EXCEPT !.kind = k, !.was = v] => q.written = r.written
         /\ \A k, v, w : q = [r EXCEPT !.kind = k, !.was = v, !.alone = w] => q.written = r.written
  BY DEF FileReq

\* Every step of a request keeps that.
LEMMA NoneWrittenNext ==
  ASSUME FilesInv, NoneWritten, FilesNext
  PROVE  NoneWritten'
<1>0. FilesTypes /\ freq \in [FConns -> FileReq]
  BY DEF FilesInv, FilesTypes
<1>1. PICK c \in FConns :
        \/ GetEspFs(c) \/ GetVfs(c) \/ ReadFile(c) \/ AbortFile(c)
        \/ \E n \in 0 .. MaxBody : Put(c, n)
        \/ \E n, lost \in 0 .. MaxBody : \E count \in 0 .. n : PutPiece(c, n, count, lost)
  BY DEF FilesNext
<1>2. NoFile.written = 0 /\ NoFile.kind = "idle"
  BY DEF NoFile
<1>3. CASE GetEspFs(c)
  <2>1. PICK r : freq' = [freq EXCEPT ![c] = r] /\ (r = NoFile \/ r = [NoFile EXCEPT !.kind = "espfs", !.was = Factory])
    BY <1>3 DEF GetEspFs, BeginFile
  <2>2. r.written = 0
    BY <1>2, <2>1, NoFileIsReq, ReadsWrite
  <2> QED BY <1>0, <2>1, <2>2, NoneWrittenBy
<1>4. CASE GetVfs(c)
  <2>1. PICK r, w : freq' = [freq EXCEPT ![c] = r]
                    /\ (r = NoFile \/ r = [NoFile EXCEPT !.kind = "vfs", !.was = disk, !.alone = w])
    BY <1>4 DEF GetVfs, BeginFile
  <2>2. r.written = 0
    BY <1>2, <2>1, NoFileIsReq, ReadsWrite
  <2> QED BY <1>0, <2>1, <2>2, NoneWrittenBy
<1>5. CASE ReadFile(c)
  <2>1. freq[c].kind # "put" /\ freq[c].written = 0 /\ freq[c] \in FileReq
    BY <1>0, <1>5 DEF ReadFile, NoneWritten
  <2> DEFINE rest == Len(Content(c)) - freq[c].got
             n == IF rest < ReadLen THEN IF rest < 0 THEN 0 ELSE rest ELSE ReadLen
             piece == SubSeq(Content(c), freq[c].got + 1, freq[c].got + n)
             q == [freq[c] EXCEPT !.got = @ + n, !.served = @ \o piece]
  <2>4. freq' = [freq EXCEPT ![c] = NoFile] \/ freq' = [freq EXCEPT ![c] = q]
    BY <1>5 DEF ReadFile
  <2>5. q.written = freq[c].written
    <3>1. PICK g, v : g = freq[c].got + n /\ v = freq[c].served \o piece
      OBVIOUS
    <3>2. q = [freq[c] EXCEPT !.got = g, !.served = v]
      BY <3>1
    <3> HIDE DEF q
    <3> QED BY <2>1, <3>2, ReadsWrite
  <2> HIDE DEF q
  <2>2. PICK r : freq' = [freq EXCEPT ![c] = r] /\ (r = NoFile \/ r = q)
    BY <2>4
  <2>3. r.written = 0
    BY <1>2, <2>1, <2>2, <2>5
  <2> QED BY <1>0, <2>2, <2>3, NoneWrittenBy
<1>6. CASE AbortFile(c)
  <2>1. freq' = [freq EXCEPT ![c] = NoFile]
    BY <1>6 DEF AbortFile
  <2> QED BY <1>0, <1>2, <2>1, NoneWrittenBy
<1>7. CASE \E n \in 0 .. MaxBody : Put(c, n)
  <2>1. PICK n \in 0 .. MaxBody : Put(c, n)
    BY <1>7
  <2>2. PICK r : r = [NoFile EXCEPT !.kind = "put", !.len = n]
    OBVIOUS
  <2>3. r.written = 0 /\ DOMAIN r = DOMAIN NoFile
    BY <2>2 DEF NoFile
  <2>4. CASE \E st \in {"ERR", "START"} : BeginFile(c, [r EXCEPT !.st = st], 0, 1)
    <3>1. PICK st, q : q = [r EXCEPT !.st = st] /\ freq' = [freq EXCEPT ![c] = q]
      BY <2>4 DEF BeginFile
    <3>2. q.written = 0
      BY <2>2, <3>1 DEF NoFile
    <3> QED BY <1>0, <3>1, <3>2, NoneWrittenBy
  <2>5. CASE freq' = Noticed([freq EXCEPT ![c] =
             [r EXCEPT !.st = "WRITE", !.alone = IF Writers = {} THEN 1 ELSE 0]], c)
    <3>1. PICK q, w : q = [r EXCEPT !.st = "WRITE", !.alone = w] /\ freq' = Noticed([freq EXCEPT ![c] = q], c)
      BY <2>5
    <3>2. q.written = 0
      BY <2>2, <3>1 DEF NoFile
    <3> SUFFICES ASSUME NEW d \in FConns, freq'[d].kind # "put" PROVE freq'[d].written = 0
      BY DEF NoneWritten
    <3>3. CASE d = c
      BY <1>0, <3>1, <3>2, <3>3 DEF Noticed
    <3>4. CASE d # c
      <4>1. freq'[d] = [freq[d] EXCEPT !.alone = 0] /\ freq[d] \in FileReq
        BY <1>0, <3>1, <3>4 DEF Noticed
      <4>2. freq'[d].kind = freq[d].kind /\ freq'[d].written = freq[d].written
        BY <4>1 DEF FileReq
      <4> QED BY <4>2 DEF NoneWritten
    <3> QED BY <3>3, <3>4
  <2> QED BY <2>1, <2>2, <2>4, <2>5 DEF Put
<1>8. CASE \E n, lost \in 0 .. MaxBody : \E count \in 0 .. n : PutPiece(c, n, count, lost)
  <2>9. PICK n, lost \in 0 .. MaxBody : \E count \in 0 .. n : PutPiece(c, n, count, lost)
    BY <1>8
  <2>1. PICK count \in 0 .. n : PutPiece(c, n, count, lost)
    BY <2>9
  <2>2. n \in 0 .. MaxBody /\ count \in 0 .. n
    BY <2>1, <2>9
  <2>3. PICK r : r = Piece(c, n, count)
    OBVIOUS
  <2>4. freq[c].kind = "put" /\ freq[c].got + n <= freq[c].len
        /\ freq' = [freq EXCEPT ![c] = IF r.got = r.len THEN NoFile ELSE r]
    BY <2>1, <2>3 DEF PutPiece, Piece
  <2>5. r.kind = "put"
    BY <2>2, <2>3, <2>4, PieceIs
  <2>6. PICK q : q = (IF r.got = r.len THEN NoFile ELSE r)
    OBVIOUS
  <2>7. (q.kind # "put" => q.written = 0) /\ freq' = [freq EXCEPT ![c] = q]
    BY <1>2, <2>4, <2>5, <2>6
  <2> QED BY <1>0, <2>7, NoneWrittenBy
<1> QED BY <1>1, <1>3, <1>4, <1>5, <1>6, <1>7, <1>8

\* With the files' invariant it gives their types.
LEMMA FilesTypesHold ==
  ASSUME FilesInv, NoneWritten
  PROVE  FilesTypeOK
<1>1. FilesTypes /\ \A c \in FConns : ConnRight(c)
  BY DEF FilesInv
<1>2. \A i \in DOMAIN disk : disk[i] \in DiskByte
  <2>1. disk \in Seq(DiskByte)
    BY <1>1 DEF FilesTypes, Bytes
  <2> QED BY <2>1
<1>3. ASSUME NEW c \in FConns
      PROVE  /\ freq[c].kind \in {"idle", "espfs", "vfs", "put"}
             /\ freq[c].st \in {"START", "WRITE", "DONE", "ERR"}
             /\ freq[c].got \in 0 .. MaxBody + ReadLen /\ freq[c].written \in 0 .. freq[c].len
  <2>1. freq[c] \in FileReq
    BY <1>1 DEF FilesTypes
  <2>2. freq[c].got \in 0 .. MaxBody + ReadLen /\ freq[c].written \in 0 .. MaxBody /\ freq[c].len \in 0 .. MaxBody
        /\ freq[c].kind \in {"idle", "espfs", "vfs", "put"} /\ freq[c].st \in {"START", "WRITE", "DONE", "ERR"}
    BY <2>1 DEF FileReq
  <2>3. freq[c].written <= freq[c].len
    <3>1. CASE freq[c].kind = "put"
      <4>1. freq[c].written <= freq[c].got /\ freq[c].got <= freq[c].len
        BY <1>1, <3>1 DEF ConnRight, UploadRight
      <4> QED BY <2>2, <4>1, FilesAssumption
    <3>2. CASE freq[c].kind # "put"
      BY <2>2, <3>2 DEF NoneWritten
    <3> QED BY <3>1, <3>2
  <2> QED BY <2>2, <2>3
<1>4. fheld \in [FConns -> [file : 0 .. 1, mem : Nat]] /\ fputs \in [FConns -> Nat]
  BY <1>1 DEF FilesTypes, Held
<1>5. fcount \in 0 .. MaxRequests
  BY <1>1 DEF FilesTypes
<1> QED BY <1>2, <1>3, <1>4, <1>5 DEF FilesTypeOK, DiskByte

\* What a long response holds, in either form.
RespTypes ==
  /\ mform \in Forms /\ mphase \in {"new", "more", "done", "aborted"}
  /\ mrefused \in 0 .. 2
  /\ mphase # "more" => mstate = NoPiece
  /\ mphase = "more" => mheld = [string |-> 1, state |-> 1]
  /\ mphase = "new" => mheld = [string |-> 0, state |-> 0]
  /\ mheld \in [string : 0 .. 1, state : 0 .. 1]

\* The clean-up frees both or, without statepp, neither.
LEMMA CleanupTypes ==
  ASSUME NEW h, h = [string |-> 1, state |-> 1], NEW statepp \in {"NULL", "state"}
  PROVE  cgiResponseCommonMultiCleanup(h, statepp) \in [string : 0 .. 1, state : 0 .. 1]
<1>1. h \in [string : 0 .. 1, state : 0 .. 1] /\ h.string = 1 /\ h.state = 1
  OBVIOUS
<1>2. statepp = "NULL" => cgiResponseCommonMultiCleanup(h, statepp) = h
  BY DEF cgiResponseCommonMultiCleanup
<1>3. cgiResponseCommonMultiCleanup(h, "state") \in [string : 0 .. 1, state : 0 .. 1]
  BY <1>1, CleanupIs
<1> QED BY <1>1, <1>2, <1>3

\* Every call of a response keeps its types.
LEMMA RespTypesNext ==
  ASSUME RespTypes, MultiNext \/ UNCHANGED mrVars
  PROVE  RespTypes'
<1>1. ASSUME NEW s, NEW held, held = [string |-> 1, state |-> 1], NEW ok, SendPiece(s, held, ok)
      PROVE  RespTypes'
  <2>1. PICK t, statepp, ends :
          /\ statepp = (IF mform = "single" THEN "NULL" ELSE "state")
          /\ mrefused' = 1 \/ mrefused' = mrefused
          /\ mform' = mform
          /\ mstate' = IF ends THEN NoPiece ELSE t
          /\ mheld' = IF ends THEN cgiResponseCommonMultiCleanup(held, statepp) ELSE held
          /\ mphase' = IF ends THEN "done" ELSE "more"
    BY <1>1, Zenon DEF SendPiece
  <2>2. cgiResponseCommonMultiCleanup(held, statepp) \in [string : 0 .. 1, state : 0 .. 1]
    <3>1. statepp \in {"NULL", "state"}
      BY <2>1
    <3> QED BY <1>1, <3>1, CleanupTypes
  <2>3. held \in [string : 0 .. 1, state : 0 .. 1]
    BY <1>1
  <2> QED BY <1>1, <2>1, <2>2, <2>3 DEF RespTypes
<1>2. ASSUME NEW ok \in BOOLEAN, MultiFirst(ok) PROVE RespTypes'
  BY <1>1, <1>2 DEF MultiFirst
<1>3. ASSUME NEW ok \in BOOLEAN, MultiAgain(ok) PROVE RespTypes'
  BY <1>1, <1>3 DEF MultiAgain, RespTypes
<1>4. CASE MultiNoMemory
  <2>1. mheld' = [string |-> 1, state |-> 0]
    BY <1>4 DEF MultiNoMemory, RespTypes
  <2>2. mheld' \in [string : 0 .. 1, state : 0 .. 1]
    BY <2>1
  <2> QED BY <1>4, <2>2 DEF MultiNoMemory, RespTypes
<1>5. CASE MultiAbort
  <2>1. mheld' \in [string : 0 .. 1, state : 0 .. 1]
    BY <1>5, CleanupTypes DEF MultiAbort, RespTypes
  <2> QED BY <1>5, <2>1 DEF MultiAbort, RespTypes
<1>6. CASE UNCHANGED mrVars
  BY <1>6 DEF mrVars, RespTypes
<1> QED BY <1>2, <1>3, <1>4, <1>5, <1>6 DEF MultiNext

\* They hold before the first call.
LEMMA RespTypesInit ==
  ASSUME MultiInit
  PROVE  RespTypes
<1>1. [string |-> 0, state |-> 0] \in [string : 0 .. 1, state : 0 .. 1]
  OBVIOUS
<1> QED BY <1>1 DEF MultiInit, RespTypes

\* With the order of the pieces they give the types.
LEMMA RespTypesHold ==
  ASSUME RespTypes, OrderInv
  PROVE  MultiTypeOK
<1>1. mstate = NoPiece \/ mstate \in [pos : 1 .. MaxString + 1, left : 0 .. MaxString]
  BY DEF RespTypes, OrderInv
<1>2. mheld \in [{"string", "state"} -> 0 .. 1]
  BY DEF RespTypes
<1>3. \A i \in DOMAIN msent : msent[i] \in (1 .. MaxString) \X (1 .. MaxString)
  <2>1. msent \in RespPieces
    BY DEF OrderInv
  <2> QED BY <2>1 DEF RespPieces
<1> QED BY <1>1, <1>2, <1>3 DEF RespTypes, OrderInv, MultiTypeOK

\* What the types of the parts need.
TypesInv ==
  /\ part = "template" => TplInv /\ ExpandInv /\ TplBounds
  /\ part = "response" => OrderInv /\ RespTypes
  /\ part = "files" => FilesInv /\ NoneWritten

\* It holds at the start.
LEMMA TypesBegin ==
  ASSUME Init
  PROVE  TypesInv
  BY TplInitRight, ExpandInit, TplBoundsInit, OrderInit, RespTypesInit, FilesInitRight, NoneWrittenInit
     DEF Init, TypesInv

\* Every step keeps it.
LEMMA TypesGoOn ==
  ASSUME TypesInv, [Next]_handlerVars
  PROVE  TypesInv'
<1>1. CASE part = "template"
  <2>1. part' = part /\ (TplNext \/ UNCHANGED tplVars)
    BY <1>1, StepOfOne
  <2>2. TplInv /\ ExpandInv /\ TplBounds
    BY <1>1 DEF TypesInv
  <2>3. TplInv'
    BY <2>1, <2>2, TplNextRight, TplUnchangedRight
  <2>4. ExpandInv' /\ TplBounds'
    BY <2>1, <2>2, ExpandNext, TplBoundsNext
  <2> QED BY <1>1, <2>1, <2>3, <2>4 DEF TypesInv
<1>2. CASE part = "response"
  <2>1. part' = part /\ (MultiNext \/ UNCHANGED mrVars)
    BY <1>2, StepOfOne
  <2>2. OrderInv /\ RespTypes
    BY <1>2 DEF TypesInv
  <2>3. OrderInv'
    BY <2>1, <2>2, OrderNext, OrderUnchanged
  <2>4. RespTypes'
    BY <2>1, <2>2, RespTypesNext
  <2> QED BY <1>2, <2>1, <2>3, <2>4 DEF TypesInv
<1>3. CASE part = "files"
  <2>1. part' = part /\ (FilesNext \/ UNCHANGED fileVars)
    BY <1>3, StepOfOne
  <2>2. FilesInv /\ NoneWritten
    BY <1>3 DEF TypesInv
  <2>3. FilesInv'
    BY <2>1, <2>2, FilesNextRight, FilesUnchangedRight
  <2>4. NoneWritten'
    <3>1. UNCHANGED fileVars => NoneWritten'
      BY <2>2 DEF fileVars, NoneWritten
    <3> QED BY <2>1, <2>2, <3>1, NoneWrittenNext
  <2> QED BY <1>3, <2>1, <2>3, <2>4 DEF TypesInv
<1>4. CASE part \notin {"template", "response", "files"}
  BY <1>4, StepOfOne DEF TypesInv
<1> QED BY <1>1, <1>2, <1>3, <1>4

\* It holds always.
LEMMA TypesInvHolds ==
  Spec => []TypesInv
<1>1. Init => TypesInv
  BY TypesBegin
<1>2. TypesInv /\ [Next]_handlerVars => TypesInv'
  BY TypesGoOn
<1> QED BY <1>1, <1>2, PTL DEF Spec

\* Every variable of every handler stays in its range, whatever is asked for:
\* no place in a buffer, no count of what is held and no result leaves it, and
\* nothing is written behind a buffer.
THEOREM HandlersStayTyped ==
  Spec => []HandlersTypeOK
<1>1. /\ TypesInv
      /\ part = "frames" => WsInv
      /\ part = "text" => DecodedInv
      /\ part = "dns" => DnsInv
      /\ part = "routes" => RoutesInv
      => HandlersTypeOK
  <2>1. TypesInv => /\ part = "template" => TplTypeOK
                    /\ part = "response" => MultiTypeOK
                    /\ part = "files" => FilesTypeOK
    BY TplTypesHold, RespTypesHold, FilesTypesHold DEF TypesInv
  <2>2. WsInv => WsTypeOK
    BY WsInvIsEnough
  <2>3. DecodedInv => TextTypeOK
    BY CallsFit
  <2>4. DnsInv => DnsTypeOK
    BY DEF DnsInv
  <2>5. RoutesInv => RoutesTypeOK
    BY DEF RoutesInv
  <2> QED BY <2>1, <2>2, <2>3, <2>4, <2>5 DEF HandlersTypeOK
<1> QED
  BY <1>1, TypesInvHolds, FramesPartRight, TextPartRight, DnsPartRight, RoutesPartRight, PTL
=============================================================================
