--------------------------- MODULE OtaUploadProofs ---------------------------
(***************************************************************************)
(* Proofs about OtaUpload, for any number of connections, app partitions   *)
(* and uploads, and images of any size.                                    *)
(***************************************************************************)
EXTENDS OtaUpload, FiniteSetTheorems, TLAPS

Answer ==
  [img : Images, slot : Slots \cup {Missing}, success : 0 .. 1, failed : SUBSET {"write", "end"}]

UploadState ==
  [st : States, img : Images, slot : Slots \cup {Missing},
   left : 0 .. Pieces, got : 0 .. Pieces, wrote : 0 .. Pieces]

Known == DOMAIN image

(* The first piece of s is of upload i, or another upload was let at s.    *)
OwnOrShared(i, s) ==
  \/ flash[s][1][1] = i
  \/ \E j \in Known \ {i} : image[j].type = "fw" /\ Target(image[j]) = s

(* An upload between two calls.                                            *)
Between(u) ==
  /\ u.st \in {"idle", "asked", "WRITE", "ERROR"}
  /\ u.st # "idle" => u.img \in Known
  /\ u.st = "asked" => u.got = 0 /\ u.wrote = 0
  /\ u.st \in {"WRITE", "ERROR"} => u.got < image[u.img].size
  /\ u.st = "WRITE" =>
       /\ u.img \in handles
       /\ u.got > 0 /\ u.wrote = u.got /\ u.left = image[u.img].size - u.got
       /\ u.slot \in Slots \ {running} /\ u.slot = Target(image[u.img])
       /\ OwnOrShared(u.img, u.slot)

OtaInv ==
  /\ TypeOK
  /\ \A s \in Slots, k \in 1 .. Pieces : flash[s][k][1] \in Known \cup {0}
  /\ \A i \in handles : i \in Known /\ image[i].type = "fw"
  /\ \A c \in Conns : Between(up[c])
  /\ \A c, d \in Conns :
       c # d /\ up[c].st # "idle" /\ up[d].st # "idle" => up[c].img # up[d].img
  /\ Bootable
  /\ SuccessIsWhole

-----------------------------------------------------------------------------
(* Requests, partitions and the numbers of images.                         *)

LEMMA SlotNumbers == \A s \in Slots : s \in Nat /\ s # Missing /\ s # None
BY OtaAssumption DEF Slots, Missing, None

LEMMA RequestCase ==
  ASSUME NEW r \in Requests
  PROVE  /\ r.type \in {"fw", "espfs"} /\ r.header \in {"app", "espfs", "other", "short"}
         /\ r.size \in 0 .. Pieces /\ r.name \in Slots \cup {None, Missing}
         /\ r.sound = 1 => r.size # 0
         /\ r.size = 0 => r.header = "other"
BY DEF Requests

LEMMA TargetType ==
  ASSUME NEW r \in Requests, running \in Slots
  PROVE  Target(r) \in Slots \cup {Missing}
<1>1. CASE r.name = None
  <2>1. (running + 1) % NumSlots \in Slots
    BY OtaAssumption DEF Slots
  <2> QED BY <1>1, <2>1 DEF Target
<1>2. CASE r.name # None
  BY <1>2, RequestCase DEF Target
<1> QED BY <1>1, <1>2

LEMMA ImageNumbers ==
  ASSUME TypeOK
  PROVE  \E n \in 0 .. MaxUploads :
           /\ image \in [1 .. n -> Requests] /\ Known = 1 .. n /\ NextImage = n + 1
<1>1. PICK n \in 0 .. MaxUploads : image \in [1 .. n -> Requests]
  BY DEF TypeOK
<1>2. n \in Nat /\ DOMAIN image = 1 .. n
  BY <1>1, OtaAssumption
<1>3. Cardinality(1 .. n) = n
  BY <1>2, FS_Interval
<1> QED BY <1>1, <1>2, <1>3 DEF Known, NextImage

LEMMA KnownImage ==
  ASSUME TypeOK, NEW i \in Known
  PROVE  image[i] \in Requests /\ Image(i) = image[i] /\ i \in Images /\ i # 0
<1>1. PICK n \in 0 .. MaxUploads : image \in [1 .. n -> Requests] /\ Known = 1 .. n
  BY ImageNumbers
<1>2. i \in 1 .. n /\ n \in 0 .. MaxUploads /\ MaxUploads \in Nat
  BY <1>1, OtaAssumption
<1> QED BY <1>1, <1>2 DEF Image, Images

(* An intact image is found by what its slot holds.                        *)
LEMMA ValidFrame ==
  ASSUME NEW f, NEW s, f[s] = flash[s], Valid(flash, s)
  PROVE  Valid(f, s)
BY DEF Valid

-----------------------------------------------------------------------------
(* Initial states.                                                         *)

LEMMA OtaInit == Init => OtaInv
<1> SUFFICES ASSUME Init PROVE OtaInv
  OBVIOUS
<1>1. /\ Pieces \in Nat \ {0} /\ 1 \in 1 .. Pieces /\ MaxUploads \in Nat
      /\ 0 \in Slots /\ 0 \in Images
  BY OtaAssumption DEF Slots, Images
<1>2. /\ flash \in [Slots -> {[k \in 1 .. Pieces |-> <<0, k>>],
                              [k \in 1 .. Pieces |-> Blank]}]
      /\ flash[0][1] # Blank
  BY DEF Init
<1>3. \A s \in Slots, k \in 1 .. Pieces :
        flash[s][k] \in Images \X (0 .. Pieces) /\ flash[s][k][1] = 0
  <2> SUFFICES ASSUME NEW s \in Slots, NEW k \in 1 .. Pieces
               PROVE  flash[s][k] \in Images \X (0 .. Pieces) /\ flash[s][k][1] = 0
    OBVIOUS
  <2>1. flash[s][k] = <<0, k>> \/ flash[s][k] = <<0, 0>>
    <3>1. \/ flash[s] = [j \in 1 .. Pieces |-> <<0, j>>]
          \/ flash[s] = [j \in 1 .. Pieces |-> Blank]
      BY <1>2
    <3> QED BY <3>1 DEF Blank
  <2>2. k \in 0 .. Pieces /\ 0 \in 0 .. Pieces
    BY <1>1
  <2> QED BY <1>1, <2>1, <2>2
<1>4. flash \in [Slots -> [1 .. Pieces -> Images \X (0 .. Pieces)]]
  <2>1. \A s \in Slots : flash[s] \in [1 .. Pieces -> Images \X (0 .. Pieces)]
    <3> SUFFICES ASSUME NEW s \in Slots
                 PROVE  flash[s] \in [1 .. Pieces -> Images \X (0 .. Pieces)]
      OBVIOUS
    <3>1. flash[s] = [k \in 1 .. Pieces |-> flash[s][k]]
      BY <1>2
    <3> QED BY <1>3, <3>1
  <2> QED BY <1>2, <2>1
<1>5. /\ image \in [1 .. 0 -> Requests] /\ Known = {}
      /\ up = [c \in Conns |-> Idle] /\ handles = {} /\ answer = Silent
      /\ boot = 0 /\ running = 0 /\ timer = 0
  BY DEF Init, Known
<1>6. Idle \in UploadState
  BY <1>1 DEF Idle, UploadState, States
<1>7. TypeOK
  <2>1. 0 \in 0 .. MaxUploads
    BY <1>1
  <2>2. Silent \in Answer
    BY <1>1 DEF Silent, Answer
  <2>3. \E n \in 0 .. MaxUploads : image \in [1 .. n -> Requests]
    BY <1>5, <2>1
  <2>4. up \in [Conns -> UploadState]
    BY <1>5, <1>6
  <2>5. handles \in SUBSET (1 .. MaxUploads)
    BY <1>5
  <2>6. boot \in Slots /\ running \in Slots /\ timer \in 0 .. 1
    BY <1>1, <1>5
  <2> QED BY <1>4, <1>5, <2>2, <2>3, <2>4, <2>5, <2>6, Zenon DEF TypeOK, UploadState, Answer
<1>8. Bootable
  <2>1. flash[0] = [k \in 1 .. Pieces |-> <<0, k>>]
    <3>1. \/ flash[0] = [k \in 1 .. Pieces |-> <<0, k>>]
          \/ flash[0] = [k \in 1 .. Pieces |-> Blank]
      BY <1>1, <1>2
    <3>2. [k \in 1 .. Pieces |-> Blank][1] = Blank
      BY <1>1
    <3> QED BY <1>2, <3>1, <3>2
  <2>2. Image(0).sound = 1 /\ Image(0).size = Pieces
    BY DEF Image, Delivered, Upload
  <2>3. flash[0][1] = <<0, 1>>
    BY <1>1, <2>1
  <2>4. <<0, 1>>[1] = 0
    OBVIOUS
  <2>5. \A k \in 1 .. Pieces : flash[0][k] = <<0, k>>
    BY <2>1
  <2> QED BY <1>2, <1>5, <2>2, <2>3, <2>4, <2>5 DEF Bootable, Valid
<1>9. \A c \in Conns : up[c].st = "idle" /\ Between(up[c])
  BY <1>5 DEF Idle, Between
<1>10. SuccessIsWhole
  BY <1>5 DEF Silent, SuccessIsWhole
<1> QED BY <1>3, <1>5, <1>7, <1>8, <1>9, <1>10 DEF OtaInv

-----------------------------------------------------------------------------
(* One call of cgiUploadFirmware, part by part.                            *)

(* The partition is chosen and the header looked at: u became o, and hs    *)
(* are the handles that are open then.                                     *)
Opened(u, r, o, hs) ==
  /\ o.img = u.img /\ o.got = u.got /\ o.wrote = u.wrote
  /\ o.st \in {"START", "WRITE", "ERROR"}
  /\ o.st = "START" => r.size = 0
  /\ u.got = 0 \/ u.got < r.size
  /\ o.st = "WRITE" =>
       /\ o.left = r.size - u.got /\ u.got < r.size /\ u.wrote = u.got
       /\ o.slot \in Slots
       /\ u.img \in hs =>
            /\ o.slot \in Slots \ {running} /\ o.slot = Target(r)
            /\ u.got > 0 => OwnOrShared(u.img, o.slot)
       /\ u.img \notin hs => u.got = 0
  /\ handles \subseteq hs /\ hs \subseteq handles \cup {u.img}
  /\ u.img \in hs => r.type = "fw"

LEMMA OpenedCase ==
  ASSUME OtaInv, NEW c \in Conns, up[c].st # "idle", NEW fails, NEW seen,
         image[up[c].img].size = 0 => seen # "app"
  PROVE  LET u     == up[c]
             r     == Image(u.img)
             first == FirstCall(u)
             open  == CheckHeader(first, seen, fails)
             hs    == IF first.st = "START" /\ Begins(r, first, seen, fails)
                      THEN handles \cup {open.img} ELSE handles
         IN  open \in UploadState /\ Opened(u, r, open, hs)
<1> DEFINE u     == up[c]
           r     == Image(u.img)
           first == FirstCall(u)
           open  == CheckHeader(first, seen, fails)
           hs    == IF first.st = "START" /\ Begins(r, first, seen, fails)
                    THEN handles \cup {open.img} ELSE handles
<1>1. /\ u \in UploadState /\ Between(u) /\ TypeOK /\ u.img \in Known
      /\ running \in Slots
  BY DEF OtaInv, TypeOK, UploadState, Between
<1>2. r = image[u.img] /\ r \in Requests
  BY <1>1, KnownImage
<1>3. r.type = "fw" \/ u.img \notin handles
  BY <1>2 DEF OtaInv
<1>4. r.size \in 0 .. Pieces /\ Pieces \in Nat /\ u.got \in 0 .. Pieces
  BY <1>1, <1>2, RequestCase, OtaAssumption DEF UploadState
<1>5. seen = "app" => r.size # 0
  BY <1>2
<1> HIDE DEF u, r
<1>6. CASE u.st \in {"WRITE", "ERROR"}
  <2>1. first = u /\ open = u /\ hs = handles
    BY <1>6 DEF FirstCall, CheckHeader
  <2>2. Opened(u, r, u, handles)
    BY <1>1, <1>2, <1>3, <1>4, <1>6 DEF Between, Opened
  <2> QED BY <1>1, <2>1, <2>2 DEF u, r
<1>7. CASE u.st = "asked"
  <2> DEFINE slot == Target(r)
             st == IF slot = Missing THEN "ERROR" ELSE "START"
  <2>1. slot \in Slots \cup {Missing}
    BY <1>1, <1>2, TargetType
  <2>2. first = [u EXCEPT !.slot = slot, !.st = st]
    BY <1>7 DEF FirstCall, r
  <2>3. u.got = 0 /\ u.wrote = 0
    BY <1>1, <1>7 DEF Between
  <2> HIDE DEF slot, st
  <2>4. st \in {"ERROR", "START"} /\ (st = "START" => slot # Missing)
    BY DEF st
  <2>5. /\ first \in UploadState /\ first.img = u.img /\ first.slot = slot
        /\ first.st = st /\ first.got = 0 /\ first.wrote = 0
    BY <1>1, <2>1, <2>2, <2>3, <2>4 DEF UploadState, States
  <2>6. r = Image(first.img)
    BY <2>5 DEF r
  <2> HIDE DEF first
  <2>7. CASE st = "ERROR" \/ r.size = 0
    <3>1. open = first
      BY <2>5, <2>6, <2>7 DEF CheckHeader
    <3>2. hs = handles
      BY <1>5, <2>5, <2>7 DEF Begins, Recognises
    <3>3. Opened(u, r, first, handles)
      BY <1>3, <1>4, <2>3, <2>4, <2>5, <2>7 DEF Opened
    <3> QED BY <2>5, <3>1, <3>2, <3>3 DEF u, r, first
  <2>8. CASE st = "START" /\ r.size # 0
    <3>1. CASE Begins(r, first, seen, fails)
      <4> DEFINE o == [first EXCEPT !.st = "WRITE", !.left = r.size]
      <4>1. open = o
        BY <2>5, <2>6, <2>8, <3>1 DEF CheckHeader
      <4>2. /\ o \in UploadState /\ o.img = u.img /\ o.slot = slot
            /\ o.st = "WRITE" /\ o.left = r.size /\ o.got = 0 /\ o.wrote = 0
        BY <1>4, <2>5 DEF UploadState, States
      <4> HIDE DEF o
      <4>3. hs = handles \cup {u.img}
        BY <2>5, <2>8, <3>1, <4>1, <4>2
      <4>4. slot \in Slots \ {running} /\ r.type = "fw"
        BY <2>1, <2>4, <2>5, <2>8, <3>1 DEF Begins, Recognises
      <4>5. Opened(u, r, o, handles \cup {u.img})
        BY <1>4, <2>3, <2>8, <4>2, <4>4 DEF Opened, slot
      <4> QED BY <4>1, <4>2, <4>3, <4>5 DEF u, r, first
    <3>2. CASE ~Begins(r, first, seen, fails) /\ RecognisesEspfs(r, seen)
      <4> DEFINE o == [first EXCEPT !.st = "WRITE", !.left = r.size]
      <4>1. open = o
        BY <2>5, <2>6, <2>8, <3>2 DEF CheckHeader
      <4>2. /\ o \in UploadState /\ o.img = u.img /\ o.slot = slot
            /\ o.st = "WRITE" /\ o.left = r.size /\ o.got = 0 /\ o.wrote = 0
        BY <1>4, <2>5 DEF UploadState, States
      <4> HIDE DEF o
      <4>3. hs = handles
        BY <3>2
      <4>4. r.type # "fw" /\ u.img \notin handles
        BY <1>3, <3>2 DEF RecognisesEspfs
      <4>5. Opened(u, r, o, handles)
        BY <1>4, <2>1, <2>3, <2>4, <2>8, <4>2, <4>4 DEF Opened
      <4> QED BY <4>1, <4>2, <4>3, <4>5 DEF u, r, first
    <3>3. CASE ~Begins(r, first, seen, fails) /\ ~RecognisesEspfs(r, seen)
      <4> DEFINE o == [first EXCEPT !.st = "ERROR"]
      <4>1. open = o
        BY <2>5, <2>6, <2>8, <3>3 DEF CheckHeader
      <4>2. /\ o \in UploadState /\ o.img = u.img
            /\ o.st = "ERROR" /\ o.got = 0 /\ o.wrote = 0
        BY <2>5 DEF UploadState, States
      <4> HIDE DEF o
      <4>3. hs = handles
        BY <3>3
      <4>4. Opened(u, r, o, handles)
        BY <1>3, <1>4, <2>3, <4>2 DEF Opened
      <4> QED BY <4>1, <4>2, <4>3, <4>4 DEF u, r, first
    <3> QED BY <3>1, <3>2, <3>3
  <2> QED BY <2>4, <2>7, <2>8
<1> QED BY <1>1, <1>6, <1>7 DEF Between, u

(* A piece is written, or is not, and counted.                             *)
Counted(o, w, d) ==
  /\ d.img = o.img /\ d.slot = o.slot /\ d.got = o.got + 1
  /\ d.wrote = IF o.st = "WRITE" /\ w THEN o.wrote + 1 ELSE o.wrote
  /\ o.st # "WRITE" => d.st = o.st
  /\ o.st = "WRITE" =>
       /\ d.left = o.left - 1
       /\ d.st = IF o.left = 1 THEN "DONE" ELSE IF w THEN "WRITE" ELSE "ERROR"

LEMMA CountedCase ==
  ASSUME NEW o \in UploadState, NEW w \in BOOLEAN, o.got + 1 \in 0 .. Pieces,
         o.st = "WRITE" => o.left - 1 \in 0 .. Pieces /\ o.wrote + 1 \in 0 .. Pieces
  PROVE  LET d == [WritePiece(o, w) EXCEPT !.got = @ + 1]
         IN  d \in UploadState /\ Counted(o, w, d)
<1> DEFINE p == WritePiece(o, w)
           d == [p EXCEPT !.got = @ + 1]
           st == IF o.left = 1 THEN "DONE" ELSE IF w THEN "WRITE" ELSE "ERROR"
           n == IF w THEN o.wrote + 1 ELSE o.wrote
<1>1. CASE o.st # "WRITE"
  <2>1. p = o
    BY <1>1 DEF WritePiece
  <2> HIDE DEF p
  <2>2. /\ d \in UploadState /\ d.img = o.img /\ d.slot = o.slot
        /\ d.got = o.got + 1 /\ d.wrote = o.wrote /\ d.st = o.st
    BY <2>1 DEF UploadState
  <2> HIDE DEF d
  <2>3. Counted(o, w, d)
    BY <1>1, <2>2 DEF Counted
  <2> QED BY <2>2, <2>3 DEF d, p
<1>2. CASE o.st = "WRITE"
  <2>1. p = [o EXCEPT !.left = o.left - 1, !.wrote = n, !.st = st]
    BY <1>2, Zenon DEF WritePiece
  <2>2. n \in 0 .. Pieces /\ st \in States
    BY <1>2 DEF UploadState, States
  <2> HIDE DEF n, st
  <2>3. /\ p \in UploadState /\ p.img = o.img /\ p.slot = o.slot
        /\ p.got = o.got /\ p.wrote = n /\ p.left = o.left - 1 /\ p.st = st
    BY <1>2, <2>1, <2>2 DEF UploadState
  <2> HIDE DEF p
  <2>4. /\ d \in UploadState /\ d.img = o.img /\ d.slot = o.slot
        /\ d.got = o.got + 1 /\ d.wrote = n /\ d.left = o.left - 1 /\ d.st = st
    BY <2>3 DEF UploadState
  <2> HIDE DEF d
  <2>5. Counted(o, w, d)
    BY <1>2, <2>4 DEF Counted, n, st
  <2> QED BY <2>4, <2>5 DEF d, p
<1> QED BY <1>1, <1>2

(* esp_ota_write.                                                          *)
FlashStep(o, hs, w, f) ==
  /\ f \in [Slots -> [1 .. Pieces -> Images \X (0 .. Pieces)]]
  /\ \A s \in Slots :
       f[s] = flash[s] \/ (o.st = "WRITE" /\ o.img \in hs /\ s = o.slot)
  /\ \A s \in Slots, k \in 1 .. Pieces : f[s][k][1] \in Known \cup {0}
  /\ o.st = "WRITE" /\ o.img \in hs /\ o.wrote > 0 => f[o.slot][1] = flash[o.slot][1]
  /\ o.st = "WRITE" /\ w /\ o.wrote = 0 => f[o.slot][1][1] = o.img

LEMMA FlashCase ==
  ASSUME OtaInv, NEW o \in UploadState, o.img \in Known, NEW hs,
         NEW w \in BOOLEAN, NEW torn \in BOOLEAN,
         w \/ torn => o.st = "WRITE" /\ o.img \in hs /\ o.slot \in Slots /\ o.wrote < Pieces
  PROVE  FlashStep(o, hs, w, Written(o, w, torn))
<1>1. /\ flash \in [Slots -> [1 .. Pieces -> Images \X (0 .. Pieces)]]
      /\ \A s \in Slots, k \in 1 .. Pieces : flash[s][k][1] \in Known \cup {0}
      /\ Pieces \in Nat \ {0} /\ o.wrote \in 0 .. Pieces /\ o.img \in Images
  BY OtaAssumption, KnownImage DEF OtaInv, TypeOK, UploadState
<1>a. ASSUME NEW p \in Images \X (0 .. Pieces), p[1] \in Known \cup {0},
             w \/ torn, w => p[1] = o.img
      PROVE  FlashStep(o, hs, w, [flash EXCEPT ![o.slot][o.wrote + 1] = p])
  <2> DEFINE k == o.wrote + 1
             f == [flash EXCEPT ![o.slot][k] = p]
  <2>1. /\ o.st = "WRITE" /\ o.img \in hs /\ o.slot \in Slots
        /\ k \in 1 .. Pieces
    BY <1>1, <1>a
  <2>2. /\ f \in [Slots -> [1 .. Pieces -> Images \X (0 .. Pieces)]]
        /\ f[o.slot][k] = p
        /\ \A s \in Slots : s # o.slot => f[s] = flash[s]
        /\ \A j \in 1 .. Pieces : j # k => f[o.slot][j] = flash[o.slot][j]
    BY <1>1, <1>a, <2>1
  <2> HIDE DEF f
  <2>3. \A s \in Slots, j \in 1 .. Pieces : f[s][j][1] \in Known \cup {0}
    BY <1>1, <1>a, <2>1, <2>2
  <2>4. o.wrote > 0 => 1 # k /\ 1 \in 1 .. Pieces
    BY <1>1
  <2>5. o.wrote = 0 => k = 1
    BY <1>1
  <2>6. o.wrote > 0 => f[o.slot][1] = flash[o.slot][1]
    BY <2>2, <2>4
  <2>7. w /\ o.wrote = 0 => f[o.slot][1][1] = o.img
    BY <1>a, <2>2, <2>5
  <2>8. FlashStep(o, hs, w, f)
    BY <2>1, <2>2, <2>3, <2>6, <2>7 DEF FlashStep
  <2> QED BY <2>8 DEF f
<1>2. CASE w
  <2>1. <<o.img, o.wrote + 1>> \in Images \X (0 .. Pieces)
    BY <1>1, <1>2
  <2>2. <<o.img, o.wrote + 1>>[1] = o.img
    OBVIOUS
  <2> QED BY <1>2, <1>a, <2>1, <2>2 DEF Written
<1>3. CASE ~w /\ torn
  <2>1. Blank \in Images \X (0 .. Pieces) /\ Blank[1] = 0
    BY <1>1, OtaAssumption DEF Blank, Images
  <2> QED BY <1>3, <1>a, <2>1 DEF Written
<1>4. CASE ~w /\ ~torn
  BY <1>1, <1>4 DEF Written, FlashStep
<1> QED BY <1>2, <1>3, <1>4

-----------------------------------------------------------------------------
(* What a step leaves alone.                                               *)

(* No image is forgotten or changed.                                       *)
ImagesKept == Known \subseteq Known' /\ \A i \in Known : image'[i] = image[i]

LEMMA BetweenKept ==
  ASSUME ImagesKept, running' = running, NEW u, Between(u),
         u.img \in handles => u.img \in handles',
         u.st = "WRITE" =>
           \/ flash'[u.slot][1] = flash[u.slot][1]
           \/ \E j \in Known \ {u.img} : image[j].type = "fw" /\ Target(image[j]) = u.slot
  PROVE  Between(u)'
<1>1. u.st # "idle" => u.img \in Known /\ image'[u.img] = image[u.img]
  BY DEF Between, ImagesKept
<1>2. ASSUME u.st = "WRITE" PROVE OwnOrShared(u.img, u.slot)'
  <2>1. CASE flash'[u.slot][1][1] = u.img
    BY <2>1 DEF OwnOrShared
  <2>2. CASE \E j \in Known \ {u.img} : image[j].type = "fw" /\ Target(image[j]) = u.slot
    <3>1. PICK j \in Known \ {u.img} : image[j].type = "fw" /\ Target(image[j]) = u.slot
      BY <2>2
    <3>2. j \in Known' \ {u.img} /\ image'[j] = image[j]
      BY <3>1 DEF ImagesKept
    <3>3. image'[j].type = "fw" /\ Target(image[j])' = u.slot
      BY <3>1, <3>2 DEF Target
    <3> QED BY <3>2, <3>3 DEF OwnOrShared
  <2>3. OwnOrShared(u.img, u.slot)
    BY <1>2 DEF Between
  <2> QED BY <1>2, <2>1, <2>2, <2>3 DEF OwnOrShared
<1>3. ASSUME u.st = "WRITE" PROVE Target(image[u.img])' = Target(image[u.img])
  BY <1>1, <1>3 DEF Target
<1>4. u.st # "idle" => u.img \in Known'
  BY <1>1 DEF ImagesKept
<1>5. u.st \in {"WRITE", "ERROR"} => u.got < image'[u.img].size
  BY <1>1 DEF Between
<1>6. ASSUME u.st = "WRITE"
      PROVE  /\ u.img \in handles'
             /\ u.got > 0 /\ u.wrote = u.got /\ u.left = image'[u.img].size - u.got
             /\ u.slot \in Slots \ {running'} /\ u.slot = Target(image[u.img])'
             /\ OwnOrShared(u.img, u.slot)'
  <2>1. u.st # "idle"
    BY <1>6
  <2>2. /\ u.img \in handles
        /\ u.got > 0 /\ u.wrote = u.got /\ u.left = image[u.img].size - u.got
        /\ u.slot \in Slots \ {running} /\ u.slot = Target(image[u.img])
    BY <1>6 DEF Between
  <2>3. u.left = image'[u.img].size - u.got
    BY <1>1, <2>1, <2>2
  <2>4. u.slot \in Slots \ {running'}
    BY <2>2
  <2>5. u.slot = Target(image[u.img])'
    BY <1>3, <1>6, <2>2
  <2> QED BY <1>2, <1>6, <2>2, <2>3, <2>4, <2>5
<1>7. /\ u.st \in {"idle", "asked", "WRITE", "ERROR"}
      /\ u.st = "asked" => u.got = 0 /\ u.wrote = 0
  BY DEF Between
<1> QED BY <1>4, <1>5, <1>6, <1>7, Zenon DEF Between

LEMMA ValidKept ==
  ASSUME ImagesKept, NEW s, flash'[s] = flash[s], flash[s][1][1] \in Known \cup {0},
         Valid(flash, s)
  PROVE  Valid(flash, s)'
BY DEF ImagesKept, Valid, Image

LEMMA IdleBetween == Idle \in UploadState /\ Idle.st = "idle" /\ Between(Idle)
BY OtaAssumption DEF Idle, UploadState, States, Images, Between

LEMMA SilentType ==
  Silent \in Answer
BY OtaAssumption DEF Silent, Images, Answer

(* A client begins to upload.                                              *)
LEMMA AskStep ==
  ASSUME OtaInv, NEW c \in Conns, Ask(c)
  PROVE  OtaInv'
<1>1. PICK n \in 0 .. MaxUploads :
        /\ image \in [1 .. n -> Requests] /\ Known = 1 .. n /\ NextImage = n + 1
  BY ImageNumbers DEF OtaInv
<1>2. PICK r \in Requests :
        /\ image' = [i \in 1 .. NextImage |-> IF i = NextImage THEN r ELSE image[i]]
        /\ up' = [up EXCEPT ![c] = [Idle EXCEPT !.st = "asked", !.img = NextImage]]
  BY DEF Ask
<1>3. /\ up[c].st = "idle" /\ answer' = Silent
      /\ UNCHANGED <<flash, boot, running, handles, timer>>
      /\ n \in Nat /\ n + 1 <= MaxUploads /\ MaxUploads \in Nat
  BY <1>1, OtaAssumption DEF Ask
<1>4. image' \in [1 .. n + 1 -> Requests] /\ Known' = 1 .. n + 1
  BY <1>1, <1>2, <1>3 DEF Known
<1>5. ImagesKept /\ n + 1 \notin Known /\ n + 1 \in Known' /\ n + 1 \in Images
  BY <1>1, <1>2, <1>3, <1>4 DEF ImagesKept, Images
<1> DEFINE u == [Idle EXCEPT !.st = "asked", !.img = n + 1]
<1>6. /\ u \in UploadState /\ u.st = "asked" /\ u.img = n + 1
      /\ u.got = 0 /\ u.wrote = 0
  BY <1>5, IdleBetween DEF UploadState, States, Idle
<1>7. up' = [up EXCEPT ![c] = u]
  BY <1>1, <1>2
<1> HIDE DEF u
<1>8. up \in [Conns -> UploadState] /\ TypeOK
  BY DEF OtaInv, TypeOK, UploadState
<1>9. /\ up' \in [Conns -> UploadState] /\ up'[c] = u
      /\ \A d \in Conns \ {c} : up'[d] = up[d]
  BY <1>6, <1>7, <1>8
<1>10. TypeOK'
  <2>1. n + 1 \in 0 .. MaxUploads
    BY <1>3
  <2>2. \E m \in 0 .. MaxUploads : image' \in [1 .. m -> Requests]
    BY <1>4, <2>1
  <2> QED BY <1>3, <1>8, <1>9, <2>2, SilentType, Zenon DEF TypeOK, UploadState, Answer
<1>11. \A d \in Conns : Between(up[d])'
  <2>1. Between(u)'
    BY <1>5, <1>6 DEF Between
  <2>2. ASSUME NEW d \in Conns \ {c} PROVE Between(up[d])'
    BY <1>3, <1>5, <1>9, BetweenKept DEF OtaInv
  <2> QED BY <1>9, <2>1, <2>2
<1>12. \A d \in Conns \ {c} : up[d].st # "idle" => up[d].img \in Known
  BY DEF OtaInv, Between
<1>13. \A d, e \in Conns :
         d # e /\ up'[d].st # "idle" /\ up'[e].st # "idle" => up'[d].img # up'[e].img
  BY <1>5, <1>6, <1>9, <1>12 DEF OtaInv
<1>14. Bootable'
  <2>1. flash[running][1][1] \in Known \cup {0}
    <3>1. running \in Slots /\ 1 \in 1 .. Pieces
      BY <1>8, OtaAssumption DEF TypeOK
    <3> QED BY <3>1 DEF OtaInv
  <2> QED BY <1>3, <1>5, <2>1, ValidKept DEF OtaInv, Bootable, Valid, Image
<1>15. SuccessIsWhole'
  BY <1>3 DEF Silent, SuccessIsWhole
<1>16. \A s \in Slots, k \in 1 .. Pieces : flash'[s][k][1] \in Known' \cup {0}
  BY <1>3, <1>5 DEF OtaInv, ImagesKept
<1>17. \A i \in handles' : i \in Known' /\ image'[i].type = "fw"
  BY <1>3, <1>5 DEF OtaInv, ImagesKept
<1> QED BY <1>10, <1>11, <1>13, <1>14, <1>15, <1>16, <1>17 DEF OtaInv

(* Nothing is answered, and the uploads go on or are given up.             *)
LEMMA QuietStep ==
  ASSUME OtaInv, UNCHANGED <<flash, image, running>>, answer' = Silent,
         boot' \in Slots, timer' \in 0 .. 1, handles' = handles,
         \A c \in Conns : up'[c] \in {up[c], Idle}, DOMAIN up' = DOMAIN up,
         up' = [c \in Conns |-> up'[c]]
  PROVE  OtaInv'
<1>1. TypeOK /\ up \in [Conns -> UploadState] /\ ImagesKept
  BY DEF OtaInv, TypeOK, UploadState, ImagesKept, Known
<1>2. up' \in [Conns -> UploadState]
  BY <1>1, IdleBetween
<1>3. TypeOK'
  BY <1>1, <1>2, SilentType, Zenon DEF TypeOK, UploadState, Answer
<1>4. \A d \in Conns : Between(up[d])'
  <2> SUFFICES ASSUME NEW d \in Conns PROVE Between(up[d])'
    OBVIOUS
  <2>1. Between(up'[d])
    BY IdleBetween DEF OtaInv
  <2> QED BY <1>1, <2>1, BetweenKept
<1>5. Bootable'
  BY DEF OtaInv, Bootable, Valid, Image
<1>6. SuccessIsWhole'
  BY DEF Silent, SuccessIsWhole
<1>7. \A d, e \in Conns :
        d # e /\ up'[d].st # "idle" /\ up'[e].st # "idle" => up'[d].img # up'[e].img
  BY IdleBetween DEF OtaInv
<1> QED BY <1>3, <1>4, <1>5, <1>6, <1>7 DEF OtaInv, Known
-----------------------------------------------------------------------------
(* A call of cgiUploadFirmware.                                            *)

(* The upload u of connection c was opened as o with the handles hs, and   *)
(* became d when the piece was counted; w tells whether it was written.    *)
Taken(c, o, hs, w, d) ==
  LET u == up[c] IN
  /\ Opened(u, image[u.img], o, hs) /\ Counted(o, w, d)
  /\ FlashStep(o, hs, w, flash')
  /\ w => o.st = "WRITE" /\ o.img \in hs

Answers(c, d, hs, w) ==
  \E fails : ("write" \in fails \/ w) /\ Finish(c, d, hs, flash', fails)

GoesOn(c, d, hs) ==
  /\ up' = [up EXCEPT ![c] = d] /\ handles' = hs
  /\ answer' = Silent /\ boot' = boot

(* What an answer that moves the boot partition says.                      *)
Follows ==
  /\ boot' = answer'.slot /\ Valid(flash', boot')
  /\ \/ answer'.success = 1
     \/ "end" \in answer'.failed
     \/ "write" \in answer'.failed /\ image[answer'.img].size = 1

Outcome(c, d, hs, w) ==
  IF d.got >= image[up[c].img].size THEN Answers(c, d, hs, w) ELSE GoesOn(c, d, hs)

LEMMA PieceParts ==
  ASSUME OtaInv, NEW c \in Conns, Piece(c)
  PROVE  /\ UNCHANGED <<running, image, timer>>
         /\ \E o \in UploadState, d \in UploadState, w \in BOOLEAN :
              \E hs : Taken(c, o, hs, w, d) /\ Outcome(c, d, hs, w)
<1> DEFINE u == up[c]
           r == Image(u.img)
<1>1. /\ u \in UploadState /\ u.st # "idle" /\ u.img \in Known /\ TypeOK
  BY DEF OtaInv, TypeOK, UploadState, Between, Piece
<1>2. r = image[u.img] /\ r \in Requests
  BY <1>1, KnownImage
<1>3. PICK fails \in Failures :
      \E seen \in IF r.header = "short" THEN {"app", "espfs", "other"} ELSE {r.header} :
       LET first == FirstCall(up[c])
           open == CheckHeader(first, seen, fails)
           hs == IF first.st = "START" /\ Begins(r, first, seen, fails)
                 THEN handles \cup {open.img} ELSE handles
           writes == open.st = "WRITE" /\ open.img \in hs
           wrote == writes /\ "write" \notin fails
           f == Written(open, wrote, writes /\ "torn" \in fails)
           failed == IF wrote THEN fails ELSE fails \cup {"write"}
           done == [WritePiece(open, wrote) EXCEPT !.got = @ + 1]
       IN /\ flash' = f
          /\ IF done.got >= r.size THEN Finish(c, done, hs, f, failed)
             ELSE /\ up' = [up EXCEPT ![c] = done]
                  /\ handles' = hs /\ answer' = Silent /\ UNCHANGED boot
          /\ UNCHANGED <<running, image, timer>>
  BY Zenon DEF Piece
<1>4. PICK seen \in IF r.header = "short" THEN {"app", "espfs", "other"} ELSE {r.header} :
       LET first == FirstCall(up[c])
           open == CheckHeader(first, seen, fails)
           hs == IF first.st = "START" /\ Begins(r, first, seen, fails)
                 THEN handles \cup {open.img} ELSE handles
           writes == open.st = "WRITE" /\ open.img \in hs
           wrote == writes /\ "write" \notin fails
           f == Written(open, wrote, writes /\ "torn" \in fails)
           failed == IF wrote THEN fails ELSE fails \cup {"write"}
           done == [WritePiece(open, wrote) EXCEPT !.got = @ + 1]
       IN /\ flash' = f
          /\ IF done.got >= r.size THEN Finish(c, done, hs, f, failed)
             ELSE /\ up' = [up EXCEPT ![c] = done]
                  /\ handles' = hs /\ answer' = Silent /\ UNCHANGED boot
          /\ UNCHANGED <<running, image, timer>>
  BY <1>3, Zenon
<1>5. image[u.img].size = 0 => seen # "app"
  <2>1. r.size = 0 => r.header = "other"
    BY <1>2, RequestCase
  <2>2. r.size = 0 => seen = "other"
    BY <2>1, <1>4
  <2> QED BY <1>2, <2>2
<1> DEFINE first == FirstCall(u)
           open == CheckHeader(first, seen, fails)
           hs == IF first.st = "START" /\ Begins(r, first, seen, fails)
                 THEN handles \cup {open.img} ELSE handles
           writes == open.st = "WRITE" /\ open.img \in hs
           wrote == writes /\ "write" \notin fails
           torn == writes /\ "torn" \in fails
           failed == IF wrote THEN fails ELSE fails \cup {"write"}
           done == [WritePiece(open, wrote) EXCEPT !.got = @ + 1]
<1>6. /\ flash' = Written(open, wrote, torn)
      /\ IF done.got >= r.size THEN Finish(c, done, hs, flash', failed)
         ELSE GoesOn(c, done, hs)
      /\ UNCHANGED <<running, image, timer>>
  BY <1>4, Zenon DEF GoesOn
<1>7. open \in UploadState /\ Opened(u, r, open, hs)
  BY <1>1, <1>5, OpenedCase, Zenon
<1> HIDE DEF u, r, first, open, hs
<1>8. /\ wrote \in BOOLEAN /\ torn \in BOOLEAN
      /\ wrote => open.st = "WRITE" /\ open.img \in hs
      /\ torn => open.st = "WRITE" /\ open.img \in hs
      /\ "write" \in failed \/ wrote
  OBVIOUS
<1> HIDE DEF writes, wrote, torn, failed
<1>9. /\ Pieces \in Nat \ {0} /\ r.size \in 0 .. Pieces /\ u.got \in 0 .. Pieces
  BY <1>1, <1>2, RequestCase, OtaAssumption DEF UploadState
<1>10. /\ open.got = u.got /\ open.wrote = u.wrote /\ open.img = u.img
       /\ u.got = 0 \/ u.got < r.size
       /\ open.st = "WRITE" =>
            /\ open.left = r.size - u.got /\ u.got < r.size /\ u.wrote = u.got
            /\ open.slot \in Slots
  BY <1>7 DEF Opened
<1>11. /\ open.got + 1 \in 0 .. Pieces
       /\ open.st = "WRITE" => open.left - 1 \in 0 .. Pieces /\ open.wrote + 1 \in 0 .. Pieces
       /\ open.st = "WRITE" => open.wrote < Pieces
  BY <1>9, <1>10
<1>12. done \in UploadState /\ Counted(open, wrote, done)
  BY <1>7, <1>8, <1>11, CountedCase
<1> HIDE DEF done
<1>13. FlashStep(open, hs, wrote, flash')
  BY <1>1, <1>6, <1>7, <1>8, <1>10, <1>11, FlashCase
<1>14. Taken(c, open, hs, wrote, done)
  BY <1>2, <1>7, <1>8, <1>12, <1>13, Zenon DEF Taken, u
<1>15. Outcome(c, done, hs, wrote)
  BY <1>2, <1>6, <1>8, Zenon DEF Answers, Outcome, u
<1>16. \E h : Taken(c, open, h, wrote, done) /\ Outcome(c, done, h, wrote)
  BY <1>14, <1>15, Zenon
<1> QED BY <1>6, <1>7, <1>8, <1>12, <1>16, Zenon
(* What a call leaves alone, whether it answers or not.                    *)
Framed(c) ==
  /\ flash' \in [Slots -> [1 .. Pieces -> Images \X (0 .. Pieces)]]
  /\ \A s \in Slots, k \in 1 .. Pieces : flash'[s][k][1] \in Known' \cup {0}
  /\ handles' \in SUBSET (1 .. MaxUploads)
  /\ \A i \in handles' : i \in Known' /\ image'[i].type = "fw"
  /\ up' \in [Conns -> UploadState]
  /\ \A e \in Conns \ {c} : up'[e] = up[e] /\ Between(up[e])'
  /\ \A e, g \in Conns :
       e # g /\ up'[e].st # "idle" /\ up'[g].st # "idle" => up'[e].img # up'[g].img
  /\ Bootable'

LEMMA PieceFrame ==
  ASSUME OtaInv, NEW c \in Conns, up[c].st # "idle",
         UNCHANGED <<running, image, timer>>,
         NEW o \in UploadState, NEW d \in UploadState, NEW hs, NEW w \in BOOLEAN,
         Taken(c, o, hs, w, d),
         handles' = hs \/ handles' = hs \ {d.img},
         NEW v \in UploadState, v.st = "idle" \/ v.img = up[c].img,
         up' = [up EXCEPT ![c] = v]
  PROVE  Framed(c)
<1> DEFINE u == up[c]
<1>1. /\ u \in UploadState /\ u.img \in Known /\ TypeOK /\ running \in Slots
      /\ up \in [Conns -> UploadState]
  BY DEF OtaInv, TypeOK, UploadState, Between
<1>2. /\ Opened(u, image[u.img], o, hs) /\ Counted(o, w, d)
      /\ FlashStep(o, hs, w, flash')
  BY Zenon DEF Taken
<1>3. Known' = Known /\ ImagesKept
  BY DEF Known, ImagesKept
<1>4. /\ o.img = u.img /\ d.img = u.img
      /\ handles \subseteq hs /\ hs \subseteq handles \cup {u.img}
      /\ u.img \in hs => image[u.img].type = "fw"
      /\ o.st = "WRITE" /\ u.img \in hs => o.slot # running /\ o.slot = Target(image[u.img])
  BY <1>2 DEF Opened, Counted
<1>5. /\ flash' \in [Slots -> [1 .. Pieces -> Images \X (0 .. Pieces)]]
      /\ \A s \in Slots :
           flash'[s] = flash[s] \/ (o.st = "WRITE" /\ o.img \in hs /\ s = o.slot)
      /\ \A s \in Slots, k \in 1 .. Pieces : flash'[s][k][1] \in Known \cup {0}
  BY <1>2 DEF FlashStep
<1>6. \A i \in Known : i \in 1 .. MaxUploads
  <2> SUFFICES ASSUME NEW i \in Known PROVE i \in 1 .. MaxUploads
    OBVIOUS
  <2>1. i \in Images /\ i # 0
    BY <1>1, KnownImage
  <2> QED BY <2>1, OtaAssumption DEF Images
<1>7. \A i \in handles' : i \in Known /\ image[i].type = "fw"
  BY <1>1, <1>4 DEF OtaInv
<1>8. /\ up' \in [Conns -> UploadState] /\ up'[c] = v
      /\ \A e \in Conns \ {c} : up'[e] = up[e]
  BY <1>1
<1>9. ASSUME NEW e \in Conns \ {c} PROVE Between(up[e])'
  <2>1. Between(up[e])
    BY DEF OtaInv
  <2>2. up[e].st # "idle" => up[e].img \in Known /\ up[e].img # u.img
    BY <2>1 DEF OtaInv, Between
  <2>3. up[e].st # "idle" /\ up[e].img \in handles => up[e].img \in handles'
    BY <1>4, <2>2
  <2>4. ASSUME up[e].st = "WRITE"
        PROVE  \/ flash'[up[e].slot][1] = flash[up[e].slot][1]
               \/ \E j \in Known \ {up[e].img} :
                    image[j].type = "fw" /\ Target(image[j]) = up[e].slot
    <3>1. up[e].slot \in Slots
      BY <2>1, <2>4 DEF Between
    <3>2. CASE flash'[up[e].slot] = flash[up[e].slot]
      BY <3>2
    <3>3. CASE o.st = "WRITE" /\ o.img \in hs /\ up[e].slot = o.slot
      <4>1. u.img \in Known \ {up[e].img}
        BY <1>1, <2>2, <2>4
      <4>2. image[u.img].type = "fw" /\ Target(image[u.img]) = up[e].slot
        BY <1>4, <3>3
      <4> QED BY <4>1, <4>2
    <3> QED BY <1>5, <3>1, <3>2, <3>3
  <2>5. CASE up[e].st = "idle"
    BY <1>8, <2>5 DEF Between
  <2>6. CASE up[e].st # "idle"
    <3> DEFINE x == up[e]
    <3>1. x = x' 
      BY <1>8
    <3>2. /\ Between(x) /\ (x.img \in handles => x.img \in handles')
          /\ x.st = "WRITE" =>
               \/ flash'[x.slot][1] = flash[x.slot][1]
               \/ \E j \in Known \ {x.img} : image[j].type = "fw" /\ Target(image[j]) = x.slot
      BY <2>1, <2>3, <2>4, <2>6
    <3> QED BY <1>3, <1>8, <3>2, BetweenKept
  <2> QED BY <2>5, <2>6
<1>10. \A e \in Conns \ {c} : up[e].st # "idle" => up[e].img # u.img
  BY DEF OtaInv
<1>11. \A e, g \in Conns :
         e # g /\ up'[e].st # "idle" /\ up'[g].st # "idle" => up'[e].img # up'[g].img
  BY <1>8, <1>10 DEF OtaInv
<1>12. Bootable'
  <2>1. flash'[running] = flash[running]
    BY <1>1, <1>4, <1>5
  <2> QED BY <2>1 DEF OtaInv, Bootable, Valid, Image
<1>13. handles' \in SUBSET (1 .. MaxUploads)
  BY <1>6, <1>7
<1> QED BY <1>3, <1>5, <1>7, <1>8, <1>9, <1>11, <1>12, <1>13, Zenon DEF Framed

(* The first piece in the slot is of this upload, or the slot is shared.   *)
LEMMA PieceWritten ==
  ASSUME OtaInv, NEW c \in Conns, up[c].st # "idle",
         UNCHANGED <<running, image, timer>>,
         NEW o \in UploadState, NEW d \in UploadState, NEW hs, NEW w \in BOOLEAN,
         Taken(c, o, hs, w, d), o.st = "WRITE", o.img \in hs, d.wrote > 0
  PROVE  d.slot \in Slots \ {running} /\ d.slot = Target(image[d.img]) /\ OwnOrShared(d.img, d.slot)'
<1> DEFINE u == up[c]
<1>1. /\ u \in UploadState /\ u.img \in Known /\ TypeOK
  BY DEF OtaInv, TypeOK, UploadState, Between
<1>2. /\ Opened(u, image[u.img], o, hs) /\ Counted(o, w, d)
      /\ FlashStep(o, hs, w, flash')
  BY Zenon DEF Taken
<1>3. /\ o.img = u.img /\ d.img = u.img /\ d.slot = o.slot
      /\ o.wrote = u.got /\ u.got \in Nat
      /\ d.wrote = IF w THEN o.wrote + 1 ELSE o.wrote
      /\ o.slot \in Slots \ {running} /\ o.slot = Target(image[u.img])
      /\ u.got > 0 => OwnOrShared(u.img, o.slot)
  BY <1>1, <1>2, OtaAssumption DEF Opened, Counted, UploadState
<1>4. CASE u.got > 0
  <2>1. OwnOrShared(u.img, o.slot) /\ flash'[o.slot][1] = flash[o.slot][1]
    BY <1>2, <1>3, <1>4 DEF FlashStep
  <2>2. OwnOrShared(d.img, d.slot)'
    BY <1>3, <2>1 DEF OwnOrShared, Target, Known
  <2> QED BY <1>3, <2>2
<1>5. CASE u.got = 0
  <2>1. w
    BY <1>3, <1>5
  <2>2. flash'[o.slot][1][1] = o.img
    BY <1>2, <1>3, <1>5, <2>1 DEF FlashStep
  <2>3. OwnOrShared(d.img, d.slot)'
    BY <1>3, <2>2 DEF OwnOrShared
  <2> QED BY <1>3, <2>3
<1> QED BY <1>3, <1>4, <1>5

(* The call was not the last.                                              *)
LEMMA PieceGoesOn ==
  ASSUME OtaInv, NEW c \in Conns, up[c].st # "idle",
         UNCHANGED <<running, image, timer>>,
         NEW o \in UploadState, NEW d \in UploadState, NEW hs, NEW w \in BOOLEAN,
         Taken(c, o, hs, w, d), ~(d.got >= image[up[c].img].size), GoesOn(c, d, hs)
  PROVE  OtaInv'
<1> DEFINE u == up[c]
           size == image[u.img].size
<1>1. /\ u \in UploadState /\ u.img \in Known /\ TypeOK /\ image[u.img] \in Requests
      /\ Pieces \in Nat
  BY KnownImage, OtaAssumption DEF OtaInv, TypeOK, UploadState, Between
<1>2. /\ Opened(u, image[u.img], o, hs) /\ Counted(o, w, d)
      /\ w => o.st = "WRITE" /\ o.img \in hs
  BY Zenon DEF Taken
<1>3. /\ up' = [up EXCEPT ![c] = d] /\ handles' = hs /\ answer' = Silent /\ boot' = boot
  BY DEF GoesOn
<1>4. d.img = u.img
  BY <1>2 DEF Opened, Counted
<1>5. /\ size \in 0 .. Pieces /\ u.got \in 0 .. Pieces /\ d.got = u.got + 1
      /\ d.got < size /\ size # 0
  <2>1. size \in 0 .. Pieces /\ u.got \in 0 .. Pieces
    BY <1>1, RequestCase DEF UploadState
  <2>2. d.got = u.got + 1
    BY <1>2 DEF Opened, Counted
  <2> QED BY <1>1, <2>1, <2>2
<1>6. d.st \in {"WRITE", "ERROR"}
  BY <1>2, <1>5 DEF Opened, Counted
<1>7. d.st = "WRITE" =>
        /\ o.st = "WRITE" /\ w /\ o.img \in hs
        /\ d.wrote = d.got /\ d.left = size - d.got /\ d.wrote > 0
  BY <1>2, <1>5 DEF Opened, Counted
<1>8. Between(d)'
  <2>1. d.st = "WRITE" =>
          d.slot \in Slots \ {running} /\ d.slot = Target(image[d.img]) /\ OwnOrShared(d.img, d.slot)'
    BY <1>7, PieceWritten
  <2>2. Target(image[d.img])' = Target(image[d.img])
    BY DEF Target
  <2>3. d.st = "WRITE" => d.img \in handles'
    BY <1>2, <1>3, <1>4, <1>7 DEF Opened
  <2>4. d.img \in Known'
    BY <1>1, <1>4 DEF Known
  <2>5. d.st = "WRITE" => d.got > 0 /\ d.wrote = d.got /\ d.left = image'[d.img].size - d.got
    BY <1>4, <1>5, <1>7
  <2>6. d.got < image'[d.img].size
    BY <1>4, <1>5
  <2>7. d.st = "WRITE" => d.slot \in Slots \ {running'} /\ d.slot = Target(image[d.img])'
    BY <2>1, <2>2
  <2> QED BY <1>6, <2>1, <2>3, <2>4, <2>5, <2>6, <2>7 DEF Between
<1> HIDE DEF u, size
<1>9. /\ flash' \in [Slots -> [1 .. Pieces -> Images \X (0 .. Pieces)]]
      /\ \A s \in Slots, k \in 1 .. Pieces : flash'[s][k][1] \in Known' \cup {0}
      /\ handles' \in SUBSET (1 .. MaxUploads)
      /\ \A i \in handles' : i \in Known' /\ image'[i].type = "fw"
      /\ up' \in [Conns -> UploadState]
      /\ \A e \in Conns \ {c} : up'[e] = up[e] /\ Between(up[e])'
      /\ \A e, g \in Conns :
           e # g /\ up'[e].st # "idle" /\ up'[g].st # "idle" => up'[e].img # up'[g].img
      /\ Bootable'
  <2>1. d.st = "idle" \/ d.img = up[c].img
    BY <1>4 DEF u
  <2>2. handles' = hs \/ handles' = hs \ {d.img}
    BY <1>3
  <2>3. Framed(c)
    BY <1>3, <2>1, <2>2, PieceFrame, Zenon
  <2> QED BY <2>3, Zenon DEF Framed
<1>10. up'[c] = d
  BY <1>1, <1>3 DEF TypeOK
<1>11. TypeOK'
  BY <1>1, <1>3, <1>9, SilentType, Zenon DEF TypeOK, UploadState, Answer
<1>12. \A e \in Conns : Between(up[e])'
  BY <1>8, <1>9, <1>10
<1>13. SuccessIsWhole'
  BY <1>3 DEF Silent, SuccessIsWhole
<1> QED BY <1>9, <1>11, <1>12, <1>13 DEF OtaInv
(* The last call answers: an image is selected only when the slot holds it *)
(* whole.                                                                  *)
LEMMA PieceAnswers ==
  ASSUME OtaInv, NEW c \in Conns, up[c].st # "idle",
         UNCHANGED <<running, image, timer>>,
         NEW o \in UploadState, NEW d \in UploadState, NEW hs, NEW w \in BOOLEAN,
         Taken(c, o, hs, w, d), d.got >= image[up[c].img].size, Answers(c, d, hs, w)
  PROVE  /\ OtaInv'
         /\ boot' # boot => Follows
<1> DEFINE u == up[c]
           size == image[u.img].size
<1>1. /\ u \in UploadState /\ u.img \in Known /\ TypeOK /\ image[u.img] \in Requests
  BY KnownImage, OtaAssumption DEF OtaInv, TypeOK, UploadState, Between
<1>2. /\ Opened(u, image[u.img], o, hs) /\ Counted(o, w, d)
  BY Zenon DEF Taken
<1>3. PICK fails : ("write" \in fails \/ w) /\ Finish(c, d, hs, flash', fails)
  BY DEF Answers
<1> DEFINE success == IF d.st = "DONE" /\ Ended(d, hs, flash', fails) THEN 1 ELSE 0
           failed == fails \cap {"write", "end"}
<1>4. /\ boot' = BootAfter(d, flash', fails)
      /\ handles' = hs \/ handles' = hs \ {d.img}
      /\ answer' = [img |-> d.img, slot |-> d.slot, success |-> success, failed |-> failed]
      /\ up' = [up EXCEPT ![c] = Idle]
  BY <1>3 DEF Finish
<1>5. success \in 0 .. 1
  BY DEF success
<1>6. success = 1 => d.st = "DONE" /\ d.img \in hs /\ d.wrote > 0 /\ Valid(flash', d.slot)
  BY DEF success, Ended
<1>7. d.st = "DONE" => o.st = "WRITE" /\ d.slot = o.slot /\ o.slot \in Slots
  BY <1>2 DEF Opened, Counted
<1>8. d.img = u.img /\ o.img = u.img
  BY <1>2 DEF Opened, Counted
<1>9. d.img \in Images /\ d.slot \in Slots \cup {Missing}
  BY DEF UploadState
<1>10. boot' # boot => d.st = "DONE" /\ Valid(flash', d.slot) /\ boot' = d.slot
  BY <1>4 DEF BootAfter
<1>11. boot' \in Slots
  BY <1>1, <1>7, <1>10 DEF TypeOK
<1>20. failed \in SUBSET {"write", "end"} /\ ("end" \in failed <=> "end" \in fails)
       /\ ("write" \in failed <=> "write" \in fails)
  OBVIOUS
<1> HIDE DEF success, failed, u
<1>12. /\ answer' \in Answer
       /\ answer'.img = d.img /\ answer'.slot = d.slot /\ answer'.success = success
       /\ answer'.failed = failed
  BY <1>4, <1>5, <1>9, <1>20 DEF Answer
<1>13. /\ flash' \in [Slots -> [1 .. Pieces -> Images \X (0 .. Pieces)]]
       /\ \A s \in Slots, k \in 1 .. Pieces : flash'[s][k][1] \in Known' \cup {0}
       /\ handles' \in SUBSET (1 .. MaxUploads)
       /\ \A i \in handles' : i \in Known' /\ image'[i].type = "fw"
       /\ up' \in [Conns -> UploadState]
       /\ \A e \in Conns \ {c} : up'[e] = up[e] /\ Between(up[e])'
       /\ \A e, g \in Conns :
            e # g /\ up'[e].st # "idle" /\ up'[g].st # "idle" => up'[e].img # up'[g].img
       /\ Bootable'
  <2>1. Idle \in UploadState /\ (Idle.st = "idle" \/ Idle.img = up[c].img)
    BY IdleBetween
  <2>2. Framed(c)
    BY <1>4, <2>1, PieceFrame, Zenon
  <2> QED BY <2>2, Zenon DEF Framed
<1>14. up'[c] = Idle
  BY <1>1, <1>4 DEF TypeOK
<1>15. TypeOK'
  <2>1. running' \in Slots /\ timer' \in 0 .. 1 /\ image' = image
    BY <1>1 DEF TypeOK
  <2>2. \E n \in 0 .. MaxUploads : image' \in [1 .. n -> Requests]
    BY <1>1, <2>1 DEF TypeOK
  <2> QED BY <1>11, <1>12, <1>13, <2>1, <2>2, Zenon DEF TypeOK, UploadState, Answer
<1>16. \A e \in Conns : Between(up[e])'
  <2>1. Between(up[c])'
    BY <1>14, IdleBetween DEF Between
  <2> QED BY <1>13, <2>1
<1>17. SuccessIsWhole'
  <2> SUFFICES ASSUME answer'.success = 1 PROVE SuccessIsWhole'
    BY DEF SuccessIsWhole
  <2>1. /\ d.st = "DONE" /\ d.img \in hs /\ d.wrote > 0 /\ Valid(flash', d.slot)
    BY <1>6, <1>12
  <2>2. OwnOrShared(d.img, d.slot)'
    BY <1>7, <1>8, <2>1, PieceWritten
  <2>3. Valid(flash, d.slot)'
    BY <2>1 DEF Valid, Image
  <2>4. Valid(flash, answer.slot)'
    BY <1>12, <2>3 DEF Valid, Image
  <2>5. OwnOrShared(answer.img, answer.slot)'
    BY <1>12, <2>2 DEF OwnOrShared
  <2> QED BY <2>4, <2>5 DEF SuccessIsWhole, OwnOrShared, Known
<1>18. ASSUME boot' # boot PROVE Follows
  <2>1. d.st = "DONE" /\ Valid(flash', d.slot) /\ boot' = d.slot
    BY <1>10, <1>18
  <2>2. /\ o.st = "WRITE" /\ u.got \in Nat /\ size \in Nat /\ u.got < size
        /\ d.got = u.got + 1 /\ o.wrote = u.got /\ d.got >= size
    <3>1. d.got = u.got + 1 /\ d.got >= size
      BY <1>2 DEF Opened, Counted, u
    <3>2. u.got \in 0 .. Pieces /\ Pieces \in Nat /\ size \in 0 .. Pieces
      BY <1>1, RequestCase, OtaAssumption DEF UploadState
    <3> QED BY <1>2, <1>7, <2>1, <3>1, <3>2 DEF Opened
  <2>3. CASE w \/ size # 1
    <3>1. u.img \in hs
      <4>1. w => u.img \in hs
        BY <1>8, Zenon DEF Taken
      <4>2. u.got > 0 => u.img \in hs
        BY <1>2, <2>2 DEF Opened
      <4> QED BY <2>2, <2>3, <4>1, <4>2
    <3>2. d.wrote = IF w THEN o.wrote + 1 ELSE o.wrote
      BY <1>2, <2>2 DEF Counted
    <3>3. d.wrote > 0
      BY <2>2, <2>3, <3>2
    <3>4. "end" \notin fails => Ended(d, hs, flash', fails)
      BY <1>8, <2>1, <3>1, <3>3 DEF Ended
    <3> QED BY <1>12, <1>20, <2>1, <3>4 DEF success, Follows
  <2>4. CASE ~w /\ size = 1
    BY <1>3, <1>8, <1>12, <1>20, <2>1, <2>4 DEF Follows, u
  <2> QED BY <2>3, <2>4
<1>19. OtaInv'
  BY <1>13, <1>15, <1>16, <1>17 DEF OtaInv
<1> QED BY <1>18, <1>19

LEMMA PieceStep ==
  ASSUME OtaInv, NEW c \in Conns, Piece(c)
  PROVE  /\ OtaInv'
         /\ boot' # boot /\ answer' # Silent => Follows
<1>1. UNCHANGED <<running, image, timer>> /\ up[c].st # "idle"
  BY PieceParts DEF Piece
<1>2. PICK o \in UploadState, d \in UploadState, w \in BOOLEAN :
        \E hs : Taken(c, o, hs, w, d) /\ Outcome(c, d, hs, w)
  BY PieceParts
<1>5. PICK hs : Taken(c, o, hs, w, d) /\ Outcome(c, d, hs, w)
  BY <1>2
<1>3. CASE d.got >= image[up[c].img].size
  <2>1. /\ OtaInv'
        /\ boot' # boot => Follows
    <3>1. Answers(c, d, hs, w)
      BY <1>3, <1>5 DEF Outcome
    <3> QED BY <1>1, <1>3, <1>5, <3>1, PieceAnswers, Zenon
  <2> QED BY <2>1
<1>4. CASE ~(d.got >= image[up[c].img].size)
  <2>1. OtaInv'
    <3>1. GoesOn(c, d, hs)
      BY <1>4, <1>5 DEF Outcome
    <3> QED BY <1>1, <1>4, <1>5, <3>1, PieceGoesOn, Zenon
  <2>2. boot' = boot
    BY <1>4, <1>5 DEF Outcome, GoesOn
  <2> QED BY <2>1, <2>2
<1> QED BY <1>3, <1>4

-----------------------------------------------------------------------------
(* The boot loader and the other handlers.                                 *)

LEMMA RestartStep ==
  ASSUME OtaInv, Restart
  PROVE  OtaInv'
<1>1. PICK s \in Slots : BootLoader(s) /\ running' = s
  BY DEF Restart
<1>2. /\ up' = [c \in Conns |-> Idle] /\ handles' = {} /\ timer' = 0 /\ answer' = Silent
      /\ UNCHANGED <<flash, boot, image>>
  BY DEF Restart
<1>3. TypeOK /\ Bootable /\ running \in Slots
  BY DEF OtaInv, TypeOK
<1>4. Valid(flash, s)
  BY <1>1, <1>3 DEF BootLoader, Bootable
<1>5. Bootable'
  BY <1>1, <1>2, <1>4 DEF Bootable, Valid, Image
<1>6. up' \in [Conns -> UploadState]
  BY <1>2, IdleBetween
<1>7. TypeOK'
  <2>1. handles' \in SUBSET (1 .. MaxUploads) /\ timer' \in 0 .. 1 /\ running' \in Slots
    BY <1>1, <1>2
  <2> QED BY <1>2, <1>3, <1>6, <2>1, SilentType, Zenon DEF TypeOK, UploadState, Answer
<1>8. \A c \in Conns : up'[c].st = "idle" /\ Between(up[c])'
  BY <1>2, IdleBetween DEF Between
<1>9. SuccessIsWhole'
  BY <1>2 DEF Silent, SuccessIsWhole
<1>10. \A i \in handles' : i \in Known' /\ image'[i].type = "fw"
  BY <1>2
<1> QED BY <1>2, <1>5, <1>7, <1>8, <1>9, <1>10 DEF OtaInv, Known

LEMMA OtaNext ==
  ASSUME OtaInv, [Next]_vars
  PROVE  /\ OtaInv'
         /\ boot' # boot /\ answer' # Silent => Follows
<1>1. ASSUME NEW c \in Conns, Ask(c) PROVE OtaInv' /\ boot' = boot
  BY <1>1, AskStep DEF Ask
<1>2. ASSUME NEW c \in Conns, OutOfMemory(c) \/ Abort(c) PROVE OtaInv' /\ boot' = boot
  <2>1. /\ up' = [up EXCEPT ![c] = Idle] /\ answer' = Silent
        /\ UNCHANGED <<flash, boot, running, image, handles, timer>>
    BY <1>2 DEF OutOfMemory, Abort
  <2>2. /\ up \in [Conns -> UploadState] /\ boot \in Slots /\ timer \in 0 .. 1
    BY DEF OtaInv, TypeOK, UploadState
  <2>3. /\ \A d \in Conns : up'[d] \in {up[d], Idle}
        /\ DOMAIN up' = DOMAIN up /\ up' = [d \in Conns |-> up'[d]]
    BY <2>1, <2>2
  <2> QED BY <2>1, <2>2, <2>3, QuietStep
<1>3. ASSUME UNCHANGED <<flash, running, image, up, handles>>, answer' = Silent,
             boot' \in Slots, timer' \in 0 .. 1
      PROVE  OtaInv'
  <2>1. up \in [Conns -> UploadState]
    BY DEF OtaInv, TypeOK, UploadState
  <2>2. /\ \A d \in Conns : up'[d] \in {up[d], Idle}
        /\ DOMAIN up' = DOMAIN up /\ up' = [d \in Conns |-> up'[d]]
    BY <1>3, <2>1
  <2> QED BY <1>3, <2>2, QuietStep
<1>4. boot \in Slots /\ timer \in 0 .. 1
  BY DEF OtaInv, TypeOK
<1>5. ASSUME NEW name \in Names, cgiSetBoot(name) PROVE OtaInv' /\ answer' = Silent
  <2>1. boot' \in Slots
    BY <1>4, <1>5 DEF cgiSetBoot
  <2> QED BY <1>3, <1>4, <1>5, <2>1 DEF cgiSetBoot
<1>6. ASSUME NEW name \in Names, cgiEraseFlash(name) PROVE OtaInv' /\ answer' = Silent
  <2>1. CASE Found(name)
    <3>1. name \notin Slots
      BY <2>1, OtaAssumption DEF Found, DataParts, Slots
    <3>2. flash \in [Slots -> [1 .. Pieces -> Images \X (0 .. Pieces)]]
      BY DEF OtaInv, TypeOK
    <3>3. /\ flash' = [s \in Slots |-> IF s = name THEN [k \in 1 .. Pieces |-> Blank] ELSE flash[s]]
          /\ answer' = Silent
          /\ UNCHANGED <<boot, running, image, up, handles, timer>>
      BY <1>6, <2>1 DEF cgiEraseFlash
    <3>4. flash' = flash
      BY <3>1, <3>2, <3>3
    <3> QED BY <1>3, <1>4, <3>3, <3>4
  <2>2. CASE ~Found(name)
    <3>1. Restart
      BY <1>6, <2>2 DEF cgiEraseFlash
    <3> QED BY <3>1, RestartStep DEF Restart
  <2> QED BY <2>1, <2>2
<1>7. ASSUME cgiRebootFirmware PROVE OtaInv' /\ boot' = boot
  BY <1>3, <1>4, <1>7 DEF cgiRebootFirmware
<1>8. ASSUME Expire PROVE OtaInv' /\ boot' = boot
  BY <1>8, RestartStep DEF Expire, Restart
<1>9. ASSUME UNCHANGED vars PROVE OtaInv' /\ boot' = boot
  <2>1. TypeOK' /\ Bootable' /\ SuccessIsWhole'
    BY <1>9 DEF OtaInv, TypeOK, Bootable, SuccessIsWhole, Valid, Image, Target, vars
  <2>2. \A c \in Conns : Between(up[c])'
    BY <1>9 DEF OtaInv, Between, OwnOrShared, Target, Known, vars
  <2> QED BY <1>9, <2>1, <2>2 DEF OtaInv, Known, vars
<1> QED BY <1>1, <1>2, <1>5, <1>6, <1>7, <1>8, <1>9, PieceStep DEF Next

-----------------------------------------------------------------------------

LEMMA OtaInvariant == Spec => []OtaInv
<1>1. OtaInv /\ [Next]_vars => OtaInv'
  BY OtaNext
<1> QED BY OtaInit, <1>1, PTL DEF Spec

(* Every variable keeps its type: in particular no piece is written past   *)
(* the end of its partition and none outside the app partitions.           *)
THEOREM UploadTypes == Spec => []TypeOK
<1>1. OtaInv => TypeOK
  BY DEF OtaInv
<1> QED BY OtaInvariant, <1>1, PTL

(* The image the device runs stays whole under every upload, erase, failed *)
(* write, broken connection and restart, so it can always start again.     *)
THEOREM AlwaysBootable == Spec => []Bootable
<1>1. OtaInv => Bootable
  BY DEF OtaInv
<1> QED BY OtaInvariant, <1>1, PTL

(* cgiUploadFirmware answers "success" only when the slot holds a whole    *)
(* image, and it is the one that was sent unless another upload was let at *)
(* the same slot.                                                          *)
THEOREM SuccessTellsTruth == Spec => []SuccessIsWhole
<1>1. OtaInv => SuccessIsWhole
  BY DEF OtaInv
<1> QED BY OtaInvariant, <1>1, PTL

(* An upload moves the boot partition only to the slot it wrote and only   *)
(* when that holds a whole image; without an answer of success only when   *)
(* esp_ota_end failed there or its only piece could not be written.        *)
THEOREM SelectsOnSuccess == Spec => BootOnSuccess
<1>1. OtaInv /\ [Next]_vars => [boot' # boot /\ answer' # Silent => Follows]_vars
  BY OtaNext
<1> QED BY OtaInvariant, <1>1, PTL DEF Spec, BootOnSuccess, Follows
=============================================================================
