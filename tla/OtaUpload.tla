------------------------------ MODULE OtaUpload ------------------------------
(***************************************************************************)
(* Firmware upload over HTTP (src/util/cgiflash.c, the ESP32 half).  The   *)
(* server task calls cgiUploadFirmware once per piece of a POST body, so   *)
(* uploads of several connections interleave piece by piece, and with the  *)
(* requests that set the boot partition, erase a data partition or         *)
(* restart the device.  The handler keeps an UploadState per connection;   *)
(* the OTA functions, the partition table and the boot loader are external *)
(* and modelled by the contract the handler relies on.                     *)
(*                                                                         *)
(* An image is a number; a slot holds, piece by piece, <<image, piece>> or *)
(* nothing.  Image 0 was delivered with the device.                        *)
(***************************************************************************)
EXTENDS Integers, FiniteSets

CONSTANTS Conns,       \* connections that may upload
          NumSlots,    \* app partitions 0 .. NumSlots-1, in OTA order
          NumData,     \* data partitions, numbered after the app partitions
          MaxUploads,  \* bound: upload requests
          Pieces,      \* bound: pieces of an image
          FwSize       \* CgiUploadFlashDef.fwSize, in pieces

ASSUME OtaAssumption ==
  /\ NumSlots \in Nat /\ NumSlots >= 2
  /\ MaxUploads \in Nat /\ Pieces \in Nat \ {0} /\ FwSize \in Nat
  /\ NumData \in Nat

VARIABLES flash,     \* what each app partition holds
          boot,      \* the partition selected for the next start
          running,   \* the partition the device runs from
          image,     \* the upload requests so far, by image number
          up,        \* the UploadState of each connection
          handles,   \* images whose OTA handle is open
          timer,     \* 1: the restart timer is running
          answer     \* what the last step answered to an upload, and (history)
                     \* what it failed to do: write its piece, end

vars == <<flash, boot, running, image, up, handles, timer, answer>>

Slots == 0 .. NumSlots - 1
DataParts == NumSlots .. NumSlots + NumData - 1
None == -1       \* a request that names no partition
Missing == -2    \* a name that no partition has, or no partition
Names == Slots \cup DataParts \cup {None, Missing}
Blank == <<0, 0>>

\* An upload: the kind its URL is routed to, what its first bytes look like,
\* whether it is an intact image, its size, and the partition it names.  A
\* body too short for the header leaves the rest of the test to whatever the
\* buffer held before.
Upload(type, header, sound, size, name) ==
  [type |-> type, header |-> header, sound |-> sound, size |-> size, name |-> name]

Requests ==
  { r \in [type : {"fw", "espfs"}, header : {"app", "espfs", "other", "short"},
           sound : 0 .. 1, size : 0 .. Pieces, name : Slots \cup {None, Missing}] :
      /\ r.sound = 1 => r.header = "app"
      /\ r.header = "app" => r.type = "fw"
      /\ r.header = "espfs" => r.type = "espfs"
      /\ r.header = "short" => r.size = 1
      /\ r.size = 0 => r.header = "other" }

Delivered == Upload("fw", "app", 1, Pieces, None)
Image(i) == IF i = 0 THEN Delivered ELSE image[i]

\* esp_image_verify: every piece of one intact image is there.
Valid(f, s) ==
  LET i == f[s][1][1] IN
  /\ f[s][1] # Blank
  /\ Image(i).sound = 1
  /\ \A k \in 1 .. Image(i).size : f[s][k] = <<i, k>>

Idle == [st |-> "idle", img |-> 0, slot |-> Missing, left |-> 0, got |-> 0, wrote |-> 0]
Silent == [img |-> 0, slot |-> Missing, success |-> 0, failed |-> {}]

States == {"idle", "asked", "START", "WRITE", "DONE", "ERROR"}
Images == 0 .. MaxUploads

TypeOK ==
  /\ flash \in [Slots -> [1 .. Pieces -> Images \X (0 .. Pieces)]]
  /\ boot \in Slots /\ running \in Slots
  /\ \E n \in 0 .. MaxUploads : image \in [1 .. n -> Requests]
  /\ up \in [Conns -> [st : States, img : Images, slot : Slots \cup {Missing},
                       left : 0 .. Pieces, got : 0 .. Pieces, wrote : 0 .. Pieces]]
  /\ handles \in SUBSET (1 .. MaxUploads)
  /\ timer \in 0 .. 1
  /\ answer \in [img : Images, slot : Slots \cup {Missing}, success : 0 .. 1,
                 failed : SUBSET {"write", "end"}]

\* The device runs the image it was delivered with; the other slots are empty
\* or hold an image of the last update.
Init ==
  /\ flash \in { f \in [Slots -> {[k \in 1 .. Pieces |-> <<0, k>>],
                                  [k \in 1 .. Pieces |-> Blank]}] : f[0][1] # Blank }
  /\ boot = 0 /\ running = 0
  /\ image = [i \in 1 .. 0 |-> Delivered]
  /\ up = [c \in Conns |-> Idle]
  /\ handles = {} /\ timer = 0 /\ answer = Silent

(***************************************************************************)
(* cgiUploadFirmware                                                       *)
(***************************************************************************)

NextImage == Cardinality(DOMAIN image) + 1

\* A client begins to upload: the head of the POST is parsed.
Ask(c) ==
  /\ up[c].st = "idle" /\ NextImage <= MaxUploads
  /\ \E r \in Requests :
       /\ image' = [i \in 1 .. NextImage |-> IF i = NextImage THEN r ELSE image[i]]
       /\ up' = [up EXCEPT ![c] = [Idle EXCEPT !.st = "asked", !.img = NextImage]]
  /\ answer' = Silent
  /\ UNCHANGED <<flash, boot, running, handles, timer>>

\* The first call: the partition the request names, or the one after the
\* running one, whatever boot says.
Target(r) == IF r.name = None THEN (running + 1) % NumSlots ELSE r.name

FirstCall(u) ==
  IF u.st # "asked" THEN u
  ELSE LET slot == Target(Image(u.img)) IN
       [u EXCEPT !.slot = slot, !.st = IF slot = Missing THEN "ERROR" ELSE "START"]

\* The part of the loop that looks at the header: the upload is refused, or
\* an OTA handle is opened for a firmware image.  For an espfs image none is.
Recognises(r, seen) == r.type = "fw" /\ seen = "app"
RecognisesEspfs(r, seen) == r.type = "espfs" /\ seen = "espfs" /\ r.size <= FwSize
Begins(r, u, seen, fails) ==
  Recognises(r, seen) /\ u.slot # running /\ "begin" \notin fails

CheckHeader(u, seen, fails) ==
  LET r == Image(u.img) IN
  IF u.st # "START" \/ r.size = 0 THEN u
  ELSE IF Begins(r, u, seen, fails) \/ RecognisesEspfs(r, seen)
       THEN [u EXCEPT !.st = "WRITE", !.left = r.size]
       ELSE [u EXCEPT !.st = "ERROR"]

\* The part of the loop that writes: an error is noted, and then forgotten
\* when this was the last piece.
WritePiece(u, wrote) ==
  IF u.st # "WRITE" THEN u
  ELSE [u EXCEPT !.left = @ - 1,
                 !.wrote = IF wrote THEN @ + 1 ELSE @,
                 !.st = IF u.left = 1 THEN "DONE" ELSE IF wrote THEN "WRITE" ELSE "ERROR"]

\* esp_ota_write: the piece goes to the place after the last one; when it
\* fails the flash may have been erased there.
Written(u, wrote, torn) ==
  IF wrote THEN [flash EXCEPT ![u.slot][u.wrote + 1] = <<u.img, u.wrote + 1>>]
  ELSE IF torn THEN [flash EXCEPT ![u.slot][u.wrote + 1] = Blank]
  ELSE flash

\* esp_ota_end on a handle that is open and wrote something, and that finds an
\* intact image in the slot; it may fail all the same.
Ended(u, hs, f, fails) ==
  u.img \in hs /\ u.wrote > 0 /\ Valid(f, u.slot) /\ "end" \notin fails

\* Mutant: the boot partition is set whatever the state is.
BootAfterAlways(u, f, fails) ==
  IF u.slot # Missing /\ Valid(f, u.slot) /\ "boot" \notin fails THEN u.slot ELSE boot

\* esp_ota_set_boot_partition verifies the image too.  The handler ignores its
\* result, and calls it also when esp_ota_end failed.
BootAfter(u, f, fails) ==
  IF u.st = "DONE" /\ Valid(f, u.slot) /\ "boot" \notin fails THEN u.slot ELSE boot

\* Mutant: the result of esp_ota_end is not tested.
FinishUntested(c, u, hs, f, fails) ==
  /\ boot' = BootAfter(u, f, fails)
  /\ handles' = IF u.st = "DONE" THEN hs \ {u.img} ELSE hs
  /\ answer' = [img |-> u.img, slot |-> u.slot, success |-> IF u.st = "DONE" THEN 1 ELSE 0,
                failed |-> fails \cap {"write", "end"}]
  /\ up' = [up EXCEPT ![c] = Idle]

\* Mutant: the handler asks to be called again after it answered.
FinishKeepsState(c, u, hs, f, fails) ==
  /\ boot' = BootAfter(u, f, fails)
  /\ handles' = IF u.st = "DONE" THEN hs \ {u.img} ELSE hs
  /\ answer' = Silent
  /\ up' = [up EXCEPT ![c] = u]

Finish(c, u, hs, f, fails) ==
  LET success == IF u.st = "DONE" /\ Ended(u, hs, f, fails) THEN 1 ELSE 0 IN
  /\ boot' = BootAfter(u, f, fails)
  /\ handles' = IF u.st = "DONE" THEN hs \ {u.img} ELSE hs
  /\ answer' = [img |-> u.img, slot |-> u.slot, success |-> success,
                failed |-> fails \cap {"write", "end"}]
  /\ up' = [up EXCEPT ![c] = Idle]

\* Which OTA functions fail in one call; after esp_ota_begin no other is called.
Failures == {{"begin"}} \cup UNION
  { { w \cup e : e \in SUBSET {"end", "boot"} } : w \in {{}, {"write"}, {"write", "torn"}} }

\* One call with one piece of the body; the last one answers.
Piece(c) ==
  /\ up[c].st # "idle"
  /\ \E fails \in Failures :
     \E seen \in IF Image(up[c].img).header = "short" THEN {"app", "espfs", "other"}
                 ELSE {Image(up[c].img).header} :
       LET r == Image(up[c].img)
           first == FirstCall(up[c])
           open == CheckHeader(first, seen, fails)
           hs == IF first.st = "START" /\ Begins(r, first, seen, fails)
                 THEN handles \cup {open.img} ELSE handles
           writes == open.st = "WRITE" /\ open.img \in hs
           wrote == writes /\ "write" \notin fails
           f == Written(open, wrote, writes /\ "torn" \in fails)
           failed == IF wrote THEN fails ELSE fails \cup {"write"}
           done == [WritePiece(open, wrote) EXCEPT !.got = @ + 1]
       IN /\ flash' = f
          /\ IF done.got >= r.size THEN Finish(c, done, hs, f, failed)
             ELSE /\ up' = [up EXCEPT ![c] = done]
                  /\ handles' = hs /\ answer' = Silent /\ UNCHANGED boot
          /\ UNCHANGED <<running, image, timer>>

\* The first call fails to allocate the UploadState: DONE, with no answer.
OutOfMemory(c) ==
  /\ up[c].st = "asked"
  /\ up' = [up EXCEPT ![c] = Idle]
  /\ answer' = Silent
  /\ UNCHANGED <<flash, boot, running, image, handles, timer>>

\* The connection breaks: the state is freed, the OTA handle is not closed.
Abort(c) ==
  /\ up[c].st # "idle"
  /\ up' = [up EXCEPT ![c] = Idle]
  /\ answer' = Silent
  /\ UNCHANGED <<flash, boot, running, image, handles, timer>>

(***************************************************************************)
(* The other handlers, and the restart                                     *)
(***************************************************************************)

\* A boot partition that does not hold an intact image is refused.
cgiSetBoot(name) ==
  /\ boot' = IF name \in Slots /\ Valid(flash, name) THEN name ELSE boot
  /\ answer' = Silent
  /\ UNCHANGED <<flash, running, image, up, handles, timer>>

\* The timer restarts the device 500 ms later.
cgiRebootFirmware ==
  /\ timer' = 1 /\ answer' = Silent
  /\ UNCHANGED <<flash, boot, running, image, up, handles>>

\* The boot loader starts the selected partition, or, if that holds no intact
\* image, another one that does.
BootLoader(s) ==
  IF Valid(flash, boot) THEN s = boot
  ELSE Valid(flash, s) \/ (~ (\E t \in Slots : Valid(flash, t)) /\ s = running)

Restart ==
  /\ \E s \in Slots : BootLoader(s) /\ running' = s
  /\ up' = [c \in Conns |-> Idle]
  /\ handles' = {} /\ timer' = 0 /\ answer' = Silent
  /\ UNCHANGED <<flash, boot, image>>

Expire == timer = 1 /\ Restart

\* Mutant: the type of the partition is not asked for.
FoundAny(name) == name \in Slots \cup DataParts

\* Only a data partition is found by its name.
Found(name) == name \in DataParts

\* What the data partitions hold is not kept.  An erase of an unknown name
\* reads through a null pointer, and the device restarts.
cgiEraseFlash(name) ==
  IF Found(name)
  THEN /\ flash' = [s \in Slots |-> IF s = name THEN [k \in 1 .. Pieces |-> Blank] ELSE flash[s]]
       /\ answer' = Silent
       /\ UNCHANGED <<boot, running, image, up, handles, timer>>
  ELSE name # None /\ Restart

Next ==
  \/ \E c \in Conns : Ask(c) \/ Piece(c) \/ OutOfMemory(c) \/ Abort(c)
  \/ \E name \in Names : cgiSetBoot(name) \/ cgiEraseFlash(name)
  \/ cgiRebootFirmware
  \/ Expire

Spec == Init /\ [][Next]_vars

(***************************************************************************)
(* Properties                                                              *)
(***************************************************************************)

\* When the handler answers "success", the slot it wrote holds a complete,
\* intact image, whatever writes failed and whatever another upload did to the
\* same slot in between; when nobody else wrote there, it is the image that was
\* sent.
SuccessIsWhole ==
  answer.success = 1 =>
    /\ Valid(flash, answer.slot)
    /\ \/ flash[answer.slot][1][1] = answer.img
       \/ \E i \in DOMAIN image \ {answer.img} :
            image[i].type = "fw" /\ Target(image[i]) = answer.slot

\* The image the device runs stays intact under every upload, erase, failure
\* and restart, so the device can always start again.
Bootable == Valid(flash, running)

\* An upload changes the boot partition only to the slot it wrote, and only when
\* that holds a whole image: although the error of a failed write is forgotten on
\* the last piece, and the boot partition is set without regard to esp_ota_end.
\* It does so without answering success only when esp_ota_end failed there, or
\* when its only piece could not be written, which selects the image the slot
\* held before.
BootOnSuccess ==
  [][boot' # boot /\ answer' # Silent =>
       /\ boot' = answer'.slot /\ Valid(flash', boot')
       /\ \/ answer'.success = 1
          \/ "end" \in answer'.failed
          \/ "write" \in answer'.failed /\ image[answer'.img].size = 1]_vars

\* Violated: an upload that fails in its only piece selects the old image that
\* the slot still holds.
BootNeverOnFailure ==
  [][boot' # boot /\ answer' # Silent => answer'.success = 1]_vars

\* Violated: a second upload before the restart writes to the slot selected for
\* the next start, and an aborted one leaves it broken.
SelectedIsValid == Valid(flash, boot)

\* Violated: an aborted or failed upload leaves its OTA handle open.
HandlesClosed == (\A c \in Conns : up[c].st = "idle") => handles = {}
=============================================================================
