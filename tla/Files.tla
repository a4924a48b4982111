-------------------------------- MODULE Files --------------------------------
(***************************************************************************)
(* Files over HTTP: cgiEspFsHook (src/core/httpd-espfs.c, a read-only      *)
(* image in flash), cgiEspVfsGet and cgiEspVfsUpload                       *)
(* (src/util/esp32_httpd_vfs.c, any mounted file system).  Each request    *)
(* takes several calls of its handler, so downloads and uploads of the     *)
(* same file interleave.  There is one file per file system; the bytes of  *)
(* an upload are <<connection, 1>>, <<connection, 2>> and so on.           *)
(***************************************************************************)
EXTENDS Integers, Sequences

CONSTANTS FConns,     \* connections
          ReadLen,    \* FILE_CHUNK_LEN
          MaxBody,    \* bound: bytes of an upload
          MaxRequests,\* bound: requests
          PathLens,   \* lengths of the paths that are asked for
          FnameSize   \* sizeof(fname) in tryOpenIndex_do and serveStaticFile

ASSUME FilesAssumption ==
  /\ ReadLen \in Nat \ {0} /\ MaxBody \in Nat /\ MaxRequests \in Nat
  /\ PathLens \subseteq Nat /\ FnameSize \in Nat

VARIABLES disk,   \* the content of the file on the VFS
          freq,   \* the request each connection works on
          fheld,  \* files open and blocks of memory allocated for a connection
          fcount, \* requests so far
          fans,   \* what the last step answered
          fputs   \* history: uploads of a connection that were answered

fileVars == <<disk, freq, fheld, fcount, fans, fputs>>

IndexLen == 9          \* the shortest of the index file names
Hole == <<"hole", 0>>
Factory == [i \in 1 .. ReadLen |-> <<"factory", i>>]
Body(c, n) == [i \in 1 .. n |-> <<c, i>>]

\* got: bytes of the body, or of the file, handled so far; alone: nobody else
\* had the file open for writing meanwhile (only the properties read it).
NoFile == [kind |-> "idle", st |-> "START", len |-> 0, got |-> 0, written |-> 0,
           served |-> <<>>, was |-> <<>>, alone |-> 1]
NoAnswer == [to |-> "nobody", success |-> 0]

FilesTypeOK ==
  /\ \A i \in DOMAIN disk : disk[i] \in {Hole} \cup (FConns \cup {"factory"}) \X (1 .. MaxBody + ReadLen)
  /\ \A c \in FConns :
       /\ freq[c].kind \in {"idle", "espfs", "vfs", "put"}
       /\ freq[c].st \in {"START", "WRITE", "DONE", "ERR"}
       /\ freq[c].got \in 0 .. MaxBody + ReadLen /\ freq[c].written \in 0 .. freq[c].len
  /\ fheld \in [FConns -> [file : 0 .. 1, mem : Nat]]
  /\ fcount \in 0 .. MaxRequests
  /\ fputs \in [FConns -> Nat]

FilesInit ==
  /\ disk = Factory
  /\ freq = [c \in FConns |-> NoFile]
  /\ fheld = [c \in FConns |-> [file |-> 0, mem |-> 0]]
  /\ fcount = 0 /\ fans = NoAnswer
  /\ fputs = [c \in FConns |-> 0]

Writers == { c \in FConns : freq[c].kind = "put" /\ fheld[c].file = 1 }

\* The others notice, for the properties, that c opens the file for writing.
Noticed(r, c) == [d \in FConns |-> IF d = c THEN r[d] ELSE [r[d] EXCEPT !.alone = 0]]

(***************************************************************************)
(* Downloads                                                               *)
(***************************************************************************)

\* A path: is there such a file, or a folder with an index; does it end in a
\* slash; how long is it.
Paths == [is : {"file", "folder", "nothing"}, slash : 0 .. 1, len : PathLens]

\* tryOpenIndex_do: the path, a slash if it has none, and the index name fit.
FitsWithIndex(path) ==
  path.len + (IF path.slash = 0 /\ path.len > 0 THEN 1 ELSE 0) + IndexLen < FnameSize - 1

\* serveStaticFile, first call: what the path leads to.  A folder without its
\* slash is closed again and redirected, or, if the longer name does not fit,
\* goes on with the closed file.
Outcome(path, gzip, accepts) ==
  IF path.is = "nothing" \/ (path.is = "folder" /\ ~FitsWithIndex(path)) THEN "notfound"
  ELSE IF path.is = "folder" /\ path.slash = 0 /\ path.len > 0
       THEN IF path.len + 1 >= FnameSize - 1 THEN "closed" ELSE "redirect"
  ELSE IF gzip /\ ~accepts THEN "refused" ELSE "serve"

BeginFile(c, r, file, mem) ==
  /\ freq' = [freq EXCEPT ![c] = r]
  /\ fheld' = [fheld EXCEPT ![c] = [file |-> @.file + file, mem |-> @.mem + mem]]
  /\ fcount' = fcount + 1 /\ fans' = NoAnswer
  /\ UNCHANGED fputs

GetEspFs(c) ==
  /\ freq[c].kind = "idle" /\ fcount < MaxRequests
  /\ \E path \in Paths, gzip \in BOOLEAN, accepts \in BOOLEAN :
       LET o == Outcome(path, gzip, accepts) IN
       IF o \in {"serve", "closed"}
       THEN BeginFile(c, [NoFile EXCEPT !.kind = "espfs", !.was = Factory],
                  IF o = "serve" THEN 1 ELSE 0, 0)
       ELSE BeginFile(c, NoFile, 0, 0)
  /\ UNCHANGED disk

\* cgiEspVfsGet, first call: not a GET, no such file, or a compressed one that
\* the client does not accept, and nothing stays open.
GetVfs(c) ==
  /\ freq[c].kind = "idle" /\ fcount < MaxRequests
  /\ \/ BeginFile(c, [NoFile EXCEPT !.kind = "vfs", !.was = disk,
                                !.alone = IF Writers = {} THEN 1 ELSE 0], 1, 0)
     \/ BeginFile(c, NoFile, 0, 0)
  /\ UNCHANGED disk

Content(c) == IF freq[c].kind = "espfs" THEN Factory ELSE disk

Closed(h) == [h EXCEPT !.file = @ - 1]

\* The next part of the file; a short one is the last.
ReadFile(c) ==
  /\ freq[c].kind \in {"espfs", "vfs"}
  /\ LET rest == Len(Content(c)) - freq[c].got
         n == IF rest < ReadLen THEN IF rest < 0 THEN 0 ELSE rest ELSE ReadLen
         part == SubSeq(Content(c), freq[c].got + 1, freq[c].got + n)
         r == [freq[c] EXCEPT !.got = @ + n, !.served = @ \o part]
     IN IF n # ReadLen
        THEN /\ freq' = [freq EXCEPT ![c] = NoFile]
             /\ fheld' = [fheld EXCEPT ![c] = Closed(@)]
             /\ fans' = [to |-> "get", served |-> r.served, was |-> r.was, alone |-> r.alone]
        ELSE /\ freq' = [freq EXCEPT ![c] = r] /\ fans' = NoAnswer /\ UNCHANGED fheld
  /\ UNCHANGED <<disk, fcount, fputs>>

(***************************************************************************)
(* Uploads                                                                 *)
(***************************************************************************)

\* The first call opens the file and empties it, or notes an error: a
\* multipart body, no base path, a folder or file that cannot be made.  After
\* a base path that is too long the state stays START.
Put(c, n) ==
  /\ freq[c].kind = "idle" /\ fcount < MaxRequests
  /\ LET r == [NoFile EXCEPT !.kind = "put", !.len = n] IN
     \/ /\ disk' = <<>>
        /\ freq' = Noticed([freq EXCEPT ![c] =
             [r EXCEPT !.st = "WRITE", !.alone = IF Writers = {} THEN 1 ELSE 0]], c)
        /\ fheld' = [fheld EXCEPT ![c] = [file |-> @.file + 1, mem |-> @.mem + 1]]
        /\ fcount' = fcount + 1 /\ fans' = NoAnswer
        /\ UNCHANGED fputs
     \/ \E st \in {"ERR", "START"} : BeginFile(c, [r EXCEPT !.st = st], 0, 1) /\ UNCHANGED disk

\* fwrite at the place where this upload is; the file may have been emptied by
\* another one since.
Stored(c, n) ==
  LET from == freq[c].written
      to == from + n
      size == IF n = 0 \/ Len(disk) > to THEN Len(disk) ELSE to
  IN [i \in 1 .. size |-> IF i > from /\ i <= to THEN <<c, i>>
                          ELSE IF i <= Len(disk) THEN disk[i] ELSE Hole]

\* Mutant: the bytes received are counted, not those written.
AfterWriteCountsReceived(r, n, count) ==
  LET w == [r EXCEPT !.got = @ + n, !.written = @ + count] IN
  IF w.got >= w.len THEN [w EXCEPT !.st = "DONE"]
  ELSE IF count # n THEN [w EXCEPT !.st = "ERR"] ELSE w

\* A short write is an error; all bytes written is the end.
AfterWrite(r, n, count) ==
  LET w == [r EXCEPT !.got = @ + n, !.written = @ + count] IN
  IF w.written >= w.len THEN [w EXCEPT !.st = "DONE"]
  ELSE IF count # n THEN [w EXCEPT !.st = "ERR"] ELSE w

\* The last call closes the file if it is open and frees the UploadState.
ClosedPut(h) == [file |-> IF h.file = 1 THEN 0 ELSE h.file, mem |-> h.mem - 1]

\* cgiJsonResponseCommonSingle: without a state pointer nobody frees the string,
\* or the state if there was memory for one (MultiResponse: "single").
KeptByAnswer(h, left) == [h EXCEPT !.mem = @ + left]

\* One call with the next n bytes of the body, of which count are written when
\* the state is WRITE; the last call closes the file, without looking whether
\* fclose could write out what stdio buffered, and answers.
PutPiece(c, n, count, lost) ==
  /\ freq[c].kind = "put" /\ freq[c].got + n <= freq[c].len
  /\ n = 0 => freq[c].len = 0
  /\ LET writes == freq[c].st = "WRITE"
         r == IF writes THEN AfterWrite(freq[c], n, count) ELSE [freq[c] EXCEPT !.got = @ + n]
         d == IF writes THEN Stored(c, count) ELSE disk
         last == r.got = r.len
     IN /\ writes \/ count = n
        /\ lost = 0 \/ (last /\ fheld[c].file = 1 /\ lost <= Len(d))
        /\ disk' = SubSeq(d, 1, Len(d) - lost)
        /\ freq' = [freq EXCEPT ![c] = IF last THEN NoFile ELSE r]
        /\ IF last
           THEN /\ \E left \in 1 .. 2 :
                     fheld' = [fheld EXCEPT ![c] = KeptByAnswer(ClosedPut(@), left)]
                /\ fputs' = [fputs EXCEPT ![c] = @ + 1]
                /\ fans' = [to |-> "put", conn |-> c, len |-> r.len, alone |-> r.alone,
                            success |-> IF r.st = "DONE" THEN 1 ELSE 0, lost |-> lost]
           ELSE UNCHANGED <<fheld, fputs>> /\ fans' = NoAnswer
  /\ UNCHANGED fcount

\* Mutant: an upload that is aborted does not close its file.
AbortFileKeepsOpen(c) ==
  /\ freq[c].kind # "idle"
  /\ fheld' = [fheld EXCEPT ![c] =
       IF freq[c].kind = "put" THEN [@ EXCEPT !.mem = @ - 1] ELSE Closed(@)]
  /\ freq' = [freq EXCEPT ![c] = NoFile] /\ fans' = NoAnswer
  /\ UNCHANGED <<disk, fcount, fputs>>

\* Mutant: an aborted upload closes its file whether it is open or not.
AbortFileClosesAny(c) ==
  /\ freq[c].kind # "idle"
  /\ fheld' = [fheld EXCEPT ![c] =
       IF freq[c].kind = "put" THEN [file |-> @.file - 1, mem |-> @.mem - 1] ELSE Closed(@)]
  /\ freq' = [freq EXCEPT ![c] = NoFile] /\ fans' = NoAnswer
  /\ UNCHANGED <<disk, fcount, fputs>>

\* The connection broke: the file is closed if it is open, and stays as far as
\* it was written.
AbortFile(c) ==
  /\ freq[c].kind # "idle"
  /\ fheld' = [fheld EXCEPT ![c] =
       IF freq[c].kind = "put" THEN ClosedPut(@) ELSE Closed(@)]
  /\ freq' = [freq EXCEPT ![c] = NoFile] /\ fans' = NoAnswer
  /\ UNCHANGED <<disk, fcount, fputs>>

FilesNext ==
  \E c \in FConns :
    \/ GetEspFs(c) \/ GetVfs(c) \/ ReadFile(c) \/ AbortFile(c)
    \/ \E n \in 0 .. MaxBody : Put(c, n)
    \/ \E n, lost \in 0 .. MaxBody : \E count \in 0 .. n : PutPiece(c, n, count, lost)

FilesSpec == FilesInit /\ [][FilesNext]_fileVars

(***************************************************************************)
(* Properties                                                              *)
(***************************************************************************)

\* An upload that answers success has stored its body, unless somebody else had
\* the file open for writing meanwhile: short writes and errors are reported,
\* wherever the body was cut.  What is missing at the end is exactly what fclose
\* failed to write out, which nobody looks at.
SuccessIsStored ==
  fans.to = "put" =>
    (fans.success = 1 /\ fans.alone = 1 => disk = Body(fans.conn, fans.len - fans.lost))

\* A download delivers the file as it was when it was opened, unless an upload
\* emptied it meanwhile, whatever its length is in parts.
ServedWhole == fans.to = "get" => (fans.alone = 1 => fans.served = fans.was)

\* No request leaves a file open, and none closes twice, however it ends.  The
\* memory that stays allocated is that of the answers to uploads: a string each,
\* and a state if there was memory for it.
FilesReleased ==
  \A c \in FConns : freq[c].kind = "idle" =>
    fheld[c].file = 0 /\ fheld[c].mem \in fputs[c] .. 2 * fputs[c]

\* Violated: an upload that runs while a file is being sent makes the download
\* a mixture of two versions, or a part of one, which nothing tells the client.
ServedIsOneVersion == fans.to = "get" => fans.served = fans.was
=============================================================================
