------------------------- MODULE HttpdServerProofs -------------------------
(***************************************************************************)
(* Proofs about HttpdServer, for any number of slots, any bodies and any   *)
(* size of the POST buffer.                                                *)
(***************************************************************************)
EXTENDS HttpdServer, WellFoundedInduction, TLAPS

-----------------------------------------------------------------------------
(* Records.  A connection is a function on Fields with the values of Vals. *)

Fields == {"fd", "notif", "needsClose", "closed", "url", "len", "buff",
           "buffSize", "buffLen", "received", "flags", "cgi", "cgiData",
           "out", "answered", "faults"}

Shape(c) == c = [f \in Fields |-> c[f]]

Vals(c) ==
  /\ c.fd \in {"none", "open"}
  /\ c.notif \in 0..1
  /\ c.needsClose \in 0..1
  /\ c.closed \in 0..1
  /\ c.url \in {"NULL", "set"}
  /\ c.len \in Int
  /\ c.buff \in {"NULL", "heap"}
  /\ c.buffSize \in Nat
  /\ c.buffLen \in Nat
  /\ c.received \in Nat
  /\ c.flags \in SUBSET Flags
  /\ c.cgi \in {"NULL"} \cup Handlers
  /\ c.cgiData \in {"NULL", "live", "freed"}
  /\ c.out \in 0..1
  /\ c.answered \in 0..1
  /\ c.faults \in SUBSET Faults

LEMMA ConnIsVals == \A c : c \in Conn <=> Shape(c) /\ Vals(c)
BY SMT DEF Conn, Shape, Vals, Fields

-----------------------------------------------------------------------------
(* What the operators of HttpdConn do to a connection, field by field.     *)

(* All but the handler, the answer and the request is left alone.          *)
SameOwner(c, d) ==
  /\ d.fd = c.fd /\ d.closed = c.closed /\ d.needsClose = c.needsClose
  /\ d.url = c.url /\ d.buffSize = c.buffSize

SameRequest(c, d) ==
  /\ d.len = c.len /\ d.buff = c.buff /\ d.buffLen = c.buffLen
  /\ d.received = c.received

(* httpdFlushSendBuffer.                                                   *)
Flushed(c, d) ==
  /\ SameOwner(c, d) /\ SameRequest(c, d)
  /\ d.flags = c.flags /\ d.cgi = c.cgi /\ d.cgiData = c.cgiData
  /\ d.answered = c.answered /\ d.faults = c.faults
  /\ d.notif = 1 \/ d.out = 1 =>
       \/ c.notif = 1 \/ c.out = 1
       \/ "SENDINGBODY" \in c.flags /\ c.cgi = "NULL"

LEMMA FlushCase ==
  ASSUME NEW c \in Conn
  PROVE  httpdFlushSendBuffer(c) \in Conn /\ Flushed(c, httpdFlushSendBuffer(c))
<1> DEFINE e == [c EXCEPT !.notif = 1, !.out = 0]
<1>1. e \in Conn
  <2>1. Shape(e)
    BY ConnIsVals, Zenon DEF Shape
  <2>2. Vals(e)
    BY SMT DEF Conn, Vals
  <2> QED BY <2>1, <2>2, ConnIsVals, Zenon
<1>2. Flushed(c, c)
  BY DEF Flushed, SameOwner, SameRequest
<1>3. CASE c.out = 1 \/ (Chunking(c) /\ c.cgi = "NULL")
  <2>1. httpdFlushSendBuffer(c) = e
    BY <1>3, Zenon DEF httpdFlushSendBuffer
  <2>2. SameOwner(c, e) /\ SameRequest(c, e)
    BY SMT DEF Conn, SameOwner, SameRequest
  <2>3. /\ e.flags = c.flags /\ e.cgi = c.cgi /\ e.cgiData = c.cgiData
        /\ e.answered = c.answered /\ e.faults = c.faults
    BY SMT DEF Conn
  <2> HIDE DEF e
  <2>4. Flushed(c, e)
    BY <1>3, <2>2, <2>3, Zenon DEF Flushed, Chunking
  <2> QED BY <1>1, <2>1, <2>4, Zenon
<1>4. CASE ~(c.out = 1 \/ (Chunking(c) /\ c.cgi = "NULL"))
  BY <1>2, <1>4, Zenon DEF httpdFlushSendBuffer
<1> QED BY <1>3, <1>4, Zenon

(* The record of a call, of an answer, of what a handler allocates.        *)
Same(c, d) ==
  /\ SameOwner(c, d) /\ SameRequest(c, d)
  /\ d.cgi = c.cgi /\ d.notif = c.notif

LEMMA CallCase ==
  ASSUME NEW c \in Conn
  PROVE  LET d == Call(c)
         IN /\ d \in Conn /\ Same(c, d)
            /\ d.flags = c.flags /\ d.cgiData = c.cgiData /\ d.out = c.out
            /\ d.answered = c.answered
            /\ c.answered = 0 => d.faults = c.faults
            /\ c.faults \subseteq d.faults
            /\ d.faults \subseteq c.faults \cup {"called again"}
<1> DEFINE F == c.faults \cup (IF c.answered = 1 THEN {"called again"} ELSE {})
           d == [c EXCEPT !.faults = F]
<1>1. /\ F \in SUBSET Faults
      /\ c.answered = 0 => F = c.faults
      /\ c.faults \subseteq F
      /\ F \subseteq c.faults \cup {"called again"}
  <2>1. c.faults \in SUBSET Faults
    BY ConnIsVals DEF Vals
  <2>2. CASE c.answered = 1
    <3>1. F = c.faults \cup {"called again"}
      BY <2>2, Zenon
    <3>2. {"called again"} \in SUBSET Faults
      BY DEF Faults
    <3>3. c.answered # 0
      BY <2>2
    <3>4. c.faults \cup {"called again"} \in SUBSET Faults
      BY <2>1, <3>2, Zenon
    <3> QED BY <3>1, <3>3, <3>4, Zenon
  <2>3. CASE c.answered # 1
    <3>1. F = c.faults
      BY <2>3
    <3> HIDE DEF F
    <3> QED BY <2>1, <3>1
  <2> QED BY <2>2, <2>3
<1>2. Call(c) = d
  BY Zenon DEF Call
<1> HIDE DEF F
<1>3. Shape(d)
  BY ConnIsVals, Zenon DEF Shape
<1>4. /\ Same(c, d) /\ d.flags = c.flags /\ d.cgiData = c.cgiData
      /\ d.out = c.out /\ d.answered = c.answered
      /\ d.faults = F
  BY SMT DEF Conn, Same, SameOwner, SameRequest
<1> HIDE DEF d
<1>5. Vals(d)
  BY <1>1, <1>4, ConnIsVals, Zenon DEF Vals, Same, SameOwner, SameRequest
<1> QED BY <1>1, <1>2, <1>3, <1>4, <1>5, ConnIsVals, Zenon

LEMMA SpeakCase ==
  ASSUME NEW c \in Conn
  PROVE  LET d == Speak(c)
         IN /\ d \in Conn /\ Same(c, d)
            /\ d.flags = c.flags \cup {"SENDINGBODY"}
            /\ d.cgiData = c.cgiData
            /\ d.answered = c.answered /\ d.faults = c.faults
<1> DEFINE d == [c EXCEPT !.out = 1, !.flags = @ \cup {"SENDINGBODY"}]
<1>1. Shape(d)
  BY ConnIsVals, Zenon DEF Shape
<1>2. Vals(d)
  BY SMT DEF Conn, Vals, Flags
<1>3. /\ Same(c, d) /\ d.flags = c.flags \cup {"SENDINGBODY"}
      /\ d.cgiData = c.cgiData
      /\ d.answered = c.answered /\ d.faults = c.faults
  BY SMT DEF Conn, Same, SameOwner, SameRequest
<1> QED BY <1>1, <1>2, <1>3, ConnIsVals, Zenon DEF Speak

LEMMA LiveCase ==
  ASSUME NEW c \in Conn
  PROVE  LET d == [c EXCEPT !.cgiData = "live"]
         IN /\ d \in Conn /\ Same(c, d)
            /\ d.flags = c.flags /\ d.cgiData = "live" /\ d.out = c.out
            /\ d.answered = c.answered /\ d.faults = c.faults
<1> DEFINE d == [c EXCEPT !.cgiData = "live"]
<1>1. Shape(d)
  BY ConnIsVals, Zenon DEF Shape
<1>2. Vals(d)
  BY SMT DEF Conn, Vals
<1>3. /\ Same(c, d)
      /\ d.flags = c.flags /\ d.cgiData = "live" /\ d.out = c.out
      /\ d.answered = c.answered /\ d.faults = c.faults
  BY SMT DEF Conn, Same, SameOwner, SameRequest
<1> QED BY <1>1, <1>2, <1>3, ConnIsVals, Zenon

AfterFree(data) == IF data = "live" THEN "freed" ELSE data

LEMMA AnsweredCase ==
  ASSUME NEW c \in Conn
  PROVE  LET d == [c EXCEPT !.answered = 1,
                     !.cgiData = IF @ = "live" THEN "freed" ELSE @]
         IN /\ d \in Conn /\ Same(c, d)
            /\ d.flags = c.flags /\ d.cgiData = AfterFree(c.cgiData)
            /\ d.out = c.out /\ d.answered = 1 /\ d.faults = c.faults
<1> DEFINE d == [c EXCEPT !.answered = 1,
                   !.cgiData = IF @ = "live" THEN "freed" ELSE @]
<1>1. Shape(d)
  BY ConnIsVals, Zenon DEF Shape
<1>2. Vals(d)
  BY SMT DEF Conn, Vals
<1>3. /\ Same(c, d)
      /\ d.flags = c.flags /\ d.cgiData = AfterFree(c.cgiData)
      /\ d.out = c.out /\ d.answered = 1 /\ d.faults = c.faults
  BY SMT DEF Conn, Same, SameOwner, SameRequest, AfterFree
<1> QED BY <1>1, <1>2, <1>3, ConnIsVals, Zenon

(* httpdCgiIsDone: kept open, or marked to be closed.                      *)
Kept(d) ==
  /\ d.len = -1 /\ d.flags = {} /\ d.buff = "NULL"
  /\ d.buffLen = 0 /\ d.received = 0

Marked(c, d) ==
  SameRequest(c, d) /\ "DISCONAFTERSENT" \in d.flags

LEMMA DoneCase ==
  ASSUME NEW c \in Conn
  PROVE  LET d == httpdCgiIsDone(c)
         IN /\ d \in Conn /\ SameOwner(c, d) /\ d.cgi = "NULL"
            /\ Kept(d) \/ Marked(c, d)
            /\ d.cgiData = c.cgiData /\ d.answered = c.answered
            /\ d.faults = c.faults
<1> DEFINE n == [c EXCEPT !.cgi = "NULL"]
           f == httpdFlushSendBuffer(n)
           k == [f EXCEPT !.len = -1, !.flags = {}, !.buff = "NULL",
                          !.buffLen = 0, !.received = 0]
           m == [c EXCEPT !.cgi = "NULL", !.flags = @ \cup {"DISCONAFTERSENT"}]
           Same4(d) == /\ SameOwner(c, d) /\ d.cgi = "NULL"
                       /\ d.cgiData = c.cgiData /\ d.answered = c.answered
                       /\ d.faults = c.faults
<1>1. n \in Conn /\ Same4(n)
  <2>1. Shape(n)
    BY ConnIsVals, Zenon DEF Shape
  <2>2. Vals(n)
    BY SMT DEF Conn, Vals
  <2>3. Same4(n)
    BY SMT DEF Conn, SameOwner
  <2> QED BY <2>1, <2>2, <2>3, ConnIsVals, Zenon
<1>2. f \in Conn /\ Same4(f)
  <2> HIDE DEF n
  <2>1. f \in Conn /\ Flushed(n, f)
    BY <1>1, FlushCase, Zenon
  <2> HIDE DEF f
  <2> QED BY <1>1, <2>1 DEF Flushed, SameOwner
<1>3. k \in Conn /\ Same4(k) /\ Kept(k)
  <2> HIDE DEF f
  <2>1. Shape(k)
    BY <1>2, ConnIsVals, Zenon DEF Shape
  <2>2. Vals(k)
    BY <1>2, SMT DEF Conn, Vals
  <2>3. SameOwner(f, k) /\ k.cgi = f.cgi /\ k.cgiData = f.cgiData
        /\ k.answered = f.answered /\ k.faults = f.faults
    BY <1>2, SMT DEF Conn, SameOwner
  <2>4. Kept(k)
    BY <1>2, SMT DEF Conn, Kept
  <2> HIDE DEF k
  <2>5. Same4(k)
    BY <1>2, <2>3 DEF SameOwner
  <2> QED BY <2>1, <2>2, <2>4, <2>5, ConnIsVals, Zenon
<1>4. m \in Conn /\ Same4(m) /\ Marked(c, m)
  <2>1. Shape(m)
    BY ConnIsVals, Zenon DEF Shape
  <2>2. Vals(m)
    BY SMT DEF Conn, Vals, Flags
  <2>3. Same4(m)
    BY SMT DEF Conn, SameOwner
  <2>4. Marked(c, m)
    BY SMT DEF Conn, Marked, SameRequest
  <2> QED BY <2>1, <2>2, <2>3, <2>4, ConnIsVals, Zenon
<1>5. httpdCgiIsDone(c) = k \/ httpdCgiIsDone(c) = m
  BY Zenon DEF httpdCgiIsDone
<1> HIDE DEF k, m
<1> QED BY <1>3, <1>4, <1>5, Zenon

-----------------------------------------------------------------------------
(* A call of the handler, and the flush after it.                          *)

(* It wants to be called again: it may have spoken, once it has the body.  *)
More(c, d) ==
  /\ SameRequest(c, d) /\ d.cgi = c.cgi /\ d.answered = c.answered
  /\ c.cgi = "handler" => d.cgiData = "live"
  /\ c.cgi # "handler" => d.cgiData = c.cgiData
  /\ \/ d.flags = c.flags
     \/ d.flags = c.flags \cup {"SENDINGBODY"} /\ BodyComplete(c)
  /\ d.notif = 1 \/ d.out = 1 => c.notif = 1 \/ c.out = 1 \/ BodyComplete(c)

(* It is done.                                                             *)
Done(c, d) ==
  /\ EarlyDone = 1 \/ BodyComplete(c)
  /\ d.cgi = "NULL" /\ d.answered = 1 /\ d.cgiData = AfterFree(c.cgiData)
  /\ Kept(d) \/ Marked(c, d)

NewFaults(c, d) ==
  /\ c.answered = 0 => d.faults = c.faults
  /\ c.faults \subseteq d.faults
  /\ d.faults \subseteq c.faults \cup {"called again"}

Answer(c, d) ==
  /\ SameOwner(c, d) /\ NewFaults(c, d)
  /\ More(c, d) \/ Done(c, d)

LEMMA MoreCase ==
  ASSUME NEW c \in Conn, c.cgi # "NULL", NEW d \in MayReturnMore(Call(c))
  PROVE  d \in Conn /\ Answer(c, d)
<1> DEFINE k == Call(c)
           m == [k EXCEPT !.cgiData = "live"]
           s == Speak(m)
<1>1. /\ k \in Conn /\ Same(c, k)
      /\ k.flags = c.flags /\ k.cgiData = c.cgiData /\ k.out = c.out
      /\ k.answered = c.answered /\ NewFaults(c, k)
  BY CallCase, Zenon DEF NewFaults
<1>2. BodyComplete(k) <=> BodyComplete(c)
  BY <1>1 DEF BodyComplete, Same, SameRequest
<1> HIDE DEF k
<1>3. /\ m \in Conn /\ Same(k, m)
      /\ m.flags = k.flags /\ m.cgiData = "live" /\ m.out = k.out
      /\ m.answered = k.answered /\ m.faults = k.faults
  BY <1>1, LiveCase, Zenon
<1> HIDE DEF m
<1>4. /\ s \in Conn /\ Same(m, s)
      /\ s.flags = m.flags \cup {"SENDINGBODY"}
      /\ s.cgiData = m.cgiData
      /\ s.answered = m.answered /\ s.faults = m.faults
  BY <1>3, SpeakCase, Zenon
<1> HIDE DEF s
<1>5. CASE c.cgi = "handler"
  <2>1. d = m \/ (d = s /\ BodyComplete(c))
    BY <1>1, <1>2, <1>5 DEF k, m, s, MayReturnMore, Same
  <2>2. Answer(c, m)
    BY <1>1, <1>3, <1>5
       DEF Answer, More, NewFaults, Same, SameOwner, SameRequest
  <2>3. BodyComplete(c) => Answer(c, s)
    BY <1>1, <1>3, <1>4, <1>5
       DEF Answer, More, NewFaults, Same, SameOwner, SameRequest
  <2> QED BY <1>3, <1>4, <2>1, <2>2, <2>3, Zenon
<1>6. CASE c.cgi = "cgiNotFound"
  <2>1. d = k
    BY <1>1, <1>6 DEF k, MayReturnMore, Same
  <2>2. Answer(c, k)
    BY <1>1, <1>6
       DEF Answer, More, NewFaults, Same, SameOwner, SameRequest
  <2> QED BY <1>1, <2>1, <2>2, Zenon
<1>7. c.cgi \in {"NULL"} \cup Handlers
  BY ConnIsVals, Zenon DEF Vals
<1> QED BY <1>5, <1>6, <1>7 DEF Handlers

LEMMA DoneAnswer ==
  ASSUME NEW c \in Conn, c.cgi # "NULL", NEW r \in MayReturnDone(Call(c))
  PROVE  httpdCgiIsDone(r) \in Conn /\ Answer(c, httpdCgiIsDone(r))
<1> DEFINE k == Call(c)
           a == [k EXCEPT !.answered = 1,
                   !.cgiData = IF @ = "live" THEN "freed" ELSE @]
           s == Speak(a)
           d == httpdCgiIsDone(r)
<1>1. /\ k \in Conn /\ Same(c, k)
      /\ k.flags = c.flags /\ k.cgiData = c.cgiData /\ k.out = c.out
      /\ k.answered = c.answered /\ NewFaults(c, k)
  BY CallCase, Zenon DEF NewFaults
<1>2. BodyComplete(k) <=> BodyComplete(c)
  BY <1>1 DEF BodyComplete, Same, SameRequest
<1> HIDE DEF k
<1>3. /\ a \in Conn /\ Same(k, a)
      /\ a.flags = k.flags /\ a.cgiData = AfterFree(k.cgiData)
      /\ a.out = k.out /\ a.answered = 1 /\ a.faults = k.faults
  BY <1>1, AnsweredCase, Zenon
<1>4. \/ r = a /\ (EarlyDone = 1 \/ BodyComplete(c))
      \/ r = s /\ (EarlyDone = 1 \/ BodyComplete(c))
  <2>1. r \in MayReturnDone(k)
    BY Zenon DEF k
  <2>2. CASE k.cgi = "cgiNotFound"
    BY <2>1, <2>2, <1>2 DEF MayReturnDone
  <2>3. CASE k.cgi # "cgiNotFound"
    BY <2>1, <2>3, <1>2 DEF MayReturnDone
  <2> QED BY <2>2, <2>3
<1> HIDE DEF a
<1>5. /\ s \in Conn /\ Same(a, s)
      /\ s.cgiData = a.cgiData
      /\ s.answered = a.answered /\ s.faults = a.faults
  BY <1>3, SpeakCase, Zenon
<1> HIDE DEF s
<1>6. /\ r \in Conn /\ Same(c, r) /\ r.cgiData = AfterFree(c.cgiData)
      /\ r.answered = 1 /\ NewFaults(c, r)
      /\ EarlyDone = 1 \/ BodyComplete(c)
  BY <1>1, <1>3, <1>4, <1>5 DEF NewFaults, Same, SameOwner, SameRequest
<1>7. /\ d \in Conn /\ SameOwner(r, d) /\ d.cgi = "NULL"
      /\ Kept(d) \/ Marked(r, d)
      /\ d.cgiData = r.cgiData /\ d.answered = r.answered
      /\ d.faults = r.faults
  BY <1>6, DoneCase, Zenon
<1> HIDE DEF d
<1>8. Marked(r, d) => Marked(c, d)
  BY <1>6 DEF Marked, Same, SameRequest
<1>9. SameOwner(c, d) /\ NewFaults(c, d) /\ Done(c, d)
  BY <1>6, <1>7, <1>8 DEF Done, NewFaults, Same, SameOwner
<1> QED BY <1>7, <1>9, Zenon DEF Answer, d

LEMMA AfterCallCase ==
  ASSUME NEW c \in Conn, c.cgi # "NULL", NEW d \in AfterCall(c)
  PROVE  d \in Conn /\ Answer(c, d)
BY MoreCase, DoneAnswer, Zenon DEF AfterCall

LEMMA FlushedAnswer ==
  ASSUME NEW c \in Conn, c.cgi # "NULL", NEW d \in Conn, Answer(c, d)
  PROVE  Answer(c, httpdFlushSendBuffer(d)) /\ httpdFlushSendBuffer(d) \in Conn
<1> DEFINE e == httpdFlushSendBuffer(d)
<1>1. e \in Conn /\ Flushed(d, e)
  BY FlushCase, Zenon
<1> HIDE DEF e
<1>2. SameOwner(c, e) /\ NewFaults(c, e)
  BY <1>1 DEF Answer, Flushed, SameOwner, NewFaults
<1>3. More(c, d) => More(c, e)
  BY <1>1 DEF More, Flushed, SameRequest, BodyComplete
<1>4. Done(c, d) => Done(c, e)
  BY <1>1 DEF Done, Flushed, SameRequest, Kept, Marked
<1> QED BY <1>1, <1>2, <1>3, <1>4, Zenon DEF e, Answer

(* A route takes the request.                                              *)
Dispatched(c, e) ==
  /\ SameOwner(c, e) /\ SameRequest(c, e)
  /\ e.flags = c.flags /\ e.notif = c.notif /\ e.out = c.out
  /\ e.answered = c.answered /\ e.faults = c.faults
  /\ e.cgi \in Handlers
  /\ e.cgi = "handler" => e.cgiData = "NULL"
  /\ e.cgi # "handler" => e.cgiData = c.cgiData

LEMMA DispatchCase ==
  ASSUME NEW c \in Conn, NEW h \in Handlers
  PROVE  Dispatch(c, h) \in Conn /\ Dispatched(c, Dispatch(c, h))
<1> DEFINE data == IF h = "handler" THEN "NULL" ELSE c.cgiData
           d == [c EXCEPT !.cgi = h, !.cgiData = data]
<1>1. Dispatch(c, h) = d
  BY Zenon DEF Dispatch
<1>2. data \in {"NULL", "live", "freed"}
  BY ConnIsVals, Zenon DEF Vals
<1>3. /\ h = "handler" => data = "NULL"
      /\ h # "handler" => data = c.cgiData
  BY Zenon
<1> HIDE DEF data
<1>4. Shape(d)
  BY ConnIsVals, Zenon DEF Shape
<1>5. Vals(d)
  BY <1>2, SMT DEF Conn, Vals
<1>6. /\ SameOwner(c, d) /\ SameRequest(c, d)
      /\ d.flags = c.flags /\ d.notif = c.notif /\ d.out = c.out
      /\ d.answered = c.answered /\ d.faults = c.faults
      /\ d.cgi = h /\ d.cgiData = data
  BY SMT DEF Conn, SameOwner, SameRequest
<1> HIDE DEF d
<1>7. Dispatched(c, d)
  BY <1>3, <1>6 DEF Dispatched
<1> QED BY <1>1, <1>4, <1>5, <1>7, ConnIsVals, Zenon

LEMMA ProcessCase ==
  ASSUME NEW c \in Conn, NEW d \in httpdProcessRequest(c)
  PROVE  /\ d \in Conn
         /\ d = c \/ \E e \in Conn : Dispatched(c, e) /\ Answer(e, d)
<1>1. CASE c.url = "NULL"
  BY <1>1, Zenon DEF httpdProcessRequest
<1>2. CASE c.url # "NULL"
  <2>1. PICK h \in Handlers :
          \E r \in AfterCall(Dispatch(c, h)) : d = httpdFlushSendBuffer(r)
    BY <1>2, Zenon DEF httpdProcessRequest
  <2>2. PICK r \in AfterCall(Dispatch(c, h)) : d = httpdFlushSendBuffer(r)
    BY <2>1
  <2> DEFINE e == Dispatch(c, h)
  <2>3. e \in Conn /\ Dispatched(c, e)
    BY DispatchCase, Zenon
  <2>4. e.cgi # "NULL"
    BY <2>3 DEF Dispatched, Handlers
  <2>5. r \in AfterCall(e)
    BY <2>2
  <2> HIDE DEF e
  <2>6. r \in Conn /\ Answer(e, r)
    BY <2>3, <2>4, <2>5, AfterCallCase, Zenon
  <2>7. d \in Conn /\ Answer(e, d)
    BY <2>2, <2>3, <2>4, <2>6, FlushedAnswer, Zenon
  <2> QED BY <2>3, <2>7, Zenon
<1> QED BY <1>1, <1>2

(* httpdContinue: the end of the response, nothing, or a call.             *)
Disconnecting(c, d) ==
  /\ "DISCONAFTERSENT" \in c.flags
  /\ d.fd = c.fd /\ d.closed = c.closed /\ d.url = c.url
  /\ d.buffSize = c.buffSize /\ SameRequest(c, d)
  /\ d.flags = c.flags /\ d.cgi = c.cgi /\ d.cgiData = c.cgiData
  /\ d.answered = c.answered /\ d.faults = c.faults

Resumed(c, e) ==
  /\ SameOwner(c, e) /\ SameRequest(c, e)
  /\ e.cgi = c.cgi /\ e.cgiData = c.cgiData
  /\ e.flags = c.flags /\ e.notif = c.notif /\ e.out = 0
  /\ e.answered = c.answered
  /\ c.buffLen = 0 => e.faults = c.faults
  /\ c.faults \subseteq e.faults
  /\ e.faults \subseteq c.faults \cup {"given twice"}

LEMMA MidBufferCase ==
  ASSUME NEW c \in Conn
  PROVE  CalledMidBuffer(c) \in Conn /\ Resumed(c, CalledMidBuffer(c))
<1> DEFINE F == c.faults \cup (IF c.buffLen > 0 THEN {"given twice"} ELSE {})
           d == [c EXCEPT !.out = 0, !.faults = F]
<1>1. /\ F \in SUBSET Faults
      /\ c.buffLen = 0 => F = c.faults
      /\ c.faults \subseteq F
      /\ F \subseteq c.faults \cup {"given twice"}
  <2>1. c.faults \in SUBSET Faults
    BY ConnIsVals DEF Vals
  <2>2. CASE c.buffLen > 0
    <3>1. F = c.faults \cup {"given twice"}
      BY <2>2, Zenon
    <3>2. {"given twice"} \in SUBSET Faults
      BY DEF Faults
    <3>3. c.buffLen # 0
      BY <2>2
    <3>4. c.faults \cup {"given twice"} \in SUBSET Faults
      BY <2>1, <3>2, Zenon
    <3> QED BY <3>1, <3>3, <3>4, Zenon
  <2>3. CASE ~(c.buffLen > 0)
    <3>1. F = c.faults
      BY <2>3
    <3> HIDE DEF F
    <3> QED BY <2>1, <3>1
  <2> QED BY <2>2, <2>3
<1>2. CalledMidBuffer(c) = d
  BY Zenon DEF CalledMidBuffer
<1> HIDE DEF F
<1>3. Shape(d)
  BY ConnIsVals, Zenon DEF Shape
<1>4. /\ SameOwner(c, d) /\ SameRequest(c, d)
      /\ d.flags = c.flags /\ d.cgi = c.cgi /\ d.cgiData = c.cgiData
      /\ d.notif = c.notif /\ d.out = 0 /\ d.answered = c.answered
      /\ d.faults = F
  BY SMT DEF Conn, SameOwner, SameRequest
<1>5. Vals(d)
  <2>1. 0 \in 0..1
    OBVIOUS
  <2> HIDE DEF d
  <2> QED BY <1>1, <1>4, <2>1, ConnIsVals, Zenon DEF Vals, SameOwner, SameRequest
<1> HIDE DEF d
<1>6. Resumed(c, d)
  BY <1>1, <1>4, Zenon DEF Resumed
<1> QED BY <1>2, <1>3, <1>5, <1>6, ConnIsVals, Zenon

LEMMA ContinueCase ==
  ASSUME NEW c \in Conn, NEW d \in httpdContinue(c)
  PROVE  /\ d \in Conn
         /\ \/ Disconnecting(c, d)
            \/ "DISCONAFTERSENT" \notin c.flags /\ c.cgi = "NULL" /\ d = c
            \/ /\ "DISCONAFTERSENT" \notin c.flags /\ c.cgi # "NULL"
               /\ \E e \in Conn : Resumed(c, e) /\ Answer(e, d)
<1>1. CASE "DISCONAFTERSENT" \in c.flags
  <2> DEFINE m == [c EXCEPT !.needsClose = 1, !.notif = 1]
  <2>1. d = m
    BY <1>1, Zenon DEF httpdContinue
  <2>2. Shape(m)
    BY ConnIsVals, Zenon DEF Shape
  <2>3. Vals(m)
    BY SMT DEF Conn, Vals
  <2>4. Disconnecting(c, m)
    BY <1>1, SMT DEF Conn, Disconnecting, SameRequest
  <2> QED BY <2>1, <2>2, <2>3, <2>4, ConnIsVals, Zenon
<1>2. CASE "DISCONAFTERSENT" \notin c.flags /\ c.cgi = "NULL"
  BY <1>2, Zenon DEF httpdContinue
<1>3. CASE "DISCONAFTERSENT" \notin c.flags /\ c.cgi # "NULL"
  <2> DEFINE e == CalledMidBuffer(c)
  <2>1. PICK r \in AfterCall(e) : d = httpdFlushSendBuffer(r)
    BY <1>3, Zenon DEF httpdContinue
  <2>2. e \in Conn /\ Resumed(c, e)
    BY MidBufferCase, Zenon
  <2> HIDE DEF e
  <2>3. e.cgi # "NULL"
    BY <1>3, <2>2 DEF Resumed
  <2>4. r \in Conn /\ Answer(e, r)
    BY <2>1, <2>2, <2>3, AfterCallCase, Zenon
  <2>5. d \in Conn /\ Answer(e, d)
    BY <2>1, <2>2, <2>3, <2>4, FlushedAnswer, Zenon
  <2> QED BY <1>3, <2>2, <2>5, Zenon
<1> QED BY <1>1, <1>2, <1>3, Zenon

(* closeConnection.                                                        *)
Unmarked(c) ==   \* closing c is a fault of none of the kinds
  /\ c.closed = 0
  /\ c.cgi # "NULL" => c.answered = 0
  /\ c.cgi = "handler" => c.cgiData # "freed"

CloseFaults == {"closed twice", "called again", "freed twice"}

Closed(c, d) ==
  /\ d.fd = "none" /\ d.buff = "NULL" /\ d.closed = 1
  /\ c.cgi = "handler" => d.cgiData = AfterFree(c.cgiData)
  /\ c.cgi # "handler" => d.cgiData = c.cgiData
  /\ Unmarked(c) => d.faults = c.faults
  /\ c.faults \subseteq d.faults
  /\ c.closed = 0 => d.faults \subseteq c.faults \cup {"called again", "freed twice"}
  /\ d.faults \subseteq c.faults \cup CloseFaults

(* The call with isConnectionClosed set.                                   *)
Told(c, d) ==
  /\ d.fd = c.fd /\ d.closed = c.closed
  /\ c.cgi = "handler" => d.cgiData = AfterFree(c.cgiData)
  /\ c.cgi # "handler" => d.cgiData = c.cgiData
  /\ /\ c.cgi # "NULL" => c.answered = 0
     /\ c.cgi = "handler" => c.cgiData # "freed"
     => d.faults = c.faults
  /\ c.faults \subseteq d.faults
  /\ d.faults \subseteq c.faults \cup {"called again", "freed twice"}

LEMMA CallClosedCase ==
  ASSUME NEW c \in Conn, c.cgi # "NULL"
  PROVE  CallClosed(c) \in Conn /\ Told(c, CallClosed(c))
<1> DEFINE k == Call(c)
           n == [k EXCEPT !.answered = 1]
           F == k.faults \cup (IF c.cgiData = "freed" THEN {"freed twice"} ELSE {})
           h == [k EXCEPT !.answered = 1,
                   !.cgiData = IF @ = "live" THEN "freed" ELSE @,
                   !.faults = F]
<1>1. /\ k \in Conn /\ Same(c, k)
      /\ k.flags = c.flags /\ k.cgiData = c.cgiData /\ k.out = c.out
      /\ k.answered = c.answered /\ NewFaults(c, k)
  BY CallCase, Zenon DEF NewFaults
<1>2. CASE c.cgi # "handler"
  <2>1. CallClosed(c) = n
    BY <1>2, Zenon DEF CallClosed
  <2> HIDE DEF k
  <2>2. Shape(n)
    BY <1>1, ConnIsVals, Zenon DEF Shape
  <2>3. Vals(n)
    BY <1>1, SMT DEF Conn, Vals
  <2>4. /\ n.fd = k.fd /\ n.closed = k.closed
        /\ n.cgiData = k.cgiData /\ n.faults = k.faults
    BY <1>1, SMT DEF Conn
  <2> HIDE DEF n
  <2>5. Told(c, n)
    BY <1>1, <1>2, <2>4 DEF Told, NewFaults, Same, SameOwner
  <2> QED BY <2>1, <2>2, <2>3, <2>5, ConnIsVals, Zenon
<1>3. CASE c.cgi = "handler"
  <2>1. CallClosed(c) = h
    BY <1>3, Zenon DEF CallClosed
  <2> HIDE DEF k
  <2>2. /\ F \in SUBSET Faults
        /\ c.cgiData # "freed" => F = k.faults
        /\ k.faults \subseteq F
        /\ F \subseteq k.faults \cup {"freed twice"}
    <3>1. k.faults \in SUBSET Faults
      BY <1>1, ConnIsVals DEF Vals
    <3>2. CASE c.cgiData = "freed"
      <4>1. F = k.faults \cup {"freed twice"}
        BY <3>2, Zenon
      <4>2. {"freed twice"} \in SUBSET Faults
        BY DEF Faults
      <4>3. k.faults \cup {"freed twice"} \in SUBSET Faults
        BY <3>1, <4>2, Zenon
      <4> QED BY <3>2, <4>1, <4>3, Zenon
    <3>3. CASE c.cgiData # "freed"
      <4>1. F = k.faults
        BY <3>3
      <4> HIDE DEF F
      <4> QED BY <3>1, <4>1
    <3> QED BY <3>2, <3>3
  <2> HIDE DEF F
  <2>3. Shape(h)
    BY <1>1, ConnIsVals, Zenon DEF Shape
  <2>4. /\ SameOwner(k, h) /\ SameRequest(k, h)
        /\ h.cgi = k.cgi /\ h.notif = k.notif /\ h.flags = k.flags
        /\ h.out = k.out /\ h.answered = 1
        /\ h.cgiData = AfterFree(k.cgiData) /\ h.faults = F
    BY <1>1, SMT DEF Conn, AfterFree, SameOwner, SameRequest
  <2>5. Vals(h)
    <3>1. 1 \in 0..1
      OBVIOUS
    <3>2. AfterFree(k.cgiData) \in {"NULL", "live", "freed"}
      BY <1>1, ConnIsVals, Zenon DEF AfterFree, Vals
    <3> HIDE DEF h
    <3> QED BY <1>1, <2>2, <2>4, <3>1, <3>2, ConnIsVals, Zenon
            DEF Vals, SameOwner, SameRequest
  <2> HIDE DEF h
  <2>6. Told(c, h)
    BY <1>1, <1>3, <2>2, <2>4 DEF Told, NewFaults, Same, SameOwner
  <2> QED BY <2>1, <2>3, <2>5, <2>6, ConnIsVals, Zenon
<1> QED BY <1>2, <1>3

LEMMA CloseCase ==
  ASSUME NEW c \in Conn
  PROVE  closeConnection(c) \in Conn /\ Closed(c, closeConnection(c))
<1> DEFINE F == c.faults \cup (IF c.closed = 1 THEN {"closed twice"} ELSE {})
           k == [c EXCEPT !.closed = 1, !.faults = F]
           r == IF k.cgi # "NULL" THEN CallClosed(k) ELSE k
           b == [r EXCEPT !.buff = "NULL"]
           d == [b EXCEPT !.fd = "none"]
<1>1. closeConnection(c) = d
  BY Zenon DEF closeConnection, httpdDisconCb
<1>2. /\ F \in SUBSET Faults
      /\ c.closed = 0 => F = c.faults
      /\ c.faults \subseteq F
      /\ F \subseteq c.faults \cup {"closed twice"}
  <2>1. c.faults \in SUBSET Faults
    BY ConnIsVals DEF Vals
  <2>2. CASE c.closed = 1
    <3>1. F = c.faults \cup {"closed twice"}
      BY <2>2, Zenon
    <3>2. {"closed twice"} \in SUBSET Faults
      BY DEF Faults
    <3>3. c.closed # 0
      BY <2>2
    <3>4. c.faults \cup {"closed twice"} \in SUBSET Faults
      BY <2>1, <3>2, Zenon
    <3> QED BY <3>1, <3>3, <3>4, Zenon
  <2>3. CASE c.closed # 1
    <3>1. F = c.faults
      BY <2>3
    <3> HIDE DEF F
    <3> QED BY <2>1, <3>1
  <2> QED BY <2>2, <2>3
<1> HIDE DEF F
<1>3. /\ k.fd = c.fd /\ k.notif = c.notif /\ k.needsClose = c.needsClose
      /\ k.closed = 1 /\ k.url = c.url /\ k.buffSize = c.buffSize
      /\ SameRequest(c, k) /\ k.flags = c.flags /\ k.out = c.out
      /\ k.cgi = c.cgi /\ k.cgiData = c.cgiData
      /\ k.answered = c.answered /\ k.faults = F
  BY SMT DEF Conn, SameRequest
<1>4. k \in Conn
  <2>1. Shape(k)
    BY ConnIsVals, Zenon DEF Shape
  <2>2. 1 \in 0..1
    OBVIOUS
  <2>3. Vals(k)
    <3> HIDE DEF k
    <3> QED BY <1>2, <1>3, <2>2, ConnIsVals, Zenon DEF Vals, SameRequest
  <2> QED BY <2>1, <2>3, ConnIsVals, Zenon
<1> HIDE DEF k
<1>5. r \in Conn /\ Told(k, r)
  <2>1. CASE k.cgi # "NULL"
    BY <1>4, <2>1, CallClosedCase, Zenon
  <2>2. CASE k.cgi = "NULL"
    BY <1>4, <2>2 DEF Told
  <2> QED BY <2>1, <2>2
<1> HIDE DEF r
<1>6. b \in Conn
  BY <1>5, SMT DEF Conn
<1>7. /\ b.closed = r.closed /\ b.buff = "NULL" /\ b.cgiData = r.cgiData
      /\ b.faults = r.faults
  BY <1>5, SMT DEF Conn
<1> HIDE DEF b
<1>8. d \in Conn
  BY <1>6, SMT DEF Conn
<1>9. /\ d.fd = "none" /\ d.closed = b.closed /\ d.buff = b.buff
      /\ d.cgiData = b.cgiData /\ d.faults = b.faults
  BY <1>6, SMT DEF Conn
<1> HIDE DEF d
<1>10. Closed(c, d)
  <2>1. /\ d.fd = "none" /\ d.buff = "NULL" /\ d.closed = 1
        /\ c.cgi = "handler" => d.cgiData = AfterFree(c.cgiData)
        /\ c.cgi # "handler" => d.cgiData = c.cgiData
    BY <1>3, <1>5, <1>7, <1>9 DEF Told
  <2>2. Unmarked(c) => d.faults = c.faults
    BY <1>2, <1>3, <1>5, <1>7, <1>9 DEF Told, Unmarked
  <2>3. /\ c.faults \subseteq d.faults
        /\ c.closed = 0 => d.faults \subseteq c.faults \cup {"called again", "freed twice"}
        /\ d.faults \subseteq c.faults \cup CloseFaults
    BY <1>2, <1>3, <1>5, <1>7, <1>9 DEF Told, CloseFaults
  <2> QED BY <2>1, <2>2, <2>3 DEF Closed
<1> QED BY <1>1, <1>8, <1>10, Zenon

(* The end of a head, and the bytes of a body.                             *)
Limit(n) == IF n > MaxPost THEN MaxPost ELSE n

Losses == {"length twice", "buffer lost"}

(* No buffer was lost but by a head with several Content-Length lines.     *)
Excused(faults) == "buffer lost" \in faults => "length twice" \in faults

(* The allocations change the pointer, and what is known of lost buffers.  *)
Filled(c, a) ==
  /\ SameOwner(c, a) /\ a.notif = c.notif /\ a.len = c.len
  /\ a.buffLen = c.buffLen /\ a.received = c.received /\ a.flags = c.flags
  /\ a.cgi = c.cgi /\ a.cgiData = c.cgiData /\ a.out = c.out
  /\ a.answered = c.answered
  /\ c.faults \subseteq a.faults /\ a.faults \subseteq c.faults \cup Losses
  /\ c.buff = "NULL" /\ Excused(c.faults) => Excused(a.faults)

Begun(c, d, n) ==
  /\ d.fd = c.fd /\ d.notif = c.notif /\ d.needsClose = c.needsClose
  /\ d.closed = c.closed /\ d.len = n
  /\ d.buffSize = Limit(n) /\ d.buffLen = 0 /\ d.received = c.received
  /\ c.flags \subseteq d.flags /\ d.flags \subseteq c.flags \cup {"CHUNKED"}
  /\ d.cgi = c.cgi /\ d.cgiData = c.cgiData /\ d.out = c.out
  /\ d.answered = 0
  /\ c.faults \subseteq d.faults /\ d.faults \subseteq c.faults \cup Losses
  /\ c.buff = "NULL" /\ Excused(c.faults) => Excused(d.faults)

LEMMA AllocatedCase ==
  ASSUME NEW c \in Conn, NEW k \in LengthLines, NEW a \in Allocated(c, k)
  PROVE  a \in Conn /\ Filled(c, a)
<1>0. PICK lost \in Overwrites(c, k) :
        a \in { [c EXCEPT !.buff = b, !.faults = c.faults \cup Marks(k, lost)]
                  : b \in Pointers(c, k) }
  BY Zenon DEF Allocated
<1>1. PICK b \in Pointers(c, k) :
        a = [c EXCEPT !.buff = b, !.faults = c.faults \cup Marks(k, lost)]
  BY <1>0, Zenon
<1>2. k \in Nat /\ b \in {"NULL", "heap"}
  <2>1. c.buff \in {"NULL", "heap"}
    BY ConnIsVals DEF Vals
  <2> QED BY <1>1, <2>1, PostAssumption DEF Malloc, Pointers
<1>3. c.buff = "NULL" /\ lost => k >= 2
  BY <1>1, <1>2 DEF Overwrites
<1> DEFINE G == c.faults \cup Marks(k, lost)
<1>4. /\ G \in SUBSET Faults /\ c.faults \subseteq G
      /\ G \subseteq c.faults \cup Losses
  <2>1. c.faults \in SUBSET Faults
    BY ConnIsVals DEF Vals
  <2>2. Marks(k, lost) \subseteq Losses
    BY Zenon DEF Marks, Losses
  <2>3. Losses \subseteq Faults
    BY DEF Losses, Faults
  <2> HIDE DEF G
  <2>4. G = c.faults \cup Marks(k, lost)
    BY DEF G
  <2> QED BY <2>1, <2>2, <2>3, <2>4
<1>5. c.buff = "NULL" /\ Excused(c.faults) => Excused(G)
  <2> SUFFICES ASSUME c.buff = "NULL", Excused(c.faults), "buffer lost" \in G
               PROVE  "length twice" \in G
    BY Zenon DEF Excused
  <2>1. CASE lost
    <3>1. Marks(k, lost) = {"length twice", "buffer lost"}
      BY <1>3, <2>1 DEF Marks
    <3> QED BY <3>1
  <2>2. CASE ~lost
    <3>1. "buffer lost" \notin Marks(k, lost)
      BY <2>2 DEF Marks
    <3>2. "buffer lost" \in c.faults
      BY <3>1
    <3> QED BY <3>2, Zenon DEF Excused
  <2> QED BY <2>1, <2>2
<1> HIDE DEF G
<1>6. a = [c EXCEPT !.buff = b, !.faults = G]
  BY <1>1 DEF G
<1>7. Shape(a)
  BY <1>6, ConnIsVals, Zenon DEF Shape
<1>8. Vals(a)
  BY <1>2, <1>4, <1>6, SMT DEF Conn, Vals
<1>9. /\ SameOwner(c, a) /\ a.notif = c.notif /\ a.len = c.len
      /\ a.buffLen = c.buffLen /\ a.received = c.received /\ a.flags = c.flags
      /\ a.cgi = c.cgi /\ a.cgiData = c.cgiData /\ a.out = c.out
      /\ a.answered = c.answered /\ a.faults = G
  BY <1>6, SMT DEF Conn, SameOwner
<1>10. Filled(c, a)
  BY <1>4, <1>5, <1>9, Zenon DEF Filled
<1> QED BY <1>7, <1>8, <1>10, ConnIsVals, Zenon

LEMMA ParsedCase ==
  ASSUME NEW c \in Conn, NEW n \in PostLens, NEW v \in Versions,
         NEW line \in {"NULL", "set"}, NEW a \in Conn, Filled(c, a)
  PROVE  Parsed(a, n, v, line) \in Conn /\ Begun(c, Parsed(a, n, v, line), n)
<1> DEFINE d == [a EXCEPT !.len = n, !.url = line, !.flags = @ \cup v,
                   !.buffSize = Limit(n), !.buffLen = 0,
                   !.answered = 0]
<1>1. Parsed(a, n, v, line) = d
  BY Zenon DEF Parsed, Limit
<1>2. n \in Nat /\ Limit(n) \in Nat
  BY PostAssumption DEF Limit
<1>3. v \subseteq {"CHUNKED"}
  BY VersionAssumption
<1>4. a.flags \cup v \in SUBSET Flags
  BY <1>3, ConnIsVals DEF Vals, Flags
<1>5. Shape(d)
  BY ConnIsVals, Zenon DEF Shape
<1>6. Vals(d)
  BY <1>2, <1>4, SMT DEF Conn, Vals
<1>7. /\ d.fd = a.fd /\ d.notif = a.notif /\ d.needsClose = a.needsClose
      /\ d.closed = a.closed /\ d.len = n
      /\ d.buffSize = Limit(n) /\ d.buffLen = 0 /\ d.received = a.received
      /\ d.flags = a.flags \cup v
      /\ d.cgi = a.cgi /\ d.cgiData = a.cgiData /\ d.out = a.out
      /\ d.answered = 0 /\ d.faults = a.faults
  BY SMT DEF Conn
<1> HIDE DEF d
<1>8. Begun(c, d, n)
  BY <1>3, <1>7, Zenon DEF Begun, Filled, SameOwner
<1> QED BY <1>1, <1>5, <1>6, <1>8, ConnIsVals, Zenon

(* A byte is stored; the buffer is emptied.                                *)
SameHandler(c, d) ==
  /\ d.cgi = c.cgi /\ d.cgiData = c.cgiData /\ d.flags = c.flags
  /\ d.answered = c.answered /\ d.faults = c.faults
  /\ d.notif = c.notif /\ d.out = c.out
  /\ d.len = c.len /\ d.buff = c.buff

LEMMA StoredCase ==
  ASSUME NEW c \in Conn
  PROVE  LET d == Stored(c)
         IN /\ d \in Conn /\ SameOwner(c, d) /\ SameHandler(c, d)
            /\ d.buffLen = c.buffLen + 1 /\ d.received = c.received + 1
<1> DEFINE d == [c EXCEPT !.buffLen = @ + 1, !.received = @ + 1]
<1>1. Shape(d)
  BY ConnIsVals, Zenon DEF Shape
<1>2. Vals(d)
  BY SMT DEF Conn, Vals
<1>3. /\ SameOwner(c, d) /\ SameHandler(c, d)
      /\ d.buffLen = c.buffLen + 1 /\ d.received = c.received + 1
  BY SMT DEF Conn, SameOwner, SameHandler
<1> QED BY <1>1, <1>2, <1>3, ConnIsVals, Zenon DEF Stored

LEMMA EmptiedCase ==
  ASSUME NEW c \in Conn
  PROVE  LET d == [c EXCEPT !.buffLen = 0]
         IN /\ d \in Conn /\ SameOwner(c, d) /\ SameHandler(c, d)
            /\ d.buffLen = 0 /\ d.received = c.received
BY SMT DEF Conn, SameOwner, SameHandler

(* The request is passed to a route, and answered, or it is not.           *)
Processed(c, d) == d = c \/ \E e \in Conn : Dispatched(c, e) /\ Answer(e, d)

LEMMA HeaderCase ==
  ASSUME NEW c \in Conn, NEW n \in PostLens, NEW k \in LengthLines, NEW v \in Versions,
         NEW line \in {"NULL", "set"}, NEW d \in RecvHeaderEnd(c, n, k, v, line)
  PROVE  /\ d \in Conn
         /\ \E p \in Conn :
              /\ Begun(c, p, n)
              /\ IF n = 0 THEN Processed(p, d) ELSE d = p
<1>1. PICK a \in Allocated(c, k) :
        d \in LET p == Parsed(a, n, v, line)
              IN IF n = 0 THEN httpdProcessRequest(p) ELSE {p}
  BY Zenon DEF RecvHeaderEnd
<1>2. a \in Conn /\ Filled(c, a)
  BY AllocatedCase, Zenon
<1> DEFINE p == Parsed(a, n, v, line)
<1>3. p \in Conn /\ Begun(c, p, n)
  BY <1>2, ParsedCase, Zenon
<1>4. CASE n = 0
  <2>1. d \in httpdProcessRequest(p)
    BY <1>1, <1>4, Zenon
  <2> HIDE DEF p
  <2>2. d \in Conn /\ Processed(p, d)
    BY <1>3, <2>1, ProcessCase, Zenon DEF Processed
  <2> QED BY <1>3, <1>4, <2>2, Zenon
<1>5. CASE n # 0
  BY <1>1, <1>3, <1>5, Zenon
<1> QED BY <1>4, <1>5

ByteStored(c, b) ==
  /\ SameOwner(c, b) /\ SameHandler(c, b)
  /\ b.buffLen = c.buffLen + 1 /\ b.received = c.received + 1

Emptied(r, d) ==
  /\ SameOwner(r, d) /\ SameHandler(r, d)
  /\ d.buffLen = 0 /\ d.received = r.received

Full(b) == b.buffLen >= b.buffSize \/ b.received = b.len

(* The handler, or the route that takes the request, is given the buffer.  *)
Given(b, r) ==
  \/ b.cgi # "NULL" /\ Answer(b, r)
  \/ b.cgi = "NULL" /\ Processed(b, r)

LEMMA ByteCase ==
  ASSUME NEW c \in Conn, NEW d \in RecvBodyByte(c)
  PROVE  /\ d \in Conn
         /\ \E b \in Conn :
              /\ ByteStored(c, b)
              /\ \/ ~Full(b) /\ d = b
                 \/ Full(b) /\ \E r \in Conn : Given(b, r) /\ Emptied(r, d)
<1> DEFINE b == Stored(c)
<1>1. b \in Conn /\ ByteStored(c, b)
  BY StoredCase, Zenon DEF ByteStored
<1>2. CASE Full(b)
  <2>1. PICK r \in (IF b.cgi # "NULL" THEN AfterCall(b) ELSE httpdProcessRequest(b)) :
          d = [r EXCEPT !.buffLen = 0]
    BY <1>2, Zenon DEF RecvBodyByte, Full
  <2> HIDE DEF b
  <2>2. r \in Conn /\ Given(b, r)
    <3>1. CASE b.cgi # "NULL"
      BY <1>1, <2>1, <3>1, AfterCallCase, Zenon DEF Given
    <3>2. CASE b.cgi = "NULL"
      BY <1>1, <2>1, <3>2, ProcessCase, Zenon DEF Given, Processed
    <3> QED BY <3>1, <3>2
  <2>3. d \in Conn /\ Emptied(r, d)
    BY <2>1, <2>2, EmptiedCase, Zenon DEF Emptied
  <2> QED BY <1>1, <1>2, <2>2, <2>3, Zenon
<1>3. CASE ~Full(b)
  BY <1>1, <1>3, Zenon DEF RecvBodyByte, Full
<1> QED BY <1>2, <1>3

LEMMA ConnectCase ==
  ASSUME NEW c \in Conn
  PROVE  LET d == httpdConnectCb(c)
         IN /\ d \in Conn /\ d.fd = "open" /\ d.notif = 0 /\ d.closed = 0
            /\ d.needsClose = 0 /\ d.out = 0 /\ d.answered = 0
            /\ Kept(d) /\ d.cgi = "NULL" /\ d.cgiData = "NULL"
            /\ d.faults = c.faults \ {"closed twice"}
<1>1. Connected \in Conn
  BY SMT DEF Connected, Conn
<1>2. /\ Connected.fd = "open" /\ Connected.notif = 0
      /\ Connected.closed = 0 /\ Connected.needsClose = 0
      /\ Connected.out = 0 /\ Connected.answered = 0 /\ Kept(Connected)
      /\ Connected.cgi = "NULL" /\ Connected.cgiData = "NULL"
  BY DEF Connected, Kept
<1> DEFINE F == c.faults \ {"closed twice"}
           d == [Connected EXCEPT !.faults = F]
<1>0. F \in SUBSET Faults
  BY ConnIsVals DEF Vals
<1> HIDE DEF F
<1>3. d \in Conn
  BY <1>0, <1>1, SMT DEF Conn
<1>4. /\ d.fd = Connected.fd /\ d.notif = Connected.notif
      /\ d.closed = Connected.closed /\ d.needsClose = Connected.needsClose
      /\ d.out = Connected.out /\ d.answered = Connected.answered
      /\ SameRequest(Connected, d) /\ d.flags = Connected.flags
      /\ d.cgi = Connected.cgi /\ d.cgiData = Connected.cgiData
      /\ d.faults = F
  BY <1>1, SMT DEF Conn, SameRequest
<1> HIDE DEF d
<1>5. Kept(d)
  BY <1>2, <1>4 DEF Kept, SameRequest
<1> QED BY <1>2, <1>3, <1>4, <1>5, Zenon DEF httpdConnectCb, d, F

-----------------------------------------------------------------------------
(* Types.                                                                  *)

LEMMA InitType == Init => TypeOK
<1> SUFFICES ASSUME Init PROVE TypeOK
  OBVIOUS
<1> DEFINE n == [Connected EXCEPT !.fd = "none", !.closed = 1]
<1>1. n \in Conn
  <2>1. Connected \in Conn
    BY SMT DEF Connected, Conn
  <2>2. Shape(n)
    BY <2>1, ConnIsVals, Zenon DEF Shape
  <2>3. Vals(n)
    BY <2>1, SMT DEF Conn, Vals
  <2> QED BY <2>2, <2>3, ConnIsVals, Zenon
<1>2. conn \in [Slots -> Conn]
  <2>1. conn = [s \in Slots |-> n]
    BY Zenon DEF Init
  <2> QED BY <1>1, <2>1, Zenon
<1>3. client \in [Slots -> Client]
  BY DEF Init, Client, FreshClient
<1>4. idx \in Slots
  BY SlotAssumption DEF Init, Slots
<1> QED BY <1>2, <1>3, <1>4 DEF Init, TypeOK, Read

LEMMA ClientStep ==
  ASSUME NEW k \in Client
  PROVE  NextByte(k) \in Client /\ \A n \in Nat : HeadSent(n) \in Client
BY DEF NextByte, HeadSent, Client

LEMMA NextType == TypeOK /\ [Next]_vars => TypeOK'
<1> SUFFICES ASSUME TypeOK, [Next]_vars PROVE TypeOK'
  OBVIOUS
<1> USE DEF TypeOK
<1>a. conn[idx] \in Conn /\ client[idx] \in Client
  OBVIOUS
<1>b. ASSUME NEW d \in Conn, NEW s \in Slots
      PROVE  [conn EXCEPT ![s] = d] \in [Slots -> Conn]
  BY <1>b
<1>c. Advance => idx' \in Slots /\ pc' \in {"sent", "select", "deinit"}
  BY SlotAssumption DEF Advance, Slots, EndOfPass
<1>d. AfterRead => idx' \in Slots /\ pc' \in {"sent", "select", "deinit", "pending"}
  BY <1>c DEF AfterRead
<1>1. CASE BuildFdSets
  BY <1>1 DEF BuildFdSets, Open
<1>2. CASE Select
  BY <1>2 DEF Select
<1>3. CASE Accept
  <2>1. CASE UNCHANGED <<conn, client>>
    BY <1>3, <2>1 DEF Accept, EndOfPass
  <2>2. CASE /\ conn' = [conn EXCEPT ![FirstFree] = httpdConnectCb(@)]
             /\ client' = [client EXCEPT ![FirstFree] = FreshClient]
             /\ pc' = "sent"
    <3>1. ASSUME NEW s \in Slots
          PROVE  httpdConnectCb(conn[s]) \in Conn /\ FreshClient \in Client
      BY ConnectCase DEF FreshClient, Client
    <3>2. conn' \in [Slots -> Conn] /\ client' \in [Slots -> Client]
      BY <2>2, <3>1
    <3> QED BY <1>3, <2>2, <3>2 DEF Accept
  <2> QED BY <1>3, <2>1, <2>2 DEF Accept
<1>4. CASE SkipEmpty
  BY <1>4, <1>c DEF SkipEmpty
<1>5. CASE Sent
  <2>1. conn' \in [Slots -> Conn]
    <3>1. CASE UNCHANGED conn
      BY <3>1
    <3>2. CASE conn[idx].notif = 1 /\ idx \in writeset
      <4> DEFINE c == [conn[idx] EXCEPT !.notif = 0]
      <4>1. c \in Conn
        BY <1>a, SMT DEF Conn
      <4>2. PICK d \in (IF c.needsClose = 1 THEN {closeConnection(c)}
                                             ELSE httpdContinue(c)) :
              conn' = [conn EXCEPT ![idx] = d]
        BY <1>5, <3>2 DEF Sent
      <4> HIDE DEF c
      <4>3. d \in Conn
        BY <4>1, <4>2, CloseCase, ContinueCase
      <4> QED BY <1>b, <4>2, <4>3
    <3> QED BY <1>5, <3>1, <3>2 DEF Sent
  <2> QED BY <1>5, <2>1 DEF Sent
<1>6. CASE NotReadable
  BY <1>6, <1>c DEF NotReadable
<1>7. CASE ReadStale
  <2>1. conn' \in [Slots -> Conn]
    BY <1>7, <1>a, <1>b, CloseCase DEF ReadStale
  <2> QED BY <1>7, <1>c, <2>1 DEF ReadStale
<1>8. CASE ReadEnd
  <2>1. conn' \in [Slots -> Conn]
    BY <1>8, <1>a, <1>b, CloseCase DEF ReadEnd
  <2> QED BY <1>8, <1>d, <2>1 DEF ReadEnd
<1>9. CASE ReadData
  <2>1. [conn[idx] EXCEPT !.out = 0] \in Conn
    BY <1>a, SMT DEF Conn
  <2>2. conn' \in [Slots -> Conn]
    BY <1>9, <1>b, <2>1 DEF ReadData
  <2> QED BY <1>9, <2>2 DEF ReadData
<1>10. CASE RecvHeaderByte
  BY <1>10, <1>a, ClientStep DEF RecvHeaderByte, NextUnit
<1>11. CASE HeaderEnd
  <2>1. PICK n \in PostLens, k \in LengthLines, v \in Versions, line \in {"NULL", "set"} :
          /\ \E d \in RecvHeaderEnd(conn[idx], n, k, v, line) :
               conn' = [conn EXCEPT ![idx] = d]
          /\ client' = [client EXCEPT ![idx] = HeadSent(n)]
    BY <1>11 DEF HeaderEnd
  <2> PICK d \in RecvHeaderEnd(conn[idx], n, k, v, line) :
        conn' = [conn EXCEPT ![idx] = d]
    BY <2>1
  <2>2. d \in Conn
    BY <1>a, <2>1, HeaderCase
  <2>3. HeadSent(n) \in Client
    BY <1>a, ClientStep, PostAssumption
  <2>4. conn' \in [Slots -> Conn] /\ client' \in [Slots -> Client]
    BY <1>b, <2>1, <2>2, <2>3
  <2> QED BY <1>11, <2>4 DEF HeaderEnd, NextUnit
<1>12. CASE HeaderTooLong
  BY <1>12 DEF HeaderTooLong, NextUnit
<1>13. CASE BodyByte
  <2>1. PICK d \in RecvBodyByte(conn[idx]) : conn' = [conn EXCEPT ![idx] = d]
    BY <1>13 DEF BodyByte
  <2>2. d \in Conn
    BY <1>a, <2>1, ByteCase
  <2>3. conn' \in [Slots -> Conn] /\ client' \in [Slots -> Client]
    BY <1>13, <1>a, <1>b, <2>1, <2>2, ClientStep DEF BodyByte
  <2> QED BY <1>13, <2>3 DEF BodyByte, NextUnit
<1>14. CASE UnexpectedData
  BY <1>14 DEF UnexpectedData, NextUnit
<1>15. CASE RecvReturns
  <2> DEFINE c == httpdFlushSendBuffer(conn[idx])
             d == IF segment = "error" THEN closeConnection(c) ELSE c
  <2>1. c \in Conn
    BY <1>a, FlushCase
  <2>2. d \in Conn
    BY <2>1, CloseCase
  <2>3. conn' = [conn EXCEPT ![idx] = d]
    BY <1>15 DEF RecvReturns
  <2> HIDE DEF d
  <2>4. conn' \in [Slots -> Conn]
    BY <1>b, <2>2, <2>3
  <2> QED BY <1>15, <1>d, <2>4 DEF RecvReturns
<1>16. CASE SslReadAgain
  <2>1. [conn[idx] EXCEPT !.out = 0] \in Conn
    BY <1>a, SMT DEF Conn
  <2>2. closeConnection(conn[idx]) \in Conn
    BY <1>a, CloseCase
  <2>3. conn' \in [Slots -> Conn]
    BY <1>16, <1>b, <2>1, <2>2 DEF SslReadAgain
  <2> QED BY <1>16, <1>d, <2>3 DEF SslReadAgain
<1>17. CASE Deinit
  <2>1. closeConnection(conn[idx]) \in Conn
    BY <1>a, CloseCase
  <2>2. conn' \in [Slots -> Conn]
    BY <1>17, <1>b, <2>1 DEF Deinit
  <2>3. idx' \in Slots /\ pc' \in {"deinit", "exited"}
    BY <1>17, SlotAssumption DEF Deinit, Slots
  <2> QED BY <1>17, <2>2, <2>3 DEF Deinit
<1>18. ASSUME NEW s \in Slots, Resume(s) PROVE TypeOK'
  <2>1. PICK d \in httpdContinue(conn[s]) : conn' = [conn EXCEPT ![s] = d]
    BY <1>18 DEF Resume
  <2>2. d \in Conn
    BY <2>1, ContinueCase
  <2> QED BY <1>18, <1>b, <2>1, <2>2 DEF Resume, taskVars
<1>19. CASE UNCHANGED vars
  BY <1>19 DEF vars, taskVars
<1> QED
  BY <1>1, <1>2, <1>3, <1>4, <1>5, <1>6, <1>7, <1>8, <1>9, <1>10, <1>11,
     <1>12, <1>13, <1>14, <1>15, <1>16, <1>17, <1>18, <1>19
  DEF Next, ServerTask

(* Every variable keeps its type, whatever handlers and clients do.        *)
THEOREM TypeCorrect == Spec => []TypeOK
BY InitType, NextType, PTL DEF Spec

-----------------------------------------------------------------------------
(* What a connection holds, whatever its handler, its client and the       *)
(* undefined cases do.                                                     *)

Tidy(c) ==
  /\ c.fd = "none" => c.buff = "NULL"
  /\ c.fd = "none" \/ c.cgi # "handler" => c.cgiData # "live"
  /\ c.fd = "open" /\ c.len < 0 => c.cgi = "NULL" /\ c.buff = "NULL"
  /\ c.fd = "open" => c.closed = 0
  /\ Excused(c.faults)

(* d is not disconnected where c already was.                              *)
Quiet(c, d) == "closed twice" \in d.faults => "closed twice" \in c.faults

TidyInv ==
  /\ TypeOK
  /\ \A s \in Slots : Tidy(conn[s])
  /\ pc = "accept" => Free # {}
  /\ pc = "recv" => conn[idx].fd = "open"

LEMMA LenIsInt == \A c \in Conn : c.len \in Int
BY ConnIsVals DEF Vals

LEMMA TidyAnswer ==
  ASSUME NEW e \in Conn, NEW d \in Conn, Answer(e, d),
         e.cgi # "handler" => e.cgiData # "live",
         e.fd = "open", e.len >= 0, e.closed = 0, Excused(e.faults)
  PROVE  Tidy(d) /\ d.fd = "open" /\ Quiet(e, d)
<1>1. d.fd = "open" /\ d.closed = 0
  BY DEF Answer, SameOwner
<1>2. Excused(d.faults) /\ Quiet(e, d)
  BY DEF Answer, NewFaults, Excused, Quiet
<1>3. CASE More(e, d)
  BY <1>1, <1>2, <1>3, LenIsInt DEF More, SameRequest, Tidy
<1>4. CASE Done(e, d)
  <2>1. d.len < 0 => d.buff = "NULL"
    BY <1>4, LenIsInt DEF Done, Kept, Marked, SameRequest
  <2> QED BY <1>1, <1>2, <1>4, <2>1 DEF Done, Tidy, AfterFree
<1> QED BY <1>3, <1>4 DEF Answer

LEMMA TidyProcessed ==
  ASSUME NEW c \in Conn, NEW d \in Conn, Processed(c, d), Tidy(c),
         c.fd = "open", c.len >= 0, c.cgi = "NULL"
  PROVE  Tidy(d) /\ d.fd = "open" /\ Quiet(c, d)
<1>1. CASE d = c
  BY <1>1 DEF Quiet
<1>2. ASSUME NEW e \in Conn, Dispatched(c, e), Answer(e, d)
      PROVE  Tidy(d) /\ d.fd = "open" /\ Quiet(c, d)
  <2>1. /\ e.cgi # "handler" => e.cgiData # "live"
        /\ e.fd = "open" /\ e.len >= 0 /\ e.closed = 0
        /\ e.faults = c.faults /\ Excused(e.faults)
    BY <1>2 DEF Dispatched, SameOwner, SameRequest, Tidy
  <2>2. Tidy(d) /\ d.fd = "open" /\ Quiet(e, d)
    BY <1>2, <2>1, TidyAnswer
  <2> QED BY <2>1, <2>2 DEF Quiet
<1> QED BY <1>1, <1>2 DEF Processed

LEMMA TidyContinue ==
  ASSUME NEW c \in Conn, NEW d \in httpdContinue(c), Tidy(c), c.fd = "open"
  PROVE  d \in Conn /\ Tidy(d) /\ d.fd = "open" /\ Quiet(c, d)
<1>1. d \in Conn
  BY ContinueCase
<1>2. CASE Disconnecting(c, d)
  BY <1>1, <1>2 DEF Disconnecting, SameRequest, Tidy, Quiet
<1>3. CASE d = c
  BY <1>1, <1>3 DEF Quiet
<1>4. ASSUME NEW e \in Conn, Resumed(c, e), Answer(e, d), c.cgi # "NULL"
      PROVE  Tidy(d) /\ d.fd = "open" /\ Quiet(c, d)
  <2>1. /\ e.cgi # "handler" => e.cgiData # "live"
        /\ e.fd = "open" /\ e.len >= 0 /\ e.closed = 0
    <3>1. /\ e.cgi = c.cgi /\ e.cgiData = c.cgiData /\ e.fd = c.fd
          /\ e.len = c.len /\ e.closed = c.closed
      BY <1>4 DEF Resumed, SameOwner, SameRequest
    <3> QED BY <1>4, <3>1, LenIsInt DEF Tidy
  <2>2. Excused(e.faults) /\ Quiet(c, e)
    BY <1>4 DEF Resumed, Tidy, Excused, Quiet
  <2>3. Tidy(d) /\ d.fd = "open" /\ Quiet(e, d)
    BY <1>1, <1>4, <2>1, <2>2, TidyAnswer
  <2> QED BY <2>2, <2>3 DEF Quiet
<1> QED BY <1>1, <1>2, <1>3, <1>4, ContinueCase

LEMMA TidyClose ==
  ASSUME NEW c \in Conn, Tidy(c)
  PROVE  /\ closeConnection(c) \in Conn
         /\ Tidy(closeConnection(c)) /\ closeConnection(c).fd = "none"
         /\ c.fd = "open" => Quiet(c, closeConnection(c))
<1> DEFINE d == closeConnection(c)
<1>1. d \in Conn /\ Closed(c, d)
  BY CloseCase
<1> HIDE DEF d
<1>2. d.fd = "none" /\ d.buff = "NULL"
  BY <1>1 DEF Closed
<1>3. d.cgiData # "live"
  BY <1>1 DEF Closed, AfterFree, Tidy
<1>4. Excused(d.faults)
  BY <1>1 DEF Closed, Excused, CloseFaults, Tidy
<1>5. c.fd = "open" => Quiet(c, d)
  BY <1>1 DEF Closed, Quiet, Tidy
<1> QED BY <1>1, <1>2, <1>3, <1>4, <1>5 DEF Tidy, d

LEMMA TidyHeader ==
  ASSUME NEW c \in Conn, NEW n \in PostLens, NEW k \in LengthLines, NEW v \in Versions,
         NEW line \in {"NULL", "set"}, NEW d \in RecvHeaderEnd(c, n, k, v, line),
         Tidy(c), c.fd = "open", ReadsHeader(c)
  PROVE  d \in Conn /\ Tidy(d) /\ d.fd = "open" /\ Quiet(c, d)
<1>1. PICK p \in Conn :
        Begun(c, p, n) /\ (IF n = 0 THEN Processed(p, d) ELSE d = p)
  BY HeaderCase
<1>2. d \in Conn /\ n \in Nat
  BY HeaderCase, PostAssumption
<1>3. c.cgi = "NULL" /\ c.cgiData # "live" /\ c.buff = "NULL"
  BY DEF Tidy, ReadsHeader
<1>4. Excused(p.faults) /\ Quiet(c, p)
  BY <1>1, <1>3 DEF Begun, Tidy, Quiet, Losses
<1>5. Tidy(p) /\ p.fd = "open" /\ p.len >= 0 /\ p.cgi = "NULL"
  BY <1>1, <1>2, <1>3, <1>4 DEF Begun, Tidy
<1>6. CASE n = 0
  <2>1. Tidy(d) /\ d.fd = "open" /\ Quiet(p, d)
    BY <1>1, <1>2, <1>5, <1>6, TidyProcessed
  <2> QED BY <1>2, <1>4, <2>1 DEF Quiet
<1>7. CASE n # 0
  BY <1>1, <1>2, <1>4, <1>5, <1>7
<1> QED BY <1>6, <1>7

LEMMA TidyByte ==
  ASSUME NEW c \in Conn, NEW d \in RecvBodyByte(c),
         Tidy(c), c.fd = "open", ReadsBody(c)
  PROVE  d \in Conn /\ Tidy(d) /\ d.fd = "open" /\ Quiet(c, d)
<1>1. d \in Conn
  BY ByteCase
<1>2. PICK b \in Conn :
        /\ ByteStored(c, b)
        /\ \/ ~Full(b) /\ d = b
           \/ Full(b) /\ \E r \in Conn : Given(b, r) /\ Emptied(r, d)
  BY ByteCase
<1>3. /\ Tidy(b) /\ b.fd = "open" /\ b.len >= 0 /\ b.closed = 0
      /\ b.cgi # "handler" => b.cgiData # "live"
      /\ b.faults = c.faults /\ Excused(b.faults)
  BY <1>2, LenIsInt DEF ByteStored, SameOwner, SameHandler, Tidy, ReadsBody
<1>4. ASSUME NEW r \in Conn, Given(b, r), Emptied(r, d)
      PROVE  Tidy(d) /\ d.fd = "open" /\ Quiet(c, d)
  <2>1. Tidy(r) /\ r.fd = "open" /\ Quiet(b, r)
    BY <1>3, <1>4, TidyAnswer, TidyProcessed DEF Given
  <2>2. Tidy(d) /\ d.fd = "open"
    BY <1>4, <2>1 DEF Emptied, SameOwner, SameHandler, Tidy
  <2> QED BY <1>3, <1>4, <2>1, <2>2 DEF Emptied, SameHandler, Quiet
<1> QED BY <1>1, <1>2, <1>3, <1>4 DEF Quiet

LEMMA InitConn ==
  ASSUME Init, NEW s \in Slots
  PROVE  /\ conn[s].fd = "none" /\ conn[s].buff = "NULL"
         /\ conn[s].cgiData = "NULL" /\ conn[s].faults = {}
<1> DEFINE n == [Connected EXCEPT !.fd = "none", !.closed = 1]
<1>1. conn[s] = n
  BY Zenon DEF Init
<1>2. Connected \in Conn
  BY SMT DEF Connected, Conn
<1>3. /\ n.fd = "none" /\ n.buff = Connected.buff
      /\ n.cgiData = Connected.cgiData /\ n.faults = Connected.faults
  BY <1>2, SMT DEF Conn
<1>4. /\ Connected.buff = "NULL" /\ Connected.cgiData = "NULL"
      /\ Connected.faults = {}
  BY DEF Connected
<1> HIDE DEF n
<1> QED BY <1>1, <1>3, <1>4

LEMMA TidyInit == Init => TidyInv
<1> SUFFICES ASSUME Init PROVE TidyInv
  OBVIOUS
<1>1. TypeOK
  BY InitType
<1>2. ASSUME NEW s \in Slots
      PROVE  /\ conn[s].fd = "none" /\ conn[s].buff = "NULL"
             /\ conn[s].cgiData = "NULL" /\ conn[s].faults = {}
  BY InitConn
<1>3. pc = "select"
  BY DEF Init
<1> QED BY <1>1, <1>2, <1>3 DEF TidyInv, Tidy, Excused

LEMMA TidyNext == TidyInv /\ [Next]_vars => TidyInv'
<1> SUFFICES ASSUME TidyInv, [Next]_vars PROVE TidyInv'
  OBVIOUS
<1> DEFINE Tidies == /\ \A s \in Slots : Tidy(conn[s])
                     /\ pc = "accept" => Free # {}
                     /\ pc = "recv" => conn[idx].fd = "open"
<1>a. TypeOK /\ TypeOK'
  BY NextType DEF TidyInv
<1>b. idx \in Slots /\ (\A s \in Slots : conn[s] \in Conn /\ Tidy(conn[s]))
  BY <1>a DEF TypeOK, TidyInv
<1>c. ASSUME NEW d, NEW s \in Slots, Tidy(d), conn' = [conn EXCEPT ![s] = d]
      PROVE  conn'[s] = d /\ (\A t \in Slots : Tidy(conn'[t]))
  <2>1. conn \in [Slots -> Conn]
    BY <1>a DEF TypeOK
  <2>2. \A t \in Slots : conn'[t] = IF t = s THEN d ELSE conn[t]
    BY <1>c, <2>1
  <2> QED BY <1>b, <1>c, <2>2
<1>d. Advance => pc' \in {"sent", "select", "deinit"}
  BY DEF Advance, EndOfPass
<1>e. AfterRead => pc' \in {"sent", "select", "deinit", "pending"}
  BY <1>d DEF AfterRead
<1> SUFFICES Tidies'
  BY <1>a DEF TidyInv
<1>1. CASE BuildFdSets
  BY <1>1, <1>b DEF BuildFdSets
<1>2. CASE Select
  BY <1>2, <1>b DEF Select, NewClients, Free, Open
<1>3. CASE Accept
  <2>1. CASE UNCHANGED <<conn, client>> /\ pc' = EndOfPass
    BY <1>b, <2>1 DEF EndOfPass
  <2>2. CASE conn' = [conn EXCEPT ![FirstFree] = httpdConnectCb(@)] /\ pc' = "sent"
    <3>1. ASSUME NEW s \in Slots
          PROVE  Tidy(httpdConnectCb(conn[s]))
      <4> DEFINE d == httpdConnectCb(conn[s])
      <4>1. /\ d.fd = "open" /\ d.cgi = "NULL" /\ d.cgiData = "NULL"
            /\ d.closed = 0 /\ d.buff = "NULL"
            /\ d.faults = conn[s].faults \ {"closed twice"}
        BY <1>b, ConnectCase DEF Kept
      <4> HIDE DEF d
      <4>2. Excused(conn[s].faults)
        BY <1>b DEF Tidy
      <4>3. Excused(d.faults)
        BY <4>1, <4>2 DEF Excused
      <4> QED BY <4>1, <4>3 DEF Tidy, d
    <3>2. CASE FirstFree \in Slots
      <4>1. conn' = [conn EXCEPT ![FirstFree] = httpdConnectCb(conn[FirstFree])]
        BY <2>2
      <4> QED BY <1>c, <2>2, <3>1, <3>2, <4>1
    <3>3. CASE FirstFree \notin Slots
      <4>1. conn' = conn
        BY <1>a, <2>2, <3>3 DEF TypeOK
      <4> QED BY <1>b, <2>2, <4>1
    <3> QED BY <3>2, <3>3
  <2> QED BY <1>3, <2>1, <2>2 DEF Accept
<1>4. CASE SkipEmpty
  BY <1>4, <1>b, <1>d DEF SkipEmpty
<1>5. CASE Sent
  <2>1. CASE UNCHANGED conn
    BY <1>5, <1>b, <2>1 DEF Sent
  <2>2. CASE conn[idx].notif = 1 /\ idx \in writeset
    <3> DEFINE c == [conn[idx] EXCEPT !.notif = 0]
    <3>1. c \in Conn
      BY <1>b, SMT DEF Conn
    <3>2. c.fd = "open" /\ Tidy(c)
      <4>1. /\ c.fd = conn[idx].fd /\ c.buff = conn[idx].buff
            /\ c.len = conn[idx].len /\ c.cgi = conn[idx].cgi
            /\ c.cgiData = conn[idx].cgiData /\ c.closed = conn[idx].closed
            /\ c.faults = conn[idx].faults
        BY <1>b, SMT DEF Conn
      <4> HIDE DEF c
      <4> QED BY <1>5, <1>b, <4>1 DEF Sent, Tidy
    <3>3. PICK d \in (IF c.needsClose = 1 THEN {closeConnection(c)}
                                           ELSE httpdContinue(c)) :
            conn' = [conn EXCEPT ![idx] = d]
      BY <1>5, <2>2 DEF Sent
    <3> HIDE DEF c
    <3>4. Tidy(d)
      BY <3>1, <3>2, <3>3, TidyClose, TidyContinue
    <3> QED BY <1>5, <1>b, <1>c, <3>3, <3>4 DEF Sent
  <2> QED BY <1>5, <2>1, <2>2 DEF Sent
<1>6. CASE NotReadable
  BY <1>6, <1>b, <1>d DEF NotReadable
<1>7. CASE ReadStale
  <2>1. Tidy(closeConnection(conn[idx]))
    BY <1>b, TidyClose
  <2> QED BY <1>7, <1>b, <1>c, <1>d, <2>1 DEF ReadStale
<1>8. CASE ReadEnd
  <2>1. Tidy(closeConnection(conn[idx]))
    BY <1>b, TidyClose
  <2> QED BY <1>8, <1>b, <1>c, <1>e, <2>1 DEF ReadEnd
<1>f. /\ Tidy([conn[idx] EXCEPT !.out = 0])
      /\ [conn[idx] EXCEPT !.out = 0].fd = conn[idx].fd
  <2> DEFINE c == [conn[idx] EXCEPT !.out = 0]
  <2>1. /\ c.fd = conn[idx].fd /\ c.buff = conn[idx].buff
        /\ c.len = conn[idx].len /\ c.cgi = conn[idx].cgi
        /\ c.cgiData = conn[idx].cgiData /\ c.closed = conn[idx].closed
        /\ c.faults = conn[idx].faults
    BY <1>b, SMT DEF Conn
  <2> HIDE DEF c
  <2> QED BY <1>b, <2>1 DEF Tidy, c
<1>9. CASE ReadData
  BY <1>9, <1>b, <1>c, <1>f DEF ReadData
<1>10. CASE RecvHeaderByte
  BY <1>10, <1>b DEF RecvHeaderByte, NextUnit, TidyInv
<1>11. CASE HeaderEnd
  <2>1. PICK n \in PostLens, k \in LengthLines, v \in Versions, line \in {"NULL", "set"} :
          \E d \in RecvHeaderEnd(conn[idx], n, k, v, line) :
             conn' = [conn EXCEPT ![idx] = d]
    BY <1>11 DEF HeaderEnd
  <2>2. PICK d \in RecvHeaderEnd(conn[idx], n, k, v, line) :
               conn' = [conn EXCEPT ![idx] = d]
    BY <2>1
  <2>3. Tidy(d) /\ d.fd = "open"
    BY <1>11, <1>b, TidyHeader DEF HeaderEnd, NextUnit, TidyInv
  <2>4. pc' = "recv" /\ idx' = idx
    BY <1>11 DEF HeaderEnd, NextUnit
  <2> QED BY <1>b, <1>c, <2>2, <2>3, <2>4
<1>12. CASE HeaderTooLong
  BY <1>12, <1>b DEF HeaderTooLong, NextUnit, TidyInv
<1>13. CASE BodyByte
  <2>1. PICK d \in RecvBodyByte(conn[idx]) : conn' = [conn EXCEPT ![idx] = d]
    BY <1>13 DEF BodyByte
  <2>2. Tidy(d) /\ d.fd = "open"
    BY <1>13, <1>b, TidyByte DEF BodyByte, NextUnit, TidyInv
  <2>3. pc' = "recv" /\ idx' = idx
    BY <1>13 DEF BodyByte, NextUnit
  <2> QED BY <1>b, <1>c, <2>1, <2>2, <2>3
<1>14. CASE UnexpectedData
  BY <1>14, <1>b DEF UnexpectedData, NextUnit, TidyInv
<1>15. CASE RecvReturns
  <2> DEFINE c == httpdFlushSendBuffer(conn[idx])
             d == IF segment = "error" THEN closeConnection(c) ELSE c
  <2>1. c \in Conn /\ Flushed(conn[idx], c)
    BY <1>b, FlushCase
  <2>2. conn' = [conn EXCEPT ![idx] = d]
    BY <1>15 DEF RecvReturns
  <2> HIDE DEF c
  <2>3. Tidy(c)
    BY <1>b, <2>1 DEF Flushed, SameOwner, SameRequest, Tidy
  <2>4. Tidy(d)
    BY <2>1, <2>3, TidyClose
  <2> HIDE DEF d
  <2> QED BY <1>15, <1>b, <1>c, <1>e, <2>2, <2>4 DEF RecvReturns
<1>16. CASE SslReadAgain
  <2>1. CASE /\ conn[idx].fd = "open"
             /\ conn' = [conn EXCEPT ![idx].out = 0]
             /\ pc' = "recv" /\ idx' = idx
    BY <1>b, <1>c, <1>f, <2>1
  <2>2. CASE conn' = [conn EXCEPT ![idx] = closeConnection(@)] /\ AfterRead
    <3>1. Tidy(closeConnection(conn[idx]))
      BY <1>b, TidyClose
    <3> QED BY <1>b, <1>c, <1>e, <2>2, <3>1
  <2> QED BY <1>16, <2>1, <2>2 DEF SslReadAgain
<1>17. CASE Deinit
  <2>1. Tidy(closeConnection(conn[idx]))
    BY <1>b, TidyClose
  <2>2. \A t \in Slots : Tidy(conn'[t])
    BY <1>17, <1>b, <1>c, <2>1 DEF Deinit
  <2>3. pc' \in {"deinit", "exited"}
    BY <1>17 DEF Deinit
  <2> QED BY <2>2, <2>3
<1>18. ASSUME NEW s \in Slots, Resume(s) PROVE Tidies'
  <2>1. PICK d \in httpdContinue(conn[s]) : conn' = [conn EXCEPT ![s] = d]
    BY <1>18 DEF Resume
  <2>2. Tidy(d) /\ d.fd = "open" /\ conn[s].fd = "open"
    BY <1>18, <1>b, <2>1, TidyContinue DEF Resume
  <2>3. \A t \in Slots : conn'[t].fd = conn[t].fd
    BY <1>a, <2>1, <2>2 DEF TypeOK
  <2>4. UNCHANGED <<pc, idx>>
    BY <1>18 DEF Resume, taskVars
  <2>5. Free' = Free
    BY <2>3 DEF Free, Open
  <2> QED BY <1>18, <1>b, <1>c, <2>1, <2>2, <2>3, <2>4, <2>5 DEF TidyInv
<1>19. CASE UNCHANGED vars
  BY <1>19, <1>b DEF vars, taskVars, TidyInv, Free, Open
<1> QED
  BY <1>1, <1>2, <1>3, <1>4, <1>5, <1>6, <1>7, <1>8, <1>9, <1>10, <1>11,
     <1>12, <1>13, <1>14, <1>15, <1>16, <1>17, <1>18, <1>19
  DEF Next, ServerTask

LEMMA TidyAlways == Spec => []TidyInv
BY TidyInit, TidyNext, PTL DEF Spec

(* What a request allocated does not outlive it, even if handlers answer   *)
(* early, allocations fail, clients pipeline or break off, or a free slot  *)
(* is closed once more; a POST buffer is lost only of a request with       *)
(* several Content-Length lines.                                           *)
THEOREM MemoryReleased == Spec => []NothingLeaks
<1>1. TidyInv => NothingLeaks
  <2> SUFFICES ASSUME TidyInv, NEW s \in Slots
               PROVE  /\ conn[s].cgi = "NULL" \/ conn[s].fd = "none" =>
                           conn[s].cgiData # "live"
                      /\ conn[s].fd = "none" => conn[s].buff = "NULL"
                      /\ "buffer lost" \in conn[s].faults =>
                           "length twice" \in conn[s].faults
    BY DEF NothingLeaks
  <2> QED BY DEF TidyInv, Tidy, Excused
<1> QED BY <1>1, TidyAlways, PTL

(* The turn in which a slot may be disconnected once more.                 *)
EmptyInTurn(s) == idx = s /\ pc \in {"read", "pending"} /\ conn[s].fd = "none"

LEMMA OnceNext ==
  ASSUME TidyInv, [Next]_vars, NEW s \in Slots
  PROVE  Quiet(conn[s], conn'[s]) \/ EmptyInTurn(s)
<1> DEFINE Goal == Quiet(conn[s], conn'[s]) \/ EmptyInTurn(s)
<1>a. /\ idx \in Slots /\ conn \in [Slots -> Conn]
      /\ \A t \in Slots : conn[t] \in Conn /\ Tidy(conn[t])
      /\ pc = "recv" => conn[idx].fd = "open"
  BY DEF TidyInv, TypeOK
<1>b. ASSUME conn' = conn PROVE Goal
  BY <1>b DEF Quiet
<1>c. ASSUME NEW t \in Slots, NEW d, conn' = [conn EXCEPT ![t] = d],
             Quiet(conn[t], d)
      PROVE  Goal
  <2>1. conn'[s] = IF s = t THEN d ELSE conn[s]
    BY <1>a, <1>c
  <2> QED BY <1>c, <2>1 DEF Quiet
<1>d. ASSUME conn' = [conn EXCEPT ![idx] = closeConnection(conn[idx])],
             conn[idx].fd = "open" \/ pc \in {"read", "pending"}
      PROVE  Goal
  <2>1. CASE conn[idx].fd = "open"
    BY <1>a, <1>c, <1>d, <2>1, TidyClose
  <2>2. CASE conn[idx].fd # "open"
    <3>1. conn[idx].fd = "none"
      BY <1>a, <2>2, ConnIsVals DEF Vals
    <3>2. CASE s = idx
      BY <1>d, <2>2, <3>1, <3>2 DEF EmptyInTurn
    <3>3. CASE s # idx
      BY <1>a, <1>d, <3>3 DEF Quiet
    <3> QED BY <3>2, <3>3
  <2> QED BY <2>1, <2>2
<1>e. Quiet(conn[idx], [conn[idx] EXCEPT !.out = 0])
  <2>1. [conn[idx] EXCEPT !.out = 0].faults = conn[idx].faults
    BY <1>a, SMT DEF Conn
  <2> QED BY <2>1 DEF Quiet
<1>1. CASE BuildFdSets
  BY <1>1, <1>b DEF BuildFdSets
<1>2. CASE Select
  BY <1>2, <1>b DEF Select
<1>3. CASE Accept
  <2>1. CASE UNCHANGED conn
    BY <1>b, <2>1
  <2>2. CASE conn' = [conn EXCEPT ![FirstFree] = httpdConnectCb(@)]
    <3> DEFINE f == FirstFree
               d == httpdConnectCb(conn[f])
    <3>1. conn' = [conn EXCEPT ![f] = d]
      BY <2>2
    <3>2. CASE f \in Slots
      <4>1. d.faults = conn[f].faults \ {"closed twice"}
        BY <1>a, <3>2, ConnectCase
      <4> HIDE DEF d, f
      <4>2. Quiet(conn[f], d)
        BY <4>1 DEF Quiet
      <4> QED BY <1>c, <3>1, <3>2, <4>2
    <3>3. CASE f \notin Slots
      <4> HIDE DEF d, f
      <4>1. conn' = conn
        BY <1>a, <3>1, <3>3
      <4> QED BY <1>b, <4>1
    <3> QED BY <3>2, <3>3
  <2> QED BY <1>3, <2>1, <2>2 DEF Accept
<1>4. CASE SkipEmpty
  BY <1>4, <1>b DEF SkipEmpty
<1>5. CASE Sent
  <2> DEFINE c == [conn[idx] EXCEPT !.notif = 0]
  <2>1. CASE UNCHANGED conn
    BY <1>b, <2>1
  <2>2. CASE \E d \in (IF c.needsClose = 1 THEN {closeConnection(c)}
                                           ELSE httpdContinue(c)) :
               conn' = [conn EXCEPT ![idx] = d]
    <3>1. PICK d \in (IF c.needsClose = 1 THEN {closeConnection(c)}
                                          ELSE httpdContinue(c)) :
            conn' = [conn EXCEPT ![idx] = d]
      BY <2>2
    <3>2. /\ c \in Conn /\ c.fd = conn[idx].fd /\ c.buff = conn[idx].buff
          /\ c.len = conn[idx].len /\ c.cgi = conn[idx].cgi
          /\ c.cgiData = conn[idx].cgiData /\ c.closed = conn[idx].closed
          /\ c.faults = conn[idx].faults
      BY <1>a, SMT DEF Conn
    <3> HIDE DEF c
    <3>3. Tidy(c) /\ c.fd = "open"
      BY <1>5, <1>a, <3>2 DEF Sent, Tidy
    <3>4. Quiet(c, d)
      BY <3>1, <3>2, <3>3, TidyClose, TidyContinue
    <3>5. Quiet(conn[idx], d)
      BY <3>2, <3>4 DEF Quiet
    <3> QED BY <1>a, <1>c, <3>1, <3>5
  <2> QED BY <1>5, <2>1, <2>2 DEF Sent
<1>6. CASE NotReadable
  BY <1>6, <1>b DEF NotReadable
<1>7. CASE ReadStale
  BY <1>7, <1>d DEF ReadStale
<1>8. CASE ReadEnd
  BY <1>8, <1>d DEF ReadEnd
<1>9. CASE ReadData
  BY <1>9, <1>a, <1>c, <1>e DEF ReadData
<1>10. CASE RecvHeaderByte
  BY <1>10, <1>b DEF RecvHeaderByte
<1>11. CASE HeaderEnd
  <2>1. PICK n \in PostLens, k \in LengthLines, v \in Versions, line \in {"NULL", "set"} :
          \E d \in RecvHeaderEnd(conn[idx], n, k, v, line) :
             conn' = [conn EXCEPT ![idx] = d]
    BY <1>11 DEF HeaderEnd
  <2>2. PICK d \in RecvHeaderEnd(conn[idx], n, k, v, line) :
               conn' = [conn EXCEPT ![idx] = d]
    BY <2>1
  <2>3. Quiet(conn[idx], d)
    BY <1>11, <1>a, TidyHeader DEF HeaderEnd, NextUnit
  <2> QED BY <1>a, <1>c, <2>2, <2>3
<1>12. CASE HeaderTooLong
  BY <1>12, <1>b DEF HeaderTooLong
<1>13. CASE BodyByte
  <2>1. PICK d \in RecvBodyByte(conn[idx]) : conn' = [conn EXCEPT ![idx] = d]
    BY <1>13 DEF BodyByte
  <2>2. Quiet(conn[idx], d)
    BY <1>13, <1>a, TidyByte DEF BodyByte, NextUnit
  <2> QED BY <1>a, <1>c, <2>1, <2>2
<1>14. CASE UnexpectedData
  BY <1>14, <1>b DEF UnexpectedData
<1>15. CASE RecvReturns
  <2> DEFINE c == httpdFlushSendBuffer(conn[idx])
             d == IF segment = "error" THEN closeConnection(c) ELSE c
  <2>1. c \in Conn /\ Flushed(conn[idx], c)
    BY <1>a, FlushCase
  <2>2. conn' = [conn EXCEPT ![idx] = d]
    BY <1>15 DEF RecvReturns
  <2> HIDE DEF c
  <2>3. Tidy(c) /\ c.fd = "open" /\ c.faults = conn[idx].faults
    BY <1>15, <1>a, <2>1 DEF RecvReturns, Flushed, SameOwner, SameRequest, Tidy
  <2>4. Quiet(c, d)
    BY <2>1, <2>3, TidyClose DEF Quiet
  <2> HIDE DEF d
  <2>5. Quiet(conn[idx], d)
    BY <2>3, <2>4 DEF Quiet
  <2> QED BY <1>a, <1>c, <2>2, <2>5
<1>16. CASE SslReadAgain
  <2>1. CASE conn' = [conn EXCEPT ![idx].out = 0]
    BY <1>a, <1>c, <1>e, <2>1
  <2>2. CASE conn' = [conn EXCEPT ![idx] = closeConnection(@)]
    BY <1>16, <1>d, <2>2 DEF SslReadAgain
  <2> QED BY <1>16, <2>1, <2>2 DEF SslReadAgain
<1>17. CASE Deinit
  <2>1. CASE conn[idx].fd = "open"
    BY <1>17, <1>d, <2>1 DEF Deinit
  <2>2. CASE conn[idx].fd # "open"
    BY <1>17, <1>b, <2>2 DEF Deinit
  <2> QED BY <2>1, <2>2
<1>18. ASSUME NEW t \in Slots, Resume(t) PROVE Goal
  <2>1. PICK d \in httpdContinue(conn[t]) : conn' = [conn EXCEPT ![t] = d]
    BY <1>18 DEF Resume
  <2>2. Quiet(conn[t], d)
    BY <1>18, <1>a, <2>1, TidyContinue DEF Resume
  <2> QED BY <1>c, <2>1, <2>2
<1>19. CASE UNCHANGED vars
  BY <1>19, <1>b DEF vars
<1> QED
  BY <1>1, <1>2, <1>3, <1>4, <1>5, <1>6, <1>7, <1>8, <1>9, <1>10, <1>11,
     <1>12, <1>13, <1>14, <1>15, <1>16, <1>17, <1>18, <1>19
  DEF Next, ServerTask

(* Whatever FD_ISSET makes of a closed descriptor, SSL has pending, clients *)
(* send and handlers answer, a slot is disconnected once more only while   *)
(* it is still empty, in the turn that closed it.                          *)
THEOREM DisconnectedOnce == Spec => ClosedOnce
<1>1. TidyInv /\ [Next]_vars =>
        [\A s \in Slots :
           "closed twice" \in conn'[s].faults /\ "closed twice" \notin conn[s].faults
             => idx = s /\ pc \in {"read", "pending"} /\ conn[s].fd = "none"]_vars
  BY OnceNext DEF Quiet, EmptyInTurn
<1> QED BY <1>1, TidyAlways, PTL DEF Spec, ClosedOnce

(* The branch for an accept without a free slot is dead code.              *)
THEOREM AcceptFindsSlot == Spec => []AcceptHasSlot
<1>1. TidyInv => AcceptHasSlot
  BY DEF TidyInv, AcceptHasSlot
<1> QED BY <1>1, TidyAlways, PTL

-----------------------------------------------------------------------------
(* A connection and its client, if handlers do not answer early and clients *)
(* do not pipeline.                                                        *)

Sound(c) ==
  /\ c.len < 0 => Kept(c) /\ c.cgi = "NULL"
  /\ c.len >= 0 => c.received <= c.len
  /\ c.len >= 0 /\ c.answered = 1 => BodyComplete(c)
  /\ ReadsBody(c) => c.buffSize = Limit(c.len) /\ c.buffLen < c.buffSize
  /\ c.cgi # "NULL" => c.answered = 0
  /\ "DISCONAFTERSENT" \in c.flags => c.cgi = "NULL" /\ BodyComplete(c)

(* The client owes exactly the bytes of the body that were not received.   *)
InStep(c, k) ==
  /\ c.len < 0 => k.phase # "body"
  /\ c.len >= 0 => k.phase = IF c.received < c.len THEN "body" ELSE "wait"
  /\ k.phase = "body" => k.owes = c.len - c.received

(* The slots whose readable half is still to come in this pass.            *)
Ahead(s) ==
  \/ pc = "accept"
  \/ pc \in {"sent", "read"} /\ s >= idx
  \/ pc \in {"recv", "pending"} /\ s > idx

InTurn(s) == s = idx /\ pc = "recv" /\ segment = "first"

ServeInv ==
  /\ TidyInv
  /\ \A s \in Slots : conn[s].fd = "open" =>
       /\ Sound(conn[s]) /\ InStep(conn[s], client[s])
       /\ InTurn(s) \/ (Ahead(s) /\ readset[s] = "data") =>
            conn[s].len < 0 \/ client[s].phase = "body"
  /\ pc # "recv" => segment = "first"

LEMMA ConnNumbers ==
  \A c \in Conn : /\ c.len \in Int /\ c.received \in Nat /\ c.buffLen \in Nat
                  /\ c.buffSize \in Nat /\ c.answered \in 0..1
                  /\ c.notif \in 0..1 /\ c.out \in 0..1
BY ConnIsVals DEF Vals

LEMMA LimitPositive ==
  \A n \in Nat : Limit(n) \in Nat /\ (n > 0 => Limit(n) > 0)
BY PostAssumption DEF Limit

(* Sound but for the POST buffer, which is full while the handler is given *)
(* it.                                                                     *)
Callable(c) ==
  /\ c.len < 0 => Kept(c) /\ c.cgi = "NULL"
  /\ c.len >= 0 => c.received <= c.len
  /\ c.len >= 0 /\ c.answered = 1 => BodyComplete(c)
  /\ c.cgi # "NULL" => c.answered = 0
  /\ "DISCONAFTERSENT" \in c.flags => c.cgi = "NULL" /\ BodyComplete(c)

Outcome(c, d) ==
  /\ d.fd = c.fd /\ d.buffSize = c.buffSize
  /\ (d.len = -1 /\ BodyComplete(c)) \/ SameRequest(c, d)

LEMMA SoundIsCallable ==
  \A c : Sound(c) <=>
    Callable(c) /\ (ReadsBody(c) => c.buffSize = Limit(c.len) /\ c.buffLen < c.buffSize)
BY DEF Sound, Callable

LEMMA ServeAnswer ==
  ASSUME EarlyDone = 0, NEW e \in Conn, NEW d \in Conn, Answer(e, d),
         Callable(e), e.cgi # "NULL", e.len >= 0
  PROVE  Callable(d) /\ Outcome(e, d)
<1>1. d.fd = e.fd /\ d.buffSize = e.buffSize
  BY DEF Answer, SameOwner
<1>2. CASE More(e, d)
  <2>1. /\ SameRequest(e, d) /\ d.cgi = e.cgi /\ d.answered = e.answered
        /\ "DISCONAFTERSENT" \notin d.flags
    BY <1>2 DEF More, Callable
  <2> QED BY <1>1, <2>1, ConnNumbers DEF Callable, Outcome, SameRequest, BodyComplete
<1>3. CASE Done(e, d)
  <2>1. /\ BodyComplete(e) /\ d.cgi = "NULL"
        /\ Kept(d) \/ SameRequest(e, d)
    BY <1>3 DEF Done, Marked
  <2>2. CASE Kept(d)
    BY <1>1, <2>1, <2>2, ConnNumbers DEF Kept, Callable, Outcome
  <2>3. CASE SameRequest(e, d)
    BY <1>1, <2>1, <2>3, ConnNumbers DEF SameRequest, Callable, Outcome, BodyComplete
  <2> QED BY <2>1, <2>2, <2>3
<1> QED BY <1>2, <1>3 DEF Answer

LEMMA ServeProcessed ==
  ASSUME EarlyDone = 0, NEW c \in Conn, NEW d \in Conn, Processed(c, d),
         Callable(c), c.cgi = "NULL", c.len >= 0, c.answered = 0,
         "DISCONAFTERSENT" \notin c.flags
  PROVE  Callable(d) /\ Outcome(c, d)
<1>1. CASE d = c
  BY <1>1 DEF Outcome, SameRequest
<1>2. ASSUME NEW e \in Conn, Dispatched(c, e), Answer(e, d)
      PROVE  Callable(d) /\ Outcome(c, d)
  <2>1. /\ e.fd = c.fd /\ e.buffSize = c.buffSize /\ SameRequest(c, e)
        /\ e.cgi # "NULL" /\ e.answered = 0 /\ e.flags = c.flags
    BY <1>2 DEF Dispatched, SameOwner, Handlers
  <2>2. Callable(e) /\ e.len >= 0
    BY <2>1, ConnNumbers DEF Callable, SameRequest
  <2>3. Callable(d) /\ Outcome(e, d)
    BY <1>2, <2>1, <2>2, ServeAnswer
  <2> QED BY <2>1, <2>3 DEF Outcome, SameRequest, BodyComplete
<1> QED BY <1>1, <1>2 DEF Processed

LEMMA OutcomeInStep ==
  ASSUME NEW c \in Conn, NEW d \in Conn, NEW k \in Client, Outcome(c, d),
         InStep(c, k), c.len >= 0
  PROVE  InStep(d, k)
<1>1. CASE d.len = -1 /\ BodyComplete(c)
  BY <1>1, ConnNumbers DEF InStep, BodyComplete
<1>2. CASE SameRequest(c, d)
  BY <1>2 DEF InStep, SameRequest
<1> QED BY <1>1, <1>2 DEF Outcome

LEMMA OutcomeSound ==
  ASSUME NEW c \in Conn, NEW d \in Conn, Outcome(c, d), Sound(c), Callable(d)
  PROVE  Sound(d)
<1> SUFFICES ASSUME ReadsBody(d)
             PROVE  d.buffSize = Limit(d.len) /\ d.buffLen < d.buffSize
  BY SoundIsCallable
<1>1. SameRequest(c, d) /\ d.buffSize = c.buffSize
  BY DEF Outcome, ReadsBody
<1>2. ReadsBody(c) /\ d.len = c.len /\ d.buffLen = c.buffLen
  BY <1>1 DEF ReadsBody, SameRequest
<1> QED BY <1>1, <1>2 DEF Sound

LEMMA ServeContinue ==
  ASSUME EarlyDone = 0, NEW c \in Conn, NEW k \in Client, Sound(c), InStep(c, k),
         NEW d \in httpdContinue(c)
  PROVE  d \in Conn /\ d.fd = c.fd /\ Sound(d) /\ InStep(d, k)
<1>1. d \in Conn
  BY ContinueCase
<1>2. CASE Disconnecting(c, d)
  <2>1. /\ d.fd = c.fd /\ d.buffSize = c.buffSize /\ SameRequest(c, d)
        /\ d.flags = c.flags /\ d.cgi = c.cgi /\ d.answered = c.answered
    BY <1>2 DEF Disconnecting
  <2>2. Sound(d)
    BY <2>1 DEF Sound, SameRequest, BodyComplete, ReadsBody, Kept
  <2>3. InStep(d, k)
    BY <2>1 DEF InStep, SameRequest
  <2> QED BY <1>1, <2>1, <2>2, <2>3
<1>3. CASE d = c
  BY <1>1, <1>3
<1>4. ASSUME NEW e \in Conn, Resumed(c, e), Answer(e, d), c.cgi # "NULL"
      PROVE  d.fd = c.fd /\ Sound(d) /\ InStep(d, k)
  <2>1. /\ e.fd = c.fd /\ e.buffSize = c.buffSize /\ SameRequest(c, e)
        /\ e.cgi = c.cgi /\ e.answered = c.answered /\ e.flags = c.flags
    BY <1>4 DEF Resumed, SameOwner
  <2>2. c.len >= 0
    BY <1>4, ConnNumbers DEF Sound
  <2>3. Callable(c)
    BY SoundIsCallable
  <2>4. Callable(e)
    BY <2>1, <2>3 DEF Callable, SameRequest, BodyComplete, Kept
  <2>5. e.len >= 0
    BY <2>1, <2>2 DEF SameRequest
  <2>6. Callable(d) /\ Outcome(e, d)
    BY <1>1, <1>4, <2>1, <2>4, <2>5, ServeAnswer
  <2>7. Outcome(c, d)
    BY <2>1, <2>6 DEF Outcome, SameRequest, BodyComplete
  <2> QED BY <1>1, <2>2, <2>6, <2>7, OutcomeSound, OutcomeInStep DEF Outcome
<1> QED BY <1>1, <1>2, <1>3, <1>4, ContinueCase

LEMMA ServeHeader ==
  ASSUME EarlyDone = 0, NEW c \in Conn, NEW n \in PostLens, NEW k \in LengthLines, NEW v \in Versions,
         NEW line \in {"NULL", "set"}, NEW d \in RecvHeaderEnd(c, n, k, v, line),
         Sound(c), ReadsHeader(c)
  PROVE  d \in Conn /\ d.fd = c.fd /\ Sound(d) /\ InStep(d, HeadSent(n))
<1>1. PICK p \in Conn :
        Begun(c, p, n) /\ (IF n = 0 THEN Processed(p, d) ELSE d = p)
  BY HeaderCase
<1>2. d \in Conn /\ n \in Nat /\ HeadSent(n) \in Client
  BY HeaderCase, PostAssumption DEF HeadSent, Client
<1>3. c.cgi = "NULL" /\ c.received = 0 /\ c.flags = {}
  BY DEF Sound, ReadsHeader, Kept
<1>4. /\ p.fd = c.fd /\ p.len = n /\ p.received = 0 /\ p.cgi = "NULL"
      /\ p.answered = 0 /\ "DISCONAFTERSENT" \notin p.flags
      /\ p.buffSize = Limit(n) /\ p.buffLen = 0
  BY <1>1, <1>3 DEF Begun
<1>5. Callable(p)
  BY <1>2, <1>4 DEF Callable
<1>6. Sound(p)
  BY <1>2, <1>4, <1>5, LimitPositive, SoundIsCallable DEF ReadsBody
<1>7. InStep(p, HeadSent(n))
  BY <1>2, <1>4 DEF InStep, HeadSent
<1>8. CASE n = 0
  <2>1. Callable(d) /\ Outcome(p, d)
    BY <1>1, <1>2, <1>4, <1>5, <1>8, ServeProcessed
  <2> QED BY <1>2, <1>4, <1>6, <1>7, <2>1, OutcomeSound, OutcomeInStep DEF Outcome
<1>9. CASE n # 0
  BY <1>1, <1>2, <1>4, <1>6, <1>7, <1>9
<1> QED BY <1>8, <1>9

LEMMA ServeByte ==
  ASSUME EarlyDone = 0, NEW c \in Conn, NEW k \in Client, NEW d \in RecvBodyByte(c),
         Sound(c), InStep(c, k), ReadsBody(c), k.phase = "body"
  PROVE  d \in Conn /\ d.fd = c.fd /\ Sound(d) /\ InStep(d, NextByte(k))
<1>1. d \in Conn /\ NextByte(k) \in Client
  BY ByteCase, ClientStep
<1>2. PICK b \in Conn :
        /\ ByteStored(c, b)
        /\ \/ ~Full(b) /\ d = b
           \/ Full(b) /\ \E r \in Conn : Given(b, r) /\ Emptied(r, d)
  BY ByteCase
<1>3. /\ c.len > 0 /\ c.received < c.len /\ k.owes = c.len - c.received
      /\ c.buffSize = Limit(c.len) /\ c.buffSize > 0
  <2>1. c.len > 0 /\ c.buffSize = Limit(c.len) /\ c.len \in Nat
    BY ConnNumbers DEF ReadsBody, Sound
  <2>2. c.received < c.len /\ k.owes = c.len - c.received
    BY <2>1, ConnNumbers DEF InStep
  <2> QED BY <2>1, <2>2, LimitPositive
<1>4. c.answered = 0 /\ "DISCONAFTERSENT" \notin c.flags
  BY <1>3, ConnNumbers DEF Sound, BodyComplete
<1>5. /\ b.fd = c.fd /\ b.buffSize = c.buffSize /\ b.len = c.len
      /\ b.buff = c.buff /\ b.received = c.received + 1
      /\ b.buffLen = c.buffLen + 1 /\ b.cgi = c.cgi
      /\ b.answered = c.answered /\ b.flags = c.flags
  BY <1>2 DEF ByteStored, SameOwner, SameHandler
<1>6. Callable(b)
  BY <1>3, <1>4, <1>5, ConnNumbers DEF Callable
<1>7. InStep(b, NextByte(k))
  <2>1. k.owes \in Nat
    BY DEF Client
  <2>2. CASE k.owes > 1
    <3>1. NextByte(k).phase = "body" /\ NextByte(k).owes = k.owes - 1
      BY <2>2 DEF NextByte, Client
    <3> QED BY <1>3, <1>5, <2>2, <3>1, ConnNumbers DEF InStep
  <2>3. CASE k.owes <= 1
    <3>1. NextByte(k).phase = "wait"
      BY <2>1, <2>3 DEF NextByte
    <3> QED BY <1>3, <1>5, <2>1, <2>3, <3>1, ConnNumbers DEF InStep
  <2> QED BY <2>1, <2>2, <2>3
<1>8. CASE ~Full(b) /\ d = b
  BY <1>1, <1>3, <1>5, <1>6, <1>7, <1>8, SoundIsCallable, ConnNumbers DEF Full
<1>9. ASSUME NEW r \in Conn, Given(b, r), Emptied(r, d)
      PROVE  d.fd = c.fd /\ Sound(d) /\ InStep(d, NextByte(k))
  <2>1. Callable(r) /\ Outcome(b, r)
    <3>1. b.len >= 0
      BY <1>3, <1>5, ConnNumbers
    <3>2. CASE b.cgi # "NULL" /\ Answer(b, r)
      BY <1>6, <3>1, <3>2, ServeAnswer
    <3>3. CASE b.cgi = "NULL" /\ Processed(b, r)
      BY <1>4, <1>5, <1>6, <3>1, <3>3, ServeProcessed
    <3> QED BY <1>9, <3>2, <3>3 DEF Given
  <2>2. InStep(r, NextByte(k))
    BY <1>1, <1>3, <1>5, <1>7, <2>1, OutcomeInStep, ConnNumbers
  <2>3. /\ d.fd = r.fd /\ d.buffSize = r.buffSize /\ d.len = r.len
        /\ d.buff = r.buff /\ d.received = r.received
        /\ d.buffLen = 0 /\ d.cgi = r.cgi
        /\ d.answered = r.answered /\ d.flags = r.flags
    BY <1>9 DEF Emptied, SameOwner, SameHandler
  <2>4. Callable(d)
    BY <2>1, <2>3 DEF Callable, Kept, BodyComplete
  <2>5. InStep(d, NextByte(k))
    BY <2>2, <2>3 DEF InStep
  <2>6. ReadsBody(d) => d.buffSize = Limit(d.len) /\ d.buffLen < d.buffSize
    BY <1>3, <1>5, <2>1, <2>3 DEF Outcome, SameRequest, ReadsBody
  <2> QED BY <1>5, <2>1, <2>3, <2>4, <2>5, <2>6, SoundIsCallable DEF Outcome
<1> QED BY <1>1, <1>2, <1>5, <1>8, <1>9

(* The rest of a slot does not matter to Sound and InStep.                 *)
Kin(c, d) ==
  /\ d.fd = c.fd /\ d.len = c.len /\ d.buff = c.buff
  /\ d.buffSize = c.buffSize /\ d.buffLen = c.buffLen
  /\ d.received = c.received /\ d.flags = c.flags /\ d.cgi = c.cgi
  /\ d.answered = c.answered /\ d.cgiData = c.cgiData
  /\ d.closed = c.closed /\ d.faults = c.faults

LEMMA KinServes ==
  ASSUME NEW c, NEW d, NEW k, Kin(c, d), Sound(c), InStep(c, k)
  PROVE  Sound(d) /\ InStep(d, k)
BY DEF Kin, Sound, InStep, Kept, ReadsBody, BodyComplete

LEMMA KinCases ==
  ASSUME NEW c \in Conn
  PROVE  /\ Kin(c, [c EXCEPT !.notif = 0])
         /\ Kin(c, [c EXCEPT !.out = 0])
         /\ Kin(c, httpdFlushSendBuffer(c))
         /\ [c EXCEPT !.notif = 0] \in Conn
         /\ [c EXCEPT !.out = 0] \in Conn
<1>1. Kin(c, [c EXCEPT !.notif = 0]) /\ Kin(c, [c EXCEPT !.out = 0])
  BY SMT DEF Conn, Kin
<1>2. Kin(c, httpdFlushSendBuffer(c))
  <2> DEFINE d == httpdFlushSendBuffer(c)
  <2>1. Flushed(c, d)
    BY FlushCase
  <2> HIDE DEF d
  <2>2. Kin(c, d)
    BY <2>1 DEF Flushed, SameOwner, SameRequest, Kin
  <2> QED BY <2>2 DEF d
<1>3. [c EXCEPT !.notif = 0] \in Conn /\ [c EXCEPT !.out = 0] \in Conn
  BY SMT DEF Conn
<1> QED BY <1>1, <1>2, <1>3

WillRead(s) == InTurn(s) \/ (Ahead(s) /\ readset[s] = "data")

Serves(s) ==
  conn[s].fd = "open" =>
    /\ Sound(conn[s]) /\ InStep(conn[s], client[s])
    /\ WillRead(s) => conn[s].len < 0 \/ client[s].phase = "body"

LEMMA ServeInit == Init => ServeInv
<1> SUFFICES ASSUME Init PROVE ServeInv
  OBVIOUS
<1>1. TidyInv
  BY TidyInit
<1>2. \A s \in Slots : conn[s].fd = "none"
  BY InitConn
<1> QED BY <1>1, <1>2 DEF ServeInv, Init

LEMMA ServeNext ==
  ASSUME EarlyDone = 0, Pipelining = 0
  PROVE  ServeInv /\ [Next]_vars => ServeInv'
<1> SUFFICES ASSUME ServeInv, [Next]_vars PROVE ServeInv'
  OBVIOUS
<1>a. TidyInv /\ TidyInv' /\ TypeOK /\ TypeOK'
  BY TidyNext DEF ServeInv, TidyInv
<1>b. /\ idx \in Slots /\ idx' \in Slots /\ (\A s \in Slots : s \in Nat)
      /\ conn \in [Slots -> Conn] /\ client \in [Slots -> Client]
      /\ \A s \in Slots : conn[s] \in Conn /\ client[s] \in Client
  BY <1>a DEF TypeOK, Slots
<1>c. /\ \A s \in Slots : Serves(s)
      /\ pc # "recv" => segment = "first"
  BY DEF ServeInv, Serves, WillRead
<1> DEFINE Goal == /\ \A s \in Slots : Serves(s)'
                   /\ pc' # "recv" => segment' = "first"
<1> SUFFICES Goal
  BY <1>a DEF ServeInv, Serves, WillRead
<1>d. ASSUME NEW s \in Slots, NEW d \in Conn,
             conn' = [conn EXCEPT ![s] = d], UNCHANGED client,
             d.fd = "open" => Sound(d) /\ InStep(d, client[s]),
             d.fd = "open" /\ WillRead(s)' => d.len < 0 \/ client[s].phase = "body",
             \A t \in Slots \ {s} : WillRead(t)' => WillRead(t)
      PROVE  \A t \in Slots : Serves(t)'
  <2>1. /\ conn'[s] = d
        /\ \A t \in Slots \ {s} : conn'[t] = conn[t]
    BY <1>b, <1>d
  <2> QED BY <1>c, <1>d, <2>1 DEF Serves
<1>e. ASSUME UNCHANGED <<conn, client>>, \A t \in Slots : WillRead(t)' => WillRead(t)
      PROVE  \A t \in Slots : Serves(t)'
  BY <1>c, <1>e DEF Serves
<1>f. ASSUME Advance, pc \in {"sent", "read", "recv", "pending"}, UNCHANGED readset
      PROVE  \A t \in Slots : /\ WillRead(t)' => WillRead(t)
                              /\ pc' # "recv"
                              /\ t = idx => ~WillRead(t)'
  BY <1>b, <1>f DEF Advance, EndOfPass, WillRead, Ahead, InTurn
<1>g. ASSUME AfterRead, pc \in {"read", "recv", "pending"}, UNCHANGED readset
      PROVE  \A t \in Slots : /\ WillRead(t)' => WillRead(t)
                              /\ pc' # "recv"
                              /\ t = idx => ~WillRead(t)'
  <2>1. CASE Advance
    BY <1>f, <1>g, <2>1
  <2>2. CASE pc' = "pending" /\ idx' = idx
    BY <1>b, <1>g, <2>2 DEF WillRead, Ahead, InTurn
  <2> QED BY <1>g, <2>1, <2>2 DEF AfterRead
<1>h. \A s \in Slots : /\ closeConnection(conn[s]) \in Conn
                       /\ closeConnection(conn[s]).fd = "none"
  BY <1>a, <1>b, TidyClose DEF TidyInv
<1>1. CASE BuildFdSets
  <2>1. \A t \in Slots : ~WillRead(t)'
    BY <1>1 DEF BuildFdSets, WillRead, Ahead, InTurn
  <2>2. UNCHANGED <<conn, client, segment>> /\ pc # "recv"
    BY <1>1 DEF BuildFdSets
  <2> QED BY <1>c, <1>e, <2>1, <2>2
<1>2. CASE Select
  <2>1. UNCHANGED <<conn, client, segment>> /\ pc' # "recv" /\ pc # "recv"
    BY <1>2 DEF Select
  <2>2. \A s \in Slots : readset'[s] = "data" => MaySend(s)
    BY <1>2 DEF Select
  <2>3. ASSUME NEW s \in Slots, conn[s].fd = "open", WillRead(s)'
        PROVE  conn[s].len < 0 \/ client[s].phase = "body"
    <3>1. MaySend(s)
      BY <2>1, <2>2, <2>3 DEF WillRead, InTurn
    <3>2. CASE conn[s].len < 0
      BY <3>2
    <3>3. CASE client[s].phase # "wait" /\ ~(conn[s].len < 0)
      BY <1>b, <1>c, <2>3, <3>3, ConnNumbers DEF Serves, InStep
    <3> QED BY <3>1, <3>2, <3>3 DEF MaySend
  <2>4. \A s \in Slots : Serves(s)'
    BY <1>c, <2>1, <2>3 DEF Serves
  <2> QED BY <1>c, <2>1, <2>4
<1>3. CASE Accept
  <2>1. /\ UNCHANGED <<idx, readset, segment>> /\ pc = "accept"
        /\ pc' \in {"sent", "select", "deinit"}
    BY <1>3 DEF Accept, EndOfPass
  <2>2. \A t \in Slots : WillRead(t)' => WillRead(t)
    BY <2>1 DEF WillRead, Ahead, InTurn
  <2>3. CASE UNCHANGED <<conn, client>>
    BY <1>c, <1>e, <2>1, <2>2, <2>3
  <2>4. CASE /\ conn' = [conn EXCEPT ![FirstFree] = httpdConnectCb(@)]
             /\ client' = [client EXCEPT ![FirstFree] = FreshClient]
    <3>1. ASSUME NEW s \in Slots, s # FirstFree
          PROVE  Serves(s)'
      <4>1. conn'[s] = conn[s] /\ client'[s] = client[s]
        BY <1>b, <2>4, <3>1
      <4> QED BY <1>c, <2>2, <4>1 DEF Serves
    <3>2. ASSUME NEW s \in Slots, s = FirstFree
          PROVE  Serves(s)'
      <4> DEFINE d == httpdConnectCb(conn[s])
      <4>1. conn'[s] = d /\ client'[s] = FreshClient
        BY <1>b, <2>4, <3>2
      <4>2. Kept(d) /\ d.cgi = "NULL" /\ d.answered = 0
        BY <1>b, ConnectCase
      <4> HIDE DEF d
      <4>3. d.len < 0 /\ d.flags = {}
        BY <4>2 DEF Kept
      <4>4. Sound(d)
        BY <4>2, <4>3 DEF Sound, ReadsBody, Kept
      <4>5. InStep(d, FreshClient)
        BY <4>2 DEF InStep, FreshClient, Kept
      <4> QED BY <4>1, <4>3, <4>4, <4>5 DEF Serves
    <3> QED BY <1>c, <2>1, <3>1, <3>2
  <2> QED BY <1>3, <2>3, <2>4 DEF Accept
<1>4. CASE SkipEmpty
  BY <1>4, <1>c, <1>e, <1>f DEF SkipEmpty
<1>5. CASE Sent
  <2>1. /\ UNCHANGED <<idx, readset, segment, client>> /\ pc = "sent" /\ pc' = "read"
        /\ conn[idx].fd = "open"
    BY <1>5 DEF Sent
  <2>2. \A t \in Slots : WillRead(t)' => WillRead(t)
    BY <2>1 DEF WillRead, Ahead, InTurn
  <2>3. CASE UNCHANGED conn
    BY <1>c, <1>e, <2>1, <2>2, <2>3
  <2>4. CASE conn[idx].notif = 1 /\ idx \in writeset
    <3> DEFINE c == [conn[idx] EXCEPT !.notif = 0]
    <3>1. c \in Conn /\ Kin(conn[idx], c)
      BY <1>b, KinCases
    <3>2. PICK d \in (IF c.needsClose = 1 THEN {closeConnection(c)}
                                           ELSE httpdContinue(c)) :
            conn' = [conn EXCEPT ![idx] = d]
      BY <1>5, <2>4 DEF Sent
    <3> HIDE DEF c
    <3>3. Sound(c) /\ InStep(c, client[idx])
      BY <1>b, <1>c, <2>1, <3>1, KinServes DEF Serves
    <3>4. CASE d = closeConnection(c)
      <4>1. d \in Conn /\ d.fd = "none"
        BY <3>1, <3>4, CloseCase DEF Closed
      <4> QED BY <1>b, <1>c, <1>d, <2>1, <2>2, <3>2, <4>1
    <3>5. CASE d \in httpdContinue(c)
      <4>1. d \in Conn /\ Sound(d) /\ InStep(d, client[idx])
        BY <1>b, <3>1, <3>3, <3>5, ServeContinue
      <4>2. WillRead(idx) => d.len < 0 \/ client[idx].phase = "body"
        <5>1. CASE conn[idx].len < 0
          <6>1. c.cgi = "NULL" /\ c.flags = {} /\ c.len < 0
            BY <3>1, <3>3, <5>1 DEF Kin, Sound, Kept
          <6>2. d = c
            BY <3>1, <3>5, <6>1, ContinueCase DEF Disconnecting
          <6> QED BY <6>1, <6>2
        <5>2. CASE ~(conn[idx].len < 0)
          BY <1>b, <1>c, <2>1, <5>2 DEF Serves
        <5> QED BY <5>1, <5>2
      <4> QED BY <1>b, <1>c, <1>d, <2>1, <2>2, <3>2, <4>1, <4>2
    <3> QED BY <3>2, <3>4, <3>5
  <2> QED BY <1>5, <2>3, <2>4 DEF Sent
<1>6. CASE NotReadable
  BY <1>6, <1>c, <1>e, <1>f DEF NotReadable
<1>7. CASE ReadStale
  <2>1. /\ Advance /\ UNCHANGED <<client, readset, segment>> /\ pc = "read"
        /\ conn' = [conn EXCEPT ![idx] = closeConnection(conn[idx])]
    BY <1>7 DEF ReadStale
  <2> QED BY <1>b, <1>c, <1>d, <1>f, <1>h, <2>1
<1>8. CASE ReadEnd
  <2>1. /\ AfterRead /\ UNCHANGED <<client, readset, segment>> /\ pc = "read"
        /\ conn' = [conn EXCEPT ![idx] = closeConnection(conn[idx])]
    BY <1>8 DEF ReadEnd
  <2> QED BY <1>b, <1>c, <1>d, <1>g, <1>h, <2>1
<1>9. CASE ReadData
  <2> DEFINE d == [conn[idx] EXCEPT !.out = 0]
  <2>1. d \in Conn /\ Kin(conn[idx], d)
    BY <1>b, KinCases
  <2>2. /\ conn' = [conn EXCEPT ![idx] = d]
        /\ UNCHANGED <<client, readset, idx>>
        /\ pc = "read" /\ pc' = "recv" /\ segment' = "first"
        /\ conn[idx].fd = "open" /\ readset[idx] = "data"
    BY <1>9 DEF ReadData
  <2> HIDE DEF d
  <2>3. Sound(d) /\ InStep(d, client[idx])
    BY <1>b, <1>c, <2>1, <2>2, KinServes DEF Serves
  <2>4. WillRead(idx)
    BY <1>b, <2>2 DEF WillRead, Ahead
  <2>5. d.len < 0 \/ client[idx].phase = "body"
    BY <1>b, <1>c, <2>1, <2>2, <2>4 DEF Serves, Kin
  <2>6. \A t \in Slots \ {idx} : WillRead(t)' => WillRead(t)
    BY <1>b, <2>2 DEF WillRead, Ahead, InTurn
  <2> QED BY <1>b, <1>d, <2>1, <2>2, <2>3, <2>5, <2>6
<1>i. ASSUME NextUnit, segment' # "first"
      PROVE  /\ pc = "recv" /\ pc' = "recv" /\ idx' = idx
             /\ \A t \in Slots : WillRead(t)' => WillRead(t) /\ t # idx
             /\ conn[idx].fd = "open"
  BY <1>a, <1>b, <1>i DEF NextUnit, WillRead, Ahead, InTurn, TidyInv
<1>j. ASSUME UNCHANGED <<conn, client>>, NextUnit, segment' # "first" PROVE Goal
  BY <1>e, <1>i, <1>j
<1>k. ASSUME NEW d \in Conn, NEW k, NextUnit, segment' # "first",
             conn' = [conn EXCEPT ![idx] = d], client' = [client EXCEPT ![idx] = k],
             Sound(d), InStep(d, k)
      PROVE  Goal
  <2>1. ASSUME NEW t \in Slots, t # idx
        PROVE  Serves(t)'
    <3>1. conn'[t] = conn[t] /\ client'[t] = client[t]
      BY <1>b, <1>k, <2>1
    <3> QED BY <1>c, <1>i, <1>k, <3>1 DEF Serves
  <2>2. Serves(idx)'
    <3>1. conn'[idx] = d /\ client'[idx] = k /\ idx' = idx
      BY <1>b, <1>i, <1>k
    <3>2. ~WillRead(idx)'
      BY <1>b, <1>i, <1>k, <3>1
    <3> QED BY <1>k, <3>1, <3>2 DEF Serves
  <2>3. \A t \in Slots : Serves(t)'
    <3>1. idx' = idx
      BY <1>i, <1>k
    <3> QED BY <1>b, <2>1, <2>2, <3>1
  <2> QED BY <1>i, <1>k, <2>3
<1>10. CASE RecvHeaderByte
  <2>1. /\ NextUnit /\ ReadsHeader(conn[idx]) /\ segment' = "more"
        /\ client' = [client EXCEPT ![idx] = NextByte(client[idx])]
        /\ UNCHANGED conn
    BY <1>10 DEF RecvHeaderByte
  <2>2. conn' = [conn EXCEPT ![idx] = conn[idx]]
    BY <1>b, <2>1
  <2>3. Sound(conn[idx]) /\ InStep(conn[idx], client[idx])
    BY <1>b, <1>c, <1>i, <2>1 DEF Serves
  <2>4. client[idx].phase # "body" /\ conn[idx].len < 0
    BY <2>1, <2>3 DEF InStep, ReadsHeader
  <2>5. NextByte(client[idx]).phase = "header"
    BY <2>4 DEF NextByte
  <2>6. InStep(conn[idx], NextByte(client[idx]))
    BY <1>b, <2>4, <2>5, ConnNumbers DEF InStep
  <2> QED BY <1>b, <1>k, <2>1, <2>2, <2>3, <2>6
<1>11. CASE HeaderEnd
  <2>1. /\ NextUnit /\ ReadsHeader(conn[idx]) /\ segment' = "more"
    BY <1>11 DEF HeaderEnd
  <2>2. PICK n \in PostLens, k \in LengthLines, v \in Versions, line \in {"NULL", "set"} :
          /\ \E d \in RecvHeaderEnd(conn[idx], n, k, v, line) :
               conn' = [conn EXCEPT ![idx] = d]
          /\ client' = [client EXCEPT ![idx] = HeadSent(n)]
    BY <1>11 DEF HeaderEnd
  <2>3. PICK d \in RecvHeaderEnd(conn[idx], n, k, v, line) :
          conn' = [conn EXCEPT ![idx] = d]
    BY <2>2
  <2>4. Sound(conn[idx])
    BY <1>b, <1>c, <1>i, <2>1 DEF Serves
  <2>5. d \in Conn /\ Sound(d) /\ InStep(d, HeadSent(n))
    BY <1>b, <2>1, <2>4, ServeHeader
  <2> QED BY <1>k, <2>1, <2>2, <2>3, <2>5
<1>12. CASE HeaderTooLong
  BY <1>12, <1>j DEF HeaderTooLong
<1>13. CASE BodyByte
  <2>1. /\ NextUnit /\ ReadsBody(conn[idx]) /\ segment' = "more"
        /\ client' = [client EXCEPT ![idx] = NextByte(client[idx])]
    BY <1>13 DEF BodyByte
  <2>2. PICK d \in RecvBodyByte(conn[idx]) : conn' = [conn EXCEPT ![idx] = d]
    BY <1>13 DEF BodyByte
  <2>3. Sound(conn[idx]) /\ InStep(conn[idx], client[idx]) /\ conn[idx].fd = "open"
    BY <1>b, <1>c, <1>i, <2>1 DEF Serves
  <2>4. conn[idx].len > 0 /\ ~(conn[idx].len < 0)
    BY <1>b, <2>1, ConnNumbers DEF ReadsBody
  <2>5. client[idx].phase = "body"
    <3>1. CASE segment = "first"
      <4>1. WillRead(idx)
        BY <2>1, <3>1 DEF WillRead, InTurn, NextUnit
      <4> QED BY <1>b, <1>c, <2>3, <2>4, <4>1 DEF Serves
    <3>2. CASE segment = "more"
      <4>1. client[idx].phase # "wait"
        BY <2>1, <3>2 DEF NextUnit, MoreToCome
      <4> QED BY <1>b, <2>3, <2>4, <4>1, ConnNumbers DEF InStep
    <3> QED BY <2>1, <3>1, <3>2 DEF NextUnit
  <2>6. d \in Conn /\ Sound(d) /\ InStep(d, NextByte(client[idx]))
    BY <1>b, <2>1, <2>3, <2>5, ServeByte
  <2> QED BY <1>k, <2>1, <2>2, <2>6
<1>14. CASE UnexpectedData
  BY <1>14, <1>j DEF UnexpectedData
<1>15. CASE RecvReturns
  <2> DEFINE c == httpdFlushSendBuffer(conn[idx])
             d == IF segment = "error" THEN closeConnection(c) ELSE c
  <2>1. c \in Conn /\ Kin(conn[idx], c)
    BY <1>b, FlushCase, KinCases
  <2>2. /\ conn' = [conn EXCEPT ![idx] = d] /\ segment' = "first"
        /\ AfterRead /\ UNCHANGED <<client, readset>> /\ pc = "recv"
    BY <1>15 DEF RecvReturns
  <2>3. Sound(c) /\ InStep(c, client[idx])
    BY <1>a, <1>b, <1>c, <2>1, <2>2, KinServes DEF Serves, TidyInv
  <2> HIDE DEF c
  <2>4. d \in Conn /\ (d.fd = "open" => Sound(d) /\ InStep(d, client[idx]))
    <3>1. closeConnection(c) \in Conn /\ closeConnection(c).fd = "none"
      BY <2>1, CloseCase DEF Closed
    <3> QED BY <2>1, <2>3, <3>1
  <2> HIDE DEF d
  <2> QED BY <1>b, <1>d, <1>g, <2>2, <2>4
<1>16. CASE SslReadAgain
  <2>1. pc = "pending" /\ UNCHANGED <<client, readset, segment>>
    BY <1>16 DEF SslReadAgain
  <2>2. CASE /\ conn[idx].fd = "open" /\ MoreToCome(idx)
             /\ conn' = [conn EXCEPT ![idx].out = 0]
             /\ pc' = "recv" /\ idx' = idx
    <3> DEFINE d == [conn[idx] EXCEPT !.out = 0]
    <3>1. d \in Conn /\ Kin(conn[idx], d)
      BY <1>b, KinCases
    <3>2. conn' = [conn EXCEPT ![idx] = d]
      BY <2>2
    <3> HIDE DEF d
    <3>3. Sound(d) /\ InStep(d, client[idx])
      BY <1>b, <1>c, <2>2, <3>1, KinServes DEF Serves
    <3>4. d.len < 0 \/ client[idx].phase = "body"
      BY <1>b, <2>2, <3>1, <3>3, ConnNumbers DEF InStep, MoreToCome
    <3>5. \A t \in Slots \ {idx} : WillRead(t)' => WillRead(t)
      BY <1>b, <2>1, <2>2 DEF WillRead, Ahead, InTurn
    <3> QED BY <1>b, <1>d, <2>1, <2>2, <3>1, <3>2, <3>3, <3>4, <3>5
  <2>3. CASE conn' = [conn EXCEPT ![idx] = closeConnection(@)] /\ AfterRead
    BY <1>b, <1>c, <1>d, <1>g, <1>h, <2>1, <2>3
  <2> QED BY <1>16, <2>2, <2>3 DEF SslReadAgain
<1>17. CASE Deinit
  <2>1. pc = "deinit" /\ pc' \in {"deinit", "exited"} /\ UNCHANGED <<client, segment>>
    BY <1>17 DEF Deinit
  <2>2. \A t \in Slots : ~WillRead(t)'
    BY <2>1 DEF WillRead, Ahead, InTurn
  <2>3. CASE UNCHANGED conn
    BY <1>c, <1>e, <2>1, <2>2, <2>3
  <2>4. CASE conn' = [conn EXCEPT ![idx] = closeConnection(conn[idx])]
    BY <1>b, <1>c, <1>d, <1>h, <2>1, <2>2, <2>4
  <2> QED BY <1>17, <2>3, <2>4 DEF Deinit
<1>18. ASSUME NEW s \in Slots, Resume(s) PROVE Goal
  <2>1. PICK d \in httpdContinue(conn[s]) : conn' = [conn EXCEPT ![s] = d]
    BY <1>18 DEF Resume
  <2>2. /\ UNCHANGED <<client, pc, idx, readset, segment>>
        /\ conn[s].fd = "open" /\ conn[s].cgi = "handler"
    BY <1>18 DEF Resume, taskVars
  <2>3. Sound(conn[s]) /\ InStep(conn[s], client[s])
    BY <1>c, <2>2 DEF Serves
  <2>4. d \in Conn /\ Sound(d) /\ InStep(d, client[s])
    BY <1>b, <2>1, <2>3, ServeContinue
  <2>5. \A t \in Slots : WillRead(t)' => WillRead(t)
    BY <2>2 DEF WillRead, Ahead, InTurn
  <2>6. WillRead(s) => client[s].phase = "body"
    BY <1>c, <2>2, <2>3 DEF Serves, Sound
  <2> QED BY <1>c, <1>d, <2>1, <2>2, <2>4, <2>5, <2>6
<1>19. CASE UNCHANGED vars
  <2>1. UNCHANGED <<conn, client, pc, idx, readset, segment>>
    BY <1>19 DEF vars, taskVars
  <2>2. \A t \in Slots : WillRead(t)' => WillRead(t)
    BY <2>1 DEF WillRead, Ahead, InTurn
  <2> QED BY <1>c, <1>e, <2>1, <2>2
<1> QED
  BY <1>1, <1>2, <1>3, <1>4, <1>5, <1>6, <1>7, <1>8, <1>9, <1>10, <1>11,
     <1>12, <1>13, <1>14, <1>15, <1>16, <1>17, <1>18, <1>19
  DEF Next, ServerTask

LEMMA ServeAlways ==
  ASSUME EarlyDone = 0, Pipelining = 0
  PROVE  Spec => []ServeInv
<1>1. ServeInv /\ [Next]_vars => ServeInv'
  BY ServeNext
<1> QED BY <1>1, ServeInit, PTL DEF Spec

(* A byte that is read in the mode of bodies is one the client owes.       *)
LEMMA BodyIsOwed ==
  ASSUME Pipelining = 0, ServeInv, BodyByte
  PROVE  /\ pc = "recv" /\ ReadsBody(conn[idx]) /\ conn[idx].fd = "open"
         /\ Sound(conn[idx]) /\ InStep(conn[idx], client[idx])
         /\ client[idx].phase = "body" /\ ~BodyComplete(conn[idx])
         /\ conn[idx].answered = 0
<1>1. /\ idx \in Slots /\ conn[idx] \in Conn
      /\ pc = "recv" /\ ReadsBody(conn[idx]) /\ conn[idx].fd = "open"
  BY DEF BodyByte, NextUnit, ServeInv, TidyInv, TypeOK
<1>2. Sound(conn[idx]) /\ InStep(conn[idx], client[idx])
  BY <1>1 DEF ServeInv
<1>3. conn[idx].len > 0 /\ ~(conn[idx].len < 0)
  BY <1>1, ConnNumbers DEF ReadsBody
<1>4. client[idx].phase = "body"
  <2>1. CASE segment = "first"
    BY <1>1, <1>3, <2>1 DEF ServeInv, InTurn
  <2>2. CASE segment = "more"
    <3>1. client[idx].phase # "wait"
      BY <2>2 DEF BodyByte, NextUnit, MoreToCome
    <3> QED BY <1>1, <1>2, <1>3, <3>1, ConnNumbers DEF InStep
  <2> QED BY <2>1, <2>2 DEF BodyByte, NextUnit
<1>5. ~BodyComplete(conn[idx])
  BY <1>1, <1>2, <1>3, <1>4, ConnNumbers DEF InStep, BodyComplete
<1> QED BY <1>1, <1>2, <1>3, <1>4, <1>5, ConnNumbers DEF Sound

(* A kept connection starts its next request clean, whatever the bodies    *)
(* and the handlers are, unless a handler answers before it has the body   *)
(* or a client pipelines.                                                  *)
THEOREM NextRequestIsClean ==
  ASSUME EarlyDone = 0, Pipelining = 0
  PROVE  Spec => []KeepAliveIsClean
<1>1. ServeInv => KeepAliveIsClean
  <2> SUFFICES ASSUME ServeInv, NEW s \in Slots, conn[s].fd = "open", conn[s].len < 0
               PROVE  /\ conn[s].flags = {} /\ conn[s].cgi = "NULL"
                      /\ conn[s].buff = "NULL" /\ conn[s].buffLen = 0
                      /\ conn[s].received = 0
    BY DEF KeepAliveIsClean
  <2>1. Sound(conn[s])
    BY DEF ServeInv
  <2> QED BY <2>1 DEF Sound, Kept
<1>2. Spec => []ServeInv
  BY ServeAlways
<1> QED BY <1>1, <1>2, PTL

(* The POST buffer holds what is written to it, for every HTTPD_MAX_POST_LEN *)
(* and every Content-Length, the multiples of the buffer included.         *)
THEOREM PostBufferHolds ==
  ASSUME EarlyDone = 0, Pipelining = 0
  PROVE  Spec => []PostBufferBound
<1>1. ServeInv => PostBufferBound
  <2> SUFFICES ASSUME ServeInv, NEW s \in Slots, ReadsBody(conn[s])
               PROVE  conn[s].buffLen < conn[s].buffSize
    BY DEF PostBufferBound
  <2>1. conn[s] \in Conn /\ Tidy(conn[s])
    BY DEF ServeInv, TidyInv, TypeOK
  <2>2. conn[s].fd = "open"
    BY <2>1, ConnIsVals DEF Vals, Tidy, ReadsBody
  <2> QED BY <2>2 DEF ServeInv, Sound
<1>2. Spec => []ServeInv
  BY ServeAlways
<1> QED BY <1>1, <1>2, PTL

-----------------------------------------------------------------------------
(* The request cycle: one slot moves at a time, along an arrow.            *)

LEMMA FirstFreeIsFree == Free # {} => FirstFree \in Free
<1> SUFFICES ASSUME Free # {} PROVE FirstFree \in Free
  OBVIOUS
<1>1. Free \subseteq Nat
  BY DEF Free, Slots
<1>2. PICK x \in Free : \A y \in Free : ~ (<<y, x>> \in OpToRel(<, Nat))
  BY <1>1, NatLessThanWellFounded, WFMin, Zenon
<1>3. ASSUME NEW y \in Free
      PROVE  ~ (y < x)
  <2>1. <<y, x>> \in Nat \X Nat
    BY <1>1
  <2>2. <<y, x>>[1] = y /\ <<y, x>>[2] = x
    OBVIOUS
  <2> QED BY <1>2, <2>1, <2>2, Zenon DEF OpToRel
<1>4. \A y \in Free : x <= y
  BY <1>1, <1>3
<1> QED BY <1>4, Zenon DEF FirstFree

(* The phases an open connection may go to.                                *)
Follows(c, d) ==
  \/ Phase(d) = Phase(c)
  \/ Phase(c) \in {"reading", "handling"} /\ d.fd = "open"
  \/ d.fd = "none"

LEMMA PhaseOf ==
  \A c \in Conn :
    /\ Phase(c) \in {"closed", "reading", "handling", "closing"}
    /\ Phase(c) = "closed" <=> c.fd = "none"
    /\ c.fd = "open" => c.fd # "none"
    /\ c.fd = "open" /\ "DISCONAFTERSENT" \notin c.flags
         => Phase(c) \in {"reading", "handling"}
    /\ c.fd = "open" /\ c.cgi # "NULL" => Phase(c) = "handling"
BY ConnIsVals DEF Phase, Vals

LEMMA KinPhase ==
  ASSUME NEW c, NEW d, Kin(c, d)
  PROVE  Phase(d) = Phase(c)
BY DEF Kin, Phase

LEMMA FollowsMove ==
  ASSUME NEW c \in Conn, NEW d \in Conn, Follows(c, d), c.fd = "open"
  PROVE  Phase(d) = Phase(c) \/ <<Phase(c), Phase(d)>> \in Cycle!Moves
<1>1. /\ Phase(c) \in {"reading", "handling", "closing"}
      /\ Phase(d) \in {"closed", "reading", "handling", "closing"}
      /\ Phase(d) = "closed" <=> d.fd = "none"
      /\ d.fd = "open" => d.fd # "none"
  BY PhaseOf
<1> QED BY <1>1 DEF Follows, Cycle!Moves

LEMMA FollowsContinue ==
  ASSUME NEW c \in Conn, NEW d \in httpdContinue(c), c.fd = "open"
  PROVE  d \in Conn /\ Follows(c, d)
<1>1. d \in Conn
  BY ContinueCase
<1>2. CASE Disconnecting(c, d)
  <2>1. Phase(d) = Phase(c)
    BY <1>2 DEF Disconnecting, Phase
  <2> QED BY <1>1, <2>1 DEF Follows
<1>3. CASE d = c
  BY <1>1, <1>3 DEF Follows
<1>4. ASSUME NEW e \in Conn, Resumed(c, e), Answer(e, d), c.cgi # "NULL"
      PROVE  Follows(c, d)
  <2>1. d.fd = "open" /\ Phase(c) = "handling"
    BY <1>4, PhaseOf DEF Resumed, Answer, SameOwner
  <2> QED BY <2>1 DEF Follows
<1> QED BY <1>1, <1>2, <1>3, <1>4, ContinueCase

LEMMA CycleStart == Init => Cycle!CycleInit
<1> SUFFICES ASSUME Init PROVE Cycle!CycleInit
  OBVIOUS
<1>1. TypeOK /\ \A s \in Slots : conn[s].fd = "none"
  BY InitType, InitConn
<1> QED BY <1>1, PhaseOf DEF Cycle!CycleInit, TypeOK

Arrow(s, d) ==
  Phase(d) = Phase(conn[s]) \/ <<Phase(conn[s]), Phase(d)>> \in Cycle!Moves

LEMMA CycleStep ==
  ASSUME EarlyDone = 0, Pipelining = 0
  PROVE  ServeInv /\ [Next]_vars
           => [Cycle!CycleNext]_([s \in Slots |-> Phase(conn[s])])
<1> SUFFICES ASSUME ServeInv, [Next]_vars
             PROVE  \/ Cycle!CycleNext
                    \/ [s \in Slots |-> Phase(conn[s])]' = [s \in Slots |-> Phase(conn[s])]
  BY Zenon
<1> DEFINE ph == [s \in Slots |-> Phase(conn[s])]
           Goal == Cycle!CycleNext \/ ph' = ph
<1> SUFFICES Goal
  OBVIOUS
<1>a. /\ idx \in Slots
      /\ conn \in [Slots -> Conn] /\ client \in [Slots -> Client]
      /\ \A s \in Slots : conn[s] \in Conn /\ client[s] \in Client
  BY DEF ServeInv, TidyInv, TypeOK
<1>b. \A s \in Slots : conn[s].fd = "open" => Sound(conn[s]) /\ InStep(conn[s], client[s])
  BY DEF ServeInv
<1>c. UNCHANGED conn => Goal
  OBVIOUS
<1>d. ASSUME NEW s \in Slots, NEW d \in Conn, conn' = [conn EXCEPT ![s] = d], Arrow(s, d)
      PROVE  Goal
  <2>1. ph' = [ph EXCEPT ![s] = Phase(d)]
    BY <1>a, <1>d
  <2>2. CASE Phase(d) = Phase(conn[s])
    BY <2>1, <2>2
  <2>3. CASE <<Phase(conn[s]), Phase(d)>> \in Cycle!Moves
    <3>1. Phase(d) \in Cycle!Phases /\ ph[s] = Phase(conn[s])
      BY PhaseOf, <1>d DEF Cycle!Phases
    <3>2. Cycle!Move(s)
      BY <2>1, <2>3, <3>1, Zenon DEF Cycle!Move
    <3> QED BY <3>2 DEF Cycle!CycleNext
  <2> QED BY <1>d, <2>2, <2>3 DEF Arrow
<1>e. ASSUME NEW s \in Slots, NEW c \in Conn, c = conn[s] \/ Kin(conn[s], c),
             conn' = [conn EXCEPT ![s] = closeConnection(c)]
      PROVE  Goal
  <2>1. closeConnection(c) \in Conn /\ closeConnection(c).fd = "none"
    BY <1>e, CloseCase DEF Closed
  <2>2. Phase(closeConnection(c)) = "closed"
    BY <2>1, PhaseOf
  <2>3. Phase(conn[s]) \in {"closed", "reading", "handling", "closing"}
    BY <1>a, PhaseOf
  <2>4. Arrow(s, closeConnection(c))
    BY <2>2, <2>3 DEF Arrow, Cycle!Moves
  <2> QED BY <1>d, <1>e, <2>1, <2>4
<1>f. ASSUME NEW s \in Slots, NEW d \in Conn, conn' = [conn EXCEPT ![s] = d],
             Kin(conn[s], d)
      PROVE  Goal
  BY <1>d, <1>f, KinPhase DEF Arrow
<1>1. CASE BuildFdSets
  BY <1>1, <1>c DEF BuildFdSets
<1>2. CASE Select
  BY <1>2, <1>c DEF Select
<1>3. CASE Accept
  <2>1. CASE conn' = [conn EXCEPT ![FirstFree] = httpdConnectCb(@)]
    <3> DEFINE f == FirstFree
               d == httpdConnectCb(conn[f])
    <3>1. f \in Slots /\ conn[f].fd # "open"
      BY <1>3, FirstFreeIsFree DEF Accept, ServeInv, TidyInv, Free, Open
    <3> HIDE DEF f
    <3>2. d \in Conn /\ d.fd = "open" /\ d.cgi = "NULL" /\ Kept(d)
      BY <1>a, <3>1, ConnectCase
    <3>3. Phase(conn[f]) = "closed" /\ conn' = [conn EXCEPT ![f] = d]
      BY <1>a, <2>1, <3>1, PhaseOf, ConnIsVals DEF Vals, f
    <3> HIDE DEF d
    <3>4. Phase(d) = "reading"
      BY <3>2 DEF Phase, Kept
    <3>5. Arrow(f, d)
      BY <3>3, <3>4 DEF Arrow, Cycle!Moves
    <3> QED BY <1>d, <3>1, <3>2, <3>3, <3>5
  <2> QED BY <1>3, <1>c, <2>1 DEF Accept
<1>4. CASE SkipEmpty
  BY <1>4, <1>c DEF SkipEmpty
<1>5. CASE Sent
  <2> DEFINE c == [conn[idx] EXCEPT !.notif = 0]
  <2>1. c \in Conn /\ Kin(conn[idx], c)
    BY <1>a, KinCases
  <2>2. CASE UNCHANGED conn
    BY <1>c, <2>2
  <2>3. CASE \E d \in (IF c.needsClose = 1 THEN {closeConnection(c)}
                                           ELSE httpdContinue(c)) :
               conn' = [conn EXCEPT ![idx] = d]
    <3>1. PICK d \in (IF c.needsClose = 1 THEN {closeConnection(c)}
                                          ELSE httpdContinue(c)) :
            conn' = [conn EXCEPT ![idx] = d]
      BY <2>3
    <3>2. c.fd = "open" /\ Phase(c) = Phase(conn[idx])
      BY <1>5, <2>1, KinPhase DEF Sent, Kin
    <3> HIDE DEF c
    <3>3. CASE d = closeConnection(c)
      BY <1>a, <1>e, <2>1, <3>1, <3>3
    <3>4. CASE d \in httpdContinue(c)
      <4>1. d \in Conn /\ Follows(c, d)
        BY <2>1, <3>2, <3>4, FollowsContinue
      <4>2. Arrow(idx, d)
        BY <2>1, <3>2, <4>1, FollowsMove DEF Arrow
      <4> QED BY <1>a, <1>d, <3>1, <4>1, <4>2
    <3> QED BY <3>1, <3>3, <3>4
  <2> QED BY <1>5, <2>2, <2>3 DEF Sent
<1>6. CASE NotReadable
  BY <1>6, <1>c DEF NotReadable
<1>7. CASE ReadStale
  BY <1>7, <1>a, <1>e DEF ReadStale
<1>8. CASE ReadEnd
  BY <1>8, <1>a, <1>e DEF ReadEnd
<1>9. CASE ReadData
  BY <1>9, <1>a, <1>f, KinCases DEF ReadData
<1>10. CASE RecvHeaderByte
  BY <1>10, <1>c DEF RecvHeaderByte
<1>g. ASSUME pc = "recv", NEW d \in Conn, d.fd = "open",
             "DISCONAFTERSENT" \notin conn[idx].flags,
             conn' = [conn EXCEPT ![idx] = d]
      PROVE  Goal
  <2>1. conn[idx].fd = "open"
    BY <1>g DEF ServeInv, TidyInv
  <2>2. Phase(conn[idx]) \in {"reading", "handling"}
    BY <1>a, <1>g, <2>1, PhaseOf
  <2>3. Arrow(idx, d)
    BY <1>a, <1>g, <2>1, <2>2, FollowsMove DEF Follows, Arrow
  <2> QED BY <1>a, <1>d, <1>g, <2>3
<1>11. CASE HeaderEnd
  <2>1. pc = "recv" /\ ReadsHeader(conn[idx]) /\ conn[idx].fd = "open"
    BY <1>11 DEF HeaderEnd, NextUnit, ServeInv, TidyInv
  <2>2. PICK n \in PostLens, k \in LengthLines, v \in Versions, line \in {"NULL", "set"} :
          \E d \in RecvHeaderEnd(conn[idx], n, k, v, line) :
            conn' = [conn EXCEPT ![idx] = d]
    BY <1>11 DEF HeaderEnd
  <2>3. PICK d \in RecvHeaderEnd(conn[idx], n, k, v, line) :
          conn' = [conn EXCEPT ![idx] = d]
    BY <2>2
  <2>4. Sound(conn[idx])
    BY <1>a, <1>b, <2>1
  <2>5. d \in Conn /\ d.fd = "open"
    BY <1>a, <2>1, <2>4, ServeHeader
  <2>6. "DISCONAFTERSENT" \notin conn[idx].flags
    BY <2>1, <2>4 DEF ReadsHeader, Sound, Kept
  <2> QED BY <1>g, <2>1, <2>3, <2>5, <2>6
<1>12. CASE HeaderTooLong
  BY <1>12, <1>c DEF HeaderTooLong
<1>13. CASE BodyByte
  <2>1. /\ pc = "recv" /\ ReadsBody(conn[idx])
        /\ Sound(conn[idx]) /\ InStep(conn[idx], client[idx])
        /\ client[idx].phase = "body" /\ ~BodyComplete(conn[idx])
    BY <1>13, BodyIsOwed
  <2>2. PICK d \in RecvBodyByte(conn[idx]) : conn' = [conn EXCEPT ![idx] = d]
    BY <1>13 DEF BodyByte
  <2>3. d \in Conn /\ d.fd = "open"
    BY <1>a, <2>1, BodyIsOwed, <1>13, ServeByte
  <2>4. "DISCONAFTERSENT" \notin conn[idx].flags
    BY <2>1 DEF Sound
  <2> QED BY <1>g, <2>1, <2>2, <2>3, <2>4
<1>14. CASE UnexpectedData
  BY <1>14, <1>c DEF UnexpectedData
<1>15. CASE RecvReturns
  <2> DEFINE c == httpdFlushSendBuffer(conn[idx])
  <2>1. c \in Conn /\ Kin(conn[idx], c)
    BY <1>a, FlushCase, KinCases
  <2>2. conn' = [conn EXCEPT ![idx] = IF segment = "error"
                                      THEN closeConnection(c) ELSE c]
    BY <1>15 DEF RecvReturns
  <2> HIDE DEF c
  <2>3. CASE segment = "error"
    BY <1>a, <1>e, <2>1, <2>2, <2>3
  <2>4. CASE segment # "error"
    BY <1>a, <1>f, <2>1, <2>2, <2>4
  <2> QED BY <2>3, <2>4
<1>16. CASE SslReadAgain
  BY <1>16, <1>a, <1>e, <1>f, KinCases DEF SslReadAgain
<1>17. CASE Deinit
  BY <1>17, <1>a, <1>c, <1>e DEF Deinit
<1>18. ASSUME NEW s \in Slots, Resume(s) PROVE Goal
  <2>1. PICK d \in httpdContinue(conn[s]) : conn' = [conn EXCEPT ![s] = d]
    BY <1>18 DEF Resume
  <2>2. conn[s].fd = "open"
    BY <1>18 DEF Resume
  <2>3. d \in Conn /\ Follows(conn[s], d)
    BY <1>a, <2>1, <2>2, FollowsContinue
  <2>4. Arrow(s, d)
    BY <1>a, <2>2, <2>3, FollowsMove DEF Arrow
  <2> QED BY <1>d, <2>1, <2>3, <2>4
<1>19. CASE UNCHANGED vars
  BY <1>19, <1>c DEF vars
<1> QED
  BY <1>1, <1>2, <1>3, <1>4, <1>5, <1>6, <1>7, <1>8, <1>9, <1>10, <1>11,
     <1>12, <1>13, <1>14, <1>15, <1>16, <1>17, <1>18, <1>19
  DEF Next, ServerTask

(* Every slot goes through the request cycle: a connection marked to be    *)
(* closed after its response does nothing else any more, and each one that *)
(* was accepted is disconnected before its slot is used again.             *)
THEOREM ServerImplementsCycle ==
  ASSUME EarlyDone = 0, Pipelining = 0
  PROVE  Spec => CycleSpec
<1>1. ServeInv /\ [Next]_vars
        => [Cycle!CycleNext]_([s \in Slots |-> Phase(conn[s])])
  BY CycleStep
<1>2. Spec => []ServeInv
  BY ServeAlways
<1> QED BY <1>1, <1>2, CycleStart, PTL DEF Spec, CycleSpec, Cycle!CycleSpec

-----------------------------------------------------------------------------
(* The faults of a close, if FD_ISSET(-1, ..) is 0 and SSL is not used.    *)

(* No fault of a close happened, and none happens if it is closed now.     *)
Good(c) ==
  /\ c.fd = "open" => c.closed = 0
  /\ c.fd = "open" /\ c.cgi = "handler" => c.cgiData = "live"
  /\ c.faults \cap CloseFaults = {}

FaultInv ==
  /\ ServeInv
  /\ pc # "pending"
  /\ \A s \in Slots : Good(conn[s])

LEMMA GoodKin ==
  ASSUME NEW c, NEW d, Kin(c, d), Good(c)
  PROVE  Good(d)
BY DEF Kin, Good

LEMMA GoodAnswer ==
  ASSUME NEW e \in Conn, NEW d \in Conn, Answer(e, d), e.answered = 0,
         e.closed = 0, e.faults \cap CloseFaults = {}
  PROVE  Good(d)
<1>1. d.closed = 0 /\ d.faults = e.faults
  BY DEF Answer, SameOwner, NewFaults
<1>2. d.cgi = "handler" => d.cgiData = "live"
  BY DEF Answer, More, Done
<1> QED BY <1>1, <1>2 DEF Good

LEMMA GoodProcessed ==
  ASSUME NEW c \in Conn, NEW d \in Conn, Processed(c, d), c.answered = 0,
         c.fd = "open", Good(c)
  PROVE  Good(d)
<1>1. ASSUME NEW e \in Conn, Dispatched(c, e), Answer(e, d)
      PROVE  Good(d)
  <2>1. e.answered = 0 /\ e.closed = 0 /\ e.faults = c.faults
    BY <1>1 DEF Dispatched, SameOwner, Good
  <2> QED BY <1>1, <2>1, GoodAnswer DEF Good
<1> QED BY <1>1 DEF Processed

LEMMA GoodContinue ==
  ASSUME NEW c \in Conn, NEW d \in httpdContinue(c), c.fd = "open", Sound(c), Good(c)
  PROVE  d \in Conn /\ Good(d)
<1>1. d \in Conn
  BY ContinueCase
<1>2. CASE Disconnecting(c, d)
  BY <1>1, <1>2 DEF Disconnecting, Good
<1>3. ASSUME NEW e \in Conn, Resumed(c, e), Answer(e, d), c.cgi # "NULL"
      PROVE  Good(d)
  <2>1. e.answered = 0 /\ e.closed = 0
    BY <1>3 DEF Resumed, SameOwner, Sound, Good
  <2>2. e.faults \subseteq c.faults \cup {"given twice"}
    BY <1>3 DEF Resumed
  <2>3. e.faults \cap CloseFaults = {}
    BY <2>2 DEF Good, CloseFaults
  <2> QED BY <1>1, <1>3, <2>1, <2>3, GoodAnswer
<1> QED BY <1>1, <1>2, <1>3, ContinueCase

LEMMA GoodHeader ==
  ASSUME NEW c \in Conn, NEW n \in PostLens, NEW k \in LengthLines, NEW v \in Versions,
         NEW line \in {"NULL", "set"}, NEW d \in RecvHeaderEnd(c, n, k, v, line),
         Sound(c), ReadsHeader(c), c.fd = "open", Good(c)
  PROVE  Good(d)
<1>1. PICK p \in Conn :
        Begun(c, p, n) /\ (IF n = 0 THEN Processed(p, d) ELSE d = p)
  BY HeaderCase
<1>2. d \in Conn
  BY HeaderCase
<1>3. p.answered = 0 /\ p.fd = "open" /\ Good(p)
  BY <1>1 DEF Begun, Good, Losses, CloseFaults
<1> QED BY <1>1, <1>2, <1>3, GoodProcessed

LEMMA GoodByte ==
  ASSUME NEW c \in Conn, NEW d \in RecvBodyByte(c), c.answered = 0,
         c.fd = "open", Good(c)
  PROVE  Good(d)
<1>1. d \in Conn
  BY ByteCase
<1>2. PICK b \in Conn :
        /\ ByteStored(c, b)
        /\ \/ ~Full(b) /\ d = b
           \/ Full(b) /\ \E r \in Conn : Given(b, r) /\ Emptied(r, d)
  BY ByteCase
<1>3. b.answered = 0 /\ b.fd = "open" /\ Good(b)
  BY <1>2 DEF ByteStored, SameOwner, SameHandler, Good
<1>4. ASSUME NEW r \in Conn, Given(b, r), Emptied(r, d)
      PROVE  Good(d)
  <2>1. Good(r)
    <3>1. CASE Answer(b, r)
      BY <1>3, <3>1, GoodAnswer DEF Good
    <3>2. CASE Processed(b, r)
      BY <1>3, <3>2, GoodProcessed
    <3> QED BY <1>4, <3>1, <3>2 DEF Given
  <2> QED BY <1>4, <2>1 DEF Emptied, SameOwner, SameHandler, Good
<1> QED BY <1>2, <1>3, <1>4

LEMMA GoodClose ==
  ASSUME NEW c \in Conn, c.fd = "open", Sound(c), Good(c)
  PROVE  closeConnection(c) \in Conn /\ Good(closeConnection(c))
<1> DEFINE d == closeConnection(c)
<1>1. d \in Conn /\ Closed(c, d)
  BY CloseCase
<1> HIDE DEF d
<1>2. Unmarked(c)
  BY DEF Unmarked, Sound, Good
<1>3. d.fd # "open" /\ d.faults = c.faults
  BY <1>1, <1>2 DEF Closed
<1> QED BY <1>1, <1>3 DEF Good, d

LEMMA FaultInit == Init => FaultInv
<1> SUFFICES ASSUME Init PROVE FaultInv
  OBVIOUS
<1>1. \A s \in Slots : conn[s].fd = "none" /\ conn[s].faults = {}
  BY InitConn
<1> QED BY <1>1, ServeInit DEF FaultInv, Good, Init

LEMMA FaultNext ==
  ASSUME EarlyDone = 0, Pipelining = 0,
         StaleFdIsSet \subseteq {0}, SslPending \subseteq {0}
  PROVE  FaultInv /\ [Next]_vars => FaultInv'
<1> SUFFICES ASSUME FaultInv, [Next]_vars PROVE FaultInv'
  OBVIOUS
<1> DEFINE Goal == pc' # "pending" /\ \A s \in Slots : Good(conn'[s])
<1>a. /\ idx \in Slots /\ conn \in [Slots -> Conn]
      /\ \A s \in Slots : conn[s] \in Conn /\ client[s] \in Client
      /\ pc = "recv" => conn[idx].fd = "open"
  BY DEF FaultInv, ServeInv, TidyInv, TypeOK
<1>b. \A s \in Slots :
        /\ Good(conn[s])
        /\ conn[s].fd = "open" => Sound(conn[s]) /\ InStep(conn[s], client[s])
  BY DEF FaultInv, ServeInv
<1>c. pc # "pending" /\ ServeInv'
  BY ServeNext DEF FaultInv
<1> SUFFICES Goal
  BY <1>c DEF FaultInv
<1>d. ASSUME UNCHANGED conn, pc' # "pending" PROVE Goal
  BY <1>b, <1>d
<1>e. ASSUME NEW s \in Slots, NEW d, conn' = [conn EXCEPT ![s] = d], Good(d),
             pc' # "pending"
      PROVE  Goal
  <2>1. \A t \in Slots : conn'[t] = IF t = s THEN d ELSE conn[t]
    BY <1>a, <1>e
  <2> QED BY <1>b, <1>e, <2>1
<1>f. Advance => pc' # "pending"
  BY DEF Advance, EndOfPass
<1>g. AfterRead => pc' # "pending"
  BY <1>f DEF AfterRead
<1>1. CASE BuildFdSets
  BY <1>1, <1>d DEF BuildFdSets
<1>2. CASE Select
  BY <1>2, <1>d DEF Select
<1>3. CASE Accept
  <2>1. pc' # "pending"
    BY <1>3 DEF Accept, EndOfPass
  <2>2. CASE conn' = [conn EXCEPT ![FirstFree] = httpdConnectCb(@)]
    <3> DEFINE f == FirstFree
               d == httpdConnectCb(conn[f])
    <3>1. f \in Slots
      BY <1>3, FirstFreeIsFree DEF Accept, FaultInv, ServeInv, TidyInv, Free
    <3> HIDE DEF f
    <3>2. d.closed = 0 /\ d.cgi = "NULL" /\ d.faults \subseteq conn[f].faults
      BY <1>a, <3>1, ConnectCase
    <3>3. conn' = [conn EXCEPT ![f] = d]
      BY <2>2 DEF f
    <3> HIDE DEF d
    <3>4. Good(d)
      BY <1>b, <3>1, <3>2 DEF Good
    <3> QED BY <1>e, <2>1, <3>1, <3>3, <3>4
  <2> QED BY <1>3, <1>d, <2>1, <2>2 DEF Accept
<1>4. CASE SkipEmpty
  BY <1>4, <1>d, <1>f DEF SkipEmpty
<1>5. CASE Sent
  <2> DEFINE c == [conn[idx] EXCEPT !.notif = 0]
  <2>1. pc' # "pending" /\ conn[idx].fd = "open"
    BY <1>5 DEF Sent
  <2>2. c \in Conn /\ Kin(conn[idx], c)
    BY <1>a, KinCases
  <2>3. CASE \E d \in (IF c.needsClose = 1 THEN {closeConnection(c)}
                                           ELSE httpdContinue(c)) :
               conn' = [conn EXCEPT ![idx] = d]
    <3>1. PICK d \in (IF c.needsClose = 1 THEN {closeConnection(c)}
                                          ELSE httpdContinue(c)) :
            conn' = [conn EXCEPT ![idx] = d]
      BY <2>3
    <3> HIDE DEF c
    <3>2. Good(c) /\ Sound(c) /\ c.fd = "open"
      BY <1>a, <1>b, <2>1, <2>2, GoodKin, KinServes DEF Kin
    <3>3. Good(d)
      BY <2>2, <3>1, <3>2, GoodClose, GoodContinue
    <3> QED BY <1>a, <1>e, <2>1, <3>1, <3>3
  <2> QED BY <1>5, <1>d, <2>1, <2>3 DEF Sent
<1>6. CASE NotReadable
  BY <1>6, <1>d, <1>f DEF NotReadable
<1>7. CASE ReadStale
  BY <1>7 DEF ReadStale
<1>8. CASE ReadEnd
  <2>1. /\ conn[idx].fd = "open" /\ pc' # "pending"
        /\ conn' = [conn EXCEPT ![idx] = closeConnection(conn[idx])]
    BY <1>8, <1>g DEF ReadEnd
  <2> QED BY <1>a, <1>b, <1>e, <2>1, GoodClose
<1>9. CASE ReadData
  <2>1. pc' # "pending" /\ conn' = [conn EXCEPT ![idx] = [conn[idx] EXCEPT !.out = 0]]
    BY <1>9 DEF ReadData
  <2> QED BY <1>a, <1>b, <1>e, <2>1, KinCases, GoodKin
<1>10. CASE RecvHeaderByte
  BY <1>10, <1>c, <1>d DEF RecvHeaderByte, NextUnit
<1>11. CASE HeaderEnd
  <2>1. pc' # "pending" /\ ReadsHeader(conn[idx]) /\ conn[idx].fd = "open"
    BY <1>11, <1>a DEF HeaderEnd, NextUnit
  <2>2. PICK n \in PostLens, k \in LengthLines, v \in Versions, line \in {"NULL", "set"} :
          \E d \in RecvHeaderEnd(conn[idx], n, k, v, line) :
            conn' = [conn EXCEPT ![idx] = d]
    BY <1>11 DEF HeaderEnd
  <2>3. PICK d \in RecvHeaderEnd(conn[idx], n, k, v, line) :
          conn' = [conn EXCEPT ![idx] = d]
    BY <2>2
  <2>4. Good(d)
    BY <1>a, <1>b, <2>1, GoodHeader
  <2> QED BY <1>a, <1>e, <2>1, <2>3, <2>4
<1>12. CASE HeaderTooLong
  BY <1>12, <1>c, <1>d DEF HeaderTooLong, NextUnit
<1>13. CASE BodyByte
  <2>1. conn[idx].fd = "open" /\ conn[idx].answered = 0
    BY <1>13, BodyIsOwed DEF FaultInv
  <2>2. PICK d \in RecvBodyByte(conn[idx]) : conn' = [conn EXCEPT ![idx] = d]
    BY <1>13 DEF BodyByte
  <2>3. Good(d)
    BY <1>a, <1>b, <2>1, GoodByte
  <2>4. pc' # "pending"
    BY <1>13 DEF BodyByte, NextUnit
  <2> QED BY <1>a, <1>e, <2>2, <2>3, <2>4
<1>14. CASE UnexpectedData
  BY <1>14, <1>c, <1>d DEF UnexpectedData, NextUnit
<1>15. CASE RecvReturns
  <2> DEFINE c == httpdFlushSendBuffer(conn[idx])
  <2>1. c \in Conn /\ Kin(conn[idx], c)
    BY <1>a, FlushCase, KinCases
  <2>2. /\ conn' = [conn EXCEPT ![idx] = IF segment = "error"
                                         THEN closeConnection(c) ELSE c]
        /\ pc' # "pending" /\ conn[idx].fd = "open"
    BY <1>15, <1>a, <1>g DEF RecvReturns
  <2> HIDE DEF c
  <2>3. Good(c) /\ Sound(c) /\ c.fd = "open"
    BY <1>a, <1>b, <2>1, <2>2, GoodKin, KinServes DEF Kin
  <2>4. CASE segment = "error"
    BY <1>a, <1>e, <2>1, <2>2, <2>3, <2>4, GoodClose
  <2>5. CASE segment # "error"
    BY <1>a, <1>e, <2>2, <2>3, <2>5
  <2> QED BY <2>4, <2>5
<1>16. CASE SslReadAgain
  BY <1>16, <1>c DEF SslReadAgain
<1>17. CASE Deinit
  <2>1. pc' # "pending"
    BY <1>17 DEF Deinit
  <2>2. CASE conn[idx].fd = "open"
    <3>1. conn' = [conn EXCEPT ![idx] = closeConnection(conn[idx])]
      BY <1>17, <2>2 DEF Deinit
    <3> QED BY <1>a, <1>b, <1>e, <2>1, <2>2, <3>1, GoodClose
  <2>3. CASE conn[idx].fd # "open"
    BY <1>17, <1>d, <2>1, <2>3 DEF Deinit
  <2> QED BY <2>2, <2>3
<1>18. ASSUME NEW s \in Slots, Resume(s) PROVE Goal
  <2>1. PICK d \in httpdContinue(conn[s]) : conn' = [conn EXCEPT ![s] = d]
    BY <1>18 DEF Resume
  <2>2. conn[s].fd = "open" /\ pc' = pc
    BY <1>18 DEF Resume, taskVars
  <2>3. Good(d)
    BY <1>a, <1>b, <2>1, <2>2, GoodContinue
  <2> QED BY <1>c, <1>e, <2>1, <2>2, <2>3
<1>19. CASE UNCHANGED vars
  BY <1>19, <1>c, <1>d DEF vars, taskVars
<1> QED
  BY <1>1, <1>2, <1>3, <1>4, <1>5, <1>6, <1>7, <1>8, <1>9, <1>10, <1>11,
     <1>12, <1>13, <1>14, <1>15, <1>16, <1>17, <1>18, <1>19
  DEF Next, ServerTask

LEMMA FaultAlways ==
  ASSUME EarlyDone = 0, Pipelining = 0,
         StaleFdIsSet \subseteq {0}, SslPending \subseteq {0}
  PROVE  Spec => []FaultInv
<1>1. FaultInv /\ [Next]_vars => FaultInv'
  BY FaultNext
<1> QED BY <1>1, FaultInit, PTL DEF Spec

(* A handler that is done, or was told of the close, is not called again.  *)
THEOREM DoneIsDone ==
  ASSUME EarlyDone = 0, Pipelining = 0,
         StaleFdIsSet \subseteq {0}, SslPending \subseteq {0}
  PROVE  Spec => []NotCalledAgain
<1>1. FaultInv => NotCalledAgain
  BY DEF FaultInv, Good, CloseFaults, NotCalledAgain
<1>2. Spec => []FaultInv
  BY FaultAlways
<1> QED BY <1>1, <1>2, PTL

(* What a handler allocated is freed once, by its answer or by the close.  *)
THEOREM FreedOnce ==
  ASSUME EarlyDone = 0, Pipelining = 0,
         StaleFdIsSet \subseteq {0}, SslPending \subseteq {0}
  PROVE  Spec => []StateFreedOnce
<1>1. FaultInv => StateFreedOnce
  BY DEF FaultInv, Good, CloseFaults, StateFreedOnce
<1>2. Spec => []FaultInv
  BY FaultAlways
<1> QED BY <1>1, <1>2, PTL

-----------------------------------------------------------------------------
(* No notification is pending while a body is received, if the server task *)
(* alone calls handlers.                                                   *)

Ungiven(c) == "given twice" \notin c.faults

Awaited(c) == c.notif = 1 \/ c.out = 1 \/ "SENDINGBODY" \in c.flags

Calm(c) ==
  /\ c.len >= 0 /\ Awaited(c) => BodyComplete(c)
  /\ c.len >= 0 /\ BodyComplete(c) => c.buffLen = 0

(* A pending notification is served before the next request is read.       *)
Notified(s) ==
  /\ pc = "blocked" /\ conn[s].notif = 1 => s \in writeset
  /\ conn[s].len < 0 /\ conn[s].notif = 1 /\ Ahead(s) /\ readset[s] = "data" =>
       s \in writeset /\ ~(pc = "read" /\ s = idx)

MayBegin(s) ==
  /\ s = idx /\ pc \in {"recv", "pending"}
  /\ InTurn(s) \/ client[s].phase # "wait"

Begins(s) ==
  MayBegin(s) /\ conn[s].len < 0 =>
    conn[s].notif = 0 /\ (pc = "recv" => conn[s].out = 0)

GivenInv ==
  /\ ServeInv
  /\ \A s \in Slots :
       /\ conn[s].fd = "open" => Calm(conn[s]) /\ Notified(s) /\ Begins(s)
       /\ Ungiven(conn[s])

(* The outcome of a call.                                                  *)
Settled(e, d) ==
  \/ d.len = -1 /\ BodyComplete(e)
  \/ SameRequest(e, d) /\ (Awaited(d) => BodyComplete(d))

LEMMA SettledAnswer ==
  ASSUME EarlyDone = 0, NEW e \in Conn, NEW d \in Conn, Answer(e, d),
         Awaited(e) => BodyComplete(e), Ungiven(e)
  PROVE  Settled(e, d) /\ Ungiven(d)
<1>1. Ungiven(d)
  BY DEF Answer, NewFaults, Ungiven
<1>2. CASE More(e, d)
  <2>1. SameRequest(e, d) /\ (Awaited(d) => BodyComplete(e))
    BY <1>2, ConnNumbers DEF More, Awaited
  <2> QED BY <1>1, <2>1 DEF Settled, SameRequest, BodyComplete
<1>3. CASE Done(e, d)
  <2>1. BodyComplete(e) /\ (d.len = -1 \/ SameRequest(e, d))
    BY <1>3 DEF Done, Kept, Marked
  <2> QED BY <1>1, <2>1 DEF Settled, SameRequest, BodyComplete
<1> QED BY <1>2, <1>3 DEF Answer

LEMMA SettledProcessed ==
  ASSUME EarlyDone = 0, NEW c \in Conn, NEW d \in Conn, Processed(c, d),
         Awaited(c) => BodyComplete(c), Ungiven(c)
  PROVE  Settled(c, d) /\ Ungiven(d)
<1>1. CASE d = c
  BY <1>1 DEF Settled, SameRequest
<1>2. ASSUME NEW e \in Conn, Dispatched(c, e), Answer(e, d)
      PROVE  Settled(c, d) /\ Ungiven(d)
  <2>1. /\ SameRequest(c, e) /\ Ungiven(e)
        /\ Awaited(e) <=> Awaited(c)
    BY <1>2 DEF Dispatched, Awaited, Ungiven
  <2>2. BodyComplete(e) <=> BodyComplete(c)
    BY <2>1 DEF SameRequest, BodyComplete
  <2>3. Settled(e, d) /\ Ungiven(d)
    BY <1>2, <2>1, <2>2, SettledAnswer
  <2> QED BY <2>1, <2>2, <2>3 DEF Settled, SameRequest
<1> QED BY <1>1, <1>2 DEF Processed

LEMMA SettledCalm ==
  ASSUME NEW c \in Conn, NEW d \in Conn, Settled(c, d),
         BodyComplete(c) => c.buffLen = 0
  PROVE  Calm(d)
<1>1. CASE d.len = -1
  BY <1>1 DEF Calm
<1>2. CASE SameRequest(c, d) /\ (Awaited(d) => BodyComplete(d))
  BY <1>2 DEF Calm, SameRequest, BodyComplete
<1> QED BY <1>1, <1>2 DEF Settled

(* A notification that is not of a body being received is harmless.        *)
LEMMA GivenContinue ==
  ASSUME EarlyDone = 0, NEW c \in Conn, NEW d \in httpdContinue(c), Sound(c),
         Calm(c), Ungiven(c), c.len >= 0 => BodyComplete(c)
  PROVE  /\ Calm(d) /\ Ungiven(d)
         /\ c.len < 0 => d = c
<1>1. d \in Conn
  BY ContinueCase
<1>2. CASE Disconnecting(c, d)
  <2>1. SameRequest(c, d) /\ d.faults = c.faults
    BY <1>2 DEF Disconnecting
  <2>2. c.len >= 0 /\ ~(c.len < 0)
    BY <1>2, ConnNumbers DEF Disconnecting, Sound, Kept
  <2>3. BodyComplete(d) /\ d.buffLen = 0
    BY <2>1, <2>2 DEF SameRequest, BodyComplete, Calm
  <2>4. Calm(d) /\ Ungiven(d)
    BY <2>1, <2>3 DEF Calm, Ungiven
  <2> QED BY <2>2, <2>4
<1>3. CASE d = c
  BY <1>3
<1>4. ASSUME NEW e \in Conn, Resumed(c, e), Answer(e, d), c.cgi # "NULL"
      PROVE  /\ Calm(d) /\ Ungiven(d)
             /\ c.len < 0 => d = c
  <2>1. c.len >= 0 /\ ~(c.len < 0)
    BY <1>4, ConnNumbers DEF Sound
  <2>2. BodyComplete(c) /\ c.buffLen = 0
    BY <2>1 DEF Calm
  <2>3. BodyComplete(e) /\ e.buffLen = 0 /\ Ungiven(e)
    BY <1>4, <2>2 DEF Resumed, SameRequest, BodyComplete, Ungiven
  <2>4. Settled(e, d) /\ Ungiven(d)
    BY <1>1, <1>4, <2>3, SettledAnswer
  <2> QED BY <1>1, <2>1, <2>3, <2>4, SettledCalm
<1> QED BY <1>2, <1>3, <1>4, ContinueCase

LEMMA GivenHeader ==
  ASSUME EarlyDone = 0, NEW c \in Conn, NEW n \in PostLens, NEW k \in LengthLines, NEW v \in Versions,
         NEW line \in {"NULL", "set"}, NEW d \in RecvHeaderEnd(c, n, k, v, line),
         Sound(c), ReadsHeader(c), c.notif = 0, c.out = 0, Ungiven(c)
  PROVE  /\ Calm(d) /\ Ungiven(d)
         /\ d.len < 0 => n = 0
<1>1. PICK p \in Conn :
        Begun(c, p, n) /\ (IF n = 0 THEN Processed(p, d) ELSE d = p)
  BY HeaderCase
<1>2. d \in Conn /\ n \in Nat
  BY HeaderCase, PostAssumption
<1>3. c.flags = {} /\ c.received = 0
  BY DEF Sound, ReadsHeader, Kept
<1>4. ~Awaited(p) /\ Ungiven(p) /\ p.len = n /\ p.received = 0 /\ p.buffLen = 0
  <2>1. "SENDINGBODY" \notin p.flags
    BY <1>1, <1>3 DEF Begun
  <2>2. /\ p.notif = 0 /\ p.out = 0 /\ p.faults \subseteq c.faults \cup Losses
        /\ p.len = n /\ p.received = 0 /\ p.buffLen = 0
    BY <1>1, <1>3 DEF Begun
  <2>3. Ungiven(p)
    BY <2>2 DEF Ungiven, Losses
  <2>4. ~Awaited(p)
    BY <2>1, <2>2, SMT DEF Awaited
  <2> QED BY <2>2, <2>3, <2>4
<1>5. CASE n = 0
  <2>1. Settled(p, d) /\ Ungiven(d)
    BY <1>1, <1>2, <1>4, <1>5, SettledProcessed
  <2> QED BY <1>2, <1>4, <1>5, <2>1, SettledCalm
<1>6. CASE n # 0
  <2>1. d = p
    BY <1>1, <1>6
  <2> QED BY <1>2, <1>4, <2>1 DEF Calm
<1> QED BY <1>5, <1>6

LEMMA GivenByte ==
  ASSUME EarlyDone = 0, NEW c \in Conn, NEW d \in RecvBodyByte(c),
         c.len > 0, Calm(c), Ungiven(c), ~BodyComplete(c)
  PROVE  Calm(d) /\ Ungiven(d)
<1>1. d \in Conn
  BY ByteCase
<1>2. PICK b \in Conn :
        /\ ByteStored(c, b)
        /\ \/ ~Full(b) /\ d = b
           \/ Full(b) /\ \E r \in Conn : Given(b, r) /\ Emptied(r, d)
  BY ByteCase
<1>3. ~Awaited(c)
  BY ConnNumbers DEF Calm
<1>4. ~Awaited(b) /\ Ungiven(b)
  BY <1>2, <1>3 DEF ByteStored, SameHandler, Awaited, Ungiven
<1>5. CASE ~Full(b) /\ d = b
  BY <1>4, <1>5 DEF Full, BodyComplete, Calm
<1>6. ASSUME NEW r \in Conn, Given(b, r), Emptied(r, d)
      PROVE  Calm(d) /\ Ungiven(d)
  <2>1. Settled(b, r) /\ Ungiven(r)
    BY <1>4, <1>6, SettledAnswer, SettledProcessed DEF Given
  <2>2. /\ d.len = r.len /\ d.received = r.received /\ d.buffLen = 0
        /\ Awaited(d) <=> Awaited(r)
        /\ d.faults = r.faults
    BY <1>6 DEF Emptied, SameHandler, Awaited
  <2>3. r.len = -1 \/ (Awaited(r) => BodyComplete(r))
    BY <2>1 DEF Settled
  <2>4. d.len >= 0 /\ Awaited(d) => BodyComplete(d)
    BY <2>2, <2>3 DEF BodyComplete
  <2> QED BY <2>1, <2>2, <2>4 DEF Calm, Ungiven
<1> QED BY <1>2, <1>5, <1>6

(* What makes no call makes no connection awaited.                         *)
LEMMA AwaitedCases ==
  ASSUME NEW c \in Conn
  PROVE  /\ Awaited([c EXCEPT !.notif = 0]) => Awaited(c)
         /\ Awaited([c EXCEPT !.out = 0]) => Awaited(c)
         /\ Awaited(httpdFlushSendBuffer(c)) => Awaited(c)
         /\ [c EXCEPT !.notif = 0].notif = 0
         /\ [c EXCEPT !.out = 0].out = 0
         /\ [c EXCEPT !.out = 0].notif = c.notif
<1> DEFINE d == [c EXCEPT !.notif = 0]
           e == [c EXCEPT !.out = 0]
           f == httpdFlushSendBuffer(c)
<1>1. d.notif = 0 /\ d.out = c.out /\ d.flags = c.flags
  BY SMT DEF Conn
<1>2. e.notif = c.notif /\ e.out = 0 /\ e.flags = c.flags
  BY SMT DEF Conn
<1>3. Flushed(c, f)
  BY FlushCase
<1> HIDE DEF d, e, f
<1>4. Awaited(d) => Awaited(c)
  BY <1>1 DEF Awaited
<1>5. Awaited(e) => Awaited(c)
  BY <1>2 DEF Awaited
<1>6. Awaited(f) => Awaited(c)
  BY <1>3 DEF Awaited, Flushed
<1> QED BY <1>1, <1>2, <1>4, <1>5, <1>6 DEF d, e, f

LEMMA CalmKin ==
  ASSUME NEW c, NEW d, Kin(c, d), Calm(c), Ungiven(c), Awaited(d) => Awaited(c)
  PROVE  Calm(d) /\ Ungiven(d)
BY DEF Kin, Calm, Ungiven, BodyComplete

LEMMA GivenInit == Init => GivenInv
<1> SUFFICES ASSUME Init PROVE GivenInv
  OBVIOUS
<1>1. \A s \in Slots : conn[s].fd = "none" /\ conn[s].faults = {}
  BY InitConn
<1> QED BY <1>1, ServeInit DEF GivenInv, Ungiven

LEMMA GivenNext ==
  ASSUME EarlyDone = 0, Pipelining = 0, AppTask = 0
  PROVE  GivenInv /\ [Next]_vars => GivenInv'
<1> SUFFICES ASSUME GivenInv, [Next]_vars PROVE GivenInv'
  OBVIOUS
<1> DEFINE Slot(s) == /\ conn[s].fd = "open" => Calm(conn[s]) /\ Notified(s) /\ Begins(s)
                      /\ Ungiven(conn[s])
           Goal == \A s \in Slots : Slot(s)'
<1>a. /\ idx \in Slots /\ (\A s \in Slots : s \in Nat)
      /\ conn \in [Slots -> Conn] /\ client \in [Slots -> Client]
      /\ \A s \in Slots : conn[s] \in Conn /\ client[s] \in Client
      /\ pc = "recv" => conn[idx].fd = "open"
  BY DEF GivenInv, ServeInv, TidyInv, TypeOK, Slots
<1>b. \A s \in Slots :
        /\ Slot(s)
        /\ conn[s].fd = "open" => Sound(conn[s]) /\ InStep(conn[s], client[s])
  BY DEF GivenInv, ServeInv
<1>c. ServeInv'
  BY ServeNext DEF GivenInv
<1> SUFFICES Goal
  BY <1>c DEF GivenInv
<1> HIDE DEF Goal
<1>i. PICK i \in Slots : i = idx
  BY <1>a
<1> DEFINE Frame(t) ==
             /\ UNCHANGED <<readset, writeset>> /\ pc' # "blocked"
             /\ Ahead(t)' => Ahead(t)
             /\ pc' = "read" => idx' # t
             /\ pc' \in {"recv", "pending"} => idx' # t
(* A slot that is not in turn.                                             *)
<1>d. ASSUME NEW t \in Slots, Frame(t), conn'[t] = conn[t]
      PROVE  Slot(t)'
  <2>1. Notified(t) => Notified(t)'
    BY <1>d DEF Notified
  <2>2. Begins(t)'
    BY <1>d DEF Begins, MayBegin
  <2> QED BY <1>b, <1>d, <2>1, <2>2
(* The slot in turn changes.                                               *)
<1>e. ASSUME NEW d \in Conn, conn' = [conn EXCEPT ![idx] = d], Ungiven(d),
             d.fd = "open" => Calm(d) /\ Notified(i)' /\ Begins(i)',
             \A t \in Slots \ {idx} : Frame(t)
      PROVE  Goal
  <2>1. Slot(i)'
    <3>1. conn'[idx] = d
      BY <1>a, <1>i, <1>e
    <3> QED BY <1>i, <1>e, <3>1
  <2>2. ASSUME NEW t \in Slots \ {idx} PROVE Slot(t)'
    <3>1. conn'[t] = conn[t]
      BY <1>a, <1>i, <1>e, <2>2
    <3> QED BY <1>d, <1>e, <2>2, <3>1
  <2> QED BY <1>i, <2>1, <2>2 DEF Goal
<1>f. ASSUME Advance, pc \in {"sent", "read", "recv", "pending"},
             UNCHANGED <<readset, writeset>>
      PROVE  \A t \in Slots : Frame(t) /\ ~Ahead(i)' /\ pc' \notin {"read", "recv", "pending"}
  BY <1>a, <1>i, <1>f DEF Advance, EndOfPass, Ahead
<1>g. ASSUME AfterRead, pc \in {"read", "recv", "pending"},
             UNCHANGED <<readset, writeset>>
      PROVE  /\ \A t \in Slots \ {idx} : Frame(t)
             /\ ~Ahead(i)' /\ pc' \notin {"blocked", "read", "recv"}
             /\ pc' = "pending" => idx' = idx
  <2>1. CASE Advance
    BY <1>f, <1>g, <2>1 DEF Advance, EndOfPass
  <2>2. CASE pc' = "pending" /\ idx' = idx
    BY <1>a, <1>i, <1>g, <2>2 DEF Ahead
  <2> QED BY <1>g, <2>1, <2>2 DEF AfterRead
<1>h. ASSUME NEW c \in Conn, Ungiven(c), conn' = [conn EXCEPT ![idx] = closeConnection(c)],
             \A t \in Slots \ {idx} : Frame(t)
      PROVE  Goal
  <2> DEFINE d == closeConnection(c)
  <2>1. d \in Conn /\ Closed(c, d)
    BY CloseCase
  <2>2. conn' = [conn EXCEPT ![idx] = d]
    BY <1>h
  <2> HIDE DEF d
  <2>3. d.fd # "open" /\ Ungiven(d)
    BY <1>h, <2>1 DEF Closed, CloseFaults, Ungiven
  <2> QED BY <1>e, <1>h, <2>1, <2>2, <2>3
<1>1. CASE BuildFdSets
  <2>1. /\ UNCHANGED conn /\ pc' = "blocked"
        /\ writeset' = {s \in Open : conn[s].notif = 1}
    BY <1>1 DEF BuildFdSets
  <2>2. ASSUME NEW s \in Slots PROVE Slot(s)'
    <3>1. conn[s].fd = "open" => Notified(s)'
      BY <2>1, <2>2 DEF Notified, Ahead, Open
    <3>2. Begins(s)'
      BY <2>1 DEF Begins, MayBegin
    <3> QED BY <1>b, <2>1, <2>2, <3>1, <3>2
  <2> QED BY <2>2 DEF Goal
<1>2. CASE Select
  <2>1. PICK r \in [Slots -> Read], w \in SUBSET writeset :
          /\ \A s \in Slots :
               r[s] = "data" => MaySend(s) /\ (BeginsRequest(s) /\ s \in writeset => s \in w)
          /\ readset' = r /\ writeset' = w
    BY <1>2 DEF Select
  <2>2. UNCHANGED conn /\ pc = "blocked" /\ pc' \in {"accept", "sent"}
    BY <1>2 DEF Select
  <2>3. ASSUME NEW s \in Slots PROVE Slot(s)'
    <3>1. CASE conn[s].fd = "open"
      <4>1. conn[s].notif = 1 => s \in writeset
        BY <1>b, <2>2, <2>3, <3>1 DEF Notified
      <4>2. conn[s].notif = 1 /\ conn[s].len < 0 /\ readset'[s] = "data" => s \in writeset'
        BY <2>1, <2>3, <4>1 DEF BeginsRequest
      <4>3. Notified(s)'
        BY <2>2, <4>2 DEF Notified
      <4>4. Begins(s)'
        BY <2>2 DEF Begins, MayBegin
      <4> QED BY <1>b, <2>2, <2>3, <4>3, <4>4
    <3>2. CASE conn[s].fd # "open"
      BY <1>b, <2>2, <2>3, <3>2
    <3> QED BY <3>1, <3>2
  <2> QED BY <2>3 DEF Goal
<1>3. CASE Accept
  <2>1. /\ UNCHANGED <<idx, readset, writeset>> /\ pc = "accept"
        /\ pc' \in {"sent", "select", "deinit"}
    BY <1>3 DEF Accept, EndOfPass
  <2>2. \A t \in Slots : Frame(t)
    BY <2>1 DEF Ahead
  <2>3. CASE UNCHANGED conn
    BY <1>d, <2>2, <2>3 DEF Goal
  <2>4. CASE conn' = [conn EXCEPT ![FirstFree] = httpdConnectCb(@)]
    <3>1. ASSUME NEW s \in Slots, s # FirstFree
          PROVE  Slot(s)'
      <4>1. conn'[s] = conn[s]
        BY <1>a, <1>i, <2>4, <3>1
      <4> QED BY <1>d, <2>2, <3>1, <4>1
    <3>2. ASSUME NEW s \in Slots, s = FirstFree
          PROVE  Slot(s)'
      <4> DEFINE d == httpdConnectCb(conn[s])
      <4>1. conn'[s] = d
        BY <1>a, <1>i, <2>4, <3>2
      <4>2. d \in Conn /\ Kept(d) /\ d.notif = 0 /\ d.faults \subseteq conn[s].faults
        BY <1>a, <1>i, <3>2, ConnectCase
      <4> HIDE DEF d
      <4>3. Calm(d) /\ Ungiven(d)
        <5>1. Ungiven(conn[s])
          BY <1>b, <3>2
        <5>2. d.len = -1 /\ d.faults \subseteq conn[s].faults
          BY <4>2 DEF Kept
        <5>3. Calm(d)
          BY <5>2 DEF Calm
        <5> QED BY <5>1, <5>2, <5>3, Zenon DEF Ungiven
      <4>4. Notified(s)' /\ Begins(s)'
        BY <2>1, <4>1, <4>2 DEF Notified, Begins, MayBegin
      <4> QED BY <4>1, <4>3, <4>4
    <3> QED BY <3>1, <3>2 DEF Goal
  <2> QED BY <1>3, <2>3, <2>4 DEF Accept
<1>4. CASE SkipEmpty
  <2>1. Advance /\ pc = "sent" /\ UNCHANGED <<conn, readset, writeset>>
    BY <1>4 DEF SkipEmpty
  <2> QED BY <1>d, <1>f, <2>1 DEF Goal
<1>5. CASE Sent
  <2>1. /\ UNCHANGED <<idx, readset, writeset, client>> /\ pc = "sent" /\ pc' = "read"
        /\ conn[idx].fd = "open"
    BY <1>5 DEF Sent
  <2>2. \A t \in Slots \ {idx} : Frame(t)
    BY <2>1 DEF Ahead
  <2>3. Ahead(idx)
    BY <1>a, <1>i, <2>1 DEF Ahead
  <2>4. Sound(conn[idx]) /\ InStep(conn[idx], client[idx]) /\ Slot(idx)
    BY <1>a, <1>i, <1>b, <2>1
  <2>5. CASE UNCHANGED conn /\ ~(conn[idx].notif = 1 /\ idx \in writeset)
    <3>1. Notified(i)' /\ Begins(i)'
      BY <1>i, <2>1, <2>3, <2>4, <2>5 DEF Notified, Begins, MayBegin
    <3>2. conn' = [conn EXCEPT ![idx] = conn[idx]]
      BY <1>a, <1>i, <2>5
    <3> QED BY <1>a, <1>i, <1>e, <2>1, <2>2, <2>4, <3>1, <3>2
  <2>6. CASE conn[idx].notif = 1 /\ idx \in writeset
    <3> DEFINE c == [conn[idx] EXCEPT !.notif = 0]
    <3>1. c \in Conn /\ Kin(conn[idx], c) /\ (Awaited(c) => Awaited(conn[idx])) /\ c.notif = 0
      BY <1>a, <1>i, KinCases, AwaitedCases
    <3>2. PICK d \in (IF c.needsClose = 1 THEN {closeConnection(c)}
                                          ELSE httpdContinue(c)) :
            conn' = [conn EXCEPT ![idx] = d]
      BY <1>5, <2>6 DEF Sent
    <3> HIDE DEF c
    <3>3. Sound(c) /\ InStep(c, client[idx]) /\ Calm(c) /\ Ungiven(c)
      BY <2>1, <2>4, <3>1, KinServes, CalmKin
    <3>4. CASE d = closeConnection(c)
      BY <1>h, <2>2, <3>1, <3>2, <3>3, <3>4
    <3>5. CASE d \in httpdContinue(c)
      <4>1. c.len >= 0 => BodyComplete(c)
        BY <2>1, <2>4, <2>6, <3>1 DEF Calm, Awaited, Kin, BodyComplete
      <4>2. d \in Conn /\ Calm(d) /\ Ungiven(d) /\ (c.len < 0 => d = c)
        BY <3>1, <3>3, <3>5, <4>1, GivenContinue, ContinueCase
      <4>3. readset[idx] = "data" => d.notif = 0
        <5>1. SUFFICES ASSUME readset[idx] = "data" PROVE c.len < 0
          BY <3>1, <4>2
        <5>2. conn[idx].len < 0 \/ client[idx].phase = "body"
          BY <1>a, <1>i, <2>1, <2>3, <5>1 DEF GivenInv, ServeInv
        <5>3. client[idx].phase = "body" => c.len < 0
          BY <1>a, <1>i, <3>1, <3>3, <4>1, ConnNumbers DEF InStep, BodyComplete
        <5> QED BY <3>1, <5>2, <5>3 DEF Kin
      <4>4. Notified(i)' /\ Begins(i)'
        <5>1. conn'[idx] = d
          BY <1>a, <1>i, <3>2
        <5> QED BY <1>i, <2>1, <4>3, <5>1 DEF Notified, Begins, MayBegin
      <4> QED BY <1>e, <2>2, <3>2, <4>2, <4>4
    <3> QED BY <3>2, <3>4, <3>5
  <2> QED BY <1>5, <2>5, <2>6 DEF Sent
<1>6. CASE NotReadable
  <2>1. Advance /\ pc = "read" /\ UNCHANGED <<conn, readset, writeset>>
    BY <1>6 DEF NotReadable
  <2> QED BY <1>d, <1>f, <2>1 DEF Goal
<1>7. CASE ReadStale
  <2>1. /\ Advance /\ pc = "read" /\ UNCHANGED <<readset, writeset>>
        /\ conn' = [conn EXCEPT ![idx] = closeConnection(conn[idx])]
    BY <1>7 DEF ReadStale
  <2> QED BY <1>a, <1>i, <1>b, <1>f, <1>h, <2>1
<1>8. CASE ReadEnd
  <2>1. /\ AfterRead /\ pc = "read" /\ UNCHANGED <<readset, writeset>>
        /\ conn' = [conn EXCEPT ![idx] = closeConnection(conn[idx])]
    BY <1>8 DEF ReadEnd
  <2> QED BY <1>a, <1>i, <1>b, <1>g, <1>h, <2>1
<1>9. CASE ReadData
  <2> DEFINE d == [conn[idx] EXCEPT !.out = 0]
  <2>1. /\ UNCHANGED <<idx, readset, writeset, client>>
        /\ pc = "read" /\ pc' = "recv" /\ segment' = "first"
        /\ conn[idx].fd = "open" /\ readset[idx] = "data"
        /\ conn' = [conn EXCEPT ![idx] = d]
    BY <1>9 DEF ReadData
  <2>2. /\ d \in Conn /\ Kin(conn[idx], d) /\ (Awaited(d) => Awaited(conn[idx]))
        /\ d.out = 0 /\ d.notif = conn[idx].notif
    BY <1>a, <1>i, KinCases, AwaitedCases
  <2> HIDE DEF d
  <2>3. Calm(d) /\ Ungiven(d)
    BY <1>a, <1>i, <1>b, <2>1, <2>2, CalmKin
  <2>4. conn[idx].len < 0 => conn[idx].notif # 1
    BY <1>a, <1>i, <1>b, <2>1 DEF Notified, Ahead
  <2>5. conn'[idx] = d
    BY <1>a, <1>i, <2>1
  <2>6. d.len < 0 => d.notif = 0
    BY <2>2, <2>4, ConnNumbers DEF Kin
  <2>7. Notified(i)' /\ Begins(i)'
    BY <1>i, <2>1, <2>2, <2>5, <2>6 DEF Notified, Begins
  <2>8. \A t \in Slots \ {idx} : Frame(t)
    BY <1>a, <1>i, <2>1 DEF Ahead
  <2> QED BY <1>e, <2>1, <2>2, <2>3, <2>7, <2>8
<1>l. ASSUME NextUnit
      PROVE  /\ UNCHANGED <<pc, idx, readset, writeset>> /\ pc = "recv"
             /\ \A t \in Slots \ {idx} : Frame(t)
             /\ ~Ahead(i)' /\ conn[idx].fd = "open"
             /\ MayBegin(idx) \/ segment = "first"
             /\ conn[idx].len < 0 => conn[idx].notif = 0 /\ conn[idx].out = 0
  <2>1. UNCHANGED <<pc, idx, readset, writeset>> /\ pc = "recv"
    BY <1>l DEF NextUnit
  <2>2. (\A t \in Slots \ {idx} : Frame(t)) /\ ~Ahead(i)'
    BY <1>a, <1>i, <2>1 DEF Ahead
  <2>3. MayBegin(idx)
    BY <1>l, <2>1 DEF NextUnit, MoreToCome, MayBegin, InTurn
  <2>4. conn[idx].len < 0 => conn[idx].notif = 0 /\ conn[idx].out = 0
    BY <1>a, <1>i, <1>b, <2>1, <2>3 DEF Begins
  <2> QED BY <1>a, <1>i, <2>1, <2>2, <2>3, <2>4
<1>j. ASSUME NextUnit, segment' # "first", NEW d \in Conn,
             conn' = [conn EXCEPT ![idx] = d], Calm(d), Ungiven(d),
             d.len < 0 =>
               client'[idx].phase = "wait" \/ (d.notif = 0 /\ d.out = 0)
      PROVE  Goal
  <2>1. conn'[idx] = d /\ idx' = idx /\ pc' = "recv"
    BY <1>a, <1>i, <1>l, <1>j
  <2>2. Notified(i)'
    BY <1>l, <1>j, <2>1 DEF Notified
  <2>3. Begins(i)'
    BY <1>j, <2>1 DEF Begins, MayBegin, InTurn
  <2> QED BY <1>e, <1>l, <1>j, <2>2, <2>3
<1>k. ASSUME NextUnit, segment' # "first", UNCHANGED conn
      PROVE  Goal
  <2>1. conn' = [conn EXCEPT ![idx] = conn[idx]]
    BY <1>a, <1>i, <1>k
  <2>2. Calm(conn[idx]) /\ Ungiven(conn[idx])
    BY <1>a, <1>i, <1>b, <1>l, <1>k
  <2> QED BY <1>a, <1>i, <1>l, <1>j, <1>k, <2>1, <2>2
<1>10. CASE RecvHeaderByte
  BY <1>10, <1>k DEF RecvHeaderByte
<1>11. CASE HeaderEnd
  <2>1. NextUnit /\ ReadsHeader(conn[idx]) /\ segment' = "more"
    BY <1>11 DEF HeaderEnd
  <2>2. PICK n \in PostLens, k \in LengthLines, v \in Versions, line \in {"NULL", "set"} :
          /\ \E d \in RecvHeaderEnd(conn[idx], n, k, v, line) :
               conn' = [conn EXCEPT ![idx] = d]
          /\ client' = [client EXCEPT ![idx] = HeadSent(n)]
    BY <1>11 DEF HeaderEnd
  <2>3. PICK d \in RecvHeaderEnd(conn[idx], n, k, v, line) :
          conn' = [conn EXCEPT ![idx] = d]
    BY <2>2
  <2>4. conn[idx].notif = 0 /\ conn[idx].out = 0 /\ Sound(conn[idx]) /\ Ungiven(conn[idx])
    BY <1>a, <1>i, <1>b, <1>l, <2>1 DEF ReadsHeader
  <2>5. d \in Conn
    BY <1>a, <1>i, HeaderCase
  <2>6. Calm(d) /\ Ungiven(d) /\ (d.len < 0 => n = 0)
    BY <1>a, <1>i, <2>1, <2>4, GivenHeader
  <2>7. n = 0 => client'[idx].phase = "wait"
    BY <1>a, <1>i, <2>2 DEF HeadSent
  <2> QED BY <1>j, <2>1, <2>3, <2>5, <2>6, <2>7
<1>12. CASE HeaderTooLong
  BY <1>12, <1>k DEF HeaderTooLong
<1>13. CASE BodyByte
  <2>1. NextUnit /\ segment' = "more" /\ client' = [client EXCEPT ![idx] = NextByte(client[idx])]
    BY <1>13 DEF BodyByte
  <2>2. /\ ReadsBody(conn[idx]) /\ conn[idx].fd = "open"
        /\ Sound(conn[idx]) /\ InStep(conn[idx], client[idx])
        /\ client[idx].phase = "body" /\ ~BodyComplete(conn[idx])
    BY <1>13, BodyIsOwed DEF GivenInv
  <2>3. PICK d \in RecvBodyByte(conn[idx]) : conn' = [conn EXCEPT ![idx] = d]
    BY <1>13 DEF BodyByte
  <2>4. d \in Conn /\ InStep(d, NextByte(client[idx]))
    BY <1>a, <1>i, <2>2, ServeByte
  <2>5. Calm(d) /\ Ungiven(d)
    BY <1>a, <1>i, <1>b, <2>2, GivenByte DEF ReadsBody
  <2>6. d.len < 0 => client'[idx].phase = "wait"
    <3>1. NextByte(client[idx]).phase \in {"body", "wait"}
      BY <1>a, <1>i, <2>2 DEF NextByte, Client
    <3> QED BY <1>a, <1>i, <2>1, <2>4, <3>1 DEF InStep
  <2> QED BY <1>j, <2>1, <2>3, <2>4, <2>5, <2>6
<1>14. CASE UnexpectedData
  BY <1>14, <1>k DEF UnexpectedData
<1>15. CASE RecvReturns
  <2> DEFINE c == httpdFlushSendBuffer(conn[idx])
  <2>1. /\ conn' = [conn EXCEPT ![idx] = IF segment = "error"
                                         THEN closeConnection(c) ELSE c]
        /\ AfterRead /\ pc = "recv" /\ segment # "first"
        /\ UNCHANGED <<client, readset, writeset>>
    BY <1>15 DEF RecvReturns
  <2>2. /\ c \in Conn /\ Flushed(conn[idx], c) /\ Kin(conn[idx], c)
        /\ Awaited(c) => Awaited(conn[idx])
    BY <1>a, <1>i, FlushCase, KinCases, AwaitedCases
  <2> HIDE DEF c
  <2>3. conn[idx].fd = "open" /\ Sound(conn[idx]) /\ Slot(idx)
    BY <1>a, <1>i, <1>b, <2>1
  <2>4. Calm(c) /\ Ungiven(c)
    BY <2>2, <2>3, CalmKin
  <2>5. CASE segment = "error"
    BY <1>g, <1>h, <2>1, <2>2, <2>4, <2>5
  <2>6. CASE segment # "error"
    <3>1. conn' = [conn EXCEPT ![idx] = c] /\ conn'[idx] = c
      BY <1>a, <1>i, <2>1, <2>6
    <3>2. Notified(i)'
      BY <1>g, <2>1 DEF Notified
    <3>3. ASSUME conn[idx].len < 0, client[idx].phase # "wait"
          PROVE  c.notif = 0
      <4>1. MayBegin(idx)
        BY <2>1, <3>3 DEF MayBegin
      <4>2. conn[idx].notif = 0 /\ conn[idx].out = 0 /\ conn[idx].flags = {}
        BY <2>1, <2>3, <3>3, <4>1 DEF Begins, Sound, Kept
      <4>3. c.notif # 1
        BY <2>2, <4>2 DEF Flushed
      <4> QED BY <2>2, <4>3, ConnNumbers
    <3>4. c.len = conn[idx].len
      BY <2>2 DEF Kin
    <3>5. Begins(i)'
      BY <1>g, <2>1, <3>1, <3>3, <3>4 DEF Begins, MayBegin, InTurn
    <3> QED BY <1>e, <1>g, <2>1, <2>2, <2>4, <3>1, <3>2, <3>5
  <2> QED BY <2>5, <2>6
<1>16. CASE SslReadAgain
  <2>1. pc = "pending" /\ UNCHANGED <<client, readset, writeset, segment>>
    BY <1>16 DEF SslReadAgain
  <2>2. CASE /\ conn[idx].fd = "open" /\ MoreToCome(idx)
             /\ conn' = [conn EXCEPT ![idx].out = 0]
             /\ pc' = "recv" /\ idx' = idx
    <3> DEFINE d == [conn[idx] EXCEPT !.out = 0]
    <3>1. /\ d \in Conn /\ Kin(conn[idx], d) /\ (Awaited(d) => Awaited(conn[idx]))
          /\ d.out = 0 /\ d.notif = conn[idx].notif
      BY <1>a, <1>i, KinCases, AwaitedCases
    <3>2. conn' = [conn EXCEPT ![idx] = d] /\ conn'[idx] = d
      BY <1>a, <1>i, <2>2
    <3> HIDE DEF d
    <3>3. Calm(d) /\ Ungiven(d)
      BY <1>a, <1>i, <1>b, <2>2, <3>1, CalmKin
    <3>4. MayBegin(idx)
      BY <2>1, <2>2 DEF MayBegin, MoreToCome
    <3>5. d.len < 0 => d.notif = 0 /\ d.out = 0
      BY <1>a, <1>i, <1>b, <2>2, <3>1, <3>4 DEF Begins, Kin
    <3>6. (\A t \in Slots \ {idx} : Frame(t)) /\ ~Ahead(i)'
      BY <1>a, <1>i, <2>1, <2>2 DEF Ahead
    <3>7. Notified(i)' /\ Begins(i)'
      BY <1>i, <2>2, <3>2, <3>5, <3>6 DEF Notified, Begins
    <3> QED BY <1>e, <3>1, <3>2, <3>3, <3>6, <3>7
  <2>3. CASE conn' = [conn EXCEPT ![idx] = closeConnection(@)] /\ AfterRead
    BY <1>a, <1>i, <1>b, <1>g, <1>h, <2>1, <2>3
  <2> QED BY <1>16, <2>2, <2>3 DEF SslReadAgain
<1>17. CASE Deinit
  <2>1. /\ pc = "deinit" /\ pc' \in {"deinit", "exited"}
        /\ UNCHANGED <<client, readset, writeset>>
    BY <1>17 DEF Deinit
  <2>2. \A t \in Slots : Frame(t)
    BY <2>1 DEF Ahead
  <2>3. CASE UNCHANGED conn
    BY <1>d, <2>2, <2>3 DEF Goal
  <2>4. CASE conn' = [conn EXCEPT ![idx] = closeConnection(conn[idx])]
    BY <1>a, <1>i, <1>b, <1>h, <2>2, <2>4
  <2> QED BY <1>17, <2>3, <2>4 DEF Deinit
<1>18. ASSUME NEW s \in Slots, Resume(s) PROVE Goal
  BY <1>18 DEF Resume
<1>19. CASE UNCHANGED vars
  <2>1. UNCHANGED <<conn, client, pc, idx, readset, writeset, segment>>
    BY <1>19 DEF vars, taskVars
  <2>2. ASSUME NEW s \in Slots PROVE Slot(s)'
    BY <1>b, <2>1 DEF Notified, Begins, MayBegin, InTurn, Ahead
  <2> QED BY <2>2 DEF Goal
<1> QED
  BY <1>1, <1>2, <1>3, <1>4, <1>5, <1>6, <1>7, <1>8, <1>9, <1>10, <1>11,
     <1>12, <1>13, <1>14, <1>15, <1>16, <1>17, <1>18, <1>19
  DEF Next, ServerTask

(* Every byte of a body is presented to the handler in one call only, if   *)
(* no other task resumes handlers.                                         *)
THEOREM BodyGivenOnce ==
  ASSUME EarlyDone = 0, Pipelining = 0, AppTask = 0
  PROVE  Spec => []GivenOnce
<1>1. GivenInv /\ [Next]_vars => GivenInv'
  BY GivenNext
<1>2. GivenInv => GivenOnce
  BY DEF GivenInv, Ungiven, GivenOnce
<1> QED BY <1>1, <1>2, GivenInit, PTL DEF Spec
=============================================================================
