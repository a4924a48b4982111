------------------------------- MODULE CaptDns -------------------------------
(***************************************************************************)
(* The captive-portal DNS server (src/util/captdns.c): every name resolves *)
(* to the access point.  captdnsRecv copies the query to the static reply  *)
(* buffer and puts an answer behind it for each question of type A, NS or  *)
(* URI; the name is read with labelToStr and written with strToLabel.      *)
(* The reply buffer keeps the bytes of earlier replies.                    *)
(*                                                                         *)
(* A message is its bytes behind the header, whose place is HeaderLen; the *)
(* header's counts are kept apart.  The queries are those a resolver       *)
(* sends: one question or two, the names uncompressed or, in the second, a *)
(* pointer to the name of the first, and perhaps an additional record.     *)
(***************************************************************************)
EXTENDS Integers, Sequences, FiniteSets, SequencesExt

CONSTANTS MaxQueries,  \* bound: queries
          DnsNames,    \* the names asked for: sequences of labels
          Additional   \* subset of 0 .. 1: additional records in a query

VARIABLES dquery,  \* the last query
          dreply,  \* the static buffer reply, as far as it was ever written
          dsent,   \* the length of the reply that was sent, or -1
          dcount,  \* its ancount
          drounds  \* queries so far

dnsVars == <<dquery, dreply, dsent, dcount, drounds>>

HeaderLen == 12
Dot == 46
A == 1
NS == 2
URI == 256
MX == 15
Ip == <<192, 168, 4, 1>>
Server == <<2, 110, 115, 0>>
Link == <<0, 10, 0, 1>> \o [k \in 1 .. 16 |-> 104]  \* priority, weight, text

DnsLen == 512
n16(n) == <<n \div 256, n % 256>>

Encoded(labels) ==
  FlattenSeq([k \in DOMAIN labels |-> <<Len(labels[k])>> \o labels[k]]) \o <<0>>

(***************************************************************************)
(* captdns.c                                                               *)
(***************************************************************************)

\* One turn of labelToStr's loop: a label is copied, a pointer followed, and
\* the loop ends in front of a zero.
LabelTurn(packet, s) ==
  IF s.done = 1 THEN s
  ELSE LET b == packet[s.at + 1]
           t == IF b < 64
                THEN [s EXCEPT !.at = @ + 1 + b,
                               !.res = (IF @ = <<>> THEN <<>> ELSE Append(@, Dot))
                                       \o SubSeq(packet, s.at + 2, s.at + 1 + b)]
                ELSE [s EXCEPT !.end = s.at + 2,
                               !.at = 256 * (b - 192) + packet[s.at + 2] - HeaderLen]
       IN IF packet[t.at + 1] = 0 THEN [t EXCEPT !.done = 1] ELSE t

\* Mutant: the place behind the name that was pointed to.
NextFieldAfterName(s) == s.at + 1

\* endPtr.
NextField(s) == IF s.end = -1 THEN s.at + 1 ELSE s.end

\* The loop: it ends within as many turns as the packet has bytes.
LabelsRead(packet, at) ==
  FoldLeft(LAMBDA acc, k : LabelTurn(packet, acc),
           [at |-> at, res |-> <<>>, end |-> -1, done |-> 0], [k \in 1 .. Len(packet) |-> k])

\* The dotted name at a place of the packet, and the place behind it.
labelToStr(packet, at) ==
  LET s == LabelsRead(packet, at) IN [res |-> s.res, next |-> NextField(s)]

\* A part of the name is written when the dot behind it, or the end, is read.
PartTurn(s, c) ==
  IF c = Dot THEN [out |-> s.out \o (<<Len(s.part)>> \o s.part), part |-> <<>>]
  ELSE [s EXCEPT !.part = Append(@, c)]

PartsOf(str) == FoldLeft(PartTurn, [out |-> <<>>, part |-> <<>>], str)

strToLabel(str) ==
  LET s == PartsOf(str) IN (s.out \o (<<Len(s.part)>> \o s.part)) \o <<0>>

\* What is put at place rend for a question; ttl is written whole for an A
\* record only, of the others its second half is left as it was.
Record(name, type, stale) ==
  LET rr(class, ttl, data) == name \o n16(type) \o n16(class) \o ttl \o n16(Len(data)) \o data
      Stale(k) == IF Len(name) + 6 + k <= Len(stale) THEN stale[Len(name) + 6 + k] ELSE 0
      half == <<0, 0, Stale(1), Stale(2)>>
  IN CASE type = A -> rr(1, <<0, 0, 0, 0>>, Ip)
       [] type = NS -> rr(1, half, Server)
       [] type = URI -> rr(256, half, Link)
       [] OTHER -> <<>>

\* The question's type behind its name, which ends before place p.
TypeAt(packet, p) == 256 * packet[p + 1] + packet[p + 2]

\* One turn of the loop over qdcount.
Answered(packet, s) ==
  LET l == labelToStr(packet, s.p)
      type == TypeAt(packet, l.next)
      rr == Record(strToLabel(l.res), type, SubSeq(s.reply, s.rend + 1, Len(s.reply)))
      rend == s.rend + Len(rr)
  IN [p |-> l.next + 4, rend |-> rend, count |-> s.count + (IF rr = <<>> THEN 0 ELSE 1),
      reply |-> SubSeq(s.reply, 1, s.rend) \o rr \o SubSeq(s.reply, rend + 1, Len(s.reply))]

AllAnswered(packet, n, s) ==
  FoldLeft(LAMBDA acc, k : Answered(packet, acc), s, [k \in 1 .. n |-> k])

(***************************************************************************)
(* Queries                                                                 *)
(***************************************************************************)

\* A label has up to 63 characters, none of them a dot or the end of a string.
\* A name has labels: the root is not asked for.
Labels == { l \in Seq((1 .. 255) \ {Dot}) : Len(l) \in 1 .. 63 }
HostNames == Seq(Labels) \ {<<>>}

ASSUME CaptDnsAssumption ==
  MaxQueries \in Nat /\ Additional \subseteq 0 .. 1 /\ DnsNames \subseteq HostNames

\* compressed: the name is a pointer to the name of the first question.
Question(labels, type, compressed) ==
  [labels |-> labels, type |-> type, compressed |-> compressed]

Types == {A, NS, URI, MX}
First == { Question(n, t, 0) : n \in DnsNames, t \in Types }

\* The second question of a query whose first is q.
Seconds(q) == First \cup { Question(q.labels, t, 1) : t \in Types }

Packet(query) ==
  FlattenSeq([k \in DOMAIN query.qs |->
    (IF query.qs[k].compressed = 1 THEN n16(192 * 256 + HeaderLen) ELSE Encoded(query.qs[k].labels))
    \o n16(query.qs[k].type) \o n16(1)])
  \o IF query.additional = 1 THEN <<0>> \o n16(41) \o n16(512) \o <<0, 0, 0, 0, 0, 0>> ELSE <<>>

\* What a question is answered with: a record for each that is known.
Answers(query) ==
  [k \in DOMAIN query.qs |-> Record(Encoded(query.qs[k].labels), query.qs[k].type, <<>>)]

\* What a right reply is, but for the times to live: the query as it came, then
\* for each question that the server knows one record, in order, with the name
\* spelled out.
Sections(query) == Packet(query) \o FlattenSeq(Answers(query))

\* bound: the queries whose reply has room in the buffer.  The check that it has
\* is commented out (captdns.c:163).
HasReplyRoom(query) == Len(Sections(query)) <= DnsLen - HeaderLen

\* dropped: the header says that it is a reply, or truncated, or is too short.
Queries ==
  { query \in [qs : { <<q>> : q \in First } \cup UNION { { <<q, r>> : r \in Seconds(q) } : q \in First },
               additional : Additional, dropped : {0}] : HasReplyRoom(query) }
  \cup [qs : { <<q>> : q \in First }, additional : {0}, dropped : {1}]

NoQuery == [qs |-> <<>>, additional |-> 0, dropped |-> 1]

(***************************************************************************)
(* The server                                                              *)
(***************************************************************************)

captdnsRecv(query) ==
  /\ drounds < MaxQueries /\ drounds' = drounds + 1 /\ dquery' = query
  /\ IF query.dropped = 1 THEN dsent' = -1 /\ dcount' = 0 /\ UNCHANGED dreply
     ELSE LET packet == Packet(query)
              copied == packet \o SubSeq(dreply, Len(packet) + 1, Len(dreply))
              s == AllAnswered(packet, Len(query.qs),
                               [p |-> 0, rend |-> Len(packet), count |-> 0, reply |-> copied])
          IN dreply' = s.reply /\ dsent' = s.rend /\ dcount' = s.count

DnsInit == dquery = NoQuery /\ dreply = <<>> /\ dsent = -1 /\ dcount = 0 /\ drounds = 0
DnsNext == \E query \in Queries : captdnsRecv(query)
DnsSpec == DnsInit /\ [][DnsNext]_dnsVars

(***************************************************************************)
(* Properties                                                              *)
(***************************************************************************)

DnsTypeOK ==
  /\ dquery \in Queries \cup {NoQuery} /\ drounds \in 0 .. MaxQueries
  /\ dcount \in 0 .. 2 /\ dsent \in -1 .. Len(dreply) /\ Len(dreply) <= DnsLen - HeaderLen

\* The questions that the server knows.
Known(query) == { k \in DOMAIN query.qs : query.qs[k].type # MX }

\* Their time to live, in the records.
TtlPlaces(query) ==
  LET at(k) == Len(Packet(query)) + Len(FlattenSeq(SubSeq(Answers(query), 1, k - 1)))
  IN UNION { { at(k) + Len(Encoded(query.qs[k].labels)) + 4 + j : j \in 1 .. 4 } : k \in Known(query) }

\* Every question that the server knows is answered under its own name, whether
\* it was spelled out or pointed to, whatever the buffer held before, and ancount
\* is the number of answers.  The answers stand behind all of the query, its
\* additional record included.
ReplyExact ==
  dsent >= 0 =>
    LET right == Sections(dquery) open == TtlPlaces(dquery) IN
    /\ dcount = Cardinality(Known(dquery)) /\ dsent = Len(right)
    /\ \A k \in 1 .. dsent : dreply[k] = right[k] \/ k \in open

\* Violated: an answer may be cached for the 0 seconds that the code means to
\* say (captdns.c:256): the second half of the time of NS and URI records is what
\* an earlier reply left there.
TtlZero == dsent >= 0 => \A k \in TtlPlaces(dquery) : k <= dsent => dreply[k] = 0

\* Violated: "We are ok if hdr->arcount is non-zero as these could be extension
\* records, but we don't process them" (captdns.c:200): they are copied, and the
\* answers are put behind them, where the additional section is over.
AnswersBeforeAdditional ==
  dsent >= 0 /\ dcount > 0 => dquery.additional = 0
=============================================================================
