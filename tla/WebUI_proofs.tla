------------------------------ MODULE WebUI_proofs ------------------------------
(****************************************************************************)
(* What the user interface shows.  A live page, for any number of changes    *)
(* and of tokens on their way: no wake is slept over, and a view that is not *)
(* being read shows what the page's last token stands for, unless its first  *)
(* read was answered before and landed after the token.  The list of traces  *)
(* and the tree of a trace, for any table, any page size, and any order of   *)
(* writes, requests, answers and failures: a trace that does not change is   *)
(* listed once, with the counts of one snapshot, no child of a span is lost, *)
(* and a reveal ends with its target drawn.                                  *)
(****************************************************************************)
EXTENDS LivePage, SpanBrowser, NumberFacts

--------------------------------------------------------------------------------
(* The live page. *)

(* What a version, a token or a picture is, without the model's bounds. *)
Version == [View -> Nat]

(* The types that the two properties rest on. *)
Types ==
  /\ trace \in Version /\ picture \in Version /\ reply \in Version
  /\ event \in BOOLEAN
  /\ notified \in Nat /\ announced \in Nat /\ marks \in Nat
  /\ stream = "waiting" => token \in Version
  /\ lastId # None => lastId \in Version
  /\ sent \in Seq(Version)

(* Nothing that the server or the page holds is ahead of the tables. *)
AtMost(version) == \A v \in View : version[v] <= trace[v]

NothingAhead ==
  /\ notified <= trace["interactions"] /\ announced <= trace["interactions"]
  /\ marks <= trace["interactions"]
  /\ lastId # None => AtMost(lastId)
  /\ \A n \in DOMAIN sent : AtMost(sent[n])

(* A wake that comes between the two statements sets the event, which was      *)
(* cleared before them.                                                        *)
MarksHeard == stream = "comparing" /\ ~event => marks >= announced

(* What PictureCoversToken asks of a view, of the answer on its way to it: a   *)
(* token that takes no read back has found the answer new enough, or is        *)
(* swallowed.                                                                  *)
AnswersCoverToken ==
  lastId # None =>
    \A v \in View : v \in served /\ v \notin swallowed => reply[v] >= lastId[v]

PageInv ==
  /\ Types /\ NothingAhead /\ MarksHeard /\ WakeHeard
  /\ AnswersCoverToken /\ PictureCoversToken

LEMMA InitPage == Init => PageInv
<1> SUFFICES ASSUME Init PROVE PageInv
  OBVIOUS
<1>1. sent = <<>> /\ lastId = None /\ stream = "gone" /\ source = "connecting"
  BY DEF Init
<1>2. Types
  <2>1. trace \in Version /\ picture \in Version /\ reply \in Version
    BY DEF Init, Version
  <2>2. event \in BOOLEAN
    BY DEF Init
  <2>3. sent \in Seq(Version)
    BY <1>1
  <2> QED
    BY <1>1, <2>1, <2>2, <2>3 DEF Init, Types
<1>3. NothingAhead
  BY DEF Init, NothingAhead, View
<1> QED
  BY <1>1, <1>2, <1>3
  DEF PageInv, MarksHeard, WakeHeard, AnswersCoverToken, PictureCoversToken

(* Every state variable's type, one step per action. *)
LEMMA NextTypes == Types /\ NothingAhead /\ [Next]_vars => Types'
<1> SUFFICES ASSUME Types, NothingAhead, [Next]_vars PROVE Types'
  OBVIOUS
<1> USE DEF Types, Version
<1>1. CASE UNCHANGED vars
  BY <1>1 DEF vars, server, browser, queries
<1>2. CASE WriteInteractions
  <2>1. trace' \in Version /\ notified' \in Nat
    BY <1>2 DEF WriteInteractions, Notify, View
  <2> QED
    BY <1>2, <2>1 DEF WriteInteractions, browser, queries
<1>3. CASE WriteLineage
  <2>1. trace' \in Version
    BY <1>3 DEF WriteLineage, View
  <2> QED
    BY <1>3, <2>1 DEF WriteLineage, server, browser, queries
<1>4. CASE OtherTrace
  <2>1. notified' \in Nat
    BY <1>4 DEF OtherTrace, Notify, View
  <2> QED
    BY <1>4, <2>1 DEF OtherTrace, browser, queries
<1>5. CASE WakeAll
  <2>1. event' \in BOOLEAN
    BY <1>5 DEF WakeAll
  <2> QED
    BY <1>5, <2>1 DEF WakeAll, browser, queries
<1>6. CASE Listen \/ LoseSession
  BY <1>6 DEF Listen, LoseSession, browser, queries
<1>7. CASE Connect
  BY <1>7 DEF Connect, browser, queries
<1>8. CASE Reread
  BY <1>8 DEF Reread, browser, queries
<1>9. CASE ReadMarks
  <2>1. marks' \in Nat
    BY <1>9 DEF ReadMarks, View
  <2> QED
    BY <1>9, <2>1 DEF ReadMarks, browser, queries
<1>10. CASE Emit
  <2>1. TraceVersion \in Version
    BY DEF TraceVersion
  <2>2. token' \in Version /\ sent' \in Seq(Version)
    BY <1>10, <2>1 DEF Emit
  <2> QED
    BY <1>10, <2>2 DEF Emit, browser, queries
<1>11. CASE Receive
  <2>1. Head(sent) \in Version /\ Tail(sent) \in Seq(Version)
    BY <1>11 DEF Receive
  <2>2. reply' \in Version
    BY <1>11 DEF Receive, Signal, NoSignal, Invalidate
  <2> QED
    BY <1>11, <2>1, <2>2 DEF Receive, server
<1>12. CASE Break
  <2>1. event' \in BOOLEAN
    BY <1>12 DEF Break, EndStream
  <2>2. sent' \in Seq(Version)
    BY <1>12 DEF Break
  <2> QED
    BY <1>12, <2>1, <2>2 DEF Break, EndStream, queries
<1>13. CASE Reopen
  BY <1>13 DEF Reopen, server, browser, queries
<1>14. CASE Poll
  <2>1. reply' \in Version
    BY <1>14 DEF Poll, Invalidate
  <2> QED
    BY <1>14, <2>1 DEF Poll, server
<1>15. ASSUME NEW v \in View, Serve(v) \/ Land(v) \/ FailRead(v) PROVE Types'
  <2>1. picture' = picture \/ picture' = [picture EXCEPT ![v] = reply[v]]
    BY <1>15 DEF Serve, Land, FailRead
  <2>2. \E n \in Nat : reply' = [reply EXCEPT ![v] = n]
    BY <1>15 DEF Serve, Land, FailRead
  <2>3. picture' \in Version /\ reply' \in Version
    BY <2>1, <2>2
  <2> QED
    BY <1>15, <2>3 DEF Serve, Land, FailRead, server
<1> QED
  BY <1>1, <1>2, <1>3, <1>4, <1>5, <1>6, <1>7, <1>8, <1>9, <1>10, <1>11, <1>12,
     <1>13, <1>14, <1>15 DEF Next, StreamStep

(* The tables only move forward. *)
LEMMA TraceGrows ==
  Types /\ [Next]_vars => \A v \in View : trace[v] <= trace'[v]
<1> SUFFICES ASSUME Types, [Next]_vars, NEW v \in View PROVE trace[v] <= trace'[v]
  OBVIOUS
<1> USE DEF Types, Version
<1>1. CASE WriteInteractions
  BY <1>1 DEF WriteInteractions, View
<1>2. CASE WriteLineage
  BY <1>2 DEF WriteLineage, View
<1>3. CASE trace' = trace
  BY <1>3
<1> QED
  BY <1>1, <1>2, <1>3
  DEF Next, StreamStep, vars, OtherTrace, WakeAll, Listen, LoseSession, Connect,
      Reread, ReadMarks, Emit, Receive, Break, Reopen, Poll, Serve, Land, FailRead

LEMMA NextNothingAhead ==
  Types /\ NothingAhead /\ [Next]_vars => NothingAhead'
<1> SUFFICES ASSUME Types, NothingAhead, [Next]_vars PROVE NothingAhead'
  OBVIOUS
<1>1. \A v \in View : trace[v] \in Nat /\ trace'[v] \in Nat /\ trace[v] <= trace'[v]
  <2>1. Types'
    BY NextTypes
  <2> QED
    BY <2>1, TraceGrows DEF Types, Version
<1>2. "interactions" \in View
  BY DEF View
<1> DEFINE AtMostNext(version) == \A v \in View : version[v] <= trace'[v]
<1>3. ASSUME NEW x \in Version, AtMost(x) PROVE AtMostNext(x)
  BY <1>1, <1>3 DEF AtMost, Version
<1>4. /\ lastId # None => AtMostNext(lastId)
      /\ \A n \in DOMAIN sent : AtMostNext(sent[n])
  <2>1. ASSUME NEW n \in DOMAIN sent PROVE sent[n] \in Version
    <3>1. sent \in Seq(Version)
      BY DEF Types
    <3> QED
      BY <3>1
  <2> QED
    BY <1>3, <2>1 DEF Types, NothingAhead
<1>5. /\ notified' <= trace'["interactions"] /\ announced' <= trace'["interactions"]
      /\ marks' <= trace'["interactions"]
  BY <1>1, <1>2
  DEF Types, NothingAhead, Next, StreamStep, vars, server, browser, queries, WriteInteractions,
      WriteLineage, Notify, OtherTrace, WakeAll, Listen, LoseSession, Connect, Reread,
      ReadMarks, Emit, Receive, Break, EndStream, Reopen, Poll, Serve, Land, FailRead
<1>6. lastId' # None => AtMostNext(lastId')
  <2>1. CASE Receive
    <3>1. lastId' = Head(sent) /\ sent # <<>>
      BY <2>1 DEF Receive
    <3>2. 1 \in DOMAIN sent /\ lastId' = sent[1]
      BY <3>1 DEF Types
    <3> QED
      BY <1>4, <3>2
  <2>2. CASE lastId' = lastId
    BY <1>4, <2>2
  <2> QED
    BY <2>1, <2>2
    DEF Next, StreamStep, vars, browser, queries, WriteInteractions, WriteLineage, OtherTrace,
        WakeAll, Listen, LoseSession, Connect, Reread, ReadMarks, Emit, Break, Reopen,
        Poll, Serve, Land, FailRead
<1>7. \A n \in DOMAIN sent' : AtMostNext(sent'[n])
  <2>1. CASE Emit /\ sent' = Append(sent, TraceVersion)
    <3>1. /\ sent' = Append(sent, TraceVersion) /\ trace' = trace
          /\ TraceVersion \in Version
      BY <2>1 DEF Emit, TraceVersion, Types, Version
    <3>2. \A n \in DOMAIN sent' :
            \/ n \in DOMAIN sent /\ sent'[n] = sent[n]
            \/ sent'[n] = TraceVersion
      BY <3>1 DEF Types
    <3>3. AtMostNext(TraceVersion)
      BY <2>1 DEF TraceVersion, NothingAhead, Emit, View, Types, Version
    <3> QED
      BY <1>4, <3>2, <3>3
  <2>2. CASE Receive
    <3>1. sent # <<>> /\ sent' = Tail(sent) /\ sent \in Seq(Version)
      BY <2>2 DEF Receive, Types
    <3>2. \A n \in DOMAIN sent' : n + 1 \in DOMAIN sent /\ sent'[n] = sent[n + 1]
      BY <3>1
    <3> QED
      BY <1>4, <3>2
  <2>3. CASE sent' = sent \/ sent' = <<>>
    BY <1>4, <2>3
  <2> QED
    BY <2>1, <2>2, <2>3
    DEF Next, StreamStep, vars, browser, queries, WriteInteractions, WriteLineage, OtherTrace,
        WakeAll, Listen, LoseSession, Connect, Reread, ReadMarks, Emit, Break, Reopen,
        Poll, Serve, Land, FailRead
<1> QED
  BY <1>5, <1>6, <1>7 DEF NothingAhead, AtMost

(* The event is cleared before the read, so a wake that finds it clear after   *)
(* the read is about something newer.                                          *)
LEMMA NextWake ==
  ASSUME Types, NothingAhead, MarksHeard, WakeHeard, [Next]_vars
  PROVE  MarksHeard' /\ WakeHeard'
<1> USE DEF MarksHeard, WakeHeard
<1>1. CASE WakeAll
  <2>1. CASE stream = "gone"
    BY <1>1, <2>1 DEF WakeAll
  <2>2. CASE stream # "gone"
    BY <1>1, <2>2 DEF WakeAll
  <2> QED
    BY <2>1, <2>2
<1>2. CASE ReadMarks
  BY <1>2 DEF ReadMarks, NothingAhead, Types
<1>3. CASE Emit
  <2>1. token'["interactions"] = marks
    BY <1>3 DEF Emit, TraceVersion, View
  <2>2. stream = "comparing" /\ event' = event /\ announced' = announced
        /\ stream' = "waiting"
    BY <1>3 DEF Emit
  <2> QED
    BY <2>1, <2>2
<1>4. CASE Connect \/ Reread \/ Break
  BY <1>4 DEF Connect, Reread, Break, EndStream
<1>5. CASE UNCHANGED <<stream, event, announced, marks, token>>
  BY <1>5
<1> QED
  BY <1>1, <1>2, <1>3, <1>4, <1>5
  DEF Next, StreamStep, vars, server, WriteInteractions, WriteLineage, OtherTrace,
      Listen, LoseSession, Receive, Reopen, Poll, Serve, Land, FailRead

(* An invalidation leaves no view settled: one whose read is not joined is     *)
(* read again.                                                                 *)
LEMMA NoneSettled == Invalidate => Settled' = {}
<1> SUFFICES ASSUME Invalidate, NEW v \in View PROVE v \in pending' \cup served'
  BY DEF Settled
<1>1. CASE v \in JoinedReads
  BY <1>1 DEF Invalidate, JoinedReads
<1>2. CASE v \notin JoinedReads
  BY <1>2 DEF Invalidate
<1> QED
  BY <1>1, <1>2

(* A token that differs leaves on its way only answers to first reads, and     *)
(* marks those among them that are older.                                      *)
LEMMA NextPicture ==
  ASSUME Types, NothingAhead, AnswersCoverToken, PictureCoversToken, [Next]_vars
  PROVE  AnswersCoverToken' /\ PictureCoversToken'
<1> USE DEF AnswersCoverToken, PictureCoversToken
<1>1. CASE Receive
  <2>1. CASE Head(sent) = lastId
    BY <1>1, <2>1 DEF Receive, NoSignal, Settled
  <2>2. CASE Head(sent) # lastId
    <3>1. Signal(Head(sent)) /\ lastId' = Head(sent) /\ sent # <<>> /\ sent \in Seq(Version)
      BY <1>1, <2>2 DEF Receive, Types
    <3>2. Head(sent) \in Version
      BY <3>1
    <3>3. ASSUME NEW v \in View, v \in served', v \notin swallowed'
          PROVE  reply'[v] >= lastId'[v]
      <4>1. v \in served /\ v \in bare /\ reply'[v] = reply[v]
        BY <3>1, <3>3 DEF Signal, Invalidate, JoinedReads
      <4>2. ~(reply[v] < Head(sent)[v])
        BY <3>1, <3>3, <4>1 DEF Signal
      <4>3. reply[v] \in Nat /\ Head(sent)[v] \in Nat
        BY <3>2 DEF Types, Version
      <4> QED
        BY <3>1, <4>1, <4>2, <4>3
    <3>4. Settled' = {}
      BY <3>1, NoneSettled DEF Signal
    <3> QED
      BY <3>3, <3>4
  <2> QED
    BY <2>1, <2>2
<1>2. CASE Poll
  <2>1. Settled' = {} /\ lastId' = lastId
    BY <1>2, NoneSettled DEF Poll
  <2>2. ASSUME NEW v \in View, v \in served', v \notin swallowed'
        PROVE  v \in served /\ v \notin swallowed /\ reply'[v] = reply[v]
    BY <1>2, <2>2 DEF Poll, Invalidate, JoinedReads
  <2> QED
    BY <2>1, <2>2
<1>3. ASSUME NEW v \in View, Serve(v)
      PROVE  AnswersCoverToken' /\ PictureCoversToken'
  <2>1. /\ lastId' = lastId /\ picture' = picture /\ swallowed' = swallowed
        /\ Settled' = Settled
    BY <1>3 DEF Serve, Settled
  <2>2. ASSUME lastId # None, NEW w \in View, w \in served', w \notin swallowed
        PROVE  reply'[w] >= lastId[w]
    <3>1. CASE w = v
      <4>1. reply'[w] = trace[w]
        BY <1>3, <3>1 DEF Serve, Types, Version
      <4>2. lastId[w] <= trace[w] /\ lastId[w] \in Nat /\ trace[w] \in Nat
        BY <2>2 DEF Types, Version, NothingAhead, AtMost
      <4> QED
        BY <4>1, <4>2
    <3>2. CASE w # v
      BY <1>3, <2>2, <3>2 DEF Serve, Types, Version
    <3> QED
      BY <3>1, <3>2
  <2> QED
    BY <2>1, <2>2
<1>4. ASSUME NEW v \in View, Land(v)
      PROVE  AnswersCoverToken' /\ PictureCoversToken'
  <2>1. /\ lastId' = lastId /\ swallowed' = swallowed /\ pending' = pending
        /\ v \in served /\ served' = served \ {v} /\ failed' = failed \ {v}
    BY <1>4 DEF Land
  <2>2. ASSUME NEW w \in View, w # v
        PROVE  picture'[w] = picture[w] /\ reply'[w] = reply[w]
    BY <1>4, <2>2 DEF Land, Types, Version
  <2>3. picture'[v] = reply[v]
    BY <1>4 DEF Land, Types, Version
  <2>4. AnswersCoverToken'
    BY <2>1, <2>2
  <2>5. \A w \in Settled' : w = v \/ w \in Settled
    BY <2>1 DEF Settled
  <2>6. PictureCoversToken'
    BY <2>1, <2>2, <2>3, <2>5 DEF Settled
  <2> QED
    BY <2>4, <2>6
<1>5. ASSUME NEW v \in View, FailRead(v)
      PROVE  AnswersCoverToken' /\ PictureCoversToken'
  <2>1. /\ lastId' = lastId /\ picture' = picture /\ swallowed' = swallowed \ {v}
        /\ served' = served \ {v} /\ pending' = pending \ {v} /\ failed' = failed \cup {v}
    BY <1>5 DEF FailRead
  <2>2. ASSUME NEW w \in View, w # v PROVE reply'[w] = reply[w]
    BY <1>5, <2>2 DEF FailRead, Types, Version
  <2>3. \A w \in Settled' : w # v /\ w \in Settled
    BY <2>1 DEF Settled
  <2> QED
    BY <2>1, <2>2, <2>3
<1>6. CASE UNCHANGED <<lastId, queries>>
  BY <1>6 DEF queries, Settled
<1> QED
  BY <1>1, <1>2, <1>3, <1>4, <1>5, <1>6
  DEF Next, StreamStep, vars, browser, queries, WriteInteractions, WriteLineage, OtherTrace,
      WakeAll, Listen, LoseSession, Connect, Reread, ReadMarks, Emit, Break, Reopen

LEMMA NextPage == PageInv /\ [Next]_vars => PageInv'
BY NextTypes, NextNothingAhead, NextWake, NextPicture DEF PageInv

LEMMA SpecPage == Spec => []PageInv
BY InitPage, NextPage, PTL DEF Spec

(* The stream clears its event before it reads (api/live.py, _stream), so one  *)
(* that waits with the event clear has read what its last wake was about.      *)
THEOREM NoWakeSleptOver == Spec => []WakeHeard
<1>1. PageInv => WakeHeard
  BY DEF PageInv
<1> QED
  BY <1>1, SpecPage, PTL

(* A view of the page that is not being read, and whose last read did not      *)
(* fail, is as new as the token the page holds (live.ts, the change listener   *)
(* invalidates before it keeps the token), but for a view whose first read was *)
(* answered with less before that token came.                                  *)
THEOREM PageCoversItsToken == Spec => []PictureCoversToken
<1>1. PageInv => PictureCoversToken
  BY DEF PageInv
<1> QED
  BY <1>1, SpecPage, PTL

--------------------------------------------------------------------------------
(* The list of traces and the tree of a trace. *)

(* Before a trace is opened there is no tree.                                  *)
Unopened ==
  root = Absent =>
    /\ loads = {} /\ exhausted = {} /\ reveal = Absent
    /\ \A s \in Span : loaded[s] = Absent /\ children[s] = Absent /\ since[s] = Absent

(* A span that was read is in the table, with the seq it was read with or a    *)
(* later one.                                                                  *)
WasRead(s, seq) == spans[s] # Absent /\ seq <= spans[s].seq

(* What is listed under p are children of p that were read.                    *)
Children(p, list_, seqs) == \A n \in DOMAIN list_ : ParentOf[list_[n]] = p /\ seqs[list_[n]] # Absent

TreeRead ==
  /\ root # Absent => loaded[root] # Absent
  /\ \A s \in Span : loaded[s] # Absent => WasRead(s, loaded[s])
  /\ \A p \in Span : Children(p, Listed(p), loaded)

LoadsRead ==
  \A l \in loads :
    /\ loaded[l.parent] # Absent /\ DOMAIN l.seqs = DOMAIN l.page
    /\ \A n \in DOMAIN l.page : ParentOf[l.page[n]] = l.parent /\ WasRead(l.page[n], l.seqs[n])

CopyRead ==
  reveal # Absent =>
    /\ \A s \in Span : reveal.loaded[s] # Absent => WasRead(s, reveal.loaded[s])
    /\ \A p \in Span : Children(p, Copied(p), reveal.loaded)
    /\ \A n \in DOMAIN reveal.chain : reveal.loaded[reveal.chain[n]] # Absent
    /\ Len(reveal.chain) <= Cardinality(Span)
    /\ \A n \in DOMAIN reveal.chain : n > 1 => ParentOf[reveal.chain[n - 1]] = reveal.chain[n]
    /\ reveal.chain # <<>> => reveal.chain[1] = reveal.target

(* The listing roots of a request are in the snapshot it read.                 *)
RequestRead ==
  request # Absent => \A n \in DOMAIN request.roots : request.rows[request.roots[n]] # Absent

(* BrowserTypeOK, in two parts. *)
ListTypes ==
  /\ pages \in Seq(ListEntry)
  /\ request \in Snapshot \cup {Absent}
  /\ list \in {"more", "end", "error", "left"} /\ stable \in SUBSET Trace

TreeTypes ==
  /\ root \in Span \cup {Absent}
  /\ loaded \in Seqs /\ children \in Lists
  /\ exhausted \in SUBSET Span /\ expanded \in SUBSET Span
  /\ loads \in SUBSET Answer /\ \A l \in loads : Len(l.page) <= PageSize
  /\ reveal \in Copy \cup {Absent}
  /\ since \in [Span -> (SUBSET Span) \cup {Absent}]
  /\ asked \in Nat

TableInv == spans \in Table /\ Numbered(spans)
ListRead == ListTypes /\ RequestRead
TreeInv == TreeTypes /\ Unopened /\ TreeRead /\ LoadsRead /\ CopyRead

ReadInv == TableInv /\ ListRead /\ TreeInv

(* seen remembers the first read. *)
Remembered(seen) ==
  \A p \in Span :
    IF seen[p] = Absent
    THEN /\ children[p] = Absent /\ p \notin exhausted
         /\ \A l \in loads : l.parent # p
         /\ reveal # Absent => reveal.children[p] = Absent /\ p \notin reveal.exhausted
    ELSE \A c \in seen[p] : spans[c] # Absent /\ ParentOf[c] = p /\ TraceOf[c] = TraceOf[p]

(* The child c of p is listed, or a page behind the listed ones is to come     *)
(* that has it.                                                                *)
Ahead(c, list_, seqs) == c \in ToSet(list_) \/ \A n \in DOMAIN list_ : seqs[list_[n]] < spans[c].seq

TreeAhead(seen) ==
  \A p \in Span : seen[p] # Absent => \A c \in seen[p] :
    /\ Ahead(c, Listed(p), loaded)
    /\ p \in exhausted => children[p] # Absent /\ c \in ToSet(Listed(p))

LoadsAhead(seen) ==
  \A l \in loads : \A c \in seen[l.parent] :
    \/ c \in ToSet(Listed(l.parent)) \cup ToSet(l.page)
    \/ Len(l.page) >= PageSize /\ \A n \in DOMAIN l.page : l.seqs[n] < spans[c].seq

CopyAhead(seen) ==
  reveal # Absent =>
    \A p \in Span : seen[p] # Absent => \A c \in seen[p] :
      /\ Ahead(c, Copied(p), reveal.loaded)
      /\ p \in reveal.exhausted => reveal.children[p] # Absent /\ c \in ToSet(Copied(p))

NoneLost(seen) == Remembered(seen) /\ TreeAhead(seen) /\ LoadsAhead(seen) /\ CopyAhead(seen)

(* While nothing is listed under p, what is on the way was read later than     *)
(* what is loaded. *)
NotBefore(p, seqs) ==
  \A l \in loads : l.parent = p =>
    \A n \in DOMAIN l.page : seqs[l.page[n]] # Absent => seqs[l.page[n]] <= l.seqs[n]

TreeOlder == \A p \in Span : children[p] = Absent => NotBefore(p, loaded)

Walked == {reveal.chain[n] : n \in 2..Len(reveal.chain)}

CopyOlder ==
  reveal # Absent =>
    \A p \in Span \ Walked : reveal.children[p] = Absent =>
      /\ NotBefore(p, reveal.loaded)
      /\ \A n \in DOMAIN Listed(p) :
           reveal.loaded[Listed(p)[n]] # Absent =>
             reveal.loaded[Listed(p)[n]] <= loaded[Listed(p)[n]]

AheadInv == NoneLost(since) /\ TreeOlder /\ CopyOlder

(* A page of the rows S in the order R: no more than LIMIT, in order, and what *)
(* is left out comes after it.                                                 *)
PageOf(page, S, R) ==
  /\ page \in Seq(S) /\ Len(page) <= PageSize
  /\ \A m, n \in 1..Len(page) : m < n => <<page[m], page[n]>> \in R
  /\ \A x \in S : \/ \E n \in 1..Len(page) : page[n] = x
                  \/ /\ Len(page) = PageSize
                     /\ \A n \in 1..Len(page) : <<page[n], x>> \in R

LEMMA PageInOrder ==
  ASSUME NEW S, IsFiniteSet(S), NEW R, StrictlyOrders(R, S), 
         NEW f \in [1..Cardinality(S) -> S],
         \A n \in 1..Cardinality(S) : Cardinality(Preceding(f[n], R, S)) = n - 1
  PROVE  PageOf(FirstPage(f), S, R)
<1> DEFINE place(x) == Cardinality(Preceding(x, R, S))
           c == Cardinality(S)
<1>1. c \in Nat
  BY FS_CardinalityType
<1>2. f \in Seq(S) /\ Len(f) = c /\ DOMAIN f = 1..c
  BY <1>1
<1>3. /\ \A x, y \in S : <<x, y>> \in R => place(x) < place(y)
      /\ \A x \in S : place(x) \in Nat
  <2> HIDE DEF place
  <2> QED
    BY PlacesTaken DEF place
<1>4. ASSUME NEW m \in 1..c, NEW n \in 1..c, m < n PROVE <<f[m], f[n]>> \in R
  <2>1. f[m] \in S /\ f[n] \in S /\ place(f[m]) = m - 1 /\ place(f[n]) = n - 1
    OBVIOUS
  <2> HIDE DEF place, c
  <2>2. ~(place(f[n]) < place(f[m])) /\ f[m] # f[n]
    BY <1>1, <1>4, <2>1
  <2> QED
    BY <1>3, <2>1, <2>2 DEF StrictlyOrders
<1>5. ASSUME NEW x \in S PROVE \E n \in 1..c : f[n] = x
  <2>1. place(x) < c
    <3>1. Preceding(x, R, S) \in SUBSET S /\ x \notin Preceding(x, R, S)
      BY DEF Preceding, StrictlyOrders
    <3>2. place(x) <= c /\ (c = place(x) => S = Preceding(x, R, S))
      BY <3>1, FS_Subset
    <3> QED
      BY <1>1, <1>3, <3>1, <3>2
  <2>2. place(x) + 1 \in 1..c /\ place(f[place(x) + 1]) = place(x) /\ f[place(x) + 1] \in S
    <3>1. place(x) + 1 \in 1..c /\ (place(x) + 1) - 1 = place(x)
      BY <1>1, <1>3, <2>1
    <3> HIDE DEF place, c
    <3> QED
      BY <3>1 DEF place, c
  <2>3. f[place(x) + 1] = x
    <3> HIDE DEF place
    <3>1. ~(place(x) < place(f[place(x) + 1])) /\ ~(place(f[place(x) + 1]) < place(x))
      BY <1>3, <2>2
    <3> QED
      BY <1>3, <2>2, <3>1 DEF StrictlyOrders
  <2> QED
    BY <2>2, <2>3
<1> DEFINE k == IF c < PageSize THEN c ELSE PageSize
           page == SubSeq(f, 1, k)
<1>6. k \in Nat /\ k <= c /\ k <= PageSize /\ (k # c => k = PageSize)
  BY <1>1, SpanListingAssumption
<1>7. page \in Seq(S) /\ Len(page) = k /\ \A n \in 1..k : page[n] = f[n]
  <2> HIDE DEF k, c
  <2>1. page = [n \in 1..k |-> f[n]]
    BY <1>1, <1>2, <1>6
  <2>2. \A n \in 1..k : f[n] \in S
    <3>1. 1..k \subseteq 1..c
      BY <1>1, <1>6
    <3>2. \A n \in 1..c : f[n] \in S
      BY DEF c
    <3> QED
      BY <3>1, <3>2
  <2> QED
    BY <1>6, <2>1, <2>2
<1>8. FirstPage(f) = page
  BY <1>2 DEF FirstPage
<1>9. ASSUME NEW x \in S, ~\E n \in 1..Len(page) : page[n] = x
      PROVE  Len(page) = PageSize /\ \A n \in 1..Len(page) : <<page[n], x>> \in R
  <2>1. PICK j \in 1..c : f[j] = x
    BY <1>5
  <2> HIDE DEF k, c, page
  <2>2. ASSUME j <= k PROVE FALSE
    <3>1. j \in 1..k
      BY <1>1, <1>6, <2>1, <2>2
    <3> QED
      BY <1>7, <1>9, <2>1, <3>1
  <2>3. j \in Nat /\ k < j /\ k = PageSize
    BY <1>1, <1>6, <2>1, <2>2
  <2>4. ASSUME NEW n \in 1..k PROVE <<page[n], x>> \in R
    <3>1. n \in 1..c /\ n < j
      BY <1>1, <1>6, <2>3
    <3> QED
      BY <1>4, <1>7, <2>1, <3>1
  <2> QED
    BY <1>7, <2>3, <2>4
<1>10. \A m, n \in 1..Len(page) : m < n => <<page[m], page[n]>> \in R
  <2> HIDE DEF k, c, page
  <2>1. 1..k \subseteq 1..c
    BY <1>1, <1>6
  <2> QED
    BY <1>4, <1>7, <2>1
<1> HIDE DEF k, c, page
<1> QED
  BY <1>6, <1>7, <1>8, <1>9, <1>10 DEF PageOf

(* The children of p past a cursor, and their order. *)
Past(rows, p, cursor) ==
  {s \in Rows(rows, TraceOf[p]) : ParentOf[s] = p /\ rows[s].seq > cursor}

BySeq(rows, S) == {w \in S \X S : rows[w[1]].seq < rows[w[2]].seq}

LEMMA TableRow ==
  ASSUME NEW rows \in Table, NEW s \in Span, rows[s] # Absent
  PROVE  /\ rows[s].seq \in Nat /\ rows[s].arrival_seq \in Nat
         /\ rows[s].seq \in Numbers(rows[s])
         /\ rows[s] \in Store!SpanRow
BY DEF Table, Store!SpanRow, Numbers

LEMMA ChildrenPaged ==
  ASSUME NEW rows \in Table, Numbered(rows), NEW p \in Span, NEW cursor
  PROVE  LET S == Past(rows, p, cursor) IN
           PageOf(ChildrenPage(rows, p, cursor), S, BySeq(rows, S))
<1> DEFINE S == Past(rows, p, cursor)
           R == BySeq(rows, S)
           bySeq(r, s) == rows[r].seq < rows[s].seq
           f == InOrder(S, bySeq)
           chosen(n) == CHOOSE s \in S : Cardinality({r \in S : bySeq(r, s)}) = n - 1
<1>1. S \in SUBSET Span /\ \A s \in S : rows[s] # Absent /\ rows[s].seq \in Nat
  BY TableRow DEF Past, Rows
<1>2. IsFiniteSet(S)
  <2> HIDE DEF S
  <2> QED
    BY <1>1, FS_Subset, SpanListingAssumption
<1>3. StrictlyOrders(R, S)
  <2>1. \A x, y \in S : x # y => rows[x].seq # rows[y].seq
    <3> HIDE DEF S
    <3> QED
      BY <1>1, TableRow DEF Numbered
  <2>2. \A x, y \in S : <<x, y>> \in R <=> rows[x].seq < rows[y].seq
    <3> HIDE DEF S
    <3> QED
      BY DEF BySeq
  <2> HIDE DEF S, R
  <2> QED
    BY <1>1, <2>1, <2>2 DEF StrictlyOrders
<1>4. \A s \in S : {r \in S : bySeq(r, s)} = Preceding(s, R, S)
  <2> HIDE DEF S
  <2> QED
    BY DEF BySeq, Preceding
<1>5. f = [n \in 1..Cardinality(S) |-> chosen(n)]
  <2> HIDE DEF S
  <2> QED
    BY DEF InOrder
<1>6. ASSUME NEW n \in 1..Cardinality(S)
      PROVE  chosen(n) \in S /\ Cardinality(Preceding(chosen(n), R, S)) = n - 1
  <2>1. \E s \in S : Cardinality({r \in S : bySeq(r, s)}) = n - 1
    <3> HIDE DEF S, R, bySeq
    <3> QED
      BY <1>2, <1>3, <1>4, PlacesTaken
  <2>2. chosen(n) \in S /\ Cardinality({r \in S : bySeq(r, chosen(n))}) = n - 1
    <3> HIDE DEF S
    <3> QED
      BY <2>1
  <2> HIDE DEF S, chosen, R
  <2> QED
    BY <1>4, <2>2
<1>7. ChildrenPage(rows, p, cursor) = FirstPage(f)
  BY DEF ChildrenPage, Past
<1> HIDE DEF S, R, f, chosen
<1>8. PageOf(FirstPage(f), S, R)
  BY <1>2, <1>3, <1>5, <1>6, PageInOrder
<1> QED
  BY <1>7, <1>8 DEF S, R

(* What a page of children holds. *)
LEMMA PageFacts ==
  ASSUME BrowserTypeOK, Numbered(spans), NEW p \in Span, NEW cursor,
         NEW page, page = ChildrenPage(spans, p, cursor)
  PROVE  /\ page \in Seq(Span) /\ Len(page) <= PageSize
         /\ \A n \in DOMAIN page : /\ spans[page[n]] # Absent /\ ParentOf[page[n]] = p
                                   /\ spans[page[n]].seq \in Nat
         /\ SeqsOf(page) \in Seq(Nat) /\ DOMAIN SeqsOf(page) = DOMAIN page
         /\ \A n \in DOMAIN page : SeqsOf(page)[n] = spans[page[n]].seq
<1> DEFINE S == Past(spans, p, cursor)
<1>1. spans \in Table
  BY DEF BrowserTypeOK
<1>2. PageOf(page, S, BySeq(spans, S))
  BY <1>1, ChildrenPaged
<1>3. S \in SUBSET Span /\ \A s \in S : spans[s] # Absent /\ ParentOf[s] = p
  BY DEF Past, Rows
<1> HIDE DEF S
<1>4. page \in Seq(S) /\ Len(page) <= PageSize
  BY <1>2 DEF PageOf
<1>5. page \in Seq(Span) /\ \A n \in DOMAIN page : page[n] \in S
  BY <1>3, <1>4
<1>6. \A n \in DOMAIN page : spans[page[n]].seq \in Nat
  BY <1>1, <1>3, <1>5, TableRow
<1>7. SeqsOf(page) = [n \in 1..Len(page) |-> spans[page[n]].seq] /\ DOMAIN page = 1..Len(page)
  BY <1>4 DEF SeqsOf
<1>8. Len(page) \in Nat
  BY <1>4
<1>9. SeqsOf(page) \in Seq(Nat)
  BY <1>6, <1>7, <1>8
<1> QED
  BY <1>3, <1>4, <1>5, <1>6, <1>7, <1>9

(* The cursor of the listed children. *)
LEMMA CursorFacts ==
  ASSUME NEW listed \in Seq(Span), NEW seqs \in Seqs,
         \A n \in DOMAIN listed : seqs[listed[n]] # Absent,
         NEW cursor, cursor = ChildCursor(listed, seqs)
  PROVE  /\ cursor \in Nat
         /\ listed = <<>> => cursor = NoCursor
         /\ listed # <<>> => \E n \in DOMAIN listed : cursor = seqs[listed[n]]
<1> DEFINE known == {seqs[listed[n]] : n \in DOMAIN listed}
           d == Len(listed)
           f == [n \in 1..d |-> seqs[listed[n]]]
<1>1. d \in Nat /\ DOMAIN listed = 1..d /\ \A n \in 1..d : listed[n] \in Span
  OBVIOUS
<1>2. \A n \in 1..d : f[n] \in Nat
  BY <1>1 DEF Seqs
<1>3. CASE d = 0
  <2>1. known = {} /\ listed = <<>>
    BY <1>1, <1>3
  <2> QED
    BY <2>1 DEF ChildCursor, NoCursor
<1>4. CASE d # 0
  <2>1. PICK m \in 1..d : \A n \in 1..d : f[n] <= f[m]
    <3> HIDE DEF f, d
    <3> QED
      BY <1>1, <1>2, <1>4, LargestAt
  <2>2. f[m] \in known /\ \A n \in known : n <= f[m]
    BY <1>1, <2>1
  <2>3. known # {} /\ listed # <<>>
    BY <1>1, <1>4, <2>2
  <2>4. cursor = CHOOSE n \in known : \A k \in known : k <= n
    BY <2>3 DEF ChildCursor
  <2>5. cursor \in known
    <3> HIDE DEF known, f
    <3> QED
      BY <2>2, <2>4
  <2> QED
    BY <1>1, <1>2, <2>3, <2>5
<1> QED
  BY <1>3, <1>4

(* The page past the cursor of the listed children: a child is listed, or on   *)
(* the page, or behind a full page.                                            *)
LEMMA PageOnward ==
  ASSUME BrowserTypeOK, Numbered(spans), NEW p \in Span,
         NEW listed \in Seq(Span), NEW seqs \in Seqs,
         \A n \in DOMAIN listed : seqs[listed[n]] # Absent,
         NEW c \in Span, spans[c] # Absent, ParentOf[c] = p, TraceOf[c] = TraceOf[p],
         Ahead(c, listed, seqs),
         NEW page, page = ChildrenPage(spans, p, ChildCursor(listed, seqs))
  PROVE  \/ c \in ToSet(listed) \cup ToSet(page)
         \/ Len(page) >= PageSize /\ \A n \in DOMAIN page : spans[page[n]].seq < spans[c].seq
<1> DEFINE cursor == ChildCursor(listed, seqs)
           S == Past(spans, p, cursor)
<1>1. spans \in Table /\ spans[c].seq \in Nat /\ spans[c].seq > 0
  <2>1. spans \in Table
    BY DEF BrowserTypeOK
  <2>2. spans[c].seq \in Nat /\ spans[c].seq # NoCursor
    BY <2>1, TableRow DEF Numbered
  <2> QED
    BY <2>1, <2>2 DEF NoCursor
<1>2. SUFFICES ASSUME c \notin ToSet(listed), c \notin ToSet(page)
               PROVE  Len(page) >= PageSize /\ \A n \in DOMAIN page : spans[page[n]].seq < spans[c].seq
  OBVIOUS
<1>3. /\ cursor \in Nat
      /\ listed = <<>> => cursor = NoCursor
      /\ listed # <<>> => \E n \in DOMAIN listed : cursor = seqs[listed[n]]
  <2> HIDE DEF cursor
  <2> QED
    BY CursorFacts DEF cursor
<1>4. spans[c].seq > cursor
  <2>1. CASE listed = <<>>
    BY <1>1, <1>3, <2>1 DEF NoCursor
  <2>2. CASE listed # <<>>
    <3>1. PICK n \in DOMAIN listed : cursor = seqs[listed[n]]
      BY <1>3, <2>2
    <3>2. seqs[listed[n]] < spans[c].seq
      BY <1>2 DEF Ahead
    <3> HIDE DEF cursor
    <3> QED
      BY <1>1, <1>3, <3>1, <3>2
  <2> QED
    BY <2>1, <2>2
<1>5. c \in S
  BY <1>4 DEF Past, Rows
<1>6. PageOf(page, S, BySeq(spans, S))
  BY <1>1, ChildrenPaged
<1> HIDE DEF S, cursor
<1>7. page \in Seq(S) /\ DOMAIN page = 1..Len(page)
  BY <1>6 DEF PageOf
<1>8. \A n \in 1..Len(page) : page[n] # c
  BY <1>2, <1>7 DEF ToSet
<1>9. /\ Len(page) = PageSize
      /\ \A n \in 1..Len(page) : <<page[n], c>> \in BySeq(spans, S)
  BY <1>5, <1>6, <1>8 DEF PageOf
<1>10. \A n \in 1..Len(page) : spans[page[n]].seq < spans[c].seq
  BY <1>9 DEF BySeq
<1>11. PageSize \in Nat
  BY SpanListingAssumption
<1> QED
  BY <1>7, <1>9, <1>10, <1>11

(* The spans that ensureSpan finds, from the target up. *)
Found(s) == loaded[s] # Absent \/ spans[s] # Absent

LEMMA LineageFacts ==
  ASSUME NEW target \in Span, Found(target), NEW line, line = Lineage(target)
  PROVE  /\ line \in Seq(Span) /\ line # <<>> /\ line[1] = target
         /\ \A n \in 2..Len(line) : ParentOf[line[n - 1]] = line[n]
         /\ \A n \in 1..Len(line) : Found(line[n])
         /\ Len(line) <= Cardinality(Span)
         /\ LET above == ParentOf[line[Len(line)]] IN
              above \in Span \ ToSet(line) => ~Found(above)
<1> DEFINE d == Cardinality(Span)
           X == Seq(Span) \ {<<>>}
           up(b) == ParentOf[b[Len(b)]]
           more(b) == up(b) \in Span \ ToSet(b) /\ Found(up(b))
           step(b) == IF more(b) THEN Append(b, up(b)) ELSE b
           F == [b \in X |-> step(b)]
           Rule(g) == [n \in 0..d |-> IF n = 0 THEN <<target>> ELSE step(g[n - 1])]
           Up[n \in 0..Cardinality(Span)] ==
             IF n = 0 THEN <<target>>
             ELSE LET below == Up[n - 1]
                      parent == ParentOf[below[Len(below)]]
                  IN  IF /\ parent \in Span \ ToSet(below)
                         /\ loaded[parent] # Absent \/ spans[parent] # Absent
                      THEN Append(below, parent) ELSE below
<1>0. d \in Nat
  BY FS_CardinalityType, SpanListingAssumption
<1>1. line = Up[d]
  BY DEF Lineage
<1>2. \A b \in X : step(b) \in X
  OBVIOUS
<1>3. Up = CHOOSE g : g = Rule(g)
  BY DEF Found
<1> HIDE DEF Up, d, step
<1>4. \E g : g = Rule(g)
  <2>1. F \in [X -> X] /\ <<target>> \in X
    <3> HIDE DEF X
    <3>1. <<target>> \in X
      BY DEF X
    <3> QED
      BY <1>2, <3>1
  <2>2. PICK f \in [Nat -> X] : Iterates(f, <<target>>, F)
    <3> HIDE DEF F, X
    <3> QED
      BY <2>1, Iteration
  <2> HIDE DEF X
  <2>3. f[0] = <<target>> /\ \A n \in Nat : f[n] \in X /\ f[n + 1] = step(f[n])
    BY <2>2 DEF Iterates
  <2> DEFINE g == [n \in 0..d |-> f[n]]
  <2>4. ASSUME NEW n \in 0..d PROVE f[n] = IF n = 0 THEN <<target>> ELSE step(g[n - 1])
    <3>1. CASE n = 0
      BY <2>3, <3>1
    <3>2. CASE n # 0
      <4>1. n - 1 \in 0..d /\ n - 1 \in Nat /\ (n - 1) + 1 = n
        BY <1>0, <3>2
      <4>2. f[(n - 1) + 1] = step(f[n - 1])
        BY <2>3, <4>1
      <4> QED
        BY <3>2, <4>1, <4>2
    <3> QED
      BY <3>1, <3>2
  <2>5. g = Rule(g)
    BY <2>4
  <2> QED
    BY <2>5
<1>5. Up = Rule(Up)
  <2> HIDE DEF Rule
  <2> QED
    BY <1>3, <1>4
<1>6. Up[0] = <<target>> /\ \A n \in 0..d : n < d => Up[n + 1] = step(Up[n])
  <2>1. \A n \in 0..d : Up[n] = IF n = 0 THEN <<target>> ELSE step(Up[n - 1])
    BY <1>5
  <2>2. ASSUME NEW n \in 0..d, n < d PROVE n + 1 \in 0..d /\ n + 1 # 0 /\ (n + 1) - 1 = n
    BY <1>0, <2>2
  <2> HIDE DEF Rule
  <2>3. ASSUME NEW n \in 0..d, n < d PROVE Up[n + 1] = step(Up[n])
    BY <2>1, <2>2, <2>3
  <2>4. 0 \in 0..d
    BY <1>0
  <2> QED
    BY <2>1, <2>3, <2>4
<1> DEFINE Good(b) == /\ b \in X /\ b[1] = target
                      /\ \A n \in 2..Len(b) : ParentOf[b[n - 1]] = b[n]
                      /\ \A n \in 1..Len(b) : Found(b[n])
                      /\ \A m, n \in 1..Len(b) : b[m] = b[n] => m = n
           S == {n \in Nat : n <= d => Good(Up[n]) /\ (more(Up[n]) => Len(Up[n]) = n + 1)}
<1>7. 0 \in S
  <2>1. Good(<<target>>) /\ Len(<<target>>) = 0 + 1
    OBVIOUS
  <2> HIDE DEF Good, more
  <2> QED
    BY <1>6, <2>1
<1>8. ASSUME NEW b, Good(b), more(b)
      PROVE  Good(Append(b, up(b))) /\ Len(Append(b, up(b))) = Len(b) + 1
  <2> DEFINE e == up(b)
  <2>1. b \in Seq(Span) /\ b # <<>> /\ Len(b) \in Nat /\ Len(b) # 0
    BY <1>8
  <2>2. e \in Span /\ Found(e) /\ \A n \in 1..Len(b) : b[n] # e
    BY <1>8, <2>1 DEF ToSet
  <2>3. e = ParentOf[b[Len(b)]]
    OBVIOUS
  <2> HIDE DEF e
  <2> DEFINE a == Append(b, e)
  <2>4. a \in X /\ Len(a) = Len(b) + 1 /\ \A n \in 1..Len(b) : a[n] = b[n]
    BY <2>1, <2>2
  <2>5. a[Len(b) + 1] = e
    BY <2>1, <2>2
  <2> HIDE DEF a
  <2>6. a[1] = target
    BY <1>8, <2>1, <2>4
  <2>7. ASSUME NEW n \in 2..Len(a) PROVE ParentOf[a[n - 1]] = a[n]
    <3>1. CASE n = Len(b) + 1
      <4>1. n - 1 = Len(b) /\ Len(b) \in 1..Len(b)
        BY <2>1, <3>1
      <4> QED
        BY <2>3, <2>4, <2>5, <3>1, <4>1
    <3>2. CASE n # Len(b) + 1
      <4>1. n \in 2..Len(b) /\ n \in 1..Len(b) /\ n - 1 \in 1..Len(b)
        BY <2>1, <2>4, <3>2
      <4> QED
        BY <1>8, <2>4, <4>1
    <3> QED
      BY <3>1, <3>2
  <2>8. ASSUME NEW m \in 1..Len(a), NEW n \in 1..Len(a), a[m] = a[n] PROVE m = n
    <3>1. \A k \in 1..Len(a) : k = Len(b) + 1 \/ k \in 1..Len(b)
      BY <2>1, <2>4
    <3> QED
      BY <1>8, <2>2, <2>4, <2>5, <2>8, <3>1
  <2>9. ASSUME NEW n \in 1..Len(a) PROVE Found(a[n])
    <3>1. n = Len(b) + 1 \/ n \in 1..Len(b)
      BY <2>1, <2>4
    <3> QED
      BY <1>8, <2>2, <2>4, <2>5, <3>1
  <2>10. Good(a)
    BY <2>4, <2>6, <2>7, <2>8, <2>9
  <2> HIDE DEF Good
  <2> QED
    BY <2>4, <2>10 DEF a, e
<1>9. ASSUME NEW n \in S PROVE n + 1 \in S
  <2> SUFFICES ASSUME n + 1 <= d
               PROVE  Good(Up[n + 1]) /\ (more(Up[n + 1]) => Len(Up[n + 1]) = (n + 1) + 1)
    OBVIOUS
  <2>1. n \in 0..d /\ n < d /\ n <= d
    BY <1>0
  <2>2. Good(Up[n]) /\ (more(Up[n]) => Len(Up[n]) = n + 1)
    BY <2>1
  <2> HIDE DEF Good, more, up
  <2>3. Up[n + 1] = step(Up[n])
    BY <1>6, <2>1
  <2>4. CASE more(Up[n])
    BY <1>8, <2>2, <2>3, <2>4 DEF step
  <2>5. CASE ~more(Up[n])
    BY <2>2, <2>3, <2>5 DEF step
  <2> QED
    BY <2>4, <2>5
<1>10. Good(line) /\ (more(line) => Len(line) = d + 1)
  <2>1. S \in SUBSET Nat
    OBVIOUS
  <2> HIDE DEF S
  <2>2. d \in S
    BY <1>0, <1>7, <1>9, <2>1, AllNumbers
  <2> QED
    BY <1>0, <1>1, <2>2 DEF S
<1>11. Len(line) <= d
  <2>1. Len(line) \in Nat /\ line \in Seq(Span)
    BY <1>10
  <2>2. line \in [1..Len(line) -> Span]
    BY <2>1
  <2>3. line \in Injection(1..Len(line), Span)
    BY <1>10, <2>2 DEF Injection, IsInjective
  <2>4. Cardinality(1..Len(line)) = Len(line)
    BY <2>1, FS_Interval
  <2> QED
    BY <2>3, <2>4, SpanListingAssumption, FS_Injection DEF d
<1> QED
  <2>1. ~more(line)
    BY <1>0, <1>10, <1>11
  <2> QED
    BY <1>10, <1>11, <2>1 DEF d

(* What is drawn, level by level. *)
Under(rows) == rows \cup UNION {ToSet(Listed(p)) : p \in rows \cap expanded}

Levels(R) ==
  /\ R[0] = {root}
  /\ \A n \in 0..Cardinality(Span) : n < Cardinality(Span) => R[n + 1] = Under(R[n])
  /\ Rendered = R[Cardinality(Span)]

LEMMA RenderedLevels == BrowserTypeOK /\ root # Absent => \E R : Levels(R)
<1> SUFFICES ASSUME BrowserTypeOK, root # Absent PROVE \E R : Levels(R)
  OBVIOUS
<1> DEFINE d == Cardinality(Span)
           X == SUBSET Span
           step(b) == Under(b)
           F == [b \in X |-> step(b)]
           Rule(g) == [n \in 0..d |-> IF n = 0 THEN {root} ELSE step(g[n - 1])]
           R[n \in 0..Cardinality(Span)] ==
             IF n = 0 THEN {root}
             ELSE LET above == R[n - 1] IN
                  above \cup UNION {ToSet(Listed(p)) : p \in above \cap expanded}
<1>0. d \in Nat
  BY FS_CardinalityType, SpanListingAssumption
<1>1. Rendered = R[d]
  BY DEF Rendered
<1>2. \A b \in X : step(b) \in X
  <2>1. \A p \in Span : Listed(p) \in Seq(Span)
    BY DEF Listed, BrowserTypeOK, Lists
  <2>2. \A p \in Span : ToSet(Listed(p)) \in SUBSET Span
    BY <2>1 DEF ToSet
  <2> QED
    BY <2>2 DEF Under
<1>3. R = CHOOSE g : g = Rule(g)
  BY DEF Under
<1> HIDE DEF R, d, step
<1>4. \E g : g = Rule(g)
  <2>1. F \in [X -> X] /\ {root} \in X
    BY <1>2 DEF BrowserTypeOK
  <2>2. PICK f \in [Nat -> X] : Iterates(f, {root}, F)
    <3> HIDE DEF F, X
    <3> QED
      BY <2>1, Iteration
  <2> HIDE DEF X
  <2>3. f[0] = {root} /\ \A n \in Nat : f[n] \in X /\ f[n + 1] = step(f[n])
    BY <2>2 DEF Iterates
  <2> DEFINE g == [n \in 0..d |-> f[n]]
  <2>4. ASSUME NEW n \in 0..d PROVE f[n] = IF n = 0 THEN {root} ELSE step(g[n - 1])
    <3>1. CASE n = 0
      BY <2>3, <3>1
    <3>2. CASE n # 0
      <4>1. n - 1 \in 0..d /\ n - 1 \in Nat /\ (n - 1) + 1 = n
        BY <1>0, <3>2
      <4>2. f[(n - 1) + 1] = step(f[n - 1])
        BY <2>3, <4>1
      <4> QED
        BY <3>2, <4>1, <4>2
    <3> QED
      BY <3>1, <3>2
  <2>5. g = Rule(g)
    BY <2>4
  <2> QED
    BY <2>5
<1>5. R = Rule(R)
  <2> HIDE DEF Rule
  <2> QED
    BY <1>3, <1>4
<1>6. \A n \in 0..d : R[n] = IF n = 0 THEN {root} ELSE step(R[n - 1])
  BY <1>5
<1>7. ASSUME NEW n \in 0..d, n < d PROVE n + 1 \in 0..d /\ n + 1 # 0 /\ (n + 1) - 1 = n
  BY <1>0, <1>7
<1> HIDE DEF Rule
<1>8. ASSUME NEW n \in 0..d, n < d PROVE R[n + 1] = step(R[n])
  BY <1>6, <1>7, <1>8
<1>9. R[0] = {root}
  <2>1. 0 \in 0..d
    BY <1>0
  <2> QED
    BY <1>6, <2>1
<1> QED
  BY <1>1, <1>8, <1>9 DEF Levels, d, step

(* A row that is drawn is the root, or a child listed under a row in P.        *)
LEMMA RenderedWithin ==
  ASSUME BrowserTypeOK, root # Absent, NEW P, root \in P,
         \A p \in P : ToSet(Listed(p)) \subseteq P
  PROVE  Rendered \subseteq P
<1> DEFINE d == Cardinality(Span)
<1>1. PICK R : Levels(R)
  BY RenderedLevels
<1> DEFINE S == {n \in Nat : n <= d => R[n] \subseteq P}
<1>0. d \in Nat
  BY FS_CardinalityType, SpanListingAssumption
<1>2. 0 \in S
  BY <1>1 DEF Levels
<1>3. ASSUME NEW n \in S PROVE n + 1 \in S
  <2> SUFFICES ASSUME n + 1 <= d PROVE R[n + 1] \subseteq P
    OBVIOUS
  <2>1. n \in 0..d /\ n < d /\ R[n] \subseteq P
    BY <1>0
  <2> HIDE DEF d
  <2>2. R[n + 1] = Under(R[n])
    BY <1>1, <2>1 DEF Levels, d
  <2> QED
    BY <2>1, <2>2 DEF Under
<1>4. S \in SUBSET Nat
  OBVIOUS
<1> HIDE DEF S, d
<1>5. d \in S
  BY <1>0, <1>2, <1>3, <1>4, AllNumbers
<1> QED
  BY <1>0, <1>1, <1>5 DEF Levels, S, d

(* A chain of expanded rows, each listed under the next, up to the root.       *)
Chained(chain) ==
  /\ chain \in Seq(Span) /\ Len(chain) <= Cardinality(Span)
  /\ \A n \in 2..Len(chain) : chain[n] \in expanded /\ chain[n - 1] \in ToSet(Listed(chain[n]))
  /\ root \in ToSet(chain)

LEMMA ChainedIsRendered ==
  BrowserTypeOK /\ root # Absent => \A chain : Chained(chain) => chain[1] \in Rendered
<1> SUFFICES ASSUME BrowserTypeOK, root # Absent, NEW chain, Chained(chain)
             PROVE  chain[1] \in Rendered
  OBVIOUS
<1> DEFINE d == Cardinality(Span)
<1>1. PICK R : Levels(R)
  BY RenderedLevels
<1>2. Len(chain) \in Nat /\ DOMAIN chain = 1..Len(chain) /\ Len(chain) <= d
  BY DEF Chained
<1>3. PICK k \in 1..Len(chain) : chain[k] = root
  BY <1>2 DEF Chained, ToSet
<1> DEFINE S == {n \in Nat : n <= d => IF n < k THEN chain[k - n] \in R[n] ELSE chain[1] \in R[n]}
<1>0. d \in Nat
  BY FS_CardinalityType, SpanListingAssumption
<1>4. 0 \in S
  <2>1. 0 < k /\ k - 0 = k
    BY <1>2
  <2> QED
    BY <1>1, <1>3, <2>1 DEF Levels
<1>5. ASSUME NEW n \in S PROVE n + 1 \in S
  <2> SUFFICES ASSUME n + 1 <= d
               PROVE  IF n + 1 < k THEN chain[k - (n + 1)] \in R[n + 1] ELSE chain[1] \in R[n + 1]
    OBVIOUS
  <2>1. n \in 0..d /\ n < d /\ IF n < k THEN chain[k - n] \in R[n] ELSE chain[1] \in R[n]
    BY <1>0
  <2> HIDE DEF d
  <2>2. R[n + 1] = Under(R[n])
    BY <1>1, <2>1 DEF Levels, d
  <2>3. CASE n + 1 < k
    <3>1. k - n \in 2..Len(chain) /\ (k - n) - 1 = k - (n + 1) /\ chain[k - n] \in R[n]
      BY <1>2, <2>1, <2>3
    <3>2. chain[k - n] \in expanded /\ chain[(k - n) - 1] \in ToSet(Listed(chain[k - n]))
      BY <3>1 DEF Chained
    <3> QED
      BY <2>2, <2>3, <3>1, <3>2 DEF Under
  <2>4. CASE ~(n + 1 < k)
    <3>1. chain[1] \in R[n]
      <4>1. CASE n < k
        <5>1. k - n = 1
          BY <2>1, <2>4, <4>1
        <5> QED
          BY <2>1, <4>1, <5>1
      <4>2. CASE ~(n < k)
        BY <2>1, <4>2
      <4> QED
        BY <4>1, <4>2
    <3> QED
      BY <2>2, <2>4, <3>1 DEF Under
  <2> QED
    BY <2>3, <2>4
<1>6. d \in S
  <2>1. S \in SUBSET Nat
    OBVIOUS
  <2> HIDE DEF S, d
  <2> QED
    BY <1>0, <1>4, <1>5, <2>1, AllNumbers
<1>7. chain[1] \in R[d]
  <2>1. IF d < k THEN chain[k - d] \in R[d] ELSE chain[1] \in R[d]
    BY <1>0, <1>6
  <2>2. ~(d < k)
    BY <1>0, <1>2
  <2> QED
    BY <2>1, <2>2
<1> QED
  BY <1>1, <1>7 DEF Levels

(* The orders of the listing and of a listing root. *)
Pairs(S, before(_, _)) == {w \in S \X S : before(w[1], w[2])}

LEMMA Orders ==
  ASSUME NEW S \in SUBSET Span
  PROVE  StrictlyOrders(Pairs(S, Earlier), S) /\ StrictlyOrders(Pairs(S, Later), S)
<1>1. \A s \in S : s \in Nat /\ StartedAt[s] \in Nat
  BY SpanListingAssumption
<1> DEFINE E == Pairs(S, Earlier)
           L == Pairs(S, Later)
<1>2. /\ \A x, y \in S : <<x, y>> \in E <=> Earlier(x, y)
      /\ \A x, y \in S : <<x, y>> \in L <=> Later(x, y)
  BY DEF Pairs
<1>3. E \subseteq S \X S /\ L \subseteq S \X S
  BY DEF Pairs
<1> HIDE DEF E, L
<1>4. StrictlyOrders(E, S)
  <2> DEFINE b(x, y) == Earlier(x, y)
  <2>1. \A x, y, z \in S :
          /\ ~b(x, x) /\ (x = y \/ b(x, y) \/ b(y, x))
          /\ b(x, y) /\ b(y, z) => b(x, z)
    BY <1>1 DEF Earlier
  <2> HIDE DEF b
  <2> QED
    BY <1>2, <1>3, <2>1 DEF StrictlyOrders, b
<1>5. StrictlyOrders(L, S)
  <2> DEFINE b(x, y) == Later(x, y)
  <2>1. \A x, y, z \in S :
          /\ ~b(x, x) /\ (x = y \/ b(x, y) \/ b(y, x))
          /\ b(x, y) /\ b(y, z) => b(x, z)
    BY <1>1 DEF Later
  <2> HIDE DEF b
  <2> QED
    BY <1>2, <1>3, <2>1 DEF StrictlyOrders, b
<1> QED
  BY <1>4, <1>5 DEF E, L

LEMMA FirstIn ==
  ASSUME NEW S \in SUBSET Span, S # {}
  PROVE  First(S) \in S
<1> DEFINE R == Pairs(S, Earlier)
<1>1. IsFiniteSet(S)
  BY FS_Subset, SpanListingAssumption
<1>2. Cardinality(S) \in Nat /\ Cardinality(S) # 0
  BY <1>1, FS_CardinalityType, FS_EmptySet
<1>3. \A x, y \in S : <<x, y>> \in R <=> Earlier(x, y)
  BY DEF Pairs
<1>4. StrictlyOrders(R, S)
  BY Orders
<1> HIDE DEF R
<1>5. PICK x \in S : Cardinality(Preceding(x, R, S)) = 1 - 1
  <2>1. 1 \in 1..Cardinality(S)
    BY <1>2
  <2> QED
    BY <1>1, <1>4, <2>1, PlacesTaken
<1>6. Preceding(x, R, S) = {}
  <2>1. IsFiniteSet(Preceding(x, R, S))
    BY <1>1, FS_Subset DEF Preceding
  <2> QED
    BY <1>5, <2>1, FS_EmptySet
<1>7. \A r \in S \ {x} : Earlier(x, r)
  BY <1>3, <1>4, <1>6 DEF Preceding, StrictlyOrders
<1> QED
  BY <1>7 DEF First

(* A listing root is a row of its trace. *)
LEMMA ListingRootRow ==
  ASSUME NEW rows, NEW t, Candidates(rows, t) # {}
  PROVE  ListingRoot(rows, t) \in Rows(rows, t) /\ SingleTraceRoot(rows, t) \in Rows(rows, t)
<1> DEFINE roots == {s \in Candidates(rows, t) : IsRoot(s)}
           S == IF roots # {} THEN roots ELSE Candidates(rows, t)
<1>1. /\ S \in SUBSET Span /\ S # {} /\ S \subseteq Rows(rows, t)
      /\ Candidates(rows, t) \in SUBSET Span /\ Candidates(rows, t) \subseteq Rows(rows, t)
  BY DEF Candidates, Rows
<1>2. ListingRoot(rows, t) = First(S) /\ SingleTraceRoot(rows, t) = First(Candidates(rows, t))
  BY DEF ListingRoot, SingleTraceRoot
<1> HIDE DEF S
<1> QED
  BY <1>1, <1>2, FirstIn

LEMMA ListingRootsRows ==
  ASSUME NEW rows, NEW s \in ListingRoots(rows)
  PROVE  s \in Span /\ rows[s] # Absent /\ s = ListingRoot(rows, TraceOf[s])
<1>1. PICK t \in Trace : Candidates(rows, t) # {} /\ s = ListingRoot(rows, t)
  BY DEF ListingRoots
<1>2. s \in Rows(rows, t)
  BY <1>1, ListingRootRow
<1> QED
  BY <1>1, <1>2 DEF Rows

(* The listing roots past a cursor. *)
Behind(rows, cursor) ==
  {s \in ListingRoots(rows) : \A c \in CursorSpans(rows, cursor) : Later(c, s)}

LEMMA ListingPaged ==
  ASSUME NEW rows, NEW cursor
  PROVE  LET S == Behind(rows, cursor) IN
           PageOf(ListingPage(rows, cursor), S, Pairs(S, Later))
<1> DEFINE S == Behind(rows, cursor)
           R == Pairs(S, Later)
           f == InOrder(S, Later)
           chosen(n) == CHOOSE s \in S : Cardinality({r \in S : Later(r, s)}) = n - 1
<1>1. S \in SUBSET Span
  BY ListingRootsRows DEF Behind
<1>2. IsFiniteSet(S)
  <2> HIDE DEF S
  <2> QED
    BY <1>1, FS_Subset, SpanListingAssumption
<1>3. StrictlyOrders(R, S)
  <2> HIDE DEF S
  <2> QED
    BY <1>1, Orders
<1>4. \A s \in S : {r \in S : Later(r, s)} = Preceding(s, R, S)
  <2> HIDE DEF S
  <2> QED
    BY DEF Pairs, Preceding
<1>5. f = [n \in 1..Cardinality(S) |-> chosen(n)]
  <2> HIDE DEF S
  <2> QED
    BY DEF InOrder
<1>6. ASSUME NEW n \in 1..Cardinality(S)
      PROVE  chosen(n) \in S /\ Cardinality(Preceding(chosen(n), R, S)) = n - 1
  <2>1. \E s \in S : Cardinality({r \in S : Later(r, s)}) = n - 1
    <3> HIDE DEF S, R
    <3> QED
      BY <1>2, <1>3, <1>4, PlacesTaken
  <2>2. chosen(n) \in S /\ Cardinality({r \in S : Later(r, chosen(n))}) = n - 1
    <3> HIDE DEF S
    <3> QED
      BY <2>1
  <2> HIDE DEF S, chosen, R
  <2> QED
    BY <1>4, <2>2
<1>7. ListingPage(rows, cursor) = FirstPage(f)
  BY DEF ListingPage, Behind
<1> HIDE DEF S, R, f, chosen
<1>8. PageOf(FirstPage(f), S, R)
  BY <1>2, <1>3, <1>5, <1>6, PageInOrder
<1> QED
  BY <1>7, <1>8 DEF S, R

LEMMA Typed == ReadInv => BrowserTypeOK
BY DEF ReadInv, TableInv, ListRead, TreeInv, ListTypes, TreeTypes, BrowserTypeOK

LEMMA InitRead == InitBrowser => ReadInv
<1> SUFFICES ASSUME InitBrowser PROVE ReadInv
  OBVIOUS
<1>1. TableInv
  BY TablesAssumption DEF InitBrowser, TableInv
<1>2. ListRead
  <2>1. pages = <<>> /\ request = Absent /\ list = "more" /\ stable = {}
    BY DEF InitBrowser
  <2>2. DOMAIN pages = {}
    BY <2>1
  <2> QED
    BY <2>1, <2>2 DEF ListRead, ListTypes, RequestRead
<1>3. /\ root = Absent /\ loads = {} /\ exhausted = {} /\ expanded = {} /\ reveal = Absent
      /\ asked = 0
      /\ \A s \in Span : loaded[s] = Absent /\ children[s] = Absent /\ since[s] = Absent
  BY DEF InitBrowser
<1>4. TreeTypes
  <2>1. loaded \in Seqs /\ children \in Lists /\ since \in [Span -> (SUBSET Span) \cup {Absent}]
    BY DEF InitBrowser, Seqs, Lists
  <2>2. loads \in SUBSET Answer /\ \A l \in loads : Len(l.page) <= PageSize
    BY <1>3
  <2> QED
    BY <1>3, <2>1, <2>2 DEF TreeTypes
<1>5. \A p \in Span : DOMAIN Listed(p) = {}
  BY <1>3 DEF Listed
<1>6. Unopened /\ TreeRead /\ LoadsRead /\ CopyRead
  BY <1>3, <1>5 DEF Unopened, TreeRead, LoadsRead, CopyRead, Children
<1> QED
  BY <1>1, <1>2, <1>4, <1>6 DEF ReadInv, TreeInv

(* A row never goes back in seq, and keeps the number it arrived with.         *)
Grows ==
  \A s \in Span : spans[s] # Absent =>
    /\ spans[s].seq \in Nat /\ spans'[s] # Absent /\ spans'[s].seq \in Nat
    /\ spans[s].seq <= spans'[s].seq
    /\ Numbers(spans[s]) \subseteq Numbers(spans'[s])

LEMMA WriteGrows ==
  ASSUME TableInv, Write
  PROVE  TableInv' /\ Grows
<1>1. PICK s \in Span, n \in {m \in 1..MaxSeq : Store!Unused(m)}, ended \in BOOLEAN :
        /\ spans' = [spans EXCEPT ![s] =
                       IF @ = Absent
                       THEN [ended |-> ended, origin |-> ended, seq |-> n, arrival_seq |-> n]
                       ELSE [@ EXCEPT !.ended = ended, !.seq = n]]
        /\ Store!Insert(s) \/ Store!Finalize(s)
  BY DEF Write
<1>2. spans \in Table /\ Numbered(spans)
  BY DEF TableInv
<1>3. n \in Nat /\ n # NoCursor
  BY SpanBrowserAssumption DEF NoCursor
<1>4. spans' \in Table
  BY <1>1 DEF Store!Insert, Store!Finalize, Store!OnlyRow, Table
<1>5. \A r \in Span : r # s => spans'[r] = spans[r]
  BY <1>1, <1>2 DEF Table
<1>6. spans'[s] # Absent
  BY <1>1 DEF Store!Insert, Store!Finalize
<1>7. spans[s] # Absent => spans[s].seq <= spans'[s].seq
  <2> SUFFICES ASSUME spans[s] # Absent PROVE spans[s].seq <= spans'[s].seq
    OBVIOUS
  <2>1. spans'[s].seq > spans[s].seq
    BY <1>1 DEF Store!Insert, Store!Finalize
  <2>2. spans[s].seq \in Nat /\ spans'[s].seq \in Nat
    BY <1>2, <1>4, <1>6, TableRow
  <2> QED
    BY <2>1, <2>2
<1>8. /\ spans'[s].ended \/ spans'[s].seq = spans'[s].arrival_seq
      /\ spans[s] # Absent => Numbers(spans[s]) \subseteq Numbers(spans'[s])
  <2>1. CASE spans[s] = Absent
    <3>1. spans'[s] = [ended |-> ended, origin |-> ended, seq |-> n, arrival_seq |-> n]
      BY <1>1, <1>2, <2>1 DEF Table
    <3> QED
      BY <2>1, <3>1
  <2>2. CASE spans[s] # Absent
    <3>1. /\ ~spans[s].ended
          /\ spans'[s] = [spans[s] EXCEPT !.ended = TRUE, !.seq = spans'[s].seq]
      BY <1>1, <2>2 DEF Store!Insert, Store!Finalize
    <3>2. spans[s] \in Store!SpanRow /\ spans[s].seq = spans[s].arrival_seq
      BY <1>2, <2>2, <3>1, TableRow DEF Numbered
    <3>3. spans'[s].ended /\ spans'[s].arrival_seq = spans[s].arrival_seq
      BY <3>1, <3>2 DEF Store!SpanRow
    <3> QED
      BY <3>2, <3>3 DEF Numbers
  <2> QED
    BY <2>1, <2>2
<1>9. Grows
  <2> SUFFICES ASSUME NEW r \in Span, spans[r] # Absent
               PROVE  /\ spans[r].seq \in Nat /\ spans'[r] # Absent /\ spans'[r].seq \in Nat
                      /\ spans[r].seq <= spans'[r].seq
                      /\ Numbers(spans[r]) \subseteq Numbers(spans'[r])
    BY DEF Grows
  <2>1. spans[r].seq \in Nat
    BY <1>2, TableRow
  <2>2. spans'[r] # Absent
    BY <1>5, <1>6
  <2>3. spans'[r].seq \in Nat
    BY <1>4, <2>2, TableRow
  <2> QED
    <3>1. CASE r = s
      BY <1>7, <1>8, <2>1, <2>2, <2>3, <3>1
    <3>2. CASE r # s
      <4>1. spans'[r] = spans[r]
        BY <1>5, <3>2
      <4> QED
        BY <2>1, <2>2, <2>3, <4>1
    <3> QED
      BY <3>1, <3>2
<1>10. Numbers(spans'[s]) \subseteq {n} \cup (IF spans[s] = Absent THEN {} ELSE Numbers(spans[s]))
  <2>1. CASE spans[s] = Absent
    <3>1. spans'[s] = [ended |-> ended, origin |-> ended, seq |-> n, arrival_seq |-> n]
      BY <1>1, <1>2, <2>1 DEF Table
    <3> QED
      BY <3>1 DEF Numbers
  <2>2. CASE spans[s] # Absent
    <3>1. spans'[s] = [spans[s] EXCEPT !.ended = ended, !.seq = n]
      BY <1>1, <1>2, <2>2 DEF Table
    <3>2. spans[s] \in Store!SpanRow
      BY <1>2, <2>2, TableRow
    <3>3. spans'[s].seq = n /\ spans'[s].arrival_seq = spans[s].arrival_seq
      BY <3>1, <3>2 DEF Store!SpanRow
    <3> QED
      BY <2>2, <3>3 DEF Numbers
  <2> QED
    BY <2>1, <2>2
<1>11. \A r \in Span : spans[r] # Absent => n \notin Numbers(spans[r])
  BY DEF Store!Unused, Numbers
<1>12. Numbered(spans')
  <2>1. ASSUME NEW r \in Span, spans'[r] # Absent PROVE NoCursor \notin Numbers(spans'[r])
    BY <1>2, <1>3, <1>5, <1>10, <2>1 DEF Numbered
  <2>2. ASSUME NEW q \in Span, NEW r \in Span, q # r, spans'[q] # Absent, spans'[r] # Absent
        PROVE  Numbers(spans'[q]) \cap Numbers(spans'[r]) = {}
    <3>1. \A x, y \in Span : x # y /\ spans[x] # Absent /\ spans[y] # Absent =>
             Numbers(spans[x]) \cap Numbers(spans[y]) = {}
      BY <1>2 DEF Numbered
    <3>2. CASE q = s
      BY <1>5, <1>10, <1>11, <2>2, <3>1, <3>2
    <3>3. CASE r = s
      BY <1>5, <1>10, <1>11, <2>2, <3>1, <3>3
    <3>4. CASE q # s /\ r # s
      BY <1>5, <2>2, <3>1, <3>4
    <3> QED
      BY <3>2, <3>3, <3>4
  <2>3. ASSUME NEW r \in Span, spans'[r] # Absent, ~spans'[r].ended
        PROVE  spans'[r].seq = spans'[r].arrival_seq
    <3>1. CASE r = s
      BY <1>8, <2>3, <3>1
    <3>2. CASE r # s
      <4>1. spans'[r] = spans[r]
        BY <1>5, <3>2
      <4> QED
        BY <1>2, <2>3, <4>1 DEF Numbered
    <3> QED
      BY <3>1, <3>2
  <2> QED
    BY <2>1, <2>2, <2>3 DEF Numbered
<1> QED
  BY <1>4, <1>9, <1>12 DEF TableInv

(* While the table grows, what was read stays read. *)
LEMMA ReadStays ==
  ASSUME TreeInv, Grows, expanded' \in SUBSET Span,
         UNCHANGED <<root, loaded, children, exhausted, loads, since, asked, reveal>>
  PROVE  TreeInv'
<1>1. ASSUME NEW s \in Span, NEW n \in Nat, WasRead(s, n) PROVE WasRead(s, n)'
  BY <1>1 DEF Grows, WasRead
<1>2. TreeTypes' /\ Unopened'
  BY DEF TreeInv, TreeTypes, Unopened
<1>3. TreeRead'
  <2>1. \A s \in Span : loaded[s] # Absent => loaded[s] \in Nat
    BY DEF TreeInv, TreeTypes, Seqs
  <2> QED
    BY <1>1, <2>1 DEF TreeInv, TreeRead, Listed, Children
<1>4. LoadsRead'
  <2>1. \A l \in loads : \A n \in DOMAIN l.page : l.page[n] \in Span /\ (DOMAIN l.seqs = DOMAIN l.page => l.seqs[n] \in Nat)
    BY DEF TreeInv, TreeTypes, Answer
  <2> QED
    BY <1>1, <2>1 DEF TreeInv, LoadsRead
<1>5. CopyRead'
  <2> SUFFICES ASSUME reveal # Absent
               PROVE  CopyRead'
    BY DEF CopyRead
  <2>1. \A s \in Span : reveal.loaded[s] # Absent => reveal.loaded[s] \in Nat
    BY DEF TreeInv, TreeTypes, Copy, Seqs
  <2> QED
    BY <1>1, <2>1 DEF TreeInv, CopyRead, Copied, Children
<1> QED
  BY <1>2, <1>3, <1>4, <1>5 DEF TreeInv

LEMMA SameGrows == ASSUME TableInv, UNCHANGED spans PROVE TableInv' /\ Grows
<1>1. TableInv'
  BY DEF TableInv, Numbered, Table
<1>2. \A s \in Span : spans[s] # Absent => spans[s].seq \in Nat
  BY TableRow DEF TableInv
<1> QED
  BY <1>1, <1>2 DEF Grows

(* A row that is drawn has been loaded. *)
LEMMA RenderedLoaded ==
  ASSUME ReadInv, NEW s \in Rendered
  PROVE  s \in Span /\ root # Absent /\ loaded[s] # Absent
<1> DEFINE P == {p \in Span : loaded[p] # Absent}
<1>1. root # Absent
  BY DEF Rendered
<1>2. BrowserTypeOK /\ TreeRead /\ root \in P
  BY <1>1, Typed DEF ReadInv, TreeInv, TreeRead, TreeTypes
<1>3. ASSUME NEW p \in P PROVE ToSet(Listed(p)) \subseteq P
  <2>1. Listed(p) \in Seq(Span)
    BY <1>2 DEF BrowserTypeOK, Lists, Listed
  <2>2. Children(p, Listed(p), loaded)
    BY <1>2 DEF TreeRead
  <2> QED
    BY <2>1, <2>2 DEF ToSet, Children
<1>4. Rendered \subseteq P
  <2> HIDE DEF P
  <2> QED
    BY <1>1, <1>2, <1>3, RenderedWithin
<1> QED
  BY <1>1, <1>4

(* A request for children. *)
LEMMA AskRead ==
  ASSUME ReadInv, NEW p \in Span, NEW opens \in BOOLEAN, AskChildren(p, opens),
         UNCHANGED <<spans, children, exhausted, reveal>>, expanded' \in SUBSET Span,
         root' \in Span, loaded' \in Seqs, loaded'[root'] # Absent, loaded'[p] # Absent,
         \A s \in Span : loaded[s] # Absent => loaded'[s] = loaded[s],
         \A s \in Span : loaded'[s] # loaded[s] => WasRead(s, loaded'[s])
  PROVE  TreeInv'
<1> DEFINE page == ChildrenPage(spans, p, ChildCursor(Listed(p), loaded))
<1>1. BrowserTypeOK /\ TableInv /\ TreeInv
  BY Typed DEF ReadInv
<1>2. /\ page \in Seq(Span) /\ Len(page) <= PageSize
      /\ \A n \in DOMAIN page : /\ spans[page[n]] # Absent /\ ParentOf[page[n]] = p
                                /\ spans[page[n]].seq \in Nat
      /\ SeqsOf(page) \in Seq(Nat) /\ DOMAIN SeqsOf(page) = DOMAIN page
      /\ \A n \in DOMAIN page : SeqsOf(page)[n] = spans[page[n]].seq
  BY <1>1, PageFacts DEF TableInv
<1> HIDE DEF page
<1> DEFINE answer(pg, sq) == [parent |-> p, page |-> pg, seqs |-> sq, opens |-> opens, id |-> asked]
<1>3. PICK pg \in {page, <<>>}, sq \in {SeqsOf(page), <<>>} :
        loads' = loads \cup {answer(pg, sq)} /\ ((pg = page /\ sq = SeqsOf(page)) \/ (pg = <<>> /\ sq = <<>>))
  BY DEF AskChildren, page
<1>4. answer(pg, sq) \in Answer /\ Len(pg) <= PageSize
  <2>1. pg \in Seq(Span) /\ sq \in Seq(Nat) /\ Len(pg) <= PageSize
    <3>1. <<>> \in Seq(Span) /\ <<>> \in Seq(Nat) /\ Len(<<>>) <= PageSize
      BY SpanListingAssumption
    <3> QED
      BY <1>2, <1>3, <3>1
  <2> QED
    BY <1>1, <2>1 DEF Answer, BrowserTypeOK
<1>5. since' \in [Span -> (SUBSET Span) \cup {Absent}]
  BY <1>1 DEF AskChildren, FirstSeen, Rows, BrowserTypeOK
<1>6. asked' \in Nat
  BY <1>1 DEF AskChildren, BrowserTypeOK
<1>7. TreeTypes'
  <2>1. \A l \in loads' : l \in Answer /\ Len(l.page) <= PageSize
    BY <1>1, <1>3, <1>4 DEF BrowserTypeOK
  <2> QED
    BY <1>1, <1>5, <1>6, <2>1 DEF BrowserTypeOK, TreeTypes
<1>8. Unopened'
  <2>1. root' # Absent
    BY AbsentAssumption, SpanListingAssumption
  <2> QED
    BY <2>1 DEF Unopened
<1>9. \A s \in Span : loaded[s] # Absent => loaded'[s] # Absent
  OBVIOUS
<1>10. TreeRead'
  <2>1. \A s \in Span : loaded'[s] # Absent => WasRead(s, loaded'[s])
    BY <1>1 DEF TreeInv, TreeRead
  <2>2. ASSUME NEW q \in Span PROVE Children(q, Listed(q), loaded')
    <3>1. Listed(q) \in Seq(Span) /\ Children(q, Listed(q), loaded)
      BY <1>1 DEF TreeInv, TreeRead, TreeTypes, Lists, Listed
    <3> QED
      BY <1>9, <3>1 DEF Children
  <2> QED
    BY <2>1, <2>2 DEF TreeRead, Listed, WasRead
<1>11. LoadsRead'
  <2> SUFFICES ASSUME NEW l \in loads'
               PROVE  /\ loaded'[l.parent] # Absent /\ DOMAIN l.seqs = DOMAIN l.page
                      /\ \A n \in DOMAIN l.page :
                           ParentOf[l.page[n]] = l.parent /\ WasRead(l.page[n], l.seqs[n])
    BY DEF LoadsRead, WasRead
  <2>1. CASE l \in loads
    <3>1. l.parent \in Span
      BY <1>1, <2>1 DEF BrowserTypeOK, Answer
    <3> QED
      BY <1>1, <1>9, <2>1, <3>1 DEF TreeInv, LoadsRead
  <2>2. CASE l = answer(pg, sq)
    <3>1. l.parent = p /\ l.page = pg /\ l.seqs = sq
      BY <2>2
    <3>2. DOMAIN sq = DOMAIN pg /\ \A n \in DOMAIN pg : ParentOf[pg[n]] = p /\ WasRead(pg[n], sq[n])
      <4>1. CASE pg = page /\ sq = SeqsOf(page)
        BY <1>2, <4>1 DEF WasRead
      <4>2. CASE pg = <<>> /\ sq = <<>>
        BY <4>2
      <4> QED
        BY <1>3, <4>1, <4>2
    <3> QED
      BY <3>1, <3>2
  <2> QED
    BY <1>3, <2>1, <2>2
<1>12. CopyRead'
  BY <1>1 DEF TreeInv, CopyRead, Copied, Children, WasRead
<1> QED
  BY <1>7, <1>8, <1>10, <1>11, <1>12 DEF TreeInv

(* What is loaded with a page. *)
Loaded(old, page, seqs) ==
  [s \in Span |-> IF s \in ToSet(page) THEN seqs[CHOOSE i \in DOMAIN page : page[i] = s] ELSE old[s]]

LEMMA Brought ==
  ASSUME NEW page \in Seq(Span), NEW seqs \in Seq(Nat), DOMAIN seqs = DOMAIN page,
         NEW old \in Seqs
  PROVE  /\ Loaded(old, page, seqs) \in Seqs
         /\ \A s \in Span :
              /\ s \in ToSet(page) =>
                   \E n \in DOMAIN page : page[n] = s /\ Loaded(old, page, seqs)[s] = seqs[n]
              /\ s \notin ToSet(page) => Loaded(old, page, seqs)[s] = old[s]
<1> DEFINE k(s) == CHOOSE i \in DOMAIN page : page[i] = s
<1>1. \A n \in DOMAIN page : seqs[n] \in Nat
  OBVIOUS
<1>2. ASSUME NEW s \in ToSet(page) PROVE k(s) \in DOMAIN page /\ page[k(s)] = s
  BY <1>2 DEF ToSet
<1> HIDE DEF k
<1>3. Loaded(old, page, seqs) = [s \in Span |-> IF s \in ToSet(page) THEN seqs[k(s)] ELSE old[s]]
  BY DEF Loaded, k
<1>4. \A s \in Span : (IF s \in ToSet(page) THEN seqs[k(s)] ELSE old[s]) \in Nat \cup {Absent}
  BY <1>1, <1>2 DEF Seqs
<1> QED
  BY <1>2, <1>3, <1>4 DEF Seqs

LEMMA Joined ==
  ASSUME NEW a \in Seq(Span), NEW b \in Seq(Span)
  PROVE  /\ a \o b \in Seq(Span) /\ ToSet(a \o b) = ToSet(a) \cup ToSet(b)
         /\ \A n \in DOMAIN (a \o b) : (a \o b)[n] \in ToSet(a) \cup ToSet(b)
<1>1. a \o b \in Seq(Span) /\ Len(a \o b) = Len(a) + Len(b)
  OBVIOUS
<1>2. ASSUME NEW n \in DOMAIN (a \o b) PROVE (a \o b)[n] \in ToSet(a) \cup ToSet(b)
  BY DEF ToSet
<1>3. ASSUME NEW n \in DOMAIN a PROVE a[n] \in ToSet(a \o b)
  <2>1. n \in DOMAIN (a \o b) /\ (a \o b)[n] = a[n]
    OBVIOUS
  <2> QED
    BY <2>1 DEF ToSet
<1>4. ASSUME NEW n \in DOMAIN b PROVE b[n] \in ToSet(a \o b)
  <2>1. Len(a) + n \in DOMAIN (a \o b) /\ (a \o b)[Len(a) + n] = b[n]
    OBVIOUS
  <2> QED
    BY <2>1 DEF ToSet
<1>5. ToSet(a \o b) \subseteq ToSet(a) \cup ToSet(b)
  BY <1>2 DEF ToSet
<1>6. ToSet(a) \cup ToSet(b) \subseteq ToSet(a \o b)
  BY <1>3, <1>4 DEF ToSet
<1> QED
  BY <1>1, <1>2, <1>5, <1>6

(* The children under p are the members of a list. *)
LEMMA ChildrenOf ==
  ASSUME NEW p, NEW list_ \in Seq(Span), NEW seqs
  PROVE  Children(p, list_, seqs) <=>
           \A c \in ToSet(list_) : ParentOf[c] = p /\ seqs[c] # Absent
BY DEF Children, ToSet

(* What an answer to a request does. *)
Arrived(l) ==
  /\ loaded' \in Seqs /\ Listed(l.parent)' = Listed(l.parent) \o l.page
  /\ children' \in Lists /\ children'[l.parent] # Absent
  /\ \A q \in Span : q # l.parent => children'[q] = children[q] /\ Listed(q)' = Listed(q)
  /\ \A s \in Span :
       /\ s \in ToSet(l.page) => \E n \in DOMAIN l.page : l.page[n] = s /\ loaded'[s] = l.seqs[n]
       /\ s \notin ToSet(l.page) => loaded'[s] = loaded[s]

LEMMA AnswerArrives == ASSUME TreeInv, NEW l \in loads, AnswerChildren(l) PROVE Arrived(l)
<1>1. /\ l.parent \in Span /\ l.page \in Seq(Span) /\ l.seqs \in Seq(Nat)
      /\ DOMAIN l.seqs = DOMAIN l.page
  BY DEF TreeInv, TreeTypes, Answer, LoadsRead
<1>2. loaded \in Seqs /\ children \in Lists
  BY DEF TreeInv, TreeTypes
<1>3. loaded' = Loaded(loaded, l.page, l.seqs)
  BY DEF AnswerChildren, Loaded
<1>4. loaded' \in Seqs
  BY <1>1, <1>2, <1>3, Brought
<1>5. \A s \in Span :
        /\ s \in ToSet(l.page) => \E n \in DOMAIN l.page : l.page[n] = s /\ loaded'[s] = l.seqs[n]
        /\ s \notin ToSet(l.page) => loaded'[s] = loaded[s]
  BY <1>1, <1>2, <1>3, Brought
<1>6. children' = [children EXCEPT ![l.parent] = Listed(l.parent) \o l.page]
  BY DEF AnswerChildren
<1>7. Listed(l.parent) \in Seq(Span) /\ Listed(l.parent) \o l.page \in Seq(Span)
  BY <1>1, <1>2 DEF Lists, Listed
<1>8. children' \in Lists /\ children'[l.parent] = Listed(l.parent) \o l.page
  BY <1>1, <1>2, <1>6, <1>7 DEF Lists
<1>9. children'[l.parent] # Absent
  BY <1>7, <1>8, AbsentAssumption
<1>10. \A q \in Span : q # l.parent => children'[q] = children[q]
  BY <1>2, <1>6 DEF Lists
<1> QED
  BY <1>4, <1>5, <1>8, <1>9, <1>10 DEF Arrived, Listed

LEMMA AnswerRead ==
  ASSUME ReadInv, NEW l \in loads, AnswerChildren(l)
  PROVE  TreeInv'
<1>1. TableInv /\ TreeInv /\ Arrived(l)
  BY AnswerArrives DEF ReadInv
<1>2. UNCHANGED <<spans, root, since, asked, reveal>> /\ loads' = loads \ {l}
  BY DEF AnswerChildren, store
<1>3. /\ l.parent \in Span /\ l.page \in Seq(Span) /\ l.seqs \in Seq(Nat)
      /\ \A n \in DOMAIN l.page : ParentOf[l.page[n]] = l.parent /\ WasRead(l.page[n], l.seqs[n])
      /\ \A n \in DOMAIN l.page : l.seqs[n] \in Nat
  BY <1>1 DEF TreeInv, TreeTypes, Answer, LoadsRead
<1>4. ASSUME NEW s \in Span, loaded[s] # Absent PROVE loaded'[s] # Absent
  <2>1. CASE s \in ToSet(l.page)
    <3>1. PICK n \in DOMAIN l.page : loaded'[s] = l.seqs[n]
      BY <1>1, <2>1 DEF Arrived
    <3> QED
      BY <1>3, <3>1, AbsentAssumption
  <2>2. CASE s \notin ToSet(l.page)
    BY <1>1, <1>4, <2>2 DEF Arrived
  <2> QED
    BY <2>1, <2>2
<1>5. ASSUME NEW s \in ToSet(l.page)
      PROVE  s \in Span /\ ParentOf[s] = l.parent /\ WasRead(s, loaded'[s]) /\ loaded'[s] \in Nat
  <2>1. s \in Span
    BY <1>3 DEF ToSet
  <2>2. PICK n \in DOMAIN l.page : l.page[n] = s /\ loaded'[s] = l.seqs[n]
    BY <1>1, <2>1 DEF Arrived
  <2> QED
    BY <1>3, <2>1, <2>2
<1>6. TreeTypes'
  BY <1>1, <1>2, <1>3 DEF TreeInv, TreeTypes, Arrived, AnswerChildren
<1>7. Unopened'
  BY <1>1, <1>2 DEF TreeInv, Unopened
<1>8. TreeRead'
  <2>1. \A s \in Span : loaded'[s] # Absent => WasRead(s, loaded'[s])
    BY <1>1, <1>5 DEF TreeInv, TreeRead, Arrived
  <2>2. ASSUME NEW q \in Span PROVE Children(q, Listed(q)', loaded')
    <3>1. Listed(q) \in Seq(Span) /\ Listed(q)' \in Seq(Span)
      BY <1>1 DEF TreeInv, TreeTypes, Arrived, Lists, Listed
    <3>2. \A c \in ToSet(Listed(q)) : ParentOf[c] = q /\ loaded[c] # Absent
      BY <1>1, <3>1, ChildrenOf DEF TreeInv, TreeRead
    <3>3. ToSet(Listed(q)) \subseteq Span
      BY <3>1 DEF ToSet
    <3>4. ToSet(Listed(q)') \subseteq ToSet(Listed(q)) \cup (IF q = l.parent THEN ToSet(l.page) ELSE {})
      <4>1. CASE q = l.parent
        <5>1. Listed(q)' = Listed(q) \o l.page
          BY <1>1, <4>1 DEF Arrived
        <5>2. ToSet(Listed(q) \o l.page) = ToSet(Listed(q)) \cup ToSet(l.page)
          BY <1>3, <3>1, Joined
        <5> QED
          BY <4>1, <5>1, <5>2
      <4>2. CASE q # l.parent
        <5>1. Listed(q)' = Listed(q)
          BY <1>1, <4>2 DEF Arrived
        <5> QED
          BY <4>2, <5>1
      <4> QED
        BY <4>1, <4>2
    <3>5. \A c \in ToSet(Listed(q)') : ParentOf[c] = q /\ loaded'[c] # Absent
      BY <1>4, <1>5, <3>2, <3>3, <3>4, AbsentAssumption
    <3> QED
      BY <3>1, <3>5, ChildrenOf
  <2>3. root' # Absent => loaded'[root'] # Absent
    BY <1>1, <1>2, <1>4 DEF TreeInv, TreeRead, TreeTypes
  <2> QED
    BY <1>2, <2>1, <2>2, <2>3 DEF TreeRead, Listed, WasRead
<1>9. LoadsRead'
  <2>1. \A k \in loads : k.parent \in Span
    BY <1>1 DEF TreeInv, TreeTypes, Answer
  <2> QED
    BY <1>1, <1>2, <1>4, <2>1 DEF TreeInv, LoadsRead, WasRead
<1>10. CopyRead'
  BY <1>1, <1>2 DEF TreeInv, CopyRead, Copied, Children, WasRead
<1> QED
  BY <1>6, <1>7, <1>8, <1>9, <1>10 DEF TreeInv

(* The reveal as it starts. *)
LEMMA RevealStarts ==
  ASSUME ReadInv, NEW target \in Span, StartReveal(target)
  PROVE  \E chain \in Seq(Span), n \in 0..Len(Lineage(target)) :
           /\ Len(chain) = n /\ \A k \in 1..n : chain[k] = Lineage(target)[k]
           /\ \A k \in 1..n : spans[chain[k]] # Absent
           /\ reveal'.target = target /\ reveal'.chain = chain
           /\ reveal'.children = children /\ reveal'.exhausted = exhausted
           /\ reveal' \in Copy
           /\ n = Len(Lineage(target)) \/ loaded[Lineage(target)[n + 1]] = Absent
           /\ \A s \in Span : reveal'.loaded[s] =
                IF loaded[s] = Absent /\ s \in ToSet(chain) THEN spans[s].seq ELSE loaded[s]
<1>1. TableInv /\ TreeInv
  BY DEF ReadInv
<1>2. \A s \in Span : Found(s) => spans[s] # Absent
  BY <1>1 DEF Found, TreeInv, TreeRead, WasRead
<1>3. spans[target] # Absent
  BY DEF StartReveal, Rows
<1> DEFINE line == Lineage(target)
<1>4. line \in Seq(Span) /\ \A n \in 1..Len(line) : Found(line[n])
  <2>1. Found(target)
    BY <1>3 DEF Found
  <2> QED
    BY <2>1, LineageFacts
<1>5. PICK n \in 0..Len(line) :
        /\ \/ SubSeq(line, 1, n) = line
           \/ loaded[line[Len(SubSeq(line, 1, n)) + 1]] = Absent
        /\ reveal' = [target |-> target, chain |-> SubSeq(line, 1, n), children |-> children,
             exhausted |-> exhausted,
             loaded |-> [s \in Span |->
               IF loaded[s] = Absent /\ s \in ToSet(SubSeq(line, 1, n)) THEN spans[s].seq
               ELSE loaded[s]]]
  <2> DEFINE Begun(chain_) ==
        /\ chain_ = line \/ loaded[line[Len(chain_) + 1]] = Absent
        /\ reveal' = [target |-> target, chain |-> chain_, children |-> children,
             exhausted |-> exhausted,
             loaded |-> [s \in Span |->
               IF loaded[s] = Absent /\ s \in ToSet(chain_) THEN spans[s].seq ELSE loaded[s]]]
  <2>1. \E chain_ \in {SubSeq(line, 1, n) : n \in 0..Len(line)} : Begun(chain_)
    BY Zenon DEF StartReveal
  <2> HIDE DEF Begun, line
  <2>2. \E n \in 0..Len(line) : Begun(SubSeq(line, 1, n))
    BY <2>1
  <2> QED
    BY <2>2 DEF Begun
<1> HIDE DEF line
<1> DEFINE chain == SubSeq(line, 1, n)
<1>6. Len(line) \in Nat /\ n \in Nat /\ n <= Len(line)
  BY <1>4
<1>7. chain \in Seq(Span) /\ Len(chain) = n /\ \A k \in 1..n : chain[k] = line[k]
  <2>1. chain = [k \in 1..n |-> line[k]]
    BY <1>4, <1>6
  <2>2. \A k \in 1..n : line[k] \in Span
    BY <1>4, <1>6
  <2> QED
    BY <1>6, <2>1, <2>2
<1> HIDE DEF chain
<1>8. \A k \in 1..n : spans[chain[k]] # Absent
  <2>1. \A k \in 1..n : k \in 1..Len(line)
    BY <1>6
  <2> QED
    BY <1>2, <1>4, <1>7, <2>1
<1>9. ASSUME NEW s \in ToSet(chain) PROVE spans[s].seq \in Nat
  BY <1>1, <1>7, <1>8, TableRow DEF ToSet, TableInv
<1>10. n = Len(line) \/ loaded[line[n + 1]] = Absent
  BY <1>5, <1>7 DEF chain
<1>11. reveal' = [target |-> target, chain |-> chain, children |-> children,
                  exhausted |-> exhausted,
                  loaded |-> [s \in Span |->
                    IF loaded[s] = Absent /\ s \in ToSet(chain) THEN spans[s].seq ELSE loaded[s]]]
  BY <1>5 DEF chain
<1>12. reveal' \in Copy
  <2>1. [s \in Span |->
           IF loaded[s] = Absent /\ s \in ToSet(chain) THEN spans[s].seq ELSE loaded[s]] \in Seqs
    BY <1>1, <1>9 DEF TreeInv, TreeTypes, Seqs
  <2> QED
    BY <1>1, <1>7, <1>11, <2>1 DEF TreeInv, TreeTypes, Copy
<1> QED
  BY <1>7, <1>8, <1>10, <1>11, <1>12 DEF line

LEMMA StartRead ==
  ASSUME ReadInv, NEW target \in Span, StartReveal(target)
  PROVE  TreeInv'
<1>1. TableInv /\ TreeInv
  BY DEF ReadInv
<1>2. UNCHANGED <<spans, root, loaded, children, exhausted, expanded, loads, since, asked>>
  BY DEF StartReveal, store, tree
<1>3. PICK chain \in Seq(Span), n \in 0..Len(Lineage(target)) :
        /\ Len(chain) = n /\ \A k \in 1..n : chain[k] = Lineage(target)[k]
        /\ \A k \in 1..n : spans[chain[k]] # Absent
        /\ reveal'.target = target /\ reveal'.chain = chain
        /\ reveal'.children = children /\ reveal'.exhausted = exhausted
        /\ reveal' \in Copy
        /\ n = Len(Lineage(target)) \/ loaded[Lineage(target)[n + 1]] = Absent
        /\ \A s \in Span : reveal'.loaded[s] =
             IF loaded[s] = Absent /\ s \in ToSet(chain) THEN spans[s].seq ELSE loaded[s]
  BY RevealStarts
<1>4. TreeTypes'
  BY <1>1, <1>2, <1>3 DEF TreeInv, TreeTypes
<1>5. Unopened'
  BY <1>2 DEF StartReveal, Unopened
<1>6. TreeRead' /\ LoadsRead'
  BY <1>1, <1>2 DEF TreeInv, TreeRead, LoadsRead, Listed, Children, WasRead
<1>7. \A s \in Span : loaded[s] # Absent => loaded[s] = reveal'.loaded[s]
  BY <1>3
<1>8. ASSUME NEW s \in Span, reveal'.loaded[s] # Absent PROVE WasRead(s, reveal'.loaded[s])
  <2>1. CASE loaded[s] # Absent
    BY <1>1, <1>7, <2>1 DEF TreeInv, TreeRead
  <2>2. CASE loaded[s] = Absent
    <3>1. s \in ToSet(chain) /\ reveal'.loaded[s] = spans[s].seq
      BY <1>3, <1>8, <2>2
    <3>2. spans[s] # Absent
      BY <1>3, <3>1 DEF ToSet
    <3>3. spans[s].seq \in Nat
      BY <1>1, <3>2, TableRow DEF TableInv
    <3> QED
      BY <3>1, <3>2, <3>3 DEF WasRead
  <2> QED
    BY <2>1, <2>2
<1>9. ASSUME NEW p \in Span PROVE Children(p, Listed(p), reveal'.loaded)
  <2>1. Listed(p) \in Seq(Span)
    BY <1>1 DEF TreeInv, TreeTypes, Lists, Listed
  <2>2. Children(p, Listed(p), loaded)
    BY <1>1 DEF TreeInv, TreeRead
  <2> QED
    BY <1>7, <2>1, <2>2 DEF Children
<1>10. ASSUME NEW k \in 1..n PROVE reveal'.loaded[chain[k]] # Absent
  <2>1. chain[k] \in Span /\ chain[k] \in ToSet(chain)
    BY <1>3 DEF ToSet
  <2>2. spans[chain[k]].seq \in Nat
    BY <1>1, <1>3, <2>1, TableRow DEF TableInv
  <2> QED
    BY <1>3, <2>1, <2>2, AbsentAssumption
<1>11. /\ Lineage(target) \in Seq(Span) /\ Lineage(target)[1] = target
       /\ \A k \in 2..Len(Lineage(target)) : ParentOf[Lineage(target)[k - 1]] = Lineage(target)[k]
       /\ Len(Lineage(target)) <= Cardinality(Span)
  <2>1. Found(target)
    BY DEF Found, StartReveal, Rows
  <2> QED
    BY <2>1, LineageFacts
<1>12. n \in Nat /\ n <= Len(Lineage(target)) /\ Len(Lineage(target)) \in Nat
       /\ DOMAIN chain = 1..n
  BY <1>3, <1>11
<1>13. n <= Cardinality(Span)
  <2>1. Cardinality(Span) \in Nat
    BY FS_CardinalityType, SpanListingAssumption
  <2> QED
    BY <1>11, <1>12, <2>1
<1>14. ASSUME NEW k \in 1..n, k > 1 PROVE ParentOf[chain[k - 1]] = chain[k]
  <2>1. k \in 2..Len(Lineage(target)) /\ k - 1 \in 1..n
    BY <1>12, <1>14
  <2> QED
    BY <1>3, <1>11, <2>1
<1>15. chain # <<>> => chain[1] = target
  <2>1. chain # <<>> => 1 \in 1..n
    BY <1>3, <1>12
  <2> QED
    BY <1>3, <1>11, <2>1
<1>16. CopyRead'
  BY <1>2, <1>3, <1>8, <1>9, <1>10, <1>12, <1>13, <1>14, <1>15
     DEF CopyRead, Copied, Listed, Children, WasRead
<1> QED
  BY <1>4, <1>5, <1>6, <1>16 DEF TreeInv

LEMMA HopFacts ==
  ASSUME TreeInv, Descending
  PROVE  /\ reveal \in Copy
         /\ Hop \in 2..Len(reveal.chain) /\ Hop - 1 \in 1..Len(reveal.chain)
         /\ reveal.chain[Hop] \in Span /\ reveal.chain[Hop] \in Walked
         /\ reveal.chain[Hop - 1] \in Span
<1>1. reveal \in Copy
  BY DEF TreeInv, TreeTypes, Descending
<1>2. reveal.chain \in Seq(Span) /\ Len(reveal.chain) \in Nat
  BY <1>1 DEF Copy
<1>3. Unlisted \in SUBSET (1..Len(reveal.chain)) /\ Unlisted \subseteq 2..Len(reveal.chain)
  BY <1>2 DEF Unlisted
<1>4. \E i \in Unlisted : \A j \in Unlisted : j <= i
  BY <1>2, <1>3, LargestOf DEF Descending
<1>5. Hop \in Unlisted
  BY <1>4 DEF Hop
<1>6. Hop \in 2..Len(reveal.chain)
  BY <1>3, <1>5
<1>7. Hop - 1 \in 1..Len(reveal.chain) /\ Hop \in 1..Len(reveal.chain)
  BY <1>2, <1>6
<1> QED
  BY <1>1, <1>2, <1>6, <1>7 DEF Walked

(* A page joins the copy of the rows under p. *)
Turned(p, page, seqs) ==
  /\ reveal' \in Copy /\ reveal'.target = reveal.target /\ reveal'.chain = reveal.chain
  /\ reveal'.children[p] = Copied(p) \o page /\ reveal'.children[p] # Absent
  /\ \A q \in Span : q # p => reveal'.children[q] = reveal.children[q]
  /\ \A s \in Span :
       /\ s \in ToSet(page) => \E n \in DOMAIN page : page[n] = s /\ reveal'.loaded[s] = seqs[n]
       /\ s \notin ToSet(page) => reveal'.loaded[s] = reveal.loaded[s]
  /\ reveal'.exhausted \in SUBSET (reveal.exhausted \cup {p})
  /\ reveal.exhausted \subseteq reveal'.exhausted

LEMMA Turns ==
  ASSUME reveal \in Copy, NEW p \in Span,
         NEW page \in Seq(Span), NEW seqs \in Seq(Nat), DOMAIN seqs = DOMAIN page,
         reveal'.target = reveal.target, reveal'.chain = reveal.chain,
         reveal'.children = [reveal.children EXCEPT ![p] = Copied(p) \o page],
         reveal'.loaded = Loaded(reveal.loaded, page, seqs),
         reveal'.exhausted \in {reveal.exhausted, reveal.exhausted \cup {p}},
         reveal' = [target |-> reveal'.target, chain |-> reveal'.chain,
                    children |-> reveal'.children, exhausted |-> reveal'.exhausted,
                    loaded |-> reveal'.loaded]
  PROVE  Turned(p, page, seqs)
<1>1. /\ reveal.target \in Span /\ reveal.chain \in Seq(Span) /\ reveal.children \in Lists
      /\ reveal.exhausted \in SUBSET Span /\ reveal.loaded \in Seqs
  BY DEF Copy
<1>2. /\ reveal'.loaded \in Seqs
      /\ \A s \in Span :
           /\ s \in ToSet(page) => \E n \in DOMAIN page : page[n] = s /\ reveal'.loaded[s] = seqs[n]
           /\ s \notin ToSet(page) => reveal'.loaded[s] = reveal.loaded[s]
  BY <1>1, Brought
<1>3. Copied(p) \o page \in Seq(Span)
  <2>1. Copied(p) \in Seq(Span)
    BY <1>1 DEF Copied, Lists
  <2> QED
    BY <2>1
<1>4. /\ reveal'.children \in Lists /\ reveal'.children[p] = Copied(p) \o page
      /\ \A q \in Span : q # p => reveal'.children[q] = reveal.children[q]
  BY <1>1, <1>3 DEF Lists
<1>5. reveal'.children[p] # Absent
  BY <1>3, <1>4, AbsentAssumption
<1>6. reveal' \in Copy
  BY <1>1, <1>2, <1>4 DEF Copy
<1> QED
  BY <1>2, <1>4, <1>5, <1>6 DEF Turned

(* What is read from a page of the table. *)
FromTable(p, page, seqs) ==
  /\ page \in Seq(Span) /\ seqs \in Seq(Nat) /\ DOMAIN seqs = DOMAIN page
  /\ \A n \in DOMAIN page : ParentOf[page[n]] = p /\ WasRead(page[n], seqs[n])

LEMMA TurnedRead ==
  ASSUME ReadInv, reveal # Absent, NEW p \in Span, NEW page, NEW seqs, FromTable(p, page, seqs),
         Turned(p, page, seqs), UNCHANGED spans
  PROVE  CopyRead'
<1>1. TableInv /\ TreeInv /\ reveal \in Copy /\ CopyRead
  BY DEF ReadInv, TreeInv, TreeTypes
<1>2. /\ page \in Seq(Span) /\ seqs \in Seq(Nat) /\ DOMAIN seqs = DOMAIN page
      /\ \A n \in DOMAIN page : ParentOf[page[n]] = p /\ WasRead(page[n], seqs[n]) /\ seqs[n] \in Nat
  BY DEF FromTable
<1>3. ASSUME NEW s \in ToSet(page)
      PROVE  s \in Span /\ ParentOf[s] = p /\ WasRead(s, reveal'.loaded[s]) /\ reveal'.loaded[s] \in Nat
  <2>1. s \in Span
    BY <1>2 DEF ToSet
  <2>2. PICK n \in DOMAIN page : page[n] = s /\ reveal'.loaded[s] = seqs[n]
    BY <2>1 DEF Turned
  <2> QED
    BY <1>2, <2>1, <2>2
<1>4. ASSUME NEW s \in Span, reveal.loaded[s] # Absent PROVE reveal'.loaded[s] # Absent
  <2>1. CASE s \in ToSet(page)
    BY <1>3, <2>1, AbsentAssumption
  <2>2. CASE s \notin ToSet(page)
    BY <1>4, <2>2 DEF Turned
  <2> QED
    BY <2>1, <2>2
<1>5. \A s \in Span : reveal'.loaded[s] # Absent => WasRead(s, reveal'.loaded[s])
  BY <1>1, <1>3 DEF CopyRead, Turned
<1>6. ASSUME NEW q \in Span PROVE Children(q, Copied(q)', reveal'.loaded)
  <2>1. Copied(q) \in Seq(Span) /\ Copied(q)' \in Seq(Span)
    BY <1>1 DEF Copy, Turned, Lists, Copied
  <2>2. \A c \in ToSet(Copied(q)) : ParentOf[c] = q /\ reveal.loaded[c] # Absent
    <3>1. Children(q, Copied(q), reveal.loaded)
      BY <1>1 DEF CopyRead
    <3> QED
      BY <2>1, <3>1 DEF Children, ToSet
  <2>3. ToSet(Copied(q)) \subseteq Span
    BY <2>1 DEF ToSet
  <2>4. ToSet(Copied(q)') \subseteq ToSet(Copied(q)) \cup (IF q = p THEN ToSet(page) ELSE {})
    <3>1. CASE q = p
      <4>1. Copied(q)' = Copied(q) \o page
        BY <3>1 DEF Turned, Copied
      <4>2. ToSet(Copied(q) \o page) = ToSet(Copied(q)) \cup ToSet(page)
        BY <1>2, <2>1, Joined
      <4> QED
        BY <3>1, <4>1, <4>2
    <3>2. CASE q # p
      <4>1. Copied(q)' = Copied(q)
        BY <3>2 DEF Turned, Copied
      <4> QED
        BY <3>2, <4>1
    <3> QED
      BY <3>1, <3>2
  <2>5. \A c \in ToSet(Copied(q)') : ParentOf[c] = q /\ reveal'.loaded[c] # Absent
    BY <1>3, <1>4, <2>2, <2>3, <2>4, AbsentAssumption
  <2> QED
    BY <2>1, <2>5, ChildrenOf
<1>7. \A n \in DOMAIN reveal.chain : reveal'.loaded[reveal.chain[n]] # Absent
  <2>1. \A n \in DOMAIN reveal.chain : reveal.chain[n] \in Span
    BY <1>1 DEF Copy
  <2> QED
    BY <1>1, <1>4, <2>1 DEF CopyRead
<1>8. reveal'.chain = reveal.chain /\ reveal'.target = reveal.target
  BY DEF Turned
<1> QED
  BY <1>1, <1>5, <1>6, <1>7, <1>8 DEF CopyRead, Copied, WasRead

LEMMA ForwardTurns ==
  ASSUME ReadInv, PageForward, NEW p, p = reveal.chain[Hop]
  PROVE  /\ p \in Span /\ p \in Walked /\ p \notin reveal.exhausted
         /\ \E page, seqs :
              /\ FromTable(p, page, seqs) /\ Turned(p, page, seqs)
              /\ \/ /\ page = ChildrenPage(spans, p, ChildCursor(Copied(p), reveal.loaded))
                    /\ seqs = SeqsOf(page) /\ since' = FirstSeen(p)
                    /\ p \in reveal'.exhausted => Len(page) < PageSize
                 \/ since' = [since EXCEPT ![p] = {}]
<1>1. BrowserTypeOK /\ TableInv /\ TreeInv
  BY Typed DEF ReadInv
<1>2. reveal \in Copy /\ p \in Span /\ p \in Walked /\ p \notin reveal.exhausted
  BY <1>1, HopFacts DEF PageForward
<1>3. /\ reveal.children \in Lists /\ reveal.exhausted \in SUBSET Span /\ reveal.loaded \in Seqs
      /\ reveal = [target |-> reveal.target, chain |-> reveal.chain, children |-> reveal.children,
                   exhausted |-> reveal.exhausted, loaded |-> reveal.loaded]
  BY <1>2 DEF Copy
<1> DEFINE page == ChildrenPage(spans, p, ChildCursor(Copied(p), reveal.loaded))
           seqs == SeqsOf(page)
           short == [reveal EXCEPT !.exhausted = @ \cup {p}]
<1>4. /\ page \in Seq(Span) /\ seqs \in Seq(Nat) /\ DOMAIN seqs = DOMAIN page
      /\ \A n \in DOMAIN page : ParentOf[page[n]] = p /\ WasRead(page[n], seqs[n])
  <2>1. /\ page \in Seq(Span) /\ seqs \in Seq(Nat) /\ DOMAIN seqs = DOMAIN page
        /\ \A n \in DOMAIN page : /\ spans[page[n]] # Absent /\ ParentOf[page[n]] = p
                                  /\ spans[page[n]].seq \in Nat
        /\ \A n \in DOMAIN page : seqs[n] = spans[page[n]].seq
    BY <1>1, <1>2, PageFacts DEF TableInv
  <2> HIDE DEF page, seqs
  <2> QED
    BY <2>1 DEF WasRead
<1>5. ASSUME reveal' =
               [(IF Len(page) < PageSize THEN short ELSE reveal) EXCEPT
                  !.children[p] = Copied(p) \o page,
                  !.loaded = [s \in Span |->
                     IF s \in ToSet(page)
                     THEN seqs[CHOOSE i \in DOMAIN page : page[i] = s] ELSE @[s]]],
             since' = FirstSeen(p)
      PROVE  FromTable(p, page, seqs) /\ Turned(p, page, seqs)
             /\ (p \in reveal'.exhausted => Len(page) < PageSize)
  <2> HIDE DEF page, seqs
  <2> DEFINE late == [s \in Span |->
                       IF s \in ToSet(page)
                       THEN seqs[CHOOSE i \in DOMAIN page : page[i] = s] ELSE reveal.loaded[s]]
             more == [reveal.children EXCEPT ![p] = Copied(p) \o page]
             gone == IF Len(page) < PageSize THEN reveal.exhausted \cup {p} ELSE reveal.exhausted
  <2>1. late = Loaded(reveal.loaded, page, seqs)
    BY DEF Loaded
  <2>2. reveal' = [target |-> reveal.target, chain |-> reveal.chain, children |-> more,
                   exhausted |-> gone, loaded |-> late]
    <3>1. CASE Len(page) < PageSize
      <4>1. reveal' = [short EXCEPT !.children = [@ EXCEPT ![p] = Copied(p) \o page],
                                    !.loaded = late]
        BY <1>5, <3>1, <1>3
      <4> HIDE DEF late
      <4> QED
        BY <1>3, <3>1, <4>1
    <3>2. CASE ~(Len(page) < PageSize)
      <4>1. reveal' = [reveal EXCEPT !.children = [@ EXCEPT ![p] = Copied(p) \o page],
                                    !.loaded = late]
        BY <1>5, <3>2
      <4> HIDE DEF late
      <4> QED
        BY <1>3, <3>2, <4>1
    <3> QED
      BY <3>1, <3>2
  <2> HIDE DEF late, more, gone
  <2>3. /\ reveal'.target = reveal.target /\ reveal'.chain = reveal.chain /\ reveal'.children = more
        /\ reveal'.exhausted = gone /\ reveal'.loaded = late
        /\ reveal' = [target |-> reveal'.target, chain |-> reveal'.chain,
                      children |-> reveal'.children, exhausted |-> reveal'.exhausted,
                      loaded |-> reveal'.loaded]
    BY <2>2
  <2>4. Turned(p, page, seqs)
    BY <1>2, <1>4, <2>1, <2>3, Turns DEF more, gone
  <2> QED
    BY <1>2, <1>4, <2>3, <2>4 DEF gone, FromTable
<1>6. ASSUME reveal' = [short EXCEPT !.children[p] = Copied(p)]
      PROVE  FromTable(p, <<>>, <<>>) /\ Turned(p, <<>>, <<>>)
  <2> DEFINE more == [reveal.children EXCEPT ![p] = Copied(p) \o <<>>]
             gone == reveal.exhausted \cup {p}
  <2>1. reveal.loaded = Loaded(reveal.loaded, <<>>, <<>>)
    BY <1>3 DEF Loaded, Seqs, ToSet
  <2>2. Copied(p) \o <<>> = Copied(p)
    <3>1. Copied(p) \in Seq(Span)
      BY <1>2, <1>3 DEF Copied, Lists
    <3> QED
      BY <3>1
  <2>3. reveal' = [target |-> reveal.target, chain |-> reveal.chain, children |-> more,
                   exhausted |-> gone, loaded |-> reveal.loaded]
    BY <1>3, <1>6, <2>2
  <2> HIDE DEF more, gone
  <2>4. /\ reveal'.target = reveal.target /\ reveal'.chain = reveal.chain /\ reveal'.children = more
        /\ reveal'.exhausted = gone /\ reveal'.loaded = reveal.loaded
        /\ reveal' = [target |-> reveal'.target, chain |-> reveal'.chain,
                      children |-> reveal'.children, exhausted |-> reveal'.exhausted,
                      loaded |-> reveal'.loaded]
    BY <2>3
  <2>5. <<>> \in Seq(Span) /\ <<>> \in Seq(Nat) /\ DOMAIN <<>> = {}
    OBVIOUS
  <2>6. Turned(p, <<>>, <<>>)
    BY <1>2, <2>1, <2>4, <2>5, Turns DEF more, gone
  <2> QED
    BY <2>5, <2>6 DEF FromTable
<1>7. CASE /\ reveal' =
                [(IF Len(page) < PageSize THEN short ELSE reveal) EXCEPT
                   !.children[p] = Copied(p) \o page,
                   !.loaded = [s \in Span |->
                      IF s \in ToSet(page)
                      THEN seqs[CHOOSE i \in DOMAIN page : page[i] = s] ELSE @[s]]]
           /\ since' = FirstSeen(p)
  <2>1. FromTable(p, page, seqs) /\ Turned(p, page, seqs)
        /\ (p \in reveal'.exhausted => Len(page) < PageSize)
    BY <1>5, <1>7
  <2> QED
    BY <1>2, <1>7, <2>1
<1>8. CASE reveal' = [short EXCEPT !.children[p] = Copied(p)] /\ since' = [since EXCEPT ![p] = {}]
  BY <1>2, <1>6, <1>8
<1> QED
  <2>1. \/ /\ reveal' =
                [(IF Len(page) < PageSize THEN short ELSE reveal) EXCEPT
                   !.children[p] = Copied(p) \o page,
                   !.loaded = [s \in Span |->
                      IF s \in ToSet(page)
                      THEN seqs[CHOOSE i \in DOMAIN page : page[i] = s] ELSE @[s]]]
           /\ since' = FirstSeen(p)
        \/ reveal' = [short EXCEPT !.children[p] = Copied(p)] /\ since' = [since EXCEPT ![p] = {}]
    BY DEF PageForward
  <2> QED
    BY <1>7, <1>8, <2>1

LEMMA ForwardRead == ASSUME ReadInv, PageForward PROVE TreeInv'
<1> DEFINE p == reveal.chain[Hop]
<1>1. TableInv /\ TreeInv /\ reveal # Absent
  BY DEF ReadInv, PageForward, Descending
<1>2. UNCHANGED <<spans, root, loaded, children, exhausted, expanded, loads>>
  BY DEF PageForward, store
<1>3. p \in Span
  BY ForwardTurns
<1>4. PICK page, seqs :
        /\ FromTable(p, page, seqs) /\ Turned(p, page, seqs)
        /\ since' = FirstSeen(p) \/ since' = [since EXCEPT ![p] = {}]
  <2> HIDE DEF p
  <2>1. p = reveal.chain[Hop]
    BY DEF p
  <2> QED
    BY <2>1, ForwardTurns
<1> HIDE DEF p
<1>5. CopyRead'
  BY <1>1, <1>2, <1>3, <1>4, TurnedRead
<1>6. since' \in [Span -> (SUBSET Span) \cup {Absent}]
  BY <1>1, <1>3, <1>4 DEF FirstSeen, Rows, TreeInv, TreeTypes
<1>7. asked' \in Nat
  BY <1>1 DEF PageForward, TreeInv, TreeTypes
<1>8. TreeTypes'
  BY <1>1, <1>2, <1>4, <1>6, <1>7 DEF TreeInv, TreeTypes, Turned
<1>9. Unopened'
  BY <1>1, <1>2 DEF TreeInv, Unopened
<1>10. TreeRead' /\ LoadsRead'
  BY <1>1, <1>2 DEF TreeInv, TreeRead, LoadsRead, Listed, Children, WasRead
<1> QED
  BY <1>5, <1>8, <1>9, <1>10 DEF TreeInv

LEMMA SpliceTurns ==
  ASSUME ReadInv, Splice, NEW p, p = reveal.chain[Hop]
  PROVE  /\ p \in Span /\ p \in Walked /\ p \in reveal.exhausted
         /\ \E page, seqs : FromTable(p, page, seqs) /\ Turned(p, page, seqs)
         /\ reveal'.exhausted = reveal.exhausted
<1> DEFINE c == reveal.chain[Hop - 1]
           n == reveal.loaded[c]
<1>1. TableInv /\ TreeInv /\ reveal # Absent
  BY DEF ReadInv, Splice, Descending
<1>2. /\ reveal \in Copy /\ p \in Span /\ p \in Walked /\ c \in Span
      /\ Hop \in 2..Len(reveal.chain) /\ Hop - 1 \in 1..Len(reveal.chain)
  BY <1>1, HopFacts DEF Splice
<1>3. /\ reveal.children \in Lists /\ reveal.exhausted \in SUBSET Span /\ reveal.loaded \in Seqs
      /\ reveal.chain \in Seq(Span)
      /\ reveal = [target |-> reveal.target, chain |-> reveal.chain, children |-> reveal.children,
                   exhausted |-> reveal.exhausted, loaded |-> reveal.loaded]
  BY <1>2 DEF Copy
<1>4. ParentOf[c] = p /\ n \in Nat /\ WasRead(c, n)
  <2>1. /\ \A s \in Span : reveal.loaded[s] # Absent => WasRead(s, reveal.loaded[s])
        /\ \A k \in DOMAIN reveal.chain : reveal.loaded[reveal.chain[k]] # Absent
        /\ \A k \in DOMAIN reveal.chain : k > 1 => ParentOf[reveal.chain[k - 1]] = reveal.chain[k]
    BY <1>1 DEF TreeInv, CopyRead
  <2>2. Hop \in DOMAIN reveal.chain /\ Hop > 1 /\ Hop - 1 \in DOMAIN reveal.chain
    BY <1>2, <1>3
  <2> QED
    BY <1>2, <1>3, <2>1, <2>2 DEF Seqs
<1>5. reveal' = [reveal EXCEPT !.children[p] = Append(Copied(p), c)]
  BY DEF Splice
<1> HIDE DEF c, n
<1>6. <<c>> \in Seq(Span) /\ <<n>> \in Seq(Nat) /\ DOMAIN <<c>> = DOMAIN <<n>> /\ DOMAIN <<c>> = {1}
  BY <1>2, <1>4
<1>7. FromTable(p, <<c>>, <<n>>)
  BY <1>4, <1>6 DEF FromTable
<1>8. Copied(p) \in Seq(Span)
  BY <1>2, <1>3 DEF Copied, Lists
<1>9. Append(Copied(p), c) = Copied(p) \o <<c>>
  BY <1>2, <1>8
<1>10. reveal.loaded = Loaded(reveal.loaded, <<c>>, <<n>>)
  <2> DEFINE k(s) == CHOOSE i \in DOMAIN <<c>> : <<c>>[i] = s
  <2>1. ToSet(<<c>>) = {c}
    BY <1>6 DEF ToSet
  <2>2. k(c) = 1
    BY <1>6
  <2> HIDE DEF k
  <2>3. Loaded(reveal.loaded, <<c>>, <<n>>) =
          [s \in Span |-> IF s \in ToSet(<<c>>) THEN <<n>>[k(s)] ELSE reveal.loaded[s]]
    BY DEF Loaded, k
  <2>4. \A s \in Span : (IF s \in ToSet(<<c>>) THEN <<n>>[k(s)] ELSE reveal.loaded[s]) = reveal.loaded[s]
    BY <2>1, <2>2 DEF n
  <2> QED
    BY <1>3, <2>3, <2>4 DEF Seqs
<1> DEFINE more == [reveal.children EXCEPT ![p] = Copied(p) \o <<c>>]
<1>11. reveal' = [target |-> reveal.target, chain |-> reveal.chain, children |-> more,
                  exhausted |-> reveal.exhausted, loaded |-> reveal.loaded]
  BY <1>3, <1>5, <1>9
<1> HIDE DEF more
<1>12. /\ reveal'.target = reveal.target /\ reveal'.chain = reveal.chain /\ reveal'.children = more
       /\ reveal'.exhausted = reveal.exhausted /\ reveal'.loaded = reveal.loaded
       /\ reveal' = [target |-> reveal'.target, chain |-> reveal'.chain,
                     children |-> reveal'.children, exhausted |-> reveal'.exhausted,
                     loaded |-> reveal'.loaded]
  BY <1>11
<1>13. Turned(p, <<c>>, <<n>>)
  BY <1>2, <1>6, <1>10, <1>12, Turns DEF more
<1> QED
  BY <1>2, <1>7, <1>12, <1>13 DEF Splice

LEMMA SpliceRead == ASSUME ReadInv, Splice PROVE TreeInv'
<1> DEFINE p == reveal.chain[Hop]
<1>1. TableInv /\ TreeInv /\ reveal # Absent
  BY DEF ReadInv, Splice, Descending
<1>2. UNCHANGED <<spans, root, loaded, children, exhausted, expanded, loads, since, asked>>
  BY DEF Splice, store, tree
<1>3. p \in Span /\ \E page, seqs : FromTable(p, page, seqs) /\ Turned(p, page, seqs)
  <2> HIDE DEF p
  <2>1. p = reveal.chain[Hop]
    BY DEF p
  <2> QED
    BY <2>1, SpliceTurns
<1> HIDE DEF p
<1>4. CopyRead'
  BY <1>1, <1>2, <1>3, TurnedRead
<1>5. TreeTypes'
  BY <1>1, <1>2, <1>3 DEF TreeInv, TreeTypes, Turned
<1>6. Unopened'
  BY <1>1, <1>2 DEF TreeInv, Unopened
<1>7. TreeRead' /\ LoadsRead'
  BY <1>1, <1>2 DEF TreeInv, TreeRead, LoadsRead, Listed, Children, WasRead
<1> QED
  BY <1>4, <1>5, <1>6, <1>7 DEF TreeInv

LEMMA MergeRead == ASSUME ReadInv, Merge PROVE TreeInv'
<1>1. TableInv /\ TreeInv /\ reveal \in Copy /\ reveal # Absent
  BY DEF ReadInv, TreeInv, TreeTypes, Merge
<1>2. /\ UNCHANGED <<spans, root, loads, asked>> /\ reveal' = Absent
      /\ exhausted' = exhausted \cup reveal.exhausted
      /\ expanded' = expanded \cup {reveal.chain[i] : i \in 2..Len(reveal.chain)}
  BY DEF Merge, store
<1>3. /\ reveal.loaded \in Seqs /\ reveal.children \in Lists /\ reveal.exhausted \in SUBSET Span
      /\ loaded \in Seqs /\ children \in Lists
      /\ \A i \in 2..Len(reveal.chain) : reveal.chain[i] \in Span
  BY <1>1 DEF TreeInv, TreeTypes, Copy
<1>4. /\ loaded' \in Seqs
      /\ \A s \in Span : loaded'[s] = IF reveal.loaded[s] = Absent THEN loaded[s] ELSE reveal.loaded[s]
  BY <1>3 DEF Merge, Seqs
<1>5. /\ children' \in Lists
      /\ \A p \in Span : children'[p] = IF reveal.children[p] = Absent THEN children[p]
                                         ELSE reveal.children[p]
  BY <1>3 DEF Merge, Merged, Lists
<1>6. since' \in [Span -> (SUBSET Span) \cup {Absent}]
  BY <1>1 DEF Merge, TreeInv, TreeTypes
<1>7. TreeTypes'
  BY <1>1, <1>2, <1>3, <1>4, <1>5, <1>6 DEF TreeInv, TreeTypes
<1>8. Unopened'
  BY <1>1, <1>2 DEF TreeInv, Unopened
<1>9. TreeRead'
  <2>1. \A s \in Span : loaded'[s] # Absent => WasRead(s, loaded'[s])
    BY <1>1, <1>4 DEF TreeInv, TreeRead, CopyRead
  <2>2. ASSUME NEW p \in Span PROVE Children(p, Listed(p)', loaded')
    <3>1. Listed(p) \in Seq(Span) /\ Copied(p) \in Seq(Span)
      BY <1>3 DEF Lists, Listed, Copied
    <3>2. Children(p, Listed(p), loaded) /\ Children(p, Copied(p), reveal.loaded)
      BY <1>1 DEF TreeInv, TreeRead, CopyRead
    <3>3. Listed(p)' = Listed(p) \/ Listed(p)' = Copied(p)
      BY <1>5 DEF Listed, Copied
    <3> QED
      BY <1>4, <3>1, <3>2, <3>3 DEF Children
  <2>3. root' # Absent => loaded'[root'] # Absent
    BY <1>1, <1>2, <1>4 DEF TreeInv, TreeRead, TreeTypes
  <2> QED
    BY <1>2, <2>1, <2>2, <2>3 DEF TreeRead, Listed, WasRead
<1>10. LoadsRead'
  <2>1. \A l \in loads : l.parent \in Span
    BY <1>1 DEF TreeInv, TreeTypes, Answer
  <2> QED
    BY <1>1, <1>2, <1>4, <2>1 DEF TreeInv, LoadsRead, WasRead
<1>11. CopyRead'
  BY <1>2 DEF CopyRead
<1> QED
  BY <1>7, <1>8, <1>9, <1>10, <1>11 DEF TreeInv

(* An entry of a listing root that the snapshot has. *)
LEMMA EntryTyped ==
  ASSUME NEW rows \in Table, NEW s \in Span, rows[s] # Absent
  PROVE  ListingEntry(s, rows, Counted(rows)) \in ListEntry
<1>1. rows[s].seq \in Nat /\ rows[s].ended \in BOOLEAN
  BY TableRow DEF Store!SpanRow
<1> DEFINE t == TraceOf[s]
           A == Rows(rows, t)
           B == {r \in Rows(rows, t) : InWindow(r)}
           C == {r \in Rows(rows, t) : rows[r].ended /\ r \in Errors}
<1>2. A \in SUBSET Span /\ B \in SUBSET Span /\ C \in SUBSET Span
  BY DEF Rows
<1>3. ASSUME NEW S \in SUBSET Span PROVE Cardinality(S) \in Nat
  BY FS_Subset, FS_CardinalityType, SpanListingAssumption
<1>4. Cardinality(A) \in Nat /\ Cardinality(B) \in Nat /\ Cardinality(C) \in Nat
  <2> HIDE DEF A, B, C
  <2> QED
    BY <1>2, <1>3
<1>5. Counts(rows, t) = [total |-> Cardinality(A), in_window |-> Cardinality(B),
                         error_count |-> Cardinality(C)]
  BY DEF Counts
<1> HIDE DEF A, B, C
<1>6. Counts(rows, t) \in [total : Nat, in_window : Nat, error_count : Nat]
  BY <1>4, <1>5
<1> QED
  BY <1>1, <1>6 DEF ListingEntry, Counted, ListEntry

LEMMA AnswerTyped ==
  ASSUME ListRead, request # Absent
  PROVE  /\ request \in Snapshot
         /\ [i \in DOMAIN request.roots |->
               ListingEntry(request.roots[i], request.rows, Counted(request.rows))] \in Seq(ListEntry)
<1>1. request \in Snapshot
  BY DEF ListRead, ListTypes
<1>2. request.roots \in Seq(Span) /\ request.rows \in Table
  BY <1>1 DEF Snapshot
<1>3. DOMAIN request.roots = 1..Len(request.roots) /\ Len(request.roots) \in Nat
  BY <1>2
<1>4. ASSUME NEW i \in DOMAIN request.roots
      PROVE  ListingEntry(request.roots[i], request.rows, Counted(request.rows)) \in ListEntry
  BY <1>2, EntryTyped DEF ListRead, RequestRead
<1> DEFINE entry(i) == ListingEntry(request.roots[i], request.rows, Counted(request.rows))
<1>5. \A i \in 1..Len(request.roots) : entry(i) \in ListEntry
  BY <1>3, <1>4
<1>6. [i \in 1..Len(request.roots) |-> entry(i)] \in Seq(ListEntry)
  <2> HIDE DEF entry
  <2> QED
    BY <1>3, <1>5
<1> QED
  BY <1>1, <1>3, <1>6

LEMMA ListSteps ==
  ASSUME ReadInv, AskListing \/ RefuseListing \/ FailListing \/ AnswerListing
  PROVE  ListRead'
<1>1. TableInv /\ ListRead /\ ListTypes /\ RequestRead
  BY DEF ReadInv, ListRead
<1>2. CASE AskListing
  <2>1. request' = [roots |-> ListingPage(spans, ListCursor), rows |-> spans]
    BY <1>2 DEF AskListing
  <2> DEFINE S == Behind(spans, ListCursor)
             page == ListingPage(spans, ListCursor)
  <2>2. S \in SUBSET Span /\ \A s \in S : spans[s] # Absent
    BY ListingRootsRows DEF Behind
  <2>3. page \in Seq(S)
    BY ListingPaged DEF PageOf
  <2> HIDE DEF S, page
  <2>4. page \in Seq(Span) /\ \A n \in DOMAIN page : page[n] \in S
    BY <2>2, <2>3
  <2>5. request' = [roots |-> page, rows |-> spans]
    BY <2>1 DEF page
  <2>6. request' \in Snapshot
    BY <1>1, <2>4, <2>5 DEF Snapshot, TableInv
  <2>7. RequestRead'
    BY <2>2, <2>4, <2>5 DEF RequestRead
  <2>8. stable' \in SUBSET Trace /\ UNCHANGED <<pages, list>>
    BY <1>1, <1>2 DEF AskListing, ListTypes
  <2> QED
    BY <1>1, <2>6, <2>7, <2>8 DEF ListRead, ListTypes
<1>3. CASE RefuseListing
  BY <1>1, <1>3 DEF RefuseListing, ListRead, ListTypes, RequestRead, store
<1>4. CASE FailListing
  BY <1>1, <1>4 DEF FailListing, ListRead, ListTypes, RequestRead, store
<1>5. CASE AnswerListing
  <2> DEFINE new == [i \in DOMAIN request.roots |->
                       ListingEntry(request.roots[i], request.rows, Counted(request.rows))]
  <2>1. new \in Seq(ListEntry)
    BY <1>1, <1>5, AnswerTyped DEF AnswerListing
  <2>2. pages' = pages \o new
    BY <1>5 DEF AnswerListing
  <2> HIDE DEF new
  <2>3. pages' \in Seq(ListEntry)
    BY <1>1, <2>1, <2>2 DEF ListTypes
  <2>4. request' = Absent /\ UNCHANGED stable /\ list' \in {"more", "end", "error", "left"}
    BY <1>5 DEF AnswerListing, store
  <2> QED
    BY <1>1, <2>3, <2>4 DEF ListRead, ListTypes, RequestRead
<1> QED
  BY <1>2, <1>3, <1>4, <1>5

LEMMA OpenRead ==
  ASSUME ReadInv, NEW t \in Trace, OpenTrace(t)
  PROVE  ListRead' /\ TreeInv'
<1>1. TableInv /\ TreeInv /\ ListRead
  BY DEF ReadInv
<1> DEFINE r == SingleTraceRoot(spans, t)
<1>2. r \in Span /\ spans[r] # Absent
  BY ListingRootRow DEF OpenTrace, Rows
<1>3. spans[r].seq \in Nat
  BY <1>1, <1>2, TableRow DEF TableInv
<1>4. /\ root' = r /\ loaded' = [loaded EXCEPT ![r] = spans[r].seq] /\ root = Absent
      /\ AskChildren(r, TRUE) /\ list' = "left" /\ request' = Absent /\ pages' = <<>> /\ stable' = {}
      /\ UNCHANGED <<spans, children, exhausted, expanded, reveal>>
  BY DEF OpenTrace
<1> HIDE DEF r
<1>5. loaded \in Seqs /\ \A s \in Span : loaded[s] = Absent
  BY <1>1, <1>4 DEF TreeInv, TreeTypes, Unopened
<1>6. loaded' \in Seqs /\ loaded'[r] = spans[r].seq /\ \A s \in Span : s # r => loaded'[s] = loaded[s]
  BY <1>2, <1>3, <1>4, <1>5 DEF Seqs
<1>7. loaded'[r] # Absent
  BY <1>3, <1>6, AbsentAssumption
<1>8. WasRead(r, loaded'[r])
  BY <1>2, <1>3, <1>6 DEF WasRead
<1>9. expanded' \in SUBSET Span
  BY <1>1, <1>4 DEF TreeInv, TreeTypes
<1>10. TreeInv'
  <2>1. root' \in Span /\ loaded'[root'] # Absent
    BY <1>2, <1>4, <1>7
  <2>2. \A s \in Span : loaded'[s] # loaded[s] => WasRead(s, loaded'[s])
    BY <1>6, <1>8
  <2>3. \A s \in Span : loaded[s] # Absent => loaded'[s] = loaded[s]
    BY <1>5
  <2>4. UNCHANGED <<spans, children, exhausted, reveal>> /\ TRUE \in BOOLEAN
    BY <1>4
  <2> QED
    BY <1>2, <1>4, <1>6, <1>7, <1>9, <2>1, <2>2, <2>3, <2>4, AskRead
<1>11. ListRead'
  <2>1. <<>> \in Seq(ListEntry)
    OBVIOUS
  <2> QED
    BY <1>4, <2>1 DEF ListRead, ListTypes, RequestRead
<1> QED
  BY <1>10, <1>11

(* A row asks for children. *)
LEMMA RowAsks ==
  ASSUME ReadInv, NEW s \in Rendered, NEW opens \in BOOLEAN, AskChildren(s, opens),
         UNCHANGED <<spans, root, loaded, children, exhausted, expanded, reveal>>
  PROVE  TreeInv'
<1>1. TableInv /\ TreeInv
  BY DEF ReadInv
<1>2. s \in Span /\ root # Absent /\ loaded[s] # Absent
  BY RenderedLoaded
<1>3. root' \in Span /\ loaded' \in Seqs /\ loaded'[root'] # Absent /\ expanded' \in SUBSET Span
  BY <1>1, <1>2 DEF TreeInv, TreeTypes, TreeRead
<1>4. loaded'[s] # Absent /\ UNCHANGED <<spans, children, exhausted, reveal>> /\ loaded' = loaded
  BY <1>2
<1> QED
  BY <1>2, <1>3, <1>4, AskRead

LEMMA NextRead == ReadInv /\ [NextBrowser]_browsing => ReadInv'
<1> SUFFICES ASSUME ReadInv, [NextBrowser]_browsing PROVE ReadInv'
  OBVIOUS
<1>1. TableInv /\ ListRead /\ TreeInv
  BY DEF ReadInv
<1>2. CASE Write
  <2>1. TableInv' /\ Grows
    BY <1>1, <1>2, WriteGrows
  <2>2. TreeInv'
    BY <1>1, <1>2, <2>1, ReadStays DEF Write, tree, TreeInv, TreeTypes
  <2>3. ListRead'
    BY <1>1, <1>2 DEF Write, listing, ListRead, ListTypes, RequestRead
  <2> QED
    BY <2>1, <2>2, <2>3 DEF ReadInv
<1>3. ASSUME UNCHANGED spans, ListRead', TreeInv' PROVE ReadInv'
  BY <1>1, <1>3, SameGrows DEF ReadInv
<1>4. ASSUME UNCHANGED listing, UNCHANGED stable PROVE ListRead'
  BY <1>1, <1>4 DEF listing, ListRead, ListTypes, RequestRead
<1>5. ASSUME UNCHANGED <<spans, root, loaded, children, exhausted, loads, since, asked, reveal>>,
             expanded' \in SUBSET Span
      PROVE  TreeInv'
  BY <1>1, <1>5, SameGrows, ReadStays
<1>6. expanded \in SUBSET Span
  BY <1>1 DEF TreeInv, TreeTypes
<1>7. CASE AskListing \/ RefuseListing \/ FailListing \/ AnswerListing
  <2>1. UNCHANGED <<spans, root, tree, reveal>>
    BY <1>7 DEF AskListing, RefuseListing, FailListing, AnswerListing, store
  <2>2. TreeInv'
    BY <1>5, <1>6, <2>1 DEF tree
  <2> QED
    BY <1>3, <1>7, <2>1, <2>2, ListSteps
<1>8. ASSUME NEW t \in Trace, OpenTrace(t) PROVE ReadInv'
  BY <1>3, <1>8, OpenRead DEF OpenTrace
<1>9. ASSUME NEW s \in Rendered, Collapse(s) PROVE ReadInv'
  <2>1. UNCHANGED <<store, listing, root, loaded, children, exhausted, loads, since, asked, reveal>>
        /\ expanded' \in SUBSET Span
    BY <1>6, <1>9 DEF Collapse
  <2> QED
    BY <1>3, <1>4, <1>5, <2>1 DEF store
<1>10. ASSUME NEW s \in Rendered, Expand(s) PROVE ReadInv'
  <2>1. UNCHANGED <<store, listing, root, loaded, children, exhausted, reveal>>
    BY <1>10 DEF Expand
  <2>2. CASE AskChildren(s, TRUE) /\ UNCHANGED expanded
    <3>1. TreeInv'
      BY <2>1, <2>2, RowAsks DEF store
    <3> QED
      BY <1>3, <1>4, <2>1, <3>1 DEF store
  <2>3. CASE expanded' = expanded \cup {s} /\ UNCHANGED <<loads, since, asked, fails>>
    <3>1. expanded' \in SUBSET Span
      BY <1>6, <2>3, RenderedLoaded
    <3>2. TreeInv'
      BY <1>5, <2>1, <2>3, <3>1 DEF store
    <3> QED
      BY <1>3, <1>4, <2>1, <3>2 DEF store
  <2> QED
    BY <1>10, <2>2, <2>3 DEF Expand
<1>11. ASSUME NEW s \in Rendered, LoadMore(s) PROVE ReadInv'
  <2>1. UNCHANGED <<store, listing, root, loaded, children, exhausted, expanded, reveal>>
        /\ AskChildren(s, FALSE)
    BY <1>11 DEF LoadMore
  <2>2. TreeInv'
    BY <2>1, RowAsks DEF store
  <2> QED
    BY <1>3, <1>4, <2>1, <2>2 DEF store
<1>12. ASSUME NEW s \in Span, StartReveal(s) PROVE ReadInv'
  BY <1>3, <1>4, <1>12, StartRead DEF StartReveal, store
<1>13. ASSUME NEW l \in loads, AnswerChildren(l) PROVE ReadInv'
  BY <1>3, <1>4, <1>13, AnswerRead DEF AnswerChildren, store
<1>14. CASE PageForward
  BY <1>3, <1>4, <1>14, ForwardRead DEF PageForward, store
<1>15. CASE Splice
  BY <1>3, <1>4, <1>15, SpliceRead DEF Splice, store
<1>16. CASE Merge
  BY <1>3, <1>4, <1>16, MergeRead DEF Merge, store
<1>17. CASE UNCHANGED browsing
  BY <1>3, <1>4, <1>5, <1>6, <1>17 DEF browsing, store, tree
<1> QED
  BY <1>2, <1>7, <1>8, <1>9, <1>10, <1>11, <1>12, <1>13, <1>14, <1>15, <1>16, <1>17 DEF NextBrowser

(* The types, for any table, any page size and any order of requests, answers, *)
(* failures and reveals: what the tree lists, and what is on its way to it, is *)
(* read from the table (SpanTree.tsx, RecentTracesPage.tsx, spans.py).         *)
THEOREM BrowserTypeCorrect == SpecBrowser => []BrowserTypeOK
<1>1. SpecBrowser => []ReadInv
  BY InitRead, NextRead, PTL DEF SpecBrowser
<1> QED
  BY <1>1, Typed, PTL

(* The merge leaves the chain expanded and listed. *)
LEMMA MergeChains ==
  ASSUME ReadInv, Merge, NEW chain, chain = reveal.chain, root \in ToSet(chain)
  PROVE  Chained(chain)'
<1>1. TreeInv /\ reveal \in Copy /\ CopyRead /\ reveal # Absent
  BY DEF ReadInv, TreeInv, TreeTypes, Merge
<1>2. chain \in Seq(Span) /\ Len(chain) <= Cardinality(Span) /\ reveal.children \in Lists
      /\ children \in Lists
  BY <1>1 DEF Copy, CopyRead, TreeInv, TreeTypes
<1>3. ASSUME NEW n \in 2..Len(chain)
      PROVE  chain[n] \in expanded' /\ chain[n - 1] \in ToSet(Listed(chain[n])')
  <2>1. chain[n] \in expanded'
    BY DEF Merge
  <2>2. chain[n - 1] \in ToSet(Copied(chain[n]))
    BY DEF Merge, Unlisted
  <2>3. chain[n] \in Span
    BY <1>2
  <2>4. reveal.children[chain[n]] # Absent
    BY <2>2 DEF Copied, ToSet
  <2>5. children'[chain[n]] = reveal.children[chain[n]]
    BY <2>3, <2>4 DEF Merge, Merged
  <2>6. Listed(chain[n])' = Copied(chain[n])
    BY <2>4, <2>5 DEF Listed, Copied
  <2> QED
    BY <2>1, <2>2, <2>6
<1>4. root' = root
  BY DEF Merge
<1>5. root' \in ToSet(chain)
  BY <1>4
<1>6. \A n \in 2..Len(chain) : chain[n] \in expanded' /\ chain[n - 1] \in ToSet(Listed(chain[n])')
  BY <1>3
<1> QED
  BY <1>2, <1>5, <1>6 DEF Chained, Listed

(* Only the merge ends a reveal. *)
LEMMA RevealEnds ==
  ASSUME ReadInv, NextBrowser, reveal # Absent, reveal' = Absent
  PROVE  Merge
<1>1. ASSUME UNCHANGED reveal PROVE FALSE
  BY <1>1
<1>2. ~Write
  BY <1>1 DEF Write
<1>3. ~(AskListing \/ RefuseListing \/ FailListing \/ AnswerListing)
  BY <1>1 DEF AskListing, RefuseListing, FailListing, AnswerListing
<1>4. \A t \in Trace : ~OpenTrace(t)
  BY <1>1 DEF OpenTrace
<1>5. \A s \in Rendered : ~Collapse(s) /\ ~Expand(s) /\ ~LoadMore(s)
  BY <1>1 DEF Collapse, Expand, LoadMore
<1>6. \A s \in Span : ~StartReveal(s)
  BY DEF StartReveal
<1>7. \A l \in loads : ~AnswerChildren(l)
  BY <1>1 DEF AnswerChildren
<1>8. ASSUME NEW p, NEW page, NEW seqs, Turned(p, page, seqs) PROVE FALSE
  BY <1>8, AbsentAssumption DEF Turned
<1>9. ~PageForward
  BY <1>8, ForwardTurns
<1>10. ~Splice
  BY <1>8, SpliceTurns
<1> QED
  BY <1>2, <1>3, <1>4, <1>5, <1>6, <1>7, <1>9, <1>10 DEF NextBrowser

(* Whatever arrives, is loaded, is collapsed or fails while it runs, a reveal  *)
(* whose chain reaches the root ends with its target drawn, for a tree of any  *)
(* size: its merge leaves every parent of the chain expanded, with its child   *)
(* listed under it (SpanTreeHandle.reveal, ensureChildLoaded).                 *)
THEOREM RevealEndsShown == SpecBrowser => RevealShows
<1>1. SpecBrowser => []ReadInv
  BY InitRead, NextRead, PTL DEF SpecBrowser
<1>2. (BrowserTypeOK /\ root # Absent => \A chain : Chained(chain) => chain[1] \in Rendered)'
  BY ChainedIsRendered, PTL
<1>3. ASSUME ReadInv, ReadInv', [NextBrowser]_browsing
      PROVE  [reveal # Absent /\ reveal' = Absent /\ root \in ToSet(reveal.chain) =>
                reveal.target \in Rendered']_browsing
  <2> SUFFICES ASSUME NextBrowser, reveal # Absent, reveal' = Absent, root \in ToSet(reveal.chain)
               PROVE  reveal.target \in Rendered'
    BY <1>3
  <2>1. Merge
    BY <1>3, RevealEnds
  <2> PICK chain : chain = reveal.chain
    OBVIOUS
  <2>2. Chained(chain)'
    BY <1>3, <2>1, MergeChains
  <2>3. BrowserTypeOK' /\ root' # Absent
    <3>1. BrowserTypeOK'
      BY <1>3 DEF ReadInv, TableInv, ListRead, TreeInv, ListTypes, TreeTypes, BrowserTypeOK
    <3>2. root # Absent
      BY <1>3 DEF ReadInv, TreeInv, Unopened
    <3> QED
      BY <2>1, <3>1, <3>2 DEF Merge
  <2>4. chain[1] \in Rendered'
    BY <1>2, <2>2, <2>3
  <2>5. chain[1] = reveal.target
    <3>1. chain # <<>>
      BY DEF ToSet
    <3> QED
      BY <1>3, <3>1 DEF ReadInv, TreeInv, CopyRead
  <2> QED
    BY <2>4, <2>5
<1> QED
  BY <1>1, <1>3, PTL DEF SpecBrowser, RevealShows

LEMMA InitAhead == InitBrowser => AheadInv
<1> SUFFICES ASSUME InitBrowser PROVE AheadInv
  OBVIOUS
<1>1. /\ root = Absent /\ loads = {} /\ exhausted = {} /\ reveal = Absent
      /\ \A s \in Span : loaded[s] = Absent /\ children[s] = Absent /\ since[s] = Absent
  BY DEF InitBrowser
<1>2. \A p \in Span : DOMAIN Listed(p) = {}
  BY <1>1 DEF Listed
<1>3. NoneLost(since)
  BY <1>1 DEF NoneLost, Remembered, TreeAhead, LoadsAhead, CopyAhead
<1>4. TreeOlder /\ CopyOlder
  BY <1>1 DEF TreeOlder, CopyOlder, NotBefore
<1> QED
  BY <1>3, <1>4 DEF AheadInv

(* The table grows: what is to come is still to come. *)
LEMMA AheadStays ==
  ASSUME ReadInv, AheadInv, Grows,
         UNCHANGED <<loaded, children, exhausted, loads, since, reveal>>
  PROVE  AheadInv'
<1>1. TreeInv /\ NoneLost(since) /\ TreeOlder /\ CopyOlder
  BY DEF ReadInv, AheadInv
<1>2. ASSUME NEW p \in Span, since[p] # Absent, NEW c \in since[p]
      PROVE  /\ c \in Span /\ spans[c] # Absent /\ spans'[c] # Absent
             /\ spans[c].seq \in Nat /\ spans'[c].seq \in Nat /\ spans[c].seq <= spans'[c].seq
  <2>1. c \in Span
    BY <1>1, <1>2 DEF TreeInv, TreeTypes
  <2>2. spans[c] # Absent
    BY <1>1, <1>2 DEF NoneLost, Remembered
  <2> QED
    BY <2>1, <2>2 DEF Grows
<1>3. Remembered(since)'
  BY <1>1, <1>2 DEF NoneLost, Remembered
<1>4. ASSUME NEW p \in Span, since[p] # Absent, NEW c \in since[p],
             NEW list_ \in Seq(Span), NEW seqs \in Seqs, Children(p, list_, seqs),
             c \notin ToSet(list_),
             \A n \in DOMAIN list_ : seqs[list_[n]] < spans[c].seq
      PROVE  \A n \in DOMAIN list_ : seqs[list_[n]] < spans'[c].seq
  <2>1. \A n \in DOMAIN list_ : seqs[list_[n]] \in Nat
    BY <1>4 DEF Children, Seqs
  <2>2. spans[c].seq \in Nat /\ spans'[c].seq \in Nat /\ spans[c].seq <= spans'[c].seq
    BY <1>2, <1>4
  <2> QED
    BY <1>4, <2>1, <2>2
<1>5. ASSUME NEW p \in Span, since[p] # Absent, NEW c \in since[p] PROVE Ahead(c, Listed(p), loaded)'
  <2>1. Ahead(c, Listed(p), loaded) /\ Children(p, Listed(p), loaded)
    BY <1>1, <1>5 DEF NoneLost, TreeAhead, TreeInv, TreeRead
  <2>2. Listed(p) \in Seq(Span) /\ loaded \in Seqs
    BY <1>1 DEF TreeInv, TreeTypes, Lists, Listed
  <2>3. Listed(p)' = Listed(p) /\ loaded' = loaded
    BY DEF Listed
  <2>4. c \in ToSet(Listed(p)) \/ \A n \in DOMAIN Listed(p) : loaded[Listed(p)[n]] < spans'[c].seq
    BY <1>4, <1>5, <2>1, <2>2 DEF Ahead
  <2> QED
    BY <2>3, <2>4 DEF Ahead
<1>6. TreeAhead(since)'
  BY <1>1, <1>5 DEF NoneLost, TreeAhead, Listed
<1>7. LoadsAhead(since)'
  <2> SUFFICES ASSUME NEW l \in loads, NEW c \in since[l.parent]
               PROVE  \/ c \in ToSet(Listed(l.parent)) \cup ToSet(l.page)
                      \/ /\ Len(l.page) >= PageSize
                         /\ \A n \in DOMAIN l.page : l.seqs[n] < spans'[c].seq
    BY DEF LoadsAhead, Listed
  <2>1. l.parent \in Span /\ \A n \in DOMAIN l.page : l.seqs[n] \in Nat
    BY <1>1 DEF TreeInv, TreeTypes, Answer, LoadsRead
  <2>2. since[l.parent] # Absent
    BY <1>1, <2>1 DEF NoneLost, Remembered
  <2>3. spans[c].seq \in Nat /\ spans'[c].seq \in Nat /\ spans[c].seq <= spans'[c].seq
    BY <1>2, <2>1, <2>2
  <2>4. \/ c \in ToSet(Listed(l.parent)) \cup ToSet(l.page)
        \/ Len(l.page) >= PageSize /\ \A n \in DOMAIN l.page : l.seqs[n] < spans[c].seq
    BY <1>1 DEF NoneLost, LoadsAhead
  <2> QED
    BY <2>1, <2>3, <2>4
<1>8. ASSUME reveal # Absent, NEW p \in Span, since[p] # Absent, NEW c \in since[p]
      PROVE  Ahead(c, Copied(p), reveal.loaded)'
  <2>1. Ahead(c, Copied(p), reveal.loaded) /\ Children(p, Copied(p), reveal.loaded)
    BY <1>1, <1>8 DEF NoneLost, CopyAhead, TreeInv, CopyRead
  <2>2. Copied(p) \in Seq(Span) /\ reveal.loaded \in Seqs
    BY <1>1, <1>8 DEF TreeInv, TreeTypes, Copy, Lists, Copied
  <2>3. Copied(p)' = Copied(p) /\ reveal'.loaded = reveal.loaded
    BY DEF Copied
  <2>4. c \in ToSet(Copied(p)) \/ \A n \in DOMAIN Copied(p) : reveal.loaded[Copied(p)[n]] < spans'[c].seq
    BY <1>4, <1>8, <2>1, <2>2 DEF Ahead
  <2> QED
    BY <2>3, <2>4 DEF Ahead
<1>9. CopyAhead(since)'
  BY <1>1, <1>8 DEF NoneLost, CopyAhead, Copied
<1>10. TreeOlder' /\ CopyOlder'
  BY <1>1 DEF TreeOlder, CopyOlder, NotBefore, Walked, Listed
<1> QED
  BY <1>3, <1>6, <1>7, <1>9, <1>10 DEF AheadInv, NoneLost

(* A parent's first read sees what there is: nothing of it is listed yet.      *)
LEMMA SeenNow ==
  ASSUME ReadInv, NoneLost(since), NEW p \in Span,
         since' = FirstSeen(p) \/ since' = [since EXCEPT ![p] = {}]
  PROVE  /\ NoneLost(since') /\ since'[p] # Absent
         /\ \A q \in Span \ {p} : since'[q] = since[q]
<1>1. TreeInv /\ TreeTypes
  BY DEF ReadInv, TreeInv
<1>2. {c \in Rows(spans, TraceOf[p]) : ParentOf[c] = p} \in SUBSET Span /\ {} \in SUBSET Span
  BY DEF Rows
<1>3. CASE since' = since /\ since[p] # Absent
  BY <1>3
<1>4. CASE since[p] = Absent /\ since' = [since EXCEPT ![p] = {c \in Rows(spans, TraceOf[p]) : ParentOf[c] = p}]
  <2>1. since'[p] = {c \in Rows(spans, TraceOf[p]) : ParentOf[c] = p} /\ since'[p] # Absent
    BY <1>1, <1>2, <1>4, AbsentAssumption DEF TreeTypes
  <2>2. \A q \in Span \ {p} : since'[q] = since[q]
    BY <1>1, <1>4 DEF TreeTypes
  <2>3. /\ children[p] = Absent /\ p \notin exhausted /\ \A l \in loads : l.parent # p
        /\ reveal # Absent => reveal.children[p] = Absent /\ p \notin reveal.exhausted
    BY <1>4 DEF NoneLost, Remembered
  <2>4. Listed(p) = <<>> /\ (reveal # Absent => Copied(p) = <<>>)
    BY <2>3 DEF Listed, Copied
  <2>5. Remembered(since')
    BY <2>1, <2>2 DEF NoneLost, Remembered, Rows
  <2>6. TreeAhead(since')
    BY <2>2, <2>3, <2>4 DEF NoneLost, TreeAhead, Ahead
  <2>7. LoadsAhead(since')
    <3>1. \A l \in loads : l.parent \in Span \ {p}
      BY <1>1, <2>3 DEF TreeTypes, Answer
    <3> QED
      BY <2>2, <3>1 DEF NoneLost, LoadsAhead
  <2>8. CopyAhead(since')
    BY <2>2, <2>3, <2>4 DEF NoneLost, CopyAhead, Ahead
  <2> QED
    BY <2>1, <2>2, <2>5, <2>6, <2>7, <2>8 DEF NoneLost
<1>5. CASE since' = [since EXCEPT ![p] = {}]
  <2>1. since'[p] = {} /\ since'[p] # Absent
    BY <1>1, <1>2, <1>5, AbsentAssumption DEF TreeTypes
  <2>2. \A q \in Span \ {p} : since'[q] = since[q]
    BY <1>1, <1>5 DEF TreeTypes
  <2>3. Remembered(since')
    BY <2>1, <2>2 DEF NoneLost, Remembered
  <2>4. TreeAhead(since')
    BY <2>1, <2>2 DEF NoneLost, TreeAhead
  <2>5. LoadsAhead(since')
    <3>1. \A l \in loads : l.parent \in Span
      BY <1>1 DEF TreeTypes, Answer
    <3> QED
      BY <2>1, <2>2, <3>1 DEF NoneLost, LoadsAhead
  <2>6. CopyAhead(since')
    BY <2>1, <2>2 DEF NoneLost, CopyAhead
  <2> QED
    BY <2>1, <2>2, <2>3, <2>4, <2>5, <2>6 DEF NoneLost
<1> QED
  BY <1>3, <1>4, <1>5 DEF FirstSeen

(* What is asked for is read when it is sent. *)
LEMMA Asked ==
  ASSUME ReadInv, NoneLost(since), NEW p \in Span, NEW opens, AskChildren(p, opens), UNCHANGED spans
  PROVE  /\ since' = FirstSeen(p) \/ since' = [since EXCEPT ![p] = {}]
         /\ \E a : /\ loads' = loads \cup {a} /\ a.parent = p
                   /\ a.page \in Seq(Span)
                   /\ \A n \in DOMAIN a.page : a.seqs[n] = spans[a.page[n]].seq
                   /\ \A c \in since'[p] :
                        \/ c \in ToSet(Listed(p)) \cup ToSet(a.page)
                        \/ Len(a.page) >= PageSize /\ \A n \in DOMAIN a.page : a.seqs[n] < spans[c].seq
<1> DEFINE page == ChildrenPage(spans, p, ChildCursor(Listed(p), loaded))
           answer(pg, sq) == [parent |-> p, page |-> pg, seqs |-> sq, opens |-> opens, id |-> asked]
<1>1. BrowserTypeOK /\ TableInv /\ TreeInv
  BY Typed DEF ReadInv
<1>2. /\ page \in Seq(Span)
      /\ \A n \in DOMAIN page : SeqsOf(page)[n] = spans[page[n]].seq
  BY <1>1, PageFacts DEF TableInv
<1>3. /\ Listed(p) \in Seq(Span) /\ loaded \in Seqs
      /\ \A n \in DOMAIN Listed(p) : loaded[Listed(p)[n]] # Absent
  <2>1. Children(p, Listed(p), loaded)
    BY <1>1 DEF TreeInv, TreeRead
  <2> QED
    BY <1>1, <2>1 DEF BrowserTypeOK, Lists, Listed, Children
<1>4. since' = FirstSeen(p) \/ since' = [since EXCEPT ![p] = {}]
  BY DEF AskChildren
<1>5. NoneLost(since') /\ since'[p] # Absent
  BY <1>4, SeenNow
<1>6. since' \in [Span -> (SUBSET Span) \cup {Absent}]
  BY <1>1, <1>4 DEF BrowserTypeOK, FirstSeen, Rows
<1>7. ASSUME NEW c \in since'[p]
      PROVE  \/ c \in ToSet(Listed(p)) \cup ToSet(page)
             \/ Len(page) >= PageSize /\ \A n \in DOMAIN page : spans[page[n]].seq < spans[c].seq
  <2>1. c \in Span
    BY <1>5, <1>6
  <2>2. spans[c] # Absent /\ ParentOf[c] = p /\ TraceOf[c] = TraceOf[p]
    BY <1>5 DEF NoneLost, Remembered
  <2>3. Ahead(c, Listed(p), loaded)
    BY <1>5 DEF NoneLost, TreeAhead
  <2> QED
    BY <1>1, <1>3, <2>1, <2>2, <2>3, PageOnward DEF TableInv
<1>8. \/ loads' = loads \cup {answer(page, SeqsOf(page))}
      \/ loads' = loads \cup {answer(<<>>, <<>>)} /\ since' = [since EXCEPT ![p] = {}]
  BY DEF AskChildren
<1>9. CASE loads' = loads \cup {answer(page, SeqsOf(page))}
  <2> DEFINE a == answer(page, SeqsOf(page))
  <2>1. a.parent = p /\ a.page = page /\ a.seqs = SeqsOf(page)
    OBVIOUS
  <2> HIDE DEF a, page
  <2>2. \A c \in since'[p] :
          \/ c \in ToSet(Listed(p)) \cup ToSet(a.page)
          \/ Len(a.page) >= PageSize /\ \A n \in DOMAIN a.page : a.seqs[n] < spans[c].seq
    BY <1>2, <1>7, <2>1
  <2>3. loads' = loads \cup {a}
    BY <1>9 DEF a
  <2> QED
    BY <1>2, <1>4, <2>1, <2>2, <2>3
<1>10. CASE loads' = loads \cup {answer(<<>>, <<>>)} /\ since' = [since EXCEPT ![p] = {}]
  <2> DEFINE a == answer(<<>>, <<>>)
  <2>1. a.parent = p /\ a.page = <<>> /\ a.seqs = <<>> /\ <<>> \in Seq(Span) /\ DOMAIN a.page = {}
    OBVIOUS
  <2>2. since'[p] = {}
    BY <1>1, <1>10 DEF BrowserTypeOK
  <2> HIDE DEF a
  <2>3. loads' = loads \cup {a}
    BY <1>10 DEF a
  <2> QED
    BY <1>4, <2>1, <2>2, <2>3
<1> QED
  BY <1>8, <1>9, <1>10

LEMMA AskAhead ==
  ASSUME ReadInv, ReadInv', AheadInv, NEW p \in Span, NEW opens, AskChildren(p, opens),
         UNCHANGED <<spans, children, exhausted, reveal>>,
         \A s \in Span : loaded[s] # Absent => loaded'[s] = loaded[s],
         loads = {} \/ loaded' = loaded
  PROVE  AheadInv'
<1>1. TreeInv /\ TreeInv' /\ TreeTypes /\ NoneLost(since) /\ TreeOlder /\ CopyOlder
  BY DEF ReadInv, AheadInv, TreeInv
<1>2. PICK a : /\ loads' = loads \cup {a} /\ a.parent = p
               /\ a.page \in Seq(Span)
               /\ \A n \in DOMAIN a.page : a.seqs[n] = spans[a.page[n]].seq
               /\ \A c \in since'[p] :
                    \/ c \in ToSet(Listed(p)) \cup ToSet(a.page)
                    \/ Len(a.page) >= PageSize /\ \A n \in DOMAIN a.page : a.seqs[n] < spans[c].seq
  BY <1>1, Asked
<1>3. NoneLost(since') /\ since'[p] # Absent
  <2>1. since' = FirstSeen(p) \/ since' = [since EXCEPT ![p] = {}]
    BY DEF AskChildren
  <2> QED
    BY <1>1, <2>1, SeenNow
<1>4. \A q \in Span : Listed(q)' = Listed(q) /\ Listed(q) \in Seq(Span)
  BY <1>1 DEF Listed, TreeTypes, Lists
<1>5. ASSUME NEW q \in Span, NEW n \in DOMAIN Listed(q)
      PROVE  loaded'[Listed(q)[n]] = loaded[Listed(q)[n]]
  <2>1. Children(q, Listed(q), loaded)
    BY <1>1 DEF TreeInv, TreeRead
  <2> QED
    BY <1>4, <1>5, <2>1 DEF Children
<1>6. Remembered(since)'
  BY <1>2, <1>3 DEF NoneLost, Remembered
<1>7. TreeAhead(since)'
  <2>1. ASSUME NEW q \in Span, since'[q] # Absent, NEW c \in since'[q]
        PROVE  Ahead(c, Listed(q), loaded)'
    <3>1. Ahead(c, Listed(q), loaded)
      BY <1>3, <2>1 DEF NoneLost, TreeAhead
    <3>2. \A n \in DOMAIN Listed(q) : loaded'[Listed(q)[n]] = loaded[Listed(q)[n]]
      BY <1>5
    <3> QED
      BY <1>4, <3>1, <3>2 DEF Ahead
  <2> QED
    BY <1>3, <1>4, <2>1 DEF NoneLost, TreeAhead
<1>8. LoadsAhead(since)'
  <2> SUFFICES ASSUME NEW l \in loads', NEW c \in since'[l.parent]
               PROVE  \/ c \in ToSet(Listed(l.parent)) \cup ToSet(l.page)
                      \/ /\ Len(l.page) >= PageSize
                         /\ \A n \in DOMAIN l.page : l.seqs[n] < spans[c].seq
    BY DEF LoadsAhead, Listed
  <2>1. CASE l \in loads
    BY <1>3, <2>1 DEF NoneLost, LoadsAhead
  <2>2. CASE l = a
    BY <1>2, <2>2
  <2> QED
    BY <1>2, <2>1, <2>2
<1>9. CopyAhead(since)'
  BY <1>3 DEF NoneLost, CopyAhead, Ahead, Copied
<1>10. TreeOlder'
  <2> SUFFICES ASSUME NEW q \in Span, children[q] = Absent, NEW l \in loads', l.parent = q,
                      NEW n \in DOMAIN l.page, loaded'[l.page[n]] # Absent
               PROVE  loaded'[l.page[n]] <= l.seqs[n]
    BY DEF TreeOlder, NotBefore
  <2>1. CASE l \in loads
    <3>1. loaded' = loaded
      BY <2>1
    <3>2. NotBefore(q, loaded)
      BY <1>1 DEF TreeOlder
    <3> QED
      BY <2>1, <3>1, <3>2 DEF NotBefore
  <2>2. CASE l = a
    <3>1. a.page[n] \in Span
      BY <1>2, <2>2
    <3>2. loaded'[a.page[n]] <= spans'[a.page[n]].seq
      BY <1>1, <2>2, <3>1 DEF TreeInv, TreeRead, WasRead
    <3> QED
      BY <1>2, <2>2, <3>2
  <2> QED
    BY <1>2, <2>1, <2>2
<1>11. CopyOlder'
  <2> SUFFICES ASSUME reveal # Absent, NEW q \in Span \ Walked, reveal.children[q] = Absent
               PROVE  /\ NotBefore(q, reveal.loaded)'
                      /\ \A n \in DOMAIN Listed(q) :
                           reveal.loaded[Listed(q)[n]] # Absent =>
                             reveal.loaded[Listed(q)[n]] <= loaded'[Listed(q)[n]]
    BY <1>4 DEF CopyOlder, Walked
  <2>1. /\ NotBefore(q, reveal.loaded)
        /\ \A n \in DOMAIN Listed(q) :
             reveal.loaded[Listed(q)[n]] # Absent =>
               reveal.loaded[Listed(q)[n]] <= loaded[Listed(q)[n]]
    BY <1>1 DEF CopyOlder
  <2>2. ASSUME NEW l \in loads', l.parent = q, NEW n \in DOMAIN l.page,
               reveal.loaded[l.page[n]] # Absent
        PROVE  reveal.loaded[l.page[n]] <= l.seqs[n]
    <3>1. CASE l \in loads
      BY <2>1, <2>2, <3>1 DEF NotBefore
    <3>2. CASE l = a
      <4>1. a.page[n] \in Span
        BY <1>2, <2>2, <3>2
      <4>2. reveal.loaded[a.page[n]] <= spans[a.page[n]].seq
        BY <1>1, <2>2, <3>2, <4>1 DEF TreeInv, CopyRead, WasRead
      <4> QED
        BY <1>2, <2>2, <3>2, <4>2
    <3> QED
      BY <1>2, <3>1, <3>2
  <2>3. NotBefore(q, reveal.loaded)'
    BY <2>2 DEF NotBefore
  <2> QED
    BY <1>5, <2>1, <2>3
<1> QED
  BY <1>6, <1>7, <1>8, <1>9, <1>10, <1>11 DEF AheadInv, NoneLost

(* A page that is not behind the child, joins the list. *)
LEMMA AheadOf ==
  ASSUME NEW c, NEW list_ \in Seq(Span), NEW page \in Seq(Span), NEW seqs, NEW old,
         Ahead(c, list_, old),
         \A n \in DOMAIN list_ : list_[n] \notin ToSet(page) => seqs[list_[n]] = old[list_[n]],
         c \in ToSet(list_) \cup ToSet(page) \/ \A s \in ToSet(page) : seqs[s] < spans[c].seq
  PROVE  Ahead(c, list_ \o page, seqs)
<1> DEFINE joined == list_ \o page
<1>1. /\ ToSet(joined) = ToSet(list_) \cup ToSet(page)
      /\ \A n \in DOMAIN joined : joined[n] \in ToSet(list_) \cup ToSet(page)
  BY Joined
<1> SUFFICES Ahead(c, joined, seqs)
  OBVIOUS
<1> HIDE DEF joined
<1>2. CASE c \in ToSet(list_) \cup ToSet(page)
  BY <1>1, <1>2 DEF Ahead
<1>3. CASE c \notin ToSet(list_) \cup ToSet(page)
  <2>1. ASSUME NEW n \in DOMAIN joined PROVE seqs[joined[n]] < spans[c].seq
    <3>1. CASE joined[n] \in ToSet(page)
      BY <1>3, <3>1
    <3>2. CASE joined[n] \notin ToSet(page)
      <4>1. PICK m \in DOMAIN list_ : list_[m] = joined[n]
        BY <1>1, <3>2 DEF ToSet
      <4> QED
        BY <1>3, <3>2, <4>1 DEF Ahead
    <3> QED
      BY <3>1, <3>2
  <2> QED
    BY <2>1 DEF Ahead
<1> QED
  BY <1>2, <1>3

LEMMA AnswerAhead ==
  ASSUME ReadInv, AheadInv, NEW l \in loads, AnswerChildren(l)
  PROVE  AheadInv'
<1>1. /\ TreeInv /\ TreeTypes /\ LoadsRead /\ Arrived(l)
      /\ NoneLost(since) /\ TreeOlder /\ CopyOlder
  BY AnswerArrives DEF ReadInv, AheadInv, TreeInv
<1>2. UNCHANGED <<spans, since, reveal>> /\ loads' = loads \ {l}
  BY DEF AnswerChildren, store
<1> DEFINE p == l.parent
<1>3. /\ p \in Span /\ l.page \in Seq(Span) /\ l.seqs \in Seq(Nat) /\ Len(l.page) \in Nat
      /\ DOMAIN l.seqs = DOMAIN l.page /\ since[p] # Absent
      /\ \A s \in ToSet(l.page) : ParentOf[s] = p
  <2>1. p \in Span /\ l.page \in Seq(Span) /\ l.seqs \in Seq(Nat) /\ Len(l.page) \in Nat
    BY <1>1 DEF TreeTypes, Answer
  <2>2. since[p] # Absent
    BY <1>1, <2>1 DEF NoneLost, Remembered
  <2> QED
    BY <1>1, <2>1, <2>2 DEF LoadsRead, ToSet
<1>4. \A q \in Span : Listed(q) \in Seq(Span) /\ Listed(q)' \in Seq(Span)
  BY <1>1 DEF TreeTypes, Arrived, Lists, Listed
<1>5. ASSUME NEW q \in Span, NEW s \in ToSet(Listed(q))
      PROVE  s \in Span /\ ParentOf[s] = q /\ loaded[s] # Absent
  BY <1>1, <1>4, <1>5 DEF TreeInv, TreeRead, Children, ToSet
<1>6. \A q \in Span : q # p => Listed(q)' = Listed(q) /\ children'[q] = children[q]
  BY <1>1 DEF Arrived
<1>7. Listed(p)' = Listed(p) \o l.page /\ children'[p] # Absent
      /\ ToSet(Listed(p)') = ToSet(Listed(p)) \cup ToSet(l.page)
  <2>1. Listed(p)' = Listed(p) \o l.page /\ children'[p] # Absent
    BY <1>1 DEF Arrived
  <2> QED
    BY <1>3, <1>4, <2>1, Joined
<1>8. \A s \in Span : /\ s \in ToSet(l.page) =>
                           \E n \in DOMAIN l.page : l.page[n] = s /\ loaded'[s] = l.seqs[n]
                      /\ s \notin ToSet(l.page) => loaded'[s] = loaded[s]
  BY <1>1 DEF Arrived
<1>9. ASSUME NEW q \in Span, q # p, NEW s \in Span, ParentOf[s] = q PROVE loaded'[s] = loaded[s]
  BY <1>3, <1>8, <1>9
<1>10. /\ p \in exhausted' => p \in exhausted \/ Len(l.page) < PageSize
       /\ \A q \in Span : q # p => (q \in exhausted' <=> q \in exhausted)
  BY DEF AnswerChildren
<1> HIDE DEF p
<1>11. Remembered(since)'
  BY <1>1, <1>2, <1>3, <1>6, <1>10 DEF NoneLost, Remembered
<1>12. ASSUME NEW q \in Span, since[q] # Absent, NEW c \in since[q] PROVE c \in Span
  BY <1>1, <1>12 DEF TreeTypes
<1>13. TreeAhead(since)'
  <2> SUFFICES ASSUME NEW q \in Span, since[q] # Absent, NEW c \in since[q]
               PROVE  /\ Ahead(c, Listed(q), loaded)'
                      /\ q \in exhausted' => children'[q] # Absent /\ c \in ToSet(Listed(q)')
    BY <1>2 DEF TreeAhead
  <2>1. /\ c \in Span /\ Ahead(c, Listed(q), loaded)
        /\ q \in exhausted => children[q] # Absent /\ c \in ToSet(Listed(q))
    BY <1>1, <1>12 DEF NoneLost, TreeAhead
  <2>2. CASE q = p
    <3>1. \/ c \in ToSet(Listed(p)) \cup ToSet(l.page)
          \/ Len(l.page) >= PageSize /\ \A n \in DOMAIN l.page : l.seqs[n] < spans[c].seq
      BY <1>1, <2>2 DEF NoneLost, LoadsAhead, p
    <3>2. c \in ToSet(Listed(p)) \cup ToSet(l.page) \/ \A s \in ToSet(l.page) : loaded'[s] < spans[c].seq
      <4> SUFFICES ASSUME \A n \in DOMAIN l.page : l.seqs[n] < spans[c].seq, NEW s \in ToSet(l.page)
                   PROVE  loaded'[s] < spans[c].seq
        BY <3>1
      <4>1. s \in Span
        BY <1>3 DEF ToSet
      <4> QED
        BY <1>8, <4>1
    <3>3. \A n \in DOMAIN Listed(p) : Listed(p)[n] \notin ToSet(l.page) =>
             loaded'[Listed(p)[n]] = loaded[Listed(p)[n]]
      BY <1>3, <1>4, <1>8
    <3>4. Ahead(c, Listed(p)', loaded')
      <4>1. Ahead(c, Listed(p), loaded) /\ Listed(p) \in Seq(Span) /\ c \in Span
            /\ l.page \in Seq(Span)
        BY <1>3, <1>4, <2>1, <2>2
      <4>2. Ahead(c, Listed(p) \o l.page, loaded')
        BY <3>2, <3>3, <4>1, AheadOf
      <4> QED
        BY <1>7, <4>2
    <3>5. p \in exhausted' => c \in ToSet(Listed(p)')
      BY <1>3, <1>7, <1>10, <2>1, <2>2, <3>1, SpanListingAssumption
    <3> QED
      BY <1>2, <1>7, <2>2, <3>4, <3>5 DEF Ahead
  <2>3. CASE q # p
    <3>1. \A n \in DOMAIN Listed(q) : loaded'[Listed(q)[n]] = loaded[Listed(q)[n]]
      BY <1>4, <1>5, <1>9, <2>3 DEF ToSet
    <3>2. Ahead(c, Listed(q), loaded)'
      BY <1>2, <1>6, <2>1, <2>3, <3>1 DEF Ahead
    <3> QED
      BY <1>6, <1>10, <2>1, <2>3, <3>2
  <2> QED
    BY <2>2, <2>3
<1>14. LoadsAhead(since)'
  <2> SUFFICES ASSUME NEW k \in loads', NEW c \in since[k.parent]
               PROVE  \/ c \in ToSet(Listed(k.parent)') \cup ToSet(k.page)
                      \/ /\ Len(k.page) >= PageSize
                         /\ \A n \in DOMAIN k.page : k.seqs[n] < spans[c].seq
    BY <1>2 DEF LoadsAhead, Listed
  <2>1. k \in loads /\ k.parent \in Span
    BY <1>1, <1>2 DEF TreeTypes, Answer
  <2>2. \/ c \in ToSet(Listed(k.parent)) \cup ToSet(k.page)
        \/ Len(k.page) >= PageSize /\ \A n \in DOMAIN k.page : k.seqs[n] < spans[c].seq
    BY <1>1, <2>1 DEF NoneLost, LoadsAhead
  <2> QED
    BY <1>6, <1>7, <2>1, <2>2
<1>15. CopyAhead(since)'
  BY <1>1, <1>2 DEF NoneLost, CopyAhead, Ahead, Copied
<1>16. TreeOlder'
  <2> SUFFICES ASSUME NEW q \in Span, children'[q] = Absent, NEW k \in loads', k.parent = q,
                      NEW n \in DOMAIN k.page, loaded'[k.page[n]] # Absent
               PROVE  loaded'[k.page[n]] <= k.seqs[n]
    BY DEF TreeOlder, NotBefore
  <2>1. q # p /\ children[q] = Absent /\ k \in loads
    BY <1>2, <1>6, <1>7
  <2>2. k.page[n] \in Span /\ ParentOf[k.page[n]] = q
    BY <1>1, <2>1 DEF TreeTypes, Answer, LoadsRead
  <2>3. loaded'[k.page[n]] = loaded[k.page[n]]
    BY <1>9, <2>1, <2>2
  <2> QED
    BY <1>1, <2>1, <2>3 DEF TreeOlder, NotBefore
<1>17. CopyOlder'
  <2> SUFFICES ASSUME reveal # Absent, NEW q \in Span \ Walked, reveal.children[q] = Absent
               PROVE  /\ NotBefore(q, reveal.loaded)'
                      /\ \A s \in ToSet(Listed(q)') :
                           reveal.loaded[s] # Absent => reveal.loaded[s] <= loaded'[s]
    BY <1>2, <1>4 DEF CopyOlder, Walked, ToSet
  <2>1. /\ NotBefore(q, reveal.loaded)
        /\ \A n \in DOMAIN Listed(q) :
             reveal.loaded[Listed(q)[n]] # Absent =>
               reveal.loaded[Listed(q)[n]] <= loaded[Listed(q)[n]]
    BY <1>1 DEF CopyOlder
  <2>2. NotBefore(q, reveal.loaded)'
    BY <1>2, <2>1 DEF NotBefore
  <2>3. \A s \in ToSet(Listed(q)) : reveal.loaded[s] # Absent => reveal.loaded[s] <= loaded[s]
    BY <2>1 DEF ToSet
  <2>4. ASSUME NEW s \in ToSet(Listed(q)'), reveal.loaded[s] # Absent
        PROVE  reveal.loaded[s] <= loaded'[s]
    <3>1. s \in Span
      BY <1>4 DEF ToSet
    <3>2. CASE s \in ToSet(l.page) /\ q = p
      <4>1. PICK n \in DOMAIN l.page : l.page[n] = s /\ loaded'[s] = l.seqs[n]
        BY <1>8, <3>1, <3>2
      <4> QED
        BY <2>1, <2>4, <3>2, <4>1 DEF NotBefore, p
    <3>3. CASE s \notin ToSet(l.page)
      <4>1. s \in ToSet(Listed(q))
        BY <1>6, <1>7, <2>4, <3>3
      <4> QED
        BY <1>8, <2>3, <2>4, <3>1, <3>3, <4>1
    <3>4. CASE q # p
      <4>1. s \in ToSet(Listed(q))
        BY <1>6, <2>4, <3>4
      <4> QED
        BY <1>5, <1>9, <2>3, <2>4, <3>4, <4>1
    <3> QED
      BY <3>2, <3>3, <3>4
  <2> QED
    BY <2>2, <2>4
<1> QED
  BY <1>11, <1>13, <1>14, <1>15, <1>16, <1>17 DEF AheadInv, NoneLost

(* The part of LineageFacts that a reveal's fetches rest on.                   *)
LEMMA WayDown ==
  ASSUME NEW target \in Span, Found(target)
  PROVE  /\ Lineage(target) \in Seq(Span) /\ Lineage(target) # <<>>
         /\ Len(Lineage(target)) \in Nat
         /\ \A k \in 2..Len(Lineage(target)) :
              ParentOf[Lineage(target)[k - 1]] = Lineage(target)[k]
         /\ LET above == ParentOf[Lineage(target)[Len(Lineage(target))]] IN
              above \in Span \ ToSet(Lineage(target)) => ~Found(above)
<1> SUFFICES ASSUME NEW line, line = Lineage(target)
             PROVE  /\ line \in Seq(Span) /\ line # <<>> /\ Len(line) \in Nat
                    /\ \A k \in 2..Len(line) : ParentOf[line[k - 1]] = line[k]
                    /\ LET above == ParentOf[line[Len(line)]] IN
                         above \in Span \ ToSet(line) => ~Found(above)
  OBVIOUS
<1>1. line \in Seq(Span)
  BY LineageFacts
<1>2. line # <<>> /\ \A k \in 2..Len(line) : ParentOf[line[k - 1]] = line[k]
  BY LineageFacts
<1>3. LET above == ParentOf[line[Len(line)]] IN
        above \in Span \ ToSet(line) => ~Found(above)
  BY LineageFacts
<1>4. Len(line) \in Nat
  BY <1>1
<1> QED
  BY <1>1, <1>2, <1>3, <1>4

(* A span that the reveal fetches does not hide a page on the way: when its    *)
(* parent is not on the way down, the parent is not loaded.                    *)
LEMMA FetchedAlone ==
  ASSUME ReadInv, Acyclic, NEW target \in Span, StartReveal(target),
         NEW chain \in Seq(Span), NEW n \in 0..Len(Lineage(target)),
         Len(chain) = n, \A k \in 1..n : chain[k] = Lineage(target)[k],
         n = Len(Lineage(target)) \/ loaded[Lineage(target)[n + 1]] = Absent,
         NEW s \in ToSet(chain), NEW p \in Span, ParentOf[s] = p,
         p \notin {chain[k] : k \in 2..Len(chain)}
  PROVE  loaded[p] = Absent
<1> DEFINE line == Lineage(target)
<1>1. /\ line \in Seq(Span) /\ line # <<>> /\ Len(line) \in Nat
      /\ \A k \in 2..Len(line) : ParentOf[line[k - 1]] = line[k]
      /\ LET above == ParentOf[line[Len(line)]] IN
           above \in Span \ ToSet(line) => ~Found(above)
  <2>1. Found(target)
    BY DEF Found, StartReveal, Rows
  <2> QED
    BY <2>1, WayDown
<1> SUFFICES ASSUME loaded[p] # Absent PROVE FALSE
  OBVIOUS
<1>2. /\ n = Len(line) \/ loaded[line[n + 1]] = Absent
      /\ n \in 0..Len(line) /\ \A k \in 1..n : chain[k] = line[k]
  OBVIOUS
<1> HIDE DEF line
<1>3. PICK i \in 1..n : chain[i] = s
  BY DEF ToSet
<1>4. i = n
  <2> SUFFICES ASSUME i # n PROVE FALSE
    OBVIOUS
  <2>1. i + 1 \in 2..n /\ i + 1 \in 2..Len(line) /\ i + 1 \in 1..n /\ (i + 1) - 1 = i
    BY <1>1, <1>2, <1>3
  <2>2. ParentOf[line[i]] = line[i + 1]
    BY <1>1, <2>1
  <2>3. p = chain[i + 1]
    BY <1>2, <1>3, <2>1, <2>2
  <2> QED
    BY <2>1, <2>3
<1>5. ParentOf[line[n]] = p
  BY <1>2, <1>3, <1>4
<1>6. n = Len(line)
  <2> SUFFICES ASSUME n # Len(line) PROVE FALSE
    OBVIOUS
  <2>1. n + 1 \in 2..Len(line) /\ (n + 1) - 1 = n
    BY <1>1, <1>2, <1>3, <1>4
  <2>2. ParentOf[line[(n + 1) - 1]] = line[n + 1]
    BY <1>1, <2>1
  <2>3. p = line[n + 1]
    BY <1>5, <2>1, <2>2
  <2> QED
    BY <1>2, <2>3
<1>7. p \in ToSet(line)
  BY <1>1, <1>5, <1>6 DEF Found
<1>8. PICK j \in 1..n : line[j] = p
  BY <1>1, <1>6, <1>7 DEF ToSet
<1>9. ToSet(line) \in SUBSET Span /\ ToSet(line) # {}
  BY <1>1, <1>7 DEF ToSet
<1>10. ASSUME NEW r \in ToSet(line) PROVE ParentOf[r] \in ToSet(line)
  <2>1. PICK k \in 1..n : line[k] = r
    BY <1>1, <1>6 DEF ToSet
  <2>2. CASE k = n
    BY <1>5, <1>7, <2>1, <2>2
  <2>3. CASE k # n
    <3>1. k + 1 \in 2..Len(line) /\ (k + 1) - 1 = k /\ k + 1 \in DOMAIN line
      BY <1>1, <1>6, <2>1, <2>3
    <3>2. ParentOf[r] = line[k + 1]
      BY <1>1, <2>1, <3>1
    <3> QED
      BY <3>1, <3>2 DEF ToSet
  <2> QED
    BY <2>2, <2>3
<1> QED
  BY <1>9, <1>10 DEF Acyclic

LEMMA StartAhead ==
  ASSUME ReadInv, AheadInv, Acyclic, NEW target \in Span, StartReveal(target)
  PROVE  AheadInv'
<1>1. TreeInv /\ TreeTypes /\ TreeRead /\ LoadsRead /\ NoneLost(since) /\ TreeOlder
  BY DEF ReadInv, AheadInv, TreeInv
<1>2. UNCHANGED <<spans, root, loaded, children, exhausted, expanded, loads, since, asked>>
  BY DEF StartReveal, store, tree
<1>3. PICK chain \in Seq(Span), n \in 0..Len(Lineage(target)) :
        /\ Len(chain) = n /\ \A k \in 1..n : chain[k] = Lineage(target)[k]
        /\ \A k \in 1..n : spans[chain[k]] # Absent
        /\ reveal'.target = target /\ reveal'.chain = chain
        /\ reveal'.children = children /\ reveal'.exhausted = exhausted
        /\ reveal' \in Copy
        /\ n = Len(Lineage(target)) \/ loaded[Lineage(target)[n + 1]] = Absent
        /\ \A s \in Span : reveal'.loaded[s] =
             IF loaded[s] = Absent /\ s \in ToSet(chain) THEN spans[s].seq ELSE loaded[s]
  BY RevealStarts
<1>4. \A q \in Span : Listed(q) \in Seq(Span)
  BY <1>1 DEF TreeTypes, Lists, Listed
<1>5. ASSUME NEW q \in Span, NEW k \in DOMAIN Listed(q)
      PROVE  Listed(q)[k] \in Span /\ reveal'.loaded[Listed(q)[k]] = loaded[Listed(q)[k]]
  <2>1. Children(q, Listed(q), loaded)
    BY <1>1 DEF TreeRead
  <2> QED
    BY <1>3, <1>4, <1>5, <2>1 DEF Children
<1>6. \A q \in Span : Copied(q)' = Listed(q)
  BY <1>3 DEF Copied, Listed
<1>7. Remembered(since)'
  BY <1>1, <1>2, <1>3 DEF NoneLost, Remembered
<1>8. TreeAhead(since)' /\ LoadsAhead(since)' /\ TreeOlder'
  BY <1>1, <1>2 DEF NoneLost, TreeAhead, LoadsAhead, TreeOlder, NotBefore, Ahead, Listed
<1>9. CopyAhead(since)'
  <2> SUFFICES ASSUME NEW q \in Span, since[q] # Absent, NEW c \in since[q]
               PROVE  /\ Ahead(c, Copied(q), reveal.loaded)'
                      /\ q \in reveal'.exhausted =>
                           reveal'.children[q] # Absent /\ c \in ToSet(Copied(q)')
    BY <1>2 DEF CopyAhead
  <2>1. /\ Ahead(c, Listed(q), loaded)
        /\ q \in exhausted => children[q] # Absent /\ c \in ToSet(Listed(q))
    BY <1>1 DEF NoneLost, TreeAhead
  <2>2. \A k \in DOMAIN Listed(q) : reveal'.loaded[Listed(q)[k]] = loaded[Listed(q)[k]]
    BY <1>5
  <2> QED
    BY <1>2, <1>3, <1>6, <2>1, <2>2 DEF Ahead
<1>10. CopyOlder'
  <2> SUFFICES ASSUME NEW q \in Span, q \notin {chain[k] : k \in 2..Len(chain)}, children[q] = Absent
               PROVE  /\ NotBefore(q, reveal.loaded)'
                      /\ \A k \in DOMAIN Listed(q) :
                           reveal'.loaded[Listed(q)[k]] # Absent =>
                             reveal'.loaded[Listed(q)[k]] <= loaded[Listed(q)[k]]
    BY <1>2, <1>3 DEF CopyOlder, Walked, Listed
  <2>1. DOMAIN Listed(q) = {}
    BY DEF Listed
  <2>2. ASSUME NEW l \in loads, l.parent = q, NEW k \in DOMAIN l.page,
               reveal'.loaded[l.page[k]] # Absent
        PROVE  reveal'.loaded[l.page[k]] <= l.seqs[k]
    <3>1. l.page[k] \in Span /\ ParentOf[l.page[k]] = q /\ loaded[q] # Absent
      BY <1>1, <2>2 DEF TreeTypes, Answer, LoadsRead
    <3>2. CASE loaded[l.page[k]] # Absent
      BY <1>1, <1>3, <2>2, <3>1, <3>2 DEF TreeOlder, NotBefore
    <3>3. CASE loaded[l.page[k]] = Absent
      <4>1. l.page[k] \in ToSet(chain)
        BY <1>3, <2>2, <3>1, <3>3
      <4>2. loaded[q] = Absent
        BY <1>3, <3>1, <4>1, FetchedAlone
      <4> QED
        BY <3>1, <4>2
    <3> QED
      BY <3>2, <3>3
  <2> QED
    BY <1>2, <2>1, <2>2 DEF NotBefore
<1> QED
  BY <1>7, <1>8, <1>9, <1>10 DEF AheadInv, NoneLost

(* A page joins the copy. *)
LEMMA TurnedAhead ==
  ASSUME ReadInv, NoneLost(since'), TreeOlder, CopyOlder, reveal # Absent,
         NEW p \in Walked, p \in Span, since'[p] # Absent,
         NEW page, NEW seqs, FromTable(p, page, seqs), Turned(p, page, seqs),
         UNCHANGED <<spans, loaded, children, exhausted, loads>>,
         \A c \in since'[p] :
           \/ c \in ToSet(Copied(p)) \cup ToSet(page)
           \/ p \notin reveal'.exhausted /\ \A n \in DOMAIN page : seqs[n] < spans[c].seq
  PROVE  AheadInv'
<1>1. TreeInv /\ TreeTypes /\ reveal \in Copy /\ CopyRead
  BY DEF ReadInv, TreeInv, TreeTypes
<1>2. /\ page \in Seq(Span) /\ seqs \in Seq(Nat) /\ DOMAIN seqs = DOMAIN page
      /\ \A s \in ToSet(page) : ParentOf[s] = p
  BY DEF FromTable, ToSet
<1>3. \A q \in Span : q # p => Copied(q)' = Copied(q) /\ reveal'.children[q] = reveal.children[q]
  BY DEF Turned, Copied
<1>4. \A q \in Span : Copied(q) \in Seq(Span)
  BY <1>1 DEF Copy, Lists, Copied
<1>5. Copied(p)' = Copied(p) \o page /\ reveal'.children[p] # Absent
      /\ ToSet(Copied(p)') = ToSet(Copied(p)) \cup ToSet(page)
  <2>1. Copied(p)' = Copied(p) \o page /\ reveal'.children[p] # Absent
    BY DEF Turned, Copied
  <2> QED
    BY <1>2, <1>4, <2>1, Joined
<1>6. ASSUME NEW q \in Span, NEW s \in ToSet(Copied(q))
      PROVE  s \in Span /\ ParentOf[s] = q /\ reveal.loaded[s] # Absent
  BY <1>1, <1>4, <1>6 DEF CopyRead, Children, ToSet
<1>7. \A s \in Span : /\ s \in ToSet(page) => \E n \in DOMAIN page : page[n] = s /\ reveal'.loaded[s] = seqs[n]
                      /\ s \notin ToSet(page) => reveal'.loaded[s] = reveal.loaded[s]
  BY DEF Turned
<1>8. \A q \in Span : q # p => (q \in reveal'.exhausted <=> q \in reveal.exhausted)
  BY DEF Turned
<1>9. ASSUME NEW q \in Span, q # p, NEW s \in Span, ParentOf[s] = q
      PROVE  reveal'.loaded[s] = reveal.loaded[s]
  BY <1>2, <1>7, <1>9
<1>10. Remembered(since)'
  BY <1>3, <1>8 DEF NoneLost, Remembered
<1>11. TreeAhead(since)' /\ LoadsAhead(since)' /\ TreeOlder'
  BY DEF NoneLost, TreeAhead, LoadsAhead, TreeOlder, NotBefore, Ahead, Listed
<1>12. CopyAhead(since)'
  <2> SUFFICES ASSUME NEW q \in Span, since'[q] # Absent, NEW c \in since'[q]
               PROVE  /\ Ahead(c, Copied(q), reveal.loaded)'
                      /\ q \in reveal'.exhausted =>
                           reveal'.children[q] # Absent /\ c \in ToSet(Copied(q)')
    BY DEF CopyAhead
  <2>1. /\ Ahead(c, Copied(q), reveal.loaded)
        /\ q \in reveal.exhausted => reveal.children[q] # Absent /\ c \in ToSet(Copied(q))
    BY DEF NoneLost, CopyAhead
  <2>2. CASE q = p
    <3>1. c \in ToSet(Copied(p)) \cup ToSet(page) \/ \A s \in ToSet(page) : reveal'.loaded[s] < spans[c].seq
      <4> SUFFICES ASSUME \A n \in DOMAIN page : seqs[n] < spans[c].seq, NEW s \in ToSet(page)
                   PROVE  reveal'.loaded[s] < spans[c].seq
        BY <2>2
      <4>1. s \in Span
        BY <1>2 DEF ToSet
      <4> QED
        BY <1>7, <4>1
    <3>2. \A n \in DOMAIN Copied(p) : Copied(p)[n] \notin ToSet(page) =>
             reveal'.loaded[Copied(p)[n]] = reveal.loaded[Copied(p)[n]]
      BY <1>4, <1>7
    <3>3. Ahead(c, Copied(p), reveal.loaded) /\ Copied(p) \in Seq(Span)
      BY <1>4, <2>1, <2>2
    <3>4. Ahead(c, Copied(p) \o page, reveal'.loaded)
      BY <1>2, <3>1, <3>2, <3>3, AheadOf
    <3>5. Ahead(c, Copied(p), reveal.loaded)'
      BY <1>5, <3>4 DEF Ahead
    <3>6. p \in reveal'.exhausted => c \in ToSet(Copied(p)')
      BY <1>5, <2>2
    <3> QED
      BY <1>5, <2>2, <3>5, <3>6
  <2>3. CASE q # p
    <3>1. \A n \in DOMAIN Copied(q) : reveal'.loaded[Copied(q)[n]] = reveal.loaded[Copied(q)[n]]
      BY <1>4, <1>6, <1>9, <2>3 DEF ToSet
    <3>2. Ahead(c, Copied(q), reveal.loaded)'
      BY <1>3, <2>1, <2>3, <3>1 DEF Ahead
    <3> QED
      BY <1>3, <1>8, <2>1, <2>3, <3>2
  <2> QED
    BY <2>2, <2>3
<1>13. CopyOlder'
  <2> SUFFICES ASSUME NEW q \in Span \ Walked, reveal.children[q] = Absent, q # p
               PROVE  /\ NotBefore(q, reveal.loaded)'
                      /\ \A n \in DOMAIN Listed(q) :
                           reveal'.loaded[Listed(q)[n]] # Absent =>
                             reveal'.loaded[Listed(q)[n]] <= loaded[Listed(q)[n]]
    BY <1>3 DEF CopyOlder, Walked, Listed, Turned
  <2>1. /\ NotBefore(q, reveal.loaded)
        /\ \A n \in DOMAIN Listed(q) :
             reveal.loaded[Listed(q)[n]] # Absent =>
               reveal.loaded[Listed(q)[n]] <= loaded[Listed(q)[n]]
    BY DEF CopyOlder
  <2>2. \A l \in loads : l.parent = q => \A n \in DOMAIN l.page :
          reveal'.loaded[l.page[n]] = reveal.loaded[l.page[n]]
    <3>1. \A l \in loads : l.parent = q => \A n \in DOMAIN l.page :
            l.page[n] \in Span /\ ParentOf[l.page[n]] = q
      BY <1>1 DEF TreeInv, LoadsRead, TreeTypes, Answer
    <3> QED
      BY <1>9, <3>1
  <2>3. \A n \in DOMAIN Listed(q) : reveal'.loaded[Listed(q)[n]] = reveal.loaded[Listed(q)[n]]
    <3>1. Listed(q) \in Seq(Span) /\ Children(q, Listed(q), loaded)
      BY <1>1 DEF TreeInv, TreeRead, TreeTypes, Lists, Listed
    <3> QED
      BY <1>9, <3>1 DEF Children
  <2> QED
    BY <2>1, <2>2, <2>3 DEF NotBefore
<1> QED
  BY <1>10, <1>11, <1>12, <1>13 DEF AheadInv, NoneLost

LEMMA ForwardAhead == ASSUME ReadInv, AheadInv, PageForward PROVE AheadInv'
<1>1. BrowserTypeOK /\ TableInv /\ TreeInv /\ NoneLost(since) /\ TreeOlder /\ CopyOlder /\ CopyRead
  BY Typed DEF ReadInv, AheadInv, TreeInv
<1>2. reveal # Absent /\ UNCHANGED <<spans, loaded, children, exhausted, loads>>
  BY DEF PageForward, Descending, store
<1>3. PICK p : p = reveal.chain[Hop]
  OBVIOUS
<1>4. p \in Span /\ p \in Walked /\ p \notin reveal.exhausted
  BY <1>3, ForwardTurns
<1>5. PICK page, seqs :
        /\ FromTable(p, page, seqs) /\ Turned(p, page, seqs)
        /\ \/ /\ page = ChildrenPage(spans, p, ChildCursor(Copied(p), reveal.loaded))
              /\ seqs = SeqsOf(page) /\ since' = FirstSeen(p)
              /\ p \in reveal'.exhausted => Len(page) < PageSize
           \/ since' = [since EXCEPT ![p] = {}]
  BY <1>3, ForwardTurns
<1>6. NoneLost(since') /\ since'[p] # Absent
  BY <1>1, <1>4, <1>5, SeenNow
<1>7. ASSUME NEW c \in since'[p]
      PROVE  \/ c \in ToSet(Copied(p)) \cup ToSet(page)
             \/ p \notin reveal'.exhausted /\ \A n \in DOMAIN page : seqs[n] < spans[c].seq
  <2>1. since' # [since EXCEPT ![p] = {}]
    BY <1>1, <1>4, <1>7 DEF BrowserTypeOK
  <2>2. /\ page = ChildrenPage(spans, p, ChildCursor(Copied(p), reveal.loaded))
        /\ seqs = SeqsOf(page) /\ since' = FirstSeen(p)
        /\ p \in reveal'.exhausted => Len(page) < PageSize
    BY <1>5, <2>1
  <2>3. c \in Span
    BY <1>1, <1>4, <1>6, <1>7, <2>2 DEF BrowserTypeOK, FirstSeen, Rows
  <2>4. spans[c] # Absent /\ ParentOf[c] = p /\ TraceOf[c] = TraceOf[p]
    BY <1>4, <1>6 DEF NoneLost, Remembered
  <2>5. Ahead(c, Copied(p), reveal.loaded)
    BY <1>2, <1>4, <1>6 DEF NoneLost, CopyAhead
  <2>6. /\ Copied(p) \in Seq(Span) /\ reveal.loaded \in Seqs
        /\ \A n \in DOMAIN Copied(p) : reveal.loaded[Copied(p)[n]] # Absent
    <3>1. reveal \in Copy /\ Children(p, Copied(p), reveal.loaded)
      BY <1>1, <1>2, <1>4 DEF BrowserTypeOK, CopyRead
    <3> QED
      BY <1>4, <3>1 DEF Copy, Lists, Copied, Children
  <2>7. \/ c \in ToSet(Copied(p)) \cup ToSet(page)
        \/ Len(page) >= PageSize /\ \A n \in DOMAIN page : spans[page[n]].seq < spans[c].seq
    BY <1>1, <1>4, <2>2, <2>3, <2>4, <2>5, <2>6, PageOnward DEF TableInv
  <2>8. Len(page) \in Nat /\ PageSize \in Nat /\ \A n \in DOMAIN page : seqs[n] = spans[page[n]].seq
    BY <1>5, <2>2, SpanListingAssumption DEF FromTable, SeqsOf
  <2> QED
    BY <2>2, <2>7, <2>8
<1> QED
  BY <1>1, <1>2, <1>4, <1>5, <1>6, <1>7, TurnedAhead

LEMMA SpliceAhead == ASSUME ReadInv, AheadInv, Splice PROVE AheadInv'
<1>1. TreeInv /\ NoneLost(since) /\ TreeOlder /\ CopyOlder
  BY DEF ReadInv, AheadInv
<1>2. reveal # Absent /\ UNCHANGED <<spans, loaded, children, exhausted, loads, since>>
  BY DEF Splice, Descending, store, tree
<1>3. PICK p : p = reveal.chain[Hop]
  OBVIOUS
<1>4. p \in Span /\ p \in Walked /\ p \in reveal.exhausted
  BY <1>3, SpliceTurns
<1>5. PICK page, seqs : FromTable(p, page, seqs) /\ Turned(p, page, seqs)
  BY <1>3, SpliceTurns
<1>6. since'[p] # Absent
  BY <1>1, <1>2, <1>4 DEF NoneLost, Remembered
<1>7. \A c \in since'[p] : c \in ToSet(Copied(p))
  BY <1>1, <1>2, <1>4, <1>6 DEF NoneLost, CopyAhead
<1>8. NoneLost(since')
  BY <1>1, <1>2
<1> QED
  BY <1>1, <1>2, <1>4, <1>5, <1>6, <1>7, <1>8, TurnedAhead

LEMMA MergeAhead == ASSUME ReadInv, AheadInv, Merge PROVE AheadInv'
<1>1. /\ TreeInv /\ TreeTypes /\ TreeRead /\ CopyRead /\ reveal \in Copy /\ reveal # Absent
      /\ NoneLost(since) /\ TreeOlder /\ CopyOlder
  BY DEF ReadInv, AheadInv, TreeInv, TreeTypes, Merge
<1>2. /\ UNCHANGED <<spans, loads>> /\ reveal' = Absent
      /\ exhausted' = exhausted \cup reveal.exhausted
  BY DEF Merge, store
<1>3. /\ reveal.loaded \in Seqs /\ reveal.children \in Lists
      /\ loaded \in Seqs /\ children \in Lists
  BY <1>1 DEF TreeTypes, Copy
<1>4. \A s \in Span : loaded'[s] = IF reveal.loaded[s] = Absent THEN loaded[s] ELSE reveal.loaded[s]
  BY <1>3 DEF Merge, Seqs
<1>5. \A p \in Span : children'[p] = IF reveal.children[p] = Absent THEN children[p]
                                       ELSE reveal.children[p]
  BY <1>3 DEF Merge, Merged, Lists
<1>6. \A p \in Span :
        /\ since'[p] = {} \/ since'[p] = since[p]
        /\ since'[p] # since[p] => children[p] # Absent
        /\ children[p] # Absent =>
             since'[p] = {} \/ ToSet(children[p]) \subseteq ToSet(children'[p])
  BY DEF Merge
<1>7. {} # Absent
  BY AbsentAssumption
<1>8. ASSUME NEW p \in Walked PROVE p \in Span /\ reveal.children[p] # Absent
  <2>1. PICK i \in 2..Len(reveal.chain) : p = reveal.chain[i]
    BY DEF Walked
  <2>2. reveal.chain[i - 1] \in ToSet(Copied(p))
    BY <2>1 DEF Merge, Unlisted
  <2>3. p \in Span
    BY <1>1, <2>1 DEF Copy
  <2> QED
    BY <2>2, <2>3 DEF Copied, ToSet
<1>9. \A p \in Span : IF reveal.children[p] = Absent THEN Listed(p)' = Listed(p)
                       ELSE Listed(p)' = Copied(p)
  BY <1>5 DEF Listed, Copied
<1>10. \A p \in Span : Listed(p) \in Seq(Span) /\ Copied(p) \in Seq(Span)
  BY <1>3 DEF Lists, Listed, Copied
<1>11. ASSUME NEW p \in Span, since'[p] # Absent, NEW c \in since'[p]
       PROVE  since[p] # Absent /\ c \in since[p] /\ since'[p] = since[p]
  BY <1>6, <1>11
<1>12. Remembered(since)'
  <2> SUFFICES ASSUME NEW p \in Span
               PROVE  IF since'[p] = Absent
                      THEN /\ children'[p] = Absent /\ p \notin exhausted'
                           /\ \A l \in loads : l.parent # p
                      ELSE \A c \in since'[p] :
                             spans[c] # Absent /\ ParentOf[c] = p /\ TraceOf[c] = TraceOf[p]
    BY <1>2 DEF Remembered
  <2>1. CASE since'[p] = Absent
    <3>1. since[p] = Absent
      BY <1>6, <1>7, <2>1
    <3> QED
      BY <1>1, <1>2, <1>5, <2>1, <3>1 DEF NoneLost, Remembered
  <2>2. CASE since'[p] # Absent
    BY <1>1, <1>11, <2>2 DEF NoneLost, Remembered
  <2> QED
    BY <2>1, <2>2
<1>13. TreeAhead(since)'
  <2> SUFFICES ASSUME NEW p \in Span, since'[p] # Absent, NEW c \in since'[p]
               PROVE  /\ Ahead(c, Listed(p), loaded)'
                      /\ p \in exhausted' => children'[p] # Absent /\ c \in ToSet(Listed(p)')
    BY <1>2 DEF TreeAhead
  <2>1. since[p] # Absent /\ c \in since[p] /\ since'[p] = since[p]
    BY <1>11
  <2>2. /\ Ahead(c, Listed(p), loaded)
        /\ p \in exhausted => children[p] # Absent /\ c \in ToSet(Listed(p))
    BY <1>1, <2>1 DEF NoneLost, TreeAhead
  <2>3. /\ Ahead(c, Copied(p), reveal.loaded)
        /\ p \in reveal.exhausted => reveal.children[p] # Absent /\ c \in ToSet(Copied(p))
    BY <1>1, <2>1 DEF NoneLost, CopyAhead
  <2>4. CASE reveal.children[p] # Absent
    <3>1. Listed(p)' = Copied(p) /\ children'[p] # Absent
      BY <1>5, <1>9, <2>4
    <3>2. \A n \in DOMAIN Copied(p) : loaded'[Copied(p)[n]] = reveal.loaded[Copied(p)[n]]
      <4>1. Children(p, Copied(p), reveal.loaded)
        BY <1>1 DEF CopyRead
      <4> QED
        BY <1>4, <1>10, <4>1 DEF Children
    <3>3. Ahead(c, Listed(p), loaded)'
      BY <1>2, <2>3, <3>1, <3>2 DEF Ahead
    <3>4. ASSUME p \in exhausted PROVE c \in ToSet(Copied(p))
      <4>1. c \in ToSet(children[p]) /\ children[p] # Absent
        BY <2>2, <3>4 DEF Listed
      <4>2. ToSet(children[p]) \subseteq ToSet(children'[p])
        BY <1>6, <4>1
      <4> QED
        BY <1>5, <2>4, <4>1, <4>2 DEF Copied
    <3> QED
      BY <1>2, <2>3, <3>1, <3>3, <3>4
  <2>5. CASE reveal.children[p] = Absent
    <3>1. Listed(p)' = Listed(p) /\ children'[p] = children[p] /\ p \notin Walked
      BY <1>5, <1>8, <1>9, <2>5
    <3>2. \A n \in DOMAIN Listed(p) :
            reveal.loaded[Listed(p)[n]] # Absent =>
              reveal.loaded[Listed(p)[n]] <= loaded[Listed(p)[n]]
      BY <1>1, <2>5, <3>1 DEF CopyOlder
    <3>3. \A n \in DOMAIN Listed(p) : Listed(p)[n] \in Span /\ loaded[Listed(p)[n]] # Absent
      <4>1. Children(p, Listed(p), loaded)
        BY <1>1 DEF TreeRead
      <4> QED
        BY <1>10, <4>1 DEF Children
    <3>4. ASSUME c \notin ToSet(Listed(p)), NEW n \in DOMAIN Listed(p)
          PROVE  loaded'[Listed(p)[n]] < spans[c].seq
      <4>1. loaded[Listed(p)[n]] < spans[c].seq
        BY <2>2, <3>4 DEF Ahead
      <4>2. loaded[Listed(p)[n]] \in Nat /\ reveal.loaded[Listed(p)[n]] \in Nat \cup {Absent}
        BY <1>3, <3>3 DEF Seqs
      <4>3. spans[c].seq \in Nat
        <5>1. spans[c] # Absent
          BY <1>1, <2>1 DEF NoneLost, Remembered
        <5>2. c \in Span
          BY <1>1, <2>1 DEF TreeTypes
        <5> QED
          BY <5>1, <5>2, TableRow DEF ReadInv, TableInv
      <4> QED
        BY <1>4, <3>2, <3>3, <4>1, <4>2, <4>3
    <3>5. Ahead(c, Listed(p), loaded)'
      BY <1>2, <3>1, <3>4 DEF Ahead
    <3> QED
      BY <1>2, <2>2, <2>3, <2>5, <3>1, <3>5
  <2> QED
    BY <2>4, <2>5
<1>14. LoadsAhead(since)'
  <2> SUFFICES ASSUME NEW l \in loads, NEW c \in since'[l.parent]
               PROVE  \/ c \in ToSet(Listed(l.parent)') \cup ToSet(l.page)
                      \/ /\ Len(l.page) >= PageSize
                         /\ \A n \in DOMAIN l.page : l.seqs[n] < spans[c].seq
    BY <1>2 DEF LoadsAhead, Listed
  <2>1. l.parent \in Span /\ since[l.parent] # Absent
    BY <1>1 DEF TreeTypes, Answer, NoneLost, Remembered
  <2>2. c \in since[l.parent]
    BY <1>6, <2>1
  <2>3. \/ c \in ToSet(Listed(l.parent)) \cup ToSet(l.page)
        \/ Len(l.page) >= PageSize /\ \A n \in DOMAIN l.page : l.seqs[n] < spans[c].seq
    BY <1>1, <2>2 DEF NoneLost, LoadsAhead
  <2>4. ASSUME c \in ToSet(Listed(l.parent)) PROVE c \in ToSet(Listed(l.parent)')
    <3>1. children[l.parent] # Absent /\ c \in ToSet(children[l.parent])
      BY <2>4 DEF Listed, ToSet
    <3>2. c \in ToSet(children'[l.parent])
      BY <1>6, <2>1, <3>1
    <3>3. children'[l.parent] # Absent
      BY <1>5, <2>1, <3>1
    <3> QED
      BY <3>2, <3>3 DEF Listed
  <2> QED
    BY <2>3, <2>4
<1>15. CopyAhead(since)' /\ CopyOlder'
  BY <1>2 DEF CopyAhead, CopyOlder
<1>16. TreeOlder'
  <2> SUFFICES ASSUME NEW q \in Span, children'[q] = Absent, NEW l \in loads, l.parent = q,
                      NEW n \in DOMAIN l.page, loaded'[l.page[n]] # Absent
               PROVE  loaded'[l.page[n]] <= l.seqs[n]
    BY <1>2 DEF TreeOlder, NotBefore
  <2>1. reveal.children[q] = Absent /\ children[q] = Absent /\ q \notin Walked
    BY <1>5, <1>8
  <2>2. NotBefore(q, loaded) /\ NotBefore(q, reveal.loaded)
    BY <1>1, <2>1 DEF TreeOlder, CopyOlder
  <2>3. l.page[n] \in Span
    BY <1>1 DEF TreeTypes, Answer
  <2> QED
    BY <1>4, <2>2, <2>3 DEF NotBefore
<1> QED
  BY <1>12, <1>13, <1>14, <1>15, <1>16 DEF AheadInv, NoneLost

LEMMA NextAhead ==
  ASSUME Acyclic
  PROVE  ReadInv /\ ReadInv' /\ AheadInv /\ [NextBrowser]_browsing => AheadInv'
<1> SUFFICES ASSUME ReadInv, ReadInv', AheadInv, [NextBrowser]_browsing PROVE AheadInv'
  OBVIOUS
<1>1. TableInv
  BY DEF ReadInv
<1>2. ASSUME UNCHANGED <<spans, loaded, children, exhausted, loads, since, reveal>>
      PROVE  AheadInv'
  BY <1>1, <1>2, SameGrows, AheadStays
<1>3. CASE Write
  <2>1. Grows
    BY <1>1, <1>3, WriteGrows
  <2> QED
    BY <1>3, <2>1, AheadStays DEF Write, tree
<1>4. CASE AskListing \/ RefuseListing \/ FailListing \/ AnswerListing
  BY <1>2, <1>4 DEF AskListing, RefuseListing, FailListing, AnswerListing, store, tree
<1>5. ASSUME NEW t \in Trace, OpenTrace(t) PROVE AheadInv'
  <2> DEFINE r == SingleTraceRoot(spans, t)
  <2>1. r \in Span
    BY <1>5, ListingRootRow DEF OpenTrace, Rows
  <2>2. AskChildren(r, TRUE) /\ UNCHANGED <<spans, children, exhausted, reveal>> /\ root = Absent
    BY <1>5 DEF OpenTrace
  <2>3. loads = {} /\ \A s \in Span : loaded[s] = Absent
    BY <2>2 DEF ReadInv, TreeInv, Unopened
  <2> HIDE DEF r
  <2> QED
    BY <2>1, <2>2, <2>3, AskAhead
<1>6. ASSUME NEW s \in Rendered, NEW opens, AskChildren(s, opens),
             UNCHANGED <<spans, loaded, children, exhausted, reveal>>
      PROVE  AheadInv'
  BY <1>6, AskAhead, RenderedLoaded
<1>7. ASSUME NEW s \in Rendered, Collapse(s) \/ Expand(s) \/ LoadMore(s) PROVE AheadInv'
  <2>1. CASE Collapse(s)
    BY <1>2, <2>1 DEF Collapse, store
  <2>2. CASE Expand(s)
    <3>1. UNCHANGED <<spans, loaded, children, exhausted, reveal>>
      BY <2>2 DEF Expand, store
    <3>2. AskChildren(s, TRUE) \/ UNCHANGED <<loads, since>>
      BY <2>2 DEF Expand
    <3> QED
      BY <1>2, <1>6, <3>1, <3>2
  <2>3. CASE LoadMore(s)
    BY <1>6, <2>3 DEF LoadMore, store
  <2> QED
    BY <1>7, <2>1, <2>2, <2>3
<1>8. ASSUME NEW s \in Span, StartReveal(s) PROVE AheadInv'
  BY <1>8, StartAhead
<1>9. ASSUME NEW l \in loads, AnswerChildren(l) PROVE AheadInv'
  BY <1>9, AnswerAhead
<1>10. CASE PageForward \/ Splice \/ Merge
  BY <1>10, ForwardAhead, SpliceAhead, MergeAhead
<1>11. CASE UNCHANGED browsing
  BY <1>2, <1>11 DEF browsing, store, tree
<1> QED
  BY <1>3, <1>4, <1>5, <1>7, <1>8, <1>9, <1>10, <1>11 DEF NextBrowser

(* A tree that says it has read all the children of a span lists every child   *)
(* the span had when its first page was read: for any table whose parents are  *)
(* no circle, any page size, any number of pages asked for twice, answered out *)
(* of order or failing, of completions between them, and of reveals            *)
(* (_query_subtree, "neither duplicates nor skips can occur"; SpanTree.tsx,    *)
(* loadChildrenPage).                                                          *)
THEOREM NoChildIsLost == ASSUME Acyclic PROVE SpecBrowser => []NoChildLost
<1>1. InitBrowser => ReadInv /\ AheadInv
  BY InitRead, InitAhead
<1>2. ReadInv /\ AheadInv /\ [NextBrowser]_browsing => (ReadInv /\ AheadInv)'
  BY NextRead, NextAhead
<1>3. ReadInv /\ AheadInv => NoChildLost
  <2> SUFFICES ASSUME ReadInv, AheadInv, NEW p \in exhausted, children[p] # Absent, since[p] # Absent,
                      NEW c \in since[p]
               PROVE  c \in ToSet(children[p])
    BY DEF NoChildLost
  <2>1. p \in Span
    BY DEF ReadInv, TreeInv, TreeTypes
  <2>2. c \in ToSet(Listed(p))
    BY <2>1 DEF AheadInv, NoneLost, TreeAhead
  <2> QED
    BY <2>2 DEF Listed
<1> QED
  BY <1>1, <1>2, <1>3, PTL DEF SpecBrowser

(* The entries of the list, and of the page on its way, bear numbers that      *)
(* their roots have or had.                                                    *)
EntriesRead ==
  \A i \in DOMAIN pages :
    spans[pages[i].root] # Absent /\ pages[i].seq \in Numbers(spans[pages[i].root])

SnapshotOld ==
  request # Absent =>
    \A s \in Span : request.rows[s] # Absent =>
      spans[s] # Absent /\ request.rows[s].seq \in Numbers(spans[s])

(* The list goes on in the listing's order, from page to page. *)
InListOrder ==
  /\ \A i, j \in DOMAIN pages : i < j => Later(pages[i].root, pages[j].root)
  /\ request # Absent =>
       /\ \A m, n \in DOMAIN request.roots : m < n => Later(request.roots[m], request.roots[n])
       /\ \A i \in DOMAIN pages, n \in DOMAIN request.roots : Later(pages[i].root, request.roots[n])

(* r is on the list, or on its way, or behind what is. *)
OnList(r) == \E i \in DOMAIN pages : pages[i].root = r

Awaited(r) ==
  /\ \A i \in DOMAIN pages : Later(pages[i].root, r)
  /\ IF request = Absent THEN list # "end"
     ELSE \/ \E n \in DOMAIN request.roots : request.roots[n] = r
          \/ /\ Len(request.roots) >= PageSize
             /\ \A n \in DOMAIN request.roots : Later(request.roots[n], r)

(* The only entry that a stable trace has. *)
EntryOf(t, r) ==
  /\ Entry(spans, t) = {r}
  /\ \A i \in DOMAIN pages : TraceOf[pages[i].root] = t => pages[i].root = r
  /\ request # Absent =>
       \A n \in DOMAIN request.roots : TraceOf[request.roots[n]] = t => request.roots[n] = r
  /\ OnList(r) \/ Awaited(r)

PagesInv ==
  /\ EntriesRead /\ SnapshotOld /\ InListOrder
  /\ list = "end" => request = Absent
  /\ \A t \in stable : \E r \in Span : EntryOf(t, r)

LEMMA LaterOrder ==
  ASSUME NEW x \in Span, NEW y \in Span
  PROVE  /\ ~Later(x, x)
         /\ \A z \in Span : Later(x, y) /\ Later(y, z) => Later(x, z)
<1>1. \A s \in Span : s \in Nat /\ StartedAt[s] \in Nat
  BY SpanListingAssumption
<1> QED
  BY <1>1 DEF Later

LEMMA InitPages == InitBrowser => PagesInv
<1> SUFFICES ASSUME InitBrowser PROVE PagesInv
  OBVIOUS
<1>1. pages = <<>> /\ request = Absent /\ list = "more" /\ stable = {} /\ DOMAIN pages = {}
  BY DEF InitBrowser
<1> QED
  BY <1>1 DEF PagesInv, EntriesRead, SnapshotOld, InListOrder

(* A trace has at most one entry. *)
LEMMA OneEntry ==
  ASSUME NEW rows, NEW t, Entry(rows, t) # {}
  PROVE  \E r \in Span : Entry(rows, t) = {r} /\ r \in ListingRoots(rows)
<1>1. PICK r \in ListingRoots(rows) : TraceOf[r] = t
  BY DEF Entry
<1>2. \A s \in Entry(rows, t) : s = ListingRoot(rows, t)
  BY ListingRootsRows DEF Entry
<1>3. r \in Span /\ r \in Entry(rows, t)
  BY <1>1, ListingRootsRows DEF Entry
<1> QED
  BY <1>1, <1>2, <1>3

(* The entries of the list are of spans. *)
LEMMA PagesTyped == ReadInv => pages \in Seq(ListEntry) /\ \A i \in DOMAIN pages : pages[i].root \in Span
<1> SUFFICES ASSUME ReadInv PROVE pages \in Seq(ListEntry) /\ \A i \in DOMAIN pages : pages[i].root \in Span
  OBVIOUS
<1>1. pages \in Seq(ListEntry)
  BY DEF ReadInv, ListRead, ListTypes
<1>2. \A i \in DOMAIN pages : pages[i] \in ListEntry
  BY <1>1
<1> QED
  BY <1>1, <1>2 DEF ListEntry

(* Nothing is lost from the list while the table grows. *)
LEMMA PagesStay ==
  ASSUME ReadInv, PagesInv, Grows, UNCHANGED listing,
         stable' \in SUBSET stable, \A t \in stable' : Entry(spans', t) = Entry(spans, t)
  PROVE  PagesInv'
<1>1. UNCHANGED <<pages, request, list>>
  BY DEF listing
<1>2. pages \in Seq(ListEntry) /\ \A i \in DOMAIN pages : pages[i].root \in Span
  BY PagesTyped
<1>3. EntriesRead'
  BY <1>1, <1>2 DEF PagesInv, EntriesRead, Grows
<1>4. SnapshotOld'
  BY <1>1 DEF PagesInv, SnapshotOld, Grows
<1>5. InListOrder'
  BY <1>1 DEF PagesInv, InListOrder
<1>6. ASSUME NEW t \in stable' PROVE \E r \in Span : EntryOf(t, r)'
  <2>1. PICK r \in Span : EntryOf(t, r)
    BY <1>6 DEF PagesInv
  <2>2. Entry(spans, t)' = {r}
    BY <1>6, <2>1 DEF EntryOf
  <2> QED
    BY <1>1, <2>1, <2>2 DEF EntryOf, OnList, Awaited
<1> QED
  BY <1>1, <1>3, <1>4, <1>5, <1>6 DEF PagesInv

(* The cursor is the number of the last entry's root, and of no other span.    *)
LEMMA CursorIsLast ==
  ASSUME ReadInv, PagesInv, ~StaleCursor(spans, ListCursor)
  PROVE  /\ pages = <<>> => CursorSpans(spans, ListCursor) = {}
         /\ pages # <<>> => CursorSpans(spans, ListCursor) = {pages[Len(pages)].root}
<1>1. TableInv /\ pages \in Seq(ListEntry) /\ spans \in Table /\ Numbered(spans)
  BY DEF ReadInv, ListRead, ListTypes, TableInv
<1>2. \A s \in Span : spans[s] # Absent => spans[s].seq \in Numbers(spans[s])
  BY DEF Numbers
<1>3. CASE pages = <<>>
  <2>1. ListCursor = NoCursor
    BY <1>3 DEF ListCursor
  <2> QED
    BY <1>1, <1>2, <1>3, <2>1 DEF CursorSpans, Numbered
<1>4. CASE pages # <<>>
  <2> DEFINE last == pages[Len(pages)]
  <2>1. last \in ListEntry /\ Len(pages) \in DOMAIN pages
    BY <1>1, <1>4
  <2>2. last.root \in Span /\ spans[last.root] # Absent /\ last.seq \in Numbers(spans[last.root])
    BY <2>1 DEF ListEntry, PagesInv, EntriesRead
  <2>3. ListCursor = last.seq
    BY <1>4 DEF ListCursor
  <2>4. last.seq # NoCursor
    BY <1>1, <2>2 DEF Numbered
  <2>5. ASSUME NEW s \in CursorSpans(spans, ListCursor) PROVE s = last.root
    <3>1. s \in Span /\ spans[s] # Absent /\ last.seq \in Numbers(spans[s])
      BY <1>2, <2>3, <2>5 DEF CursorSpans
    <3> HIDE DEF last
    <3> QED
      BY <1>1, <2>2, <3>1 DEF Numbered
  <2>6. CursorSpans(spans, ListCursor) # {}
    BY <2>3, <2>4 DEF StaleCursor
  <2> QED
    BY <1>4, <2>5, <2>6
<1> QED
  BY <1>3, <1>4

LEMMA AskPages == ASSUME ReadInv, PagesInv, AskListing PROVE PagesInv'
<1>1. /\ request = Absent /\ list # "end"
      /\ request' = [roots |-> ListingPage(spans, ListCursor), rows |-> spans]
      /\ UNCHANGED <<spans, pages, list>> /\ ~StaleCursor(spans, ListCursor)
  BY DEF AskListing, CanAsk
<1> DEFINE S == Behind(spans, ListCursor)
           page == ListingPage(spans, ListCursor)
<1>2. PageOf(page, S, Pairs(S, Later))
  BY ListingPaged
<1>3. pages \in Seq(ListEntry) /\ \A i \in DOMAIN pages : pages[i].root \in Span
  BY PagesTyped
<1>4. S \in SUBSET Span /\ S \subseteq ListingRoots(spans) /\ \A s \in S : spans[s] # Absent
  BY ListingRootsRows DEF Behind
<1>5. ASSUME NEW r \in Span
      PROVE  (\A c \in CursorSpans(spans, ListCursor) : Later(c, r)) <=>
                \A i \in DOMAIN pages : Later(pages[i].root, r)
  <2>1. CASE pages = <<>>
    BY <1>1, <2>1, CursorIsLast
  <2>2. CASE pages # <<>>
    <3> DEFINE last == pages[Len(pages)].root
    <3>1. CursorSpans(spans, ListCursor) = {last}
      BY <1>1, <2>2, CursorIsLast
    <3>2. Len(pages) \in DOMAIN pages /\ last \in Span
      BY <1>3, <2>2
    <3>3. \A i \in DOMAIN pages : i = Len(pages) \/ i < Len(pages)
      BY <1>3
    <3>4. \A i \in DOMAIN pages : i = Len(pages) \/ Later(pages[i].root, last)
      BY <3>2, <3>3 DEF PagesInv, InListOrder
    <3> HIDE DEF last
    <3>5. ASSUME Later(last, r), NEW i \in DOMAIN pages PROVE Later(pages[i].root, r)
      <4>1. CASE i = Len(pages)
        BY <3>5, <4>1 DEF last
      <4>2. CASE i # Len(pages)
        BY <1>3, <3>2, <3>4, <3>5, <4>2, LaterOrder
      <4> QED
        BY <4>1, <4>2
    <3> QED
      BY <3>1, <3>2, <3>5 DEF last
  <2> QED
    BY <2>1, <2>2
<1>6. S = {s \in ListingRoots(spans) : \A i \in DOMAIN pages : Later(pages[i].root, s)}
  <2>1. ListingRoots(spans) \subseteq Span
    BY ListingRootsRows
  <2> QED
    BY <1>5, <2>1 DEF Behind
<1> HIDE DEF S, page
<1>7. /\ page \in Seq(S) /\ DOMAIN page = 1..Len(page) /\ Len(page) \in Nat
      /\ \A n \in DOMAIN page : page[n] \in S
      /\ \A m, n \in DOMAIN page : m < n => Later(page[m], page[n])
      /\ \A x \in S : \/ \E n \in DOMAIN page : page[n] = x
                      \/ Len(page) = PageSize /\ \A n \in DOMAIN page : Later(page[n], x)
  <2>1. page \in Seq(S) /\ DOMAIN page = 1..Len(page)
    BY <1>2 DEF PageOf
  <2>2. \A x, y \in S : <<x, y>> \in Pairs(S, Later) <=> Later(x, y)
    BY DEF Pairs
  <2>3. \A n \in DOMAIN page : page[n] \in S
    BY <2>1
  <2>4. Len(page) \in Nat
    BY <2>1
  <2>5. /\ \A m, n \in DOMAIN page : m < n => <<page[m], page[n]>> \in Pairs(S, Later)
        /\ \A x \in S : \/ \E n \in DOMAIN page : page[n] = x
                        \/ /\ Len(page) = PageSize
                           /\ \A n \in DOMAIN page : <<page[n], x>> \in Pairs(S, Later)
    BY <1>2, <2>1 DEF PageOf
  <2>6. \A m, n \in DOMAIN page : m < n => Later(page[m], page[n])
    BY <2>2, <2>3, <2>5
  <2>7. \A x \in S : \/ \E n \in DOMAIN page : page[n] = x
                     \/ Len(page) = PageSize /\ \A n \in DOMAIN page : Later(page[n], x)
    BY <2>2, <2>3, <2>5
  <2> QED
    BY <2>1, <2>3, <2>4, <2>6, <2>7
<1>8. request' = [roots |-> page, rows |-> spans] /\ request' # Absent
  <2>1. request' = [roots |-> page, rows |-> spans]
    BY <1>1 DEF page
  <2>2. page \in Seq(Span) /\ spans \in Table
    BY <1>4, <1>7 DEF ReadInv, TableInv
  <2>3. request' \in Snapshot
    BY <2>1, <2>2 DEF Snapshot
  <2> QED
    BY <2>1, <2>3, AbsentAssumption
<1>9. EntriesRead' /\ SnapshotOld'
  BY <1>1, <1>8 DEF PagesInv, EntriesRead, SnapshotOld, Numbers
<1>10. InListOrder'
  BY <1>1, <1>6, <1>7, <1>8 DEF PagesInv, InListOrder
<1>11. ASSUME NEW t, NEW r \in Span, Entry(spans, t) = {r},
              \A i \in DOMAIN pages : TraceOf[pages[i].root] = t => pages[i].root = r,
              OnList(r) \/ \A i \in DOMAIN pages : Later(pages[i].root, r)
       PROVE  EntryOf(t, r)'
  <2>1. Entry(spans, t)' = {r}
    BY <1>1, <1>11
  <2>2. \A n \in DOMAIN page : TraceOf[page[n]] = t => page[n] = r
    BY <1>4, <1>7, <1>11 DEF Entry
  <2>3. OnList(r)' \/ Awaited(r)'
    <3>1. CASE OnList(r)
      BY <1>1, <3>1 DEF OnList
    <3>2. CASE \A i \in DOMAIN pages : Later(pages[i].root, r)
      <4>1. r \in S
        <5>1. r \in ListingRoots(spans)
          BY <1>11 DEF Entry
        <5> QED
          BY <1>6, <3>2, <5>1
      <4>2. \/ \E n \in DOMAIN page : page[n] = r
            \/ Len(page) = PageSize /\ \A n \in DOMAIN page : Later(page[n], r)
        BY <1>7, <4>1
      <4> QED
        BY <1>1, <1>7, <1>8, <3>2, <4>2 DEF Awaited
    <3> QED
      BY <1>11, <3>1, <3>2
  <2> QED
    BY <1>1, <1>8, <1>11, <2>1, <2>2, <2>3 DEF EntryOf
<1>12. ASSUME NEW t \in stable' PROVE \E r \in Span : EntryOf(t, r)'
  <2>1. CASE pages = <<>>
    <3>1. Entry(spans, t) # {}
      BY <1>12, <2>1 DEF AskListing
    <3>2. PICK r \in Span : Entry(spans, t) = {r}
      BY <3>1, OneEntry
    <3>3. DOMAIN pages = {}
      BY <2>1
    <3> QED
      BY <1>11, <3>2, <3>3
  <2>2. CASE pages # <<>>
    <3>1. t \in stable
      BY <1>12, <2>2 DEF AskListing
    <3>2. PICK r \in Span : EntryOf(t, r)
      BY <3>1 DEF PagesInv
    <3> QED
      BY <1>11, <3>2 DEF EntryOf, Awaited
  <2> QED
    BY <2>1, <2>2
<1> QED
  BY <1>1, <1>9, <1>10, <1>12 DEF PagesInv

(* The page that was asked for goes behind the list. *)
LEMMA Appended ==
  ASSUME ReadInv, PagesInv, AnswerListing
  PROVE  /\ request.roots \in Seq(Span)
         /\ \A n \in DOMAIN request.roots :
              LET s == request.roots[n]
                  j == Len(pages) + n
              IN  /\ j \in DOMAIN pages' /\ pages'[j].root = s
                  /\ spans[s] # Absent /\ pages'[j].seq \in Numbers(spans[s])
         /\ \A i \in DOMAIN pages : i \in DOMAIN pages' /\ pages'[i] = pages[i]
         /\ \A i \in DOMAIN pages' \ DOMAIN pages :
              \E n \in DOMAIN request.roots : i = Len(pages) + n
<1> DEFINE new == [i \in DOMAIN request.roots |->
                     ListingEntry(request.roots[i], request.rows, Counted(request.rows))]
<1>1. request # Absent /\ pages' = pages \o new
  BY DEF AnswerListing
<1>2. pages \in Seq(ListEntry) /\ ListRead
  BY PagesTyped DEF ReadInv
<1>3. request \in Snapshot /\ new \in Seq(ListEntry)
  BY <1>1, <1>2, AnswerTyped
<1>4. request.roots \in Seq(Span) /\ request.rows \in Table
  BY <1>3 DEF Snapshot
<1>5. DOMAIN new = DOMAIN request.roots
  OBVIOUS
<1>6. ASSUME NEW n \in DOMAIN request.roots
      PROVE  LET s == request.roots[n] IN
               new[n].root = s /\ spans[s] # Absent /\ new[n].seq \in Numbers(spans[s])
  <2> DEFINE s == request.roots[n]
  <2>1. new[n].root = s /\ new[n].seq = request.rows[s].seq
    BY DEF ListingEntry
  <2>2. s \in Span /\ request.rows[s] # Absent
    BY <1>1, <1>2, <1>4 DEF ListRead, RequestRead
  <2> QED
    BY <1>1, <2>1, <2>2 DEF PagesInv, SnapshotOld
<1> HIDE DEF new
<1>7. ASSUME NEW n \in DOMAIN request.roots
      PROVE  Len(pages) + n \in DOMAIN pages' /\ pages'[Len(pages) + n] = new[n]
  BY <1>1, <1>2, <1>3, <1>5
<1>8. \A i \in DOMAIN pages : i \in DOMAIN pages' /\ pages'[i] = pages[i]
  BY <1>1, <1>2, <1>3
<1>9. ASSUME NEW i \in DOMAIN pages' \ DOMAIN pages
      PROVE  \E n \in DOMAIN request.roots : i = Len(pages) + n
  <2>1. i - Len(pages) \in DOMAIN new
    BY <1>1, <1>2, <1>3
  <2>2. i = Len(pages) + (i - Len(pages))
    BY <1>1, <1>2, <1>3
  <2> QED
    BY <1>5, <2>1, <2>2
<1> QED
  BY <1>4, <1>6, <1>7, <1>8, <1>9

LEMMA AnswerPages == ASSUME ReadInv, PagesInv, AnswerListing PROVE PagesInv'
<1>1. /\ request # Absent /\ request' = Absent /\ UNCHANGED <<spans, stable>>
      /\ list' = IF Len(request.roots) < PageSize THEN "end" ELSE "more"
  BY DEF AnswerListing, store
<1> DEFINE roots == request.roots
<1>2. /\ \A i \in DOMAIN pages : i \in DOMAIN pages' /\ pages'[i] = pages[i]
      /\ \A i \in DOMAIN pages' \ DOMAIN pages : \E n \in DOMAIN roots : i = Len(pages) + n
  BY Appended
<1>3. \A n \in DOMAIN roots :
        /\ Len(pages) + n \in DOMAIN pages' /\ pages'[Len(pages) + n].root = roots[n]
        /\ spans[roots[n]] # Absent /\ pages'[Len(pages) + n].seq \in Numbers(spans[roots[n]])
  BY Appended
<1>4. /\ pages \in Seq(ListEntry) /\ roots \in Seq(Span) /\ DOMAIN pages = 1..Len(pages)
      /\ DOMAIN roots \subseteq Nat /\ Len(pages) \in Nat /\ Len(roots) \in Nat /\ PageSize \in Nat
  BY PagesTyped, Appended, SpanListingAssumption
<1>5. /\ \A i, j \in DOMAIN pages : i < j => Later(pages[i].root, pages[j].root)
      /\ \A m, n \in DOMAIN roots : m < n => Later(roots[m], roots[n])
      /\ \A i \in DOMAIN pages, n \in DOMAIN roots : Later(pages[i].root, roots[n])
  BY <1>1 DEF PagesInv, InListOrder
<1> HIDE DEF roots
<1>6. EntriesRead'
  <2> SUFFICES ASSUME NEW i \in DOMAIN pages'
               PROVE  spans[pages'[i].root] # Absent /\ pages'[i].seq \in Numbers(spans[pages'[i].root])
    BY <1>1 DEF EntriesRead
  <2>1. CASE i \in DOMAIN pages
    BY <1>2, <2>1 DEF PagesInv, EntriesRead
  <2>2. CASE i \notin DOMAIN pages
    BY <1>2, <1>3, <2>2
  <2> QED
    BY <2>1, <2>2
<1>7. ASSUME NEW i \in DOMAIN pages', NEW j \in DOMAIN pages', i < j
      PROVE  Later(pages'[i].root, pages'[j].root)
  <2>1. CASE i \in DOMAIN pages /\ j \in DOMAIN pages
    BY <1>2, <1>5, <1>7, <2>1
  <2>2. CASE j \notin DOMAIN pages
    <3>1. PICK n \in DOMAIN roots : j = Len(pages) + n
      BY <1>2, <2>2
    <3>2. pages'[j].root = roots[n]
      BY <1>3, <3>1
    <3>3. CASE i \in DOMAIN pages
      BY <1>2, <1>5, <3>2, <3>3
    <3>4. CASE i \notin DOMAIN pages
      <4>1. PICK m \in DOMAIN roots : i = Len(pages) + m
        BY <1>2, <3>4
      <4>2. m < n
        BY <1>4, <1>7, <3>1, <4>1
      <4> QED
        BY <1>3, <1>5, <3>2, <4>1, <4>2
    <3> QED
      BY <3>3, <3>4
  <2>3. CASE i \notin DOMAIN pages /\ j \in DOMAIN pages
    <3>1. PICK m \in DOMAIN roots : i = Len(pages) + m
      BY <1>2, <2>3
    <3> QED
      BY <1>4, <1>7, <2>3, <3>1
  <2> QED
    BY <2>1, <2>2, <2>3
<1>8. InListOrder' /\ SnapshotOld'
  BY <1>1, <1>7 DEF InListOrder, SnapshotOld
<1>9. ASSUME NEW t \in stable' PROVE \E r \in Span : EntryOf(t, r)'
  <2>1. PICK r \in Span : EntryOf(t, r)
    BY <1>1, <1>9 DEF PagesInv
  <2>2. Entry(spans, t)' = {r}
    BY <1>1, <2>1 DEF EntryOf
  <2>3. ASSUME NEW i \in DOMAIN pages', TraceOf[pages'[i].root] = t PROVE pages'[i].root = r
    <3>1. CASE i \in DOMAIN pages
      BY <1>2, <2>1, <2>3, <3>1 DEF EntryOf
    <3>2. CASE i \notin DOMAIN pages
      <4>1. PICK n \in DOMAIN roots : pages'[i].root = roots[n]
        BY <1>2, <1>3, <3>2
      <4> QED
        BY <1>1, <2>1, <2>3, <4>1 DEF EntryOf, roots
    <3> QED
      BY <3>1, <3>2
  <2>4. CASE OnList(r)
    BY <1>1, <1>2, <2>2, <2>3, <2>4 DEF EntryOf, OnList
  <2>5. CASE Awaited(r) /\ \E n \in DOMAIN roots : roots[n] = r
    <3>1. OnList(r)'
      BY <1>3, <2>5 DEF OnList
    <3> QED
      BY <1>1, <2>2, <2>3, <3>1 DEF EntryOf
  <2>6. CASE Awaited(r) /\ Len(roots) >= PageSize /\ \A n \in DOMAIN roots : Later(roots[n], r)
    <3>1. \A i \in DOMAIN pages : Later(pages[i].root, r)
      BY <2>6 DEF Awaited
    <3>2. \A i \in DOMAIN pages' : Later(pages'[i].root, r)
      BY <1>2, <1>3, <2>6, <3>1
    <3>3. list' # "end"
      BY <1>1, <1>4, <2>6 DEF roots
    <3>4. Awaited(r)'
      BY <1>1, <3>2, <3>3 DEF Awaited
    <3> QED
      BY <1>1, <2>2, <2>3, <3>4 DEF EntryOf
  <2> QED
    BY <1>1, <2>1, <2>4, <2>5, <2>6 DEF EntryOf, Awaited, roots
<1> QED
  BY <1>1, <1>6, <1>8, <1>9 DEF PagesInv

(* A request that fails or is refused can be sent again. *)
LEMMA ErrorPages == ASSUME ReadInv, PagesInv, RefuseListing \/ FailListing PROVE PagesInv'
<1>1. UNCHANGED <<spans, stable, pages>> /\ request' = Absent /\ list' = "error"
  BY DEF RefuseListing, FailListing, CanAsk, store
<1>2. EntriesRead' /\ SnapshotOld' /\ InListOrder'
  BY <1>1 DEF PagesInv, EntriesRead, SnapshotOld, InListOrder
<1>3. ASSUME NEW t \in stable' PROVE \E r \in Span : EntryOf(t, r)'
  <2>1. PICK r \in Span : EntryOf(t, r)
    BY <1>1, <1>3 DEF PagesInv
  <2>2. OnList(r)' \/ Awaited(r)'
    BY <1>1, <2>1 DEF EntryOf, OnList, Awaited
  <2> QED
    BY <1>1, <2>1, <2>2 DEF EntryOf
<1> QED
  BY <1>1, <1>2, <1>3 DEF PagesInv

LEMMA NextPages == ReadInv /\ PagesInv /\ [NextBrowser]_browsing => PagesInv'
<1> SUFFICES ASSUME ReadInv, PagesInv, [NextBrowser]_browsing PROVE PagesInv'
  OBVIOUS
<1>1. TableInv
  BY DEF ReadInv
<1>2. ASSUME UNCHANGED <<store, listing>> PROVE PagesInv'
  <2>1. Grows
    BY <1>1, <1>2, SameGrows DEF store
  <2> QED
    BY <1>2, <2>1, PagesStay DEF store
<1>3. CASE Write
  <2>1. Grows
    BY <1>1, <1>3, WriteGrows
  <2>2. UNCHANGED listing /\ stable' = {t \in stable : Entry(spans', t) = Entry(spans, t)}
    BY <1>3 DEF Write
  <2> QED
    BY <2>1, <2>2, PagesStay
<1>4. CASE AskListing \/ RefuseListing \/ FailListing \/ AnswerListing
  BY <1>4, AskPages, ErrorPages, AnswerPages
<1>5. ASSUME NEW t \in Trace, OpenTrace(t) PROVE PagesInv'
  <2>1. pages' = <<>> /\ stable' = {} /\ request' = Absent /\ list' = "left"
    BY <1>5 DEF OpenTrace
  <2>2. DOMAIN pages' = {}
    BY <2>1
  <2> QED
    BY <2>1, <2>2 DEF PagesInv, EntriesRead, SnapshotOld, InListOrder
<1>6. ASSUME NEW s \in Rendered, Collapse(s) \/ Expand(s) \/ LoadMore(s) PROVE PagesInv'
  BY <1>2, <1>6 DEF Collapse, Expand, LoadMore
<1>7. ASSUME NEW s \in Span, StartReveal(s) PROVE PagesInv'
  BY <1>2, <1>7 DEF StartReveal
<1>8. ASSUME NEW l \in loads, AnswerChildren(l) PROVE PagesInv'
  BY <1>2, <1>8 DEF AnswerChildren
<1>9. CASE PageForward \/ Splice \/ Merge
  BY <1>2, <1>9 DEF PageForward, Splice, Merge
<1>10. CASE UNCHANGED browsing
  BY <1>2, <1>10 DEF browsing
<1> QED
  BY <1>3, <1>4, <1>5, <1>6, <1>7, <1>8, <1>9, <1>10 DEF NextBrowser

(* A trace whose entry stays the same is on the finished list exactly once:    *)
(* for any table, any page size, and any order of writes, answers, refused and *)
(* failed requests in between (_listing_roots_paginated, "skips impossible").  *)
THEOREM StableListed == SpecBrowser => []StableListedOnce
<1>1. InitBrowser => ReadInv /\ PagesInv
  BY InitRead, InitPages
<1>2. ReadInv /\ PagesInv /\ [NextBrowser]_browsing => (ReadInv /\ PagesInv)'
  BY NextRead, NextPages
<1>3. ReadInv /\ PagesInv => StableListedOnce
  <2> SUFFICES ASSUME ReadInv, PagesInv, list = "end", NEW t \in stable
               PROVE  Cardinality({i \in DOMAIN pages : TraceOf[pages[i].root] = t}) = 1
    BY DEF StableListedOnce
  <2>1. PICK r \in Span : EntryOf(t, r)
    BY DEF PagesInv
  <2>2. OnList(r)
    BY <2>1 DEF PagesInv, EntryOf, Awaited
  <2>3. PICK i \in DOMAIN pages : pages[i].root = r
    BY <2>2 DEF OnList
  <2>4. TraceOf[r] = t
    BY <2>1 DEF EntryOf, Entry
  <2>5. DOMAIN pages \subseteq Nat
    BY PagesTyped
  <2>6. ASSUME NEW j \in DOMAIN pages, TraceOf[pages[j].root] = t PROVE j = i
    <3>1. pages[j].root = r
      BY <2>1, <2>6 DEF EntryOf
    <3>2. ~Later(r, r)
      BY LaterOrder
    <3>3. ~(i < j) /\ ~(j < i)
      BY <2>3, <3>1, <3>2 DEF PagesInv, InListOrder
    <3> QED
      BY <2>5, <3>3
  <2>7. {j \in DOMAIN pages : TraceOf[pages[j].root] = t} = {i}
    BY <2>3, <2>4, <2>6
  <2> QED
    BY <2>7, FS_Singleton
<1> QED
  BY <1>1, <1>2, <1>3, PTL DEF SpecBrowser

(* A page that is put behind the list was counted in the snapshot it was read. *)
LEMMA AnswerCounted == ASSUME ReadInv, CountsAgree, AnswerListing PROVE CountsAgree'
<1> DEFINE new == [i \in DOMAIN request.roots |->
                     ListingEntry(request.roots[i], request.rows, Counted(request.rows))]
<1>1. request # Absent /\ pages' = pages \o new
  BY DEF AnswerListing
<1>2. pages \in Seq(ListEntry) /\ ListRead
  BY PagesTyped DEF ReadInv
<1>3. request \in Snapshot /\ new \in Seq(ListEntry)
  BY <1>1, <1>2, AnswerTyped
<1>4. request.roots \in Seq(Span) /\ request.rows \in Table
  BY <1>3 DEF Snapshot
<1>5. ASSUME NEW n \in DOMAIN request.roots, new[n].counts.total = 1
      PROVE  new[n].counts.error_count = IF new[n].error THEN 1 ELSE 0
  <2> DEFINE s == request.roots[n]
             rows == request.rows
             counted == Rows(rows, TraceOf[s])
             faulty == {r \in counted : rows[r].ended /\ r \in Errors}
  <2>1. /\ new[n].error = (rows[s].ended /\ s \in Errors)
        /\ new[n].counts.total = Cardinality(counted)
        /\ new[n].counts.error_count = Cardinality(faulty)
    BY DEF ListingEntry, Counts, Counted
  <2>2. s \in counted
    BY <1>1, <1>2, <1>4 DEF ListRead, RequestRead, Rows
  <2>3. IsFiniteSet(counted)
    BY FS_Subset, SpanListingAssumption DEF Rows
  <2> HIDE DEF counted
  <2>4. counted = {s}
    BY <1>5, <2>1, <2>2, <2>3, FS_Singleton
  <2>5. CASE rows[s].ended /\ s \in Errors
    <3>1. faulty = {s}
      BY <2>4, <2>5
    <3>2. Cardinality(faulty) = 1
      BY <3>1, FS_Singleton
    <3> QED
      BY <2>1, <2>5, <3>2
  <2>6. CASE ~(rows[s].ended /\ s \in Errors)
    <3>1. faulty = {}
      BY <2>4, <2>6
    <3>2. Cardinality(faulty) = 0
      BY <3>1, FS_EmptySet
    <3> QED
      BY <2>1, <2>6, <3>2
  <2> QED
    BY <2>5, <2>6
<1>6. DOMAIN new = DOMAIN request.roots
  OBVIOUS
<1> HIDE DEF new
<1>7. ASSUME NEW i \in DOMAIN pages', pages'[i].counts.total = 1
      PROVE  pages'[i].counts.error_count = IF pages'[i].error THEN 1 ELSE 0
  <2>1. CASE i \in DOMAIN pages
    <3>1. pages'[i] = pages[i]
      BY <1>1, <1>2, <1>3, <2>1
    <3> QED
      BY <1>7, <2>1, <3>1 DEF CountsAgree
  <2>2. CASE i \notin DOMAIN pages
    <3>1. i - Len(pages) \in DOMAIN new /\ pages'[i] = new[i - Len(pages)]
      BY <1>1, <1>2, <1>3, <2>2
    <3> QED
      BY <1>5, <1>6, <1>7, <3>1
  <2> QED
    BY <2>1, <2>2
<1> QED
  BY <1>7 DEF CountsAgree

(* The counts of an entry are of the snapshot its root was read in, however    *)
(* the table has changed since the page was asked for (retrieval/spans.py,     *)
(* _repeatable_read): a trace counted with one span shows that span's error.   *)
THEOREM CountsAreRead == SpecBrowser => []CountsAgree
<1>1. InitBrowser => ReadInv /\ CountsAgree
  <2> SUFFICES ASSUME InitBrowser PROVE ReadInv /\ CountsAgree
    OBVIOUS
  <2>1. DOMAIN pages = {}
    BY DEF InitBrowser
  <2> QED
    BY <2>1, InitRead DEF CountsAgree
<1>2. ReadInv /\ CountsAgree /\ [NextBrowser]_browsing => CountsAgree'
  <2> SUFFICES ASSUME ReadInv, CountsAgree, [NextBrowser]_browsing PROVE CountsAgree'
    OBVIOUS
  <2>1. ASSUME pages' = pages PROVE CountsAgree'
    BY <2>1 DEF CountsAgree
  <2>2. ASSUME UNCHANGED listing PROVE CountsAgree'
    BY <2>1, <2>2 DEF listing
  <2>3. CASE Write
    BY <2>2, <2>3 DEF Write
  <2>4. CASE AskListing \/ RefuseListing \/ FailListing
    BY <2>1, <2>4 DEF AskListing, RefuseListing, FailListing
  <2>5. CASE AnswerListing
    BY <2>5, AnswerCounted
  <2>6. ASSUME NEW t \in Trace, OpenTrace(t) PROVE CountsAgree'
    <3>1. DOMAIN pages' = {}
      BY <2>6 DEF OpenTrace
    <3> QED
      BY <3>1 DEF CountsAgree
  <2>7. ASSUME NEW s \in Rendered, Collapse(s) \/ Expand(s) \/ LoadMore(s) PROVE CountsAgree'
    BY <2>2, <2>7 DEF Collapse, Expand, LoadMore
  <2>8. ASSUME NEW s \in Span, StartReveal(s) PROVE CountsAgree'
    BY <2>2, <2>8 DEF StartReveal
  <2>9. ASSUME NEW l \in loads, AnswerChildren(l) PROVE CountsAgree'
    BY <2>2, <2>9 DEF AnswerChildren
  <2>10. CASE PageForward \/ Splice \/ Merge
    BY <2>2, <2>10 DEF PageForward, Splice, Merge
  <2>11. CASE UNCHANGED browsing
    BY <2>2, <2>11 DEF browsing
  <2> QED
    BY <2>3, <2>4, <2>5, <2>6, <2>7, <2>8, <2>9, <2>10, <2>11 DEF NextBrowser
<1> QED
  BY <1>1, <1>2, NextRead, PTL DEF SpecBrowser
================================================================================
