------------------------------ MODULE SpanBrowser ------------------------------
(****************************************************************************)
(* A reader of spans while the receiver writes them: the list of recent      *)
(* traces (ui/src/pages/RecentTracesPage.tsx over useTracesInfinite), then   *)
(* the tree of one trace (ui/src/components/SpanTree.tsx).  The writer is    *)
(* what the receiver promises, SpanStore.                                    *)
(*                                                                          *)
(* Simplifications.  A request for children reads when it is sent: what it   *)
(* reads does not depend on the tree, and its cursor does not depend on the  *)
(* table.  A reveal has one target, runs alone and fetches the target's      *)
(* parents in one step.  A request fails when its retry has failed too.      *)
(****************************************************************************)
EXTENDS SpanListing

CONSTANTS
  Tables,    \* what the table may hold when the reader comes
  MaxSeq,    \* bound: seq values
  MaxWritten, \* bound: rows written while the reader reads
  MaxAsked,  \* bound: pages of children asked for
  MaxReveals, \* bound: reveals
  MaxFails   \* bound: requests that fail

ASSUME SpanBrowserAssumption ==
  {MaxSeq, MaxWritten, MaxAsked, MaxReveals, MaxFails} \subseteq Nat

VARIABLES
  spans,     \* the table
  writes,
  pages,     \* the list: the entries of its pages so far
  request,   \* the page being read, or Absent
  list,      \* more, end, error, or left: the reader has gone to a trace
  stable,    \* history: traces whose entry has not changed since the first page
  root,      \* the tree's root, or Absent
  loaded,    \* SpanTree: the seq each loaded span was read with, or Absent
  children,  \* childrenOf: the rows under a span, or Absent
  exhausted, \* parents without further pages
  expanded,
  loads,     \* answers to loadChildrenPage that are on their way
  reveal,    \* the reveal that runs, with its working copies, or Absent
  since,     \* history: the children a parent had when it was first read, Absent
             \* before; {} when a request failed or a reveal took rows away
  asked, reveals, fails

store == <<spans, writes, stable>>
listing == <<pages, request, list>>
tree == <<loaded, children, exhausted, expanded, loads, since, asked>>
browsing == <<store, listing, root, tree, reveal, reveals, fails>>

Store == INSTANCE SpanStore WITH Span <- Span, Absent <- Absent, spans <- spans

(* What the receiver has stored until then: no two spans share a number, and   *)
(* the seq of a row moves on when the row is completed.                        *)
Numbers(row) == {row.seq, row.arrival_seq}

Numbered(rows) ==
  /\ \A s \in Span : rows[s] # Absent => NoCursor \notin Numbers(rows[s])
  /\ \A r, s \in Span : r # s /\ rows[r] # Absent /\ rows[s] # Absent =>
       Numbers(rows[r]) \cap Numbers(rows[s]) = {}
  /\ \A s \in Span : rows[s] # Absent /\ ~rows[s].ended => rows[s].seq = rows[s].arrival_seq

Table == [Span -> Store!SpanRow \cup {Absent}]

(* What the list holds, and a statement of it with its snapshot. *)
ListEntry == [root : Span, seq : Nat, error : BOOLEAN,
              counts : [total : Nat, in_window : Nat, error_count : Nat]]
Snapshot == [roots : Seq(Span), rows : Table]

(* What the tree and a reveal hold, and an answer on its way.                  *)
Seqs == [Span -> Nat \cup {Absent}]
Lists == [Span -> Seq(Span) \cup {Absent}]
Answer == [parent : Span, page : Seq(Span), seqs : Seq(Nat), opens : BOOLEAN, id : Nat]
Copy == [target : Span, chain : Seq(Span), children : Lists, exhausted : SUBSET Span,
         loaded : Seqs]

(* null and undefined are none of the values. *)
ASSUME AbsentAssumption ==
  /\ Absent \notin Nat \cup Seq(Span) \cup Store!SpanRow \cup Snapshot \cup Copy
  /\ \A S \in SUBSET Span : S # Absent

ASSUME TablesAssumption == Tables \subseteq Table /\ \A rows \in Tables : Numbered(rows)

InitBrowser ==
  /\ spans \in Tables /\ writes = 0
  /\ pages = <<>> /\ request = Absent /\ list = "more" /\ stable = {}
  /\ root = Absent
  /\ loaded = [s \in Span |-> Absent] /\ children = [s \in Span |-> Absent]
  /\ exhausted = {} /\ expanded = {} /\ loads = {} /\ reveal = Absent
  /\ since = [s \in Span |-> Absent]
  /\ asked = 0 /\ reveals = 0 /\ fails = 0

Entry(rows, t) == {s \in ListingRoots(rows) : TraceOf[s] = t}

(* The receiver writes a row: any step of the promised store.                  *)
Write ==
  /\ writes < MaxWritten /\ writes' = writes + 1
  /\ \E s \in Span, n \in {m \in 1..MaxSeq : Store!Unused(m)}, ended \in BOOLEAN :
       /\ spans' = [spans EXCEPT ![s] =
                      IF @ = Absent
                      THEN [ended |-> ended, origin |-> ended, seq |-> n, arrival_seq |-> n]
                      ELSE [@ EXCEPT !.ended = ended, !.seq = n]]
       /\ Store!Insert(s) \/ Store!Finalize(s)
  /\ stable' = {t \in stable : Entry(spans', t) = Entry(spans, t)}
  /\ UNCHANGED <<listing, root, tree, reveal, fails, reveals>>

Fail == fails < MaxFails /\ fails' = fails + 1

--------------------------------------------------------------------------------
(* The list. *)

(* getNextPageParam: the seq of the last entry. *)
ListCursor == IF pages = <<>> THEN NoCursor ELSE pages[Len(pages)].seq

(* The button is there as long as the last page was full, after an error too.  *)
CanAsk == request = Absent /\ (list = "more" \/ (list = "error" /\ pages # <<>>))

(* GET /api/traces, first statement: the listing roots.  The transaction keeps *)
(* its snapshot.                                                               *)
AskListing ==
  /\ CanAsk /\ ~StaleCursor(spans, ListCursor)
  /\ request' = [roots |-> ListingPage(spans, ListCursor), rows |-> spans]
  /\ stable' = IF pages = <<>> THEN {t \in Trace : Entry(spans, t) # {}} ELSE stable
  /\ UNCHANGED <<spans, writes, pages, list, root, tree, reveal, fails, reveals>>

(* A cursor that a completion has moved away from: 400, also on the retry.     *)
RefuseListing ==
  /\ CanAsk /\ StaleCursor(spans, ListCursor)
  /\ list' = "error"
  /\ UNCHANGED <<store, pages, request, root, tree, reveal, fails, reveals>>

FailListing ==
  /\ request # Absent /\ Fail
  /\ request' = Absent /\ list' = "error"
  /\ UNCHANGED <<store, pages, root, tree, reveal, reveals>>

(* _trace_listing_entry *)
ListingEntry(s, rows, counted) ==
  [root |-> s, seq |-> rows[s].seq, error |-> rows[s].ended /\ s \in Errors,
   counts |-> Counts(counted, TraceOf[s])]

(* The counts are read from the transaction's snapshot.                        *)
Counted(rows) == rows

(* Second statement and answer: the counts.  A short page is the last.         *)
AnswerListing ==
  /\ request # Absent
  /\ pages' = pages \o [i \in DOMAIN request.roots |->
       ListingEntry(request.roots[i], request.rows, Counted(request.rows))]
  /\ list' = IF Len(request.roots) < PageSize THEN "end" ELSE "more"
  /\ request' = Absent
  /\ UNCHANGED <<store, root, tree, reveal, fails, reveals>>

(* dedupeByTraceId: per trace, the entry with the highest seq.                 *)
Shown ==
  {i \in DOMAIN pages : \A j \in DOMAIN pages :
     TraceOf[pages[j].root] = TraceOf[pages[i].root] =>
       pages[j].seq < pages[i].seq \/ (pages[j].seq = pages[i].seq /\ i <= j)}

--------------------------------------------------------------------------------
(* The tree. *)

(* The greatest seq of the listed children, NoCursor when none is listed.      *)
ChildCursor(listed, seqs) ==
  LET known == {seqs[listed[i]] : i \in DOMAIN listed} IN
  IF known = {} THEN NoCursor ELSE CHOOSE n \in known : \A m \in known : m <= n

Listed(p) == IF children[p] = Absent THEN <<>> ELSE children[p]

SeqsOf(page) == [i \in DOMAIN page |-> spans[page[i]].seq]

FirstSeen(p) ==
  IF since[p] # Absent THEN since
  ELSE [since EXCEPT ![p] = {c \in Rows(spans, TraceOf[p]) : ParentOf[c] = p}]

(* loadChildrenPage, up to its await; a failed request answers an empty page.  *)
AskChildren(p, opens) ==
  /\ asked < MaxAsked /\ asked' = asked + 1
  /\ LET page == ChildrenPage(spans, p, ChildCursor(Listed(p), loaded)) IN
     \/ /\ loads' = loads \cup {[parent |-> p, page |-> page, seqs |-> SeqsOf(page),
                                 opens |-> opens, id |-> asked]}
        /\ since' = FirstSeen(p) /\ UNCHANGED fails
     \/ /\ loads' = loads \cup {[parent |-> p, page |-> <<>>, seqs |-> <<>>,
                                 opens |-> opens, id |-> asked]}
        /\ since' = [since EXCEPT ![p] = {}] /\ Fail

(* A row of the list, or a link, opens a trace: its page reads one listing     *)
(* root, and the tree expands it.                                              *)
OpenTrace(t) ==
  /\ root = Absent /\ Candidates(spans, t) # {}
  /\ root' = SingleTraceRoot(spans, t)
  /\ loaded' = [loaded EXCEPT ![root'] = spans[root'].seq]
  /\ list' = "left" /\ request' = Absent /\ pages' = <<>> /\ stable' = {}
  /\ AskChildren(root', TRUE)
  /\ UNCHANGED <<spans, writes, children, exhausted, expanded, reveal, reveals>>

(* The rows renderNode draws. *)
Rendered ==
  LET R[n \in 0..Cardinality(Span)] ==
        IF n = 0 THEN {root}
        ELSE LET above == R[n - 1] IN
             above \cup UNION {ToSet(Listed(p)) : p \in above \cap expanded}
  IN  IF root = Absent THEN {} ELSE R[Cardinality(Span)]

Collapse(s) ==
  /\ s \in expanded
  /\ expanded' = expanded \ {s}
  /\ UNCHANGED <<store, listing, root, loaded, children, exhausted, loads, since,
                 asked, reveal, fails, reveals>>

(* expand: the first time it asks for a page. *)
Expand(s) ==
  /\ s \notin expanded
  /\ IF children[s] = Absent
     THEN AskChildren(s, TRUE) /\ UNCHANGED expanded
     ELSE expanded' = expanded \cup {s} /\ UNCHANGED <<loads, since, asked, fails>>
  /\ UNCHANGED <<store, listing, root, loaded, children, exhausted, reveal, reveals>>

LoadMore(s) ==
  /\ s \in expanded \ exhausted /\ Listed(s) # <<>>
  /\ AskChildren(s, FALSE)
  /\ UNCHANGED <<store, listing, root, loaded, children, exhausted, expanded, reveal, reveals>>

(* loadChildrenPage after its await.  A short page exhausts the parent.        *)
AnswerChildren(l) ==
  /\ l \in loads /\ loads' = loads \ {l}
  /\ loaded' = [s \in Span |->
       IF s \in ToSet(l.page) THEN l.seqs[CHOOSE i \in DOMAIN l.page : l.page[i] = s]
       ELSE loaded[s]]
  /\ children' = [children EXCEPT ![l.parent] = Listed(l.parent) \o l.page]
  /\ exhausted' = IF Len(l.page) < PageSize THEN exhausted \cup {l.parent} ELSE exhausted
  /\ expanded' = IF l.opens THEN expanded \cup {l.parent} ELSE expanded
  /\ UNCHANGED <<store, listing, root, since, asked, reveal, fails, reveals>>

--------------------------------------------------------------------------------
(* reveal works on copies and merges them at the end. *)

(* ensureSpan for the target and then its parents, up to one that is not in    *)
(* the table or was met before.                                                *)
Lineage(target) ==
  LET Up[n \in 0..Cardinality(Span)] ==
        IF n = 0 THEN <<target>>
        ELSE LET below == Up[n - 1]
                 parent == ParentOf[below[Len(below)]]
             IN  IF /\ parent \in Span \ ToSet(below)
                    /\ loaded[parent] # Absent \/ spans[parent] # Absent
                 THEN Append(below, parent) ELSE below
  IN  Up[Cardinality(Span)]

(* A span that cannot be fetched ends the chain below it.                      *)
StartReveal(target) ==
  /\ root # Absent /\ reveal = Absent
  /\ reveals < MaxReveals /\ reveals' = reveals + 1
  /\ target \in Rows(spans, TraceOf[root])
  /\ \E chain \in {SubSeq(Lineage(target), 1, n) : n \in 0..Len(Lineage(target))} :
       /\ \/ chain = Lineage(target) /\ UNCHANGED fails
          \/ /\ chain # Lineage(target) /\ Fail
             /\ loaded[Lineage(target)[Len(chain) + 1]] = Absent
       /\ reveal' = [target |-> target, chain |-> chain, children |-> children,
            exhausted |-> exhausted,
            loaded |-> [s \in Span |->
              IF loaded[s] = Absent /\ s \in ToSet(chain) THEN spans[s].seq ELSE loaded[s]]]
  /\ UNCHANGED <<store, listing, root, tree>>

Copied(p) == IF reveal.children[p] = Absent THEN <<>> ELSE reveal.children[p]

(* The walk down, from the last of the chain: the first hop whose child is not *)
(* listed under its parent.                                                    *)
Unlisted ==
  {i \in 2..Len(reveal.chain) : reveal.chain[i - 1] \notin ToSet(Copied(reveal.chain[i]))}

Hop == CHOOSE i \in Unlisted : \A j \in Unlisted : j <= i

Descending == reveal # Absent /\ Unlisted # {}

(* ensureChildLoaded: page forward until the child appears. *)
PageForward ==
  /\ Descending /\ asked < MaxAsked /\ asked' = asked + 1
  /\ LET p == reveal.chain[Hop]
         page == ChildrenPage(spans, p, ChildCursor(Copied(p), reveal.loaded))
         seqs == SeqsOf(page)
         short == [reveal EXCEPT !.exhausted = @ \cup {p}]
     IN  /\ p \notin reveal.exhausted
         /\ \/ /\ reveal' =
                    [(IF Len(page) < PageSize THEN short ELSE reveal) EXCEPT
                       !.children[p] = Copied(p) \o page,
                       !.loaded = [s \in Span |->
                          IF s \in ToSet(page)
                          THEN seqs[CHOOSE i \in DOMAIN page : page[i] = s] ELSE @[s]]]
               /\ since' = FirstSeen(p) /\ UNCHANGED fails
            \/ /\ reveal' = [short EXCEPT !.children[p] = Copied(p)]
               /\ since' = [since EXCEPT ![p] = {}] /\ Fail
  /\ UNCHANGED <<store, listing, root, loaded, children, exhausted, expanded, loads, reveals>>

(* The fallback, when the parent is exhausted: list the child that was fetched *)
(* with the chain.                                                             *)
Splice ==
  /\ Descending /\ reveal.chain[Hop] \in reveal.exhausted
  /\ reveal' = [reveal EXCEPT !.children[reveal.chain[Hop]] =
                  Append(Copied(reveal.chain[Hop]), reveal.chain[Hop - 1])]
  /\ UNCHANGED <<store, listing, root, tree, fails, reveals>>

(* Mutant: what the tree holds wins. *)
MergedUnder(w, p) == IF children[p] = Absent THEN w[p] ELSE children[p]

(* new Map([...prev, ...wChildren]): the copy wins. *)
Merged(w, p) == IF w[p] = Absent THEN children[p] ELSE w[p]

(* The batched merge at the end of reveal. *)
Merge ==
  /\ reveal # Absent /\ Unlisted = {}
  /\ loaded' = [s \in Span |->
       IF reveal.loaded[s] = Absent THEN loaded[s] ELSE reveal.loaded[s]]
  /\ children' = [p \in Span |-> Merged(reveal.children, p)]
  /\ exhausted' = exhausted \cup reveal.exhausted
  /\ expanded' = expanded \cup {reveal.chain[i] : i \in 2..Len(reveal.chain)}
  /\ since' = [p \in Span |->
       IF children[p] # Absent /\ ~(ToSet(children[p]) \subseteq ToSet(children'[p]))
       THEN {} ELSE since[p]]
  /\ reveal' = Absent
  /\ UNCHANGED <<store, listing, root, loads, asked, fails, reveals>>

--------------------------------------------------------------------------------
NextBrowser ==
  \/ Write
  \/ AskListing \/ RefuseListing \/ FailListing \/ AnswerListing
  \/ \E t \in Trace : OpenTrace(t)
  \/ \E s \in Rendered : Collapse(s) \/ Expand(s) \/ LoadMore(s)
  \/ \E s \in Span : StartReveal(s)
  \/ \E l \in loads : AnswerChildren(l)
  \/ PageForward \/ Splice \/ Merge

SpecBrowser == InitBrowser /\ [][NextBrowser]_browsing

--------------------------------------------------------------------------------

BrowserTypeOK ==
  /\ spans \in Table
  /\ pages \in Seq(ListEntry)
  /\ request \in Snapshot \cup {Absent}
  /\ list \in {"more", "end", "error", "left"} /\ stable \in SUBSET Trace
  /\ root \in Span \cup {Absent}
  /\ loaded \in Seqs /\ children \in Lists
  /\ exhausted \in SUBSET Span /\ expanded \in SUBSET Span
  /\ loads \in SUBSET Answer /\ \A l \in loads : Len(l.page) <= PageSize
  /\ reveal \in Copy \cup {Absent}
  /\ since \in [Span -> (SUBSET Span) \cup {Absent}]
  /\ asked \in Nat

(* A trace whose entry stays the same while the reader pages is on the list    *)
(* exactly once when a short page ends it, whatever arrives and is completed   *)
(* in between (_listing_roots_paginated, "skips impossible"; issue #30).       *)
StableListedOnce ==
  list = "end" =>
    \A t \in stable : Cardinality({i \in DOMAIN pages : TraceOf[pages[i].root] = t}) = 1

(* The counts beside a listing root are those of the snapshot it was read in:  *)
(* a trace counted with one span shows that span's error and no other          *)
(* (_repeatable_read).                                                         *)
CountsAgree ==
  \A i \in DOMAIN pages :
    pages[i].counts.total = 1 =>
      pages[i].counts.error_count = IF pages[i].error THEN 1 ELSE 0

(* Parents do not lead back to the span itself: the receiver stores what it is *)
(* sent, so this is up to the sender.                                          *)
Acyclic == \A S \in SUBSET Span : S # {} => \E s \in S : ParentOf[s] \notin S

(* A parent without further pages lists every child it had when its first page *)
(* was read, though children are completed, and so move on in seq, between the *)
(* pages, pages are asked for twice and answers overtake each other            *)
(* (_query_subtree, "neither duplicates nor skips can occur").                 *)
NoChildLost ==
  \A p \in exhausted :
    children[p] # Absent /\ since[p] # Absent => since[p] \subseteq ToSet(children[p])

(* A reveal that resolved its target's parents up to the root ends with the    *)
(* target's row drawn, whatever arrives, is loaded or collapsed while it runs, *)
(* and when its own pages fail (SpanTreeHandle.reveal).                        *)
RevealShows ==
  [][reveal # Absent /\ reveal' = Absent /\ root \in ToSet(reveal.chain) =>
       reveal.target \in Rendered']_browsing

(* The page of a trace and the list of traces name the same listing root       *)
(* (_listing_roots_paginated: "the same earliest-real-root / earliest-orphan   *)
(* rule used by the single-trace path").                                       *)
SameListingRoot ==
  \A t \in Trace : Candidates(spans, t) # {} =>
    SingleTraceRoot(spans, t) = ListingRoot(spans, t)

(* A reveal keeps the rows the reader loads while it runs (SpanTree.tsx: "any  *)
(* expand/loadChildrenPage the user triggered during reveal's awaits           *)
(* survives").                                                                 *)
RevealKeeps ==
  [][\A p \in Span : children[p] # Absent =>
       ToSet(children[p]) \subseteq ToSet(Listed(p)')]_browsing

(* A child is listed once (_query_subtree: "every row that satisfies the       *)
(* filter appears on exactly one page").                                       *)
ChildListedOnce ==
  \A p \in Span : children[p] # Absent => IsInjective(children[p])
================================================================================
