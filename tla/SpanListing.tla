------------------------------ MODULE SpanListing ------------------------------
(****************************************************************************)
(* What the span reads answer (retrieval/spans.py behind api/__init__.py),   *)
(* as operators over one snapshot of the spans table: each request reads in  *)
(* a REPEATABLE READ transaction.  Cursors are seq values throughout, and a  *)
(* span's seq advances once, when it is completed (ADR-0004).                *)
(*                                                                          *)
(* A span is a number, which orders span ids.  Its trace, parent, start and  *)
(* exchange are those of the version that arrived first and never change.    *)
(****************************************************************************)
EXTENDS Naturals, Sequences, FiniteSets, SequencesExt

CONSTANTS
  Span,        \* span ids
  Trace,
  NoParent,    \* parent_id IS NULL
  Absent,      \* no row
  TraceOf,     \* trace_id of each span
  ParentOf,    \* parent_id: a span, an id that never arrives, or NoParent
  StartedAt,   \* started_at
  Exchange,    \* lineage.exchange.id
  ConnectRequests,     \* outbound CONNECT requests of the sidecar without a parent source
  Errors,      \* spans that end with an error
  TimeFrom, TimeTo,  \* the listing's window
  PageSize     \* LIMIT

ASSUME SpanListingAssumption ==
  /\ Span \subseteq Nat /\ IsFiniteSet(Span)
  /\ TraceOf \in [Span -> Trace] /\ StartedAt \in [Span -> Nat]
  /\ DOMAIN ParentOf = Span /\ DOMAIN Exchange = Span
  /\ ConnectRequests \subseteq Span /\ Errors \subseteq Span
  /\ TimeFrom \in Nat /\ TimeTo \in Nat /\ PageSize \in Nat \ {0}

(* rows: what each span has in the table, a record with ended and seq.         *)
Rows(rows, t) == {s \in Span : rows[s] # Absent /\ TraceOf[s] = t}

InWindow(s) == TimeFrom <= StartedAt[s] /\ StartedAt[s] <= TimeTo

(* started_at ASC, span_id ASC *)
Earlier(r, s) ==
  StartedAt[r] < StartedAt[s] \/ (StartedAt[r] = StartedAt[s] /\ r < s)

(* started_at DESC, span_id ASC: the listing's order.                          *)
Later(r, s) ==
  StartedAt[r] > StartedAt[s] \/ (StartedAt[r] = StartedAt[s] /\ r < s)

IsRoot(s) == ParentOf[s] = NoParent

(* Real roots, and orphans, whose parent is not in the table.                  *)
Candidates(rows, t) ==
  {s \in Rows(rows, t) : IsRoot(s) \/ ParentOf[s] \notin Rows(rows, t)}

First(S) == CHOOSE s \in S : \A r \in S \ {s} : Earlier(s, r)

(* rn = 1 of _listing_roots_paginated: real roots rank before orphans.         *)
ListingRoot(rows, t) ==
  LET roots == {s \in Candidates(rows, t) : IsRoot(s)} IN
  First(IF roots # {} THEN roots ELSE Candidates(rows, t))

(* _listing_root_for_single_trace does not rank them.                          *)
SingleTraceRoot(rows, t) == First(Candidates(rows, t))

(* hide_connect_only_traces: a CONNECT request without a parent, alone with    *)
(* its exchange in the trace.                                                  *)
StandaloneConnect(rows, s) ==
  /\ IsRoot(s) /\ s \in ConnectRequests /\ Exchange[s] = s
  /\ \A m \in Rows(rows, TraceOf[s]) : Exchange[m] = s

Eligible(rows, t) == \E s \in Rows(rows, t) : InWindow(s)

ListingRoots(rows) ==
  {s \in {ListingRoot(rows, t) :
            t \in {u \in Trace : Eligible(rows, u) /\ Candidates(rows, u) # {}}} :
     ~StandaloneConnect(rows, s)}

(* ORDER BY: the n-th row is the one that n - 1 rows come before. *)
InOrder(S, before(_, _)) ==
  [n \in 1..Cardinality(S) |->
     CHOOSE s \in S : Cardinality({r \in S : before(r, s)}) = n - 1]

(* LIMIT *)
FirstPage(seq) == SubSeq(seq, 1, IF Len(seq) < PageSize THEN Len(seq) ELSE PageSize)

(* No cursor: the first page. *)
NoCursor == 0

(* _resolve_cursor_seq_in_tx: the span that has the seq, or none. *)
CursorSpans(rows, cursor) == {s \in Span : rows[s] # Absent /\ rows[s].seq = cursor}

(* A cursor no row has is refused with a ValueError. *)
StaleCursor(rows, cursor) == cursor # NoCursor /\ CursorSpans(rows, cursor) = {}

(* Mutant: sorted by start, but past the cursor's seq. *)
ListingPageBySeq(rows, cursor) ==
  FirstPage(InOrder({s \in ListingRoots(rows) : rows[s].seq > cursor}, Later))

(* A page of listing roots past the cursor's row in the listing's order.       *)
ListingPage(rows, cursor) ==
  LET past(s) == \A c \in CursorSpans(rows, cursor) : Later(c, s)
  IN  FirstPage(InOrder({s \in ListingRoots(rows) : past(s)}, Later))

(* _compute_counts_for_traces *)
Counts(rows, t) ==
  [total |-> Cardinality(Rows(rows, t)),
   in_window |-> Cardinality({s \in Rows(rows, t) : InWindow(s)}),
   error_count |-> Cardinality({s \in Rows(rows, t) : rows[s].ended /\ s \in Errors})]

(* Mutant: sorted by start, cursored by seq. *)
ChildrenByStart(rows, p, cursor) ==
  LET children == {s \in Rows(rows, TraceOf[p]) : ParentOf[s] = p /\ rows[s].seq > cursor}
  IN  FirstPage(InOrder(children, Earlier))

(* _query_subtree: a page of a span's children, by seq.                        *)
ChildrenPage(rows, p, cursor) ==
  LET children == {s \in Rows(rows, TraceOf[p]) : ParentOf[s] = p /\ rows[s].seq > cursor}
      bySeq(r, s) == rows[r].seq < rows[s].seq
  IN  FirstPage(InOrder(children, bySeq))

================================================================================
