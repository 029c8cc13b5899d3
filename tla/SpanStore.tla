------------------------------- MODULE SpanStore -------------------------------
(****************************************************************************)
(* What the receiver promises about the table of spans (ADR-0004,            *)
(* "append-and-finalize"): a span gets a row once, the row may be completed  *)
(* once, and then never changes.  Each of the two takes a seq nobody has, so *)
(* that a reader who follows seq sees both.                                  *)
(****************************************************************************)
EXTENDS Naturals

CONSTANTS
  Span,    \* (trace_id, span_id)
  Absent   \* no row

VARIABLE spans

(* ended: ended_at is set.  origin: whether the version that arrived first,    *)
(* and gave the row its parent, start and service, had ended.                  *)
SpanRow == [ended: BOOLEAN, origin: BOOLEAN, seq: Nat, arrival_seq: Nat]

Unused(n) == \A s \in Span : spans[s] # Absent =>
               spans[s].seq # n /\ spans[s].arrival_seq # n

Init == spans = [s \in Span |-> Absent]

(* The new row is left open but for what is promised of it. *)
OnlyRow(s) ==
  /\ spans' \in [Span -> SpanRow \cup {Absent}]
  /\ \A r \in Span \ {s} : spans'[r] = spans[r]

Insert(s) ==
  /\ spans[s] = Absent
  /\ OnlyRow(s) /\ spans'[s] # Absent
  /\ LET row == spans'[s] IN
       Unused(row.seq) /\ row.arrival_seq = row.seq /\ row.origin = row.ended

Finalize(s) ==
  /\ spans[s] # Absent /\ ~spans[s].ended
  /\ OnlyRow(s) /\ spans'[s] # Absent
  /\ LET row == spans'[s] IN
       /\ Unused(row.seq) /\ row.seq > spans[s].seq
       /\ row = [spans[s] EXCEPT !.ended = TRUE, !.seq = row.seq]

Next == \E s \in Span : Insert(s) \/ Finalize(s)

Spec == Init /\ [][Next]_spans
================================================================================
