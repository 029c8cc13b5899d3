---------------------------- MODULE MCSpanBrowser ----------------------------
(* Two instances in one: a list of three traces, whose entries change when a   *)
(* root, an orphan or a second exchange arrives, and the tree of a fourth      *)
(* trace, two children and a grandchild.  Span 2 is an orphan that starts      *)
(* before the root of its trace.                                               *)
EXTENDS SpanBrowser

MCSpan == 1..9

MCTraceOf == [s \in MCSpan |-> CASE s \in {1, 2} -> "t1" [] s = 3 -> "t2"
                                 [] s \in {4, 5} -> "t3" [] OTHER -> "t4"]

MCParentOf == [s \in MCSpan |-> CASE s \in {1, 3, 4, 6} -> NoParent
                                  [] s = 2 -> 10 [] s = 5 -> 4
                                  [] s \in {7, 8} -> 6 [] s = 9 -> 8]

MCStartedAt == [s \in MCSpan |-> CASE s = 1 -> 4 [] s = 2 -> 2 [] s = 3 -> 3
                                   [] s = 4 -> 3 [] s = 5 -> 5 [] s = 6 -> 1
                                   [] s = 7 -> 9 [] s = 8 -> 8 [] s = 9 -> 7]

(* The request of trace t3 carries the exchange that hides it while alone.     *)
MCExchange == [s \in MCSpan |-> IF s = 4 THEN 4 ELSE 0]

Row(ended, seq) == [ended |-> ended, origin |-> ended, seq |-> seq, arrival_seq |-> seq]

MCListTables == {[s \in MCSpan |-> IF s \in {2, 3, 4} THEN Row(FALSE, s) ELSE Absent]}

(* In the tree's table the other traces are complete. *)
MCTables ==
  MCListTables \cup
  {[s \in MCSpan |-> IF s > 5 THEN Row(FALSE, s - 5) ELSE Row(TRUE, s + 10)]}

(* What NoChildIsLost is proved under. *)
ASSUME MCAcyclic == Acyclic
================================================================================
