------------------------------ MODULE OtlpReceiver ------------------------------
(****************************************************************************)
(* The OTLP receiver (processors/otlp_receiver/server.py, write_span.py):    *)
(* handler threads, of any replica and transport, that take batches of span  *)
(* versions and write each version in a transaction of its own.  A sender    *)
(* may repeat a batch at any time: after a retryable error, after a reply it *)
(* did not get, or while the first attempt still runs.                       *)
(*                                                                          *)
(* Simplifications.  The gRPC and the HTTP handler have the same loop and    *)
(* are one here.  blocked_span_counts and rejected_spans are written best    *)
(* effort and nothing reads them back, so they are left out; the reply's     *)
(* count of rejected spans is kept.  A statement waits for a concurrent      *)
(* writer of the same span before it draws its number, where Postgres draws  *)
(* first: the number may be older than a visible one either way.             *)
(****************************************************************************)
EXTENDS Naturals, Sequences, FiniteSets

CONSTANTS
  Span,       \* (trace_id, span_id)
  Thread,     \* handler threads
  Batch,      \* batches a sender sends
  Versions,   \* the sequence of versions in each batch: [span, ended]
  Blocked,    \* spans whose name matches the blocklist
  Malformed,  \* spans that Postgres refuses with an integrity-class error
  Unstorable, \* spans that Postgres refuses with any other error
  Absent,     \* no row, nothing pending
  MaxSends,   \* bound: how often a batch is sent
  MaxFaults   \* bound: lost connections, deaths of a handler

VARIABLES
  spans,      \* the committed rows
  spans_seq,  \* the sequence's last value
  handler,    \* what each thread is doing, or Absent
  sends,      \* how often each batch was sent
  acked,      \* the rejected spans of each batch's first success, or Absent
  faults

vars == <<spans, spans_seq, handler, sends, acked, faults>>

ASSUME ReceiverAssumption ==
  /\ \A b \in Batch : Versions[b] \in Seq([span: Span, ended: BOOLEAN])
  /\ Blocked \subseteq Span /\ Malformed \subseteq Span /\ Unstorable \subseteq Span
  /\ MaxSends \in Nat /\ MaxFaults \in Nat

(* The table that the receiver promises. *)
Store == INSTANCE SpanStore WITH Span <- Span, Absent <- Absent, spans <- spans

Init ==
  /\ spans = [s \in Span |-> Absent] /\ spans_seq = 0
  /\ handler = [th \in Thread |-> Absent]
  /\ sends = [b \in Batch |-> 0]
  /\ acked = [b \in Batch |-> Absent]
  /\ faults = 0

Busy(th) == handler[th] # Absent

Finished(th) == handler[th].at > Len(Versions[handler[th].batch])

Current(th) == Versions[handler[th].batch][handler[th].at]

(* The thread is at a version and has no statement open. *)
At(th) == Busy(th) /\ ~Finished(th) /\ handler[th].row = Absent

Advance(th, refused) ==
  handler' = [handler EXCEPT ![th].at = @ + 1, ![th].row = Absent,
                             ![th].rejected = @ \cup refused]

(* Export, or POST /v1/traces: a thread takes a batch. *)
Export(th, b) ==
  /\ ~Busy(th)
  /\ sends[b] < MaxSends
  /\ sends' = [sends EXCEPT ![b] = @ + 1]
  /\ handler' = [handler EXCEPT ![th] =
                   [batch |-> b, at |-> 1, row |-> Absent, rejected |-> {}]]
  /\ UNCHANGED <<spans, spans_seq, acked, faults>>

(* A blocklisted name: counted and skipped. *)
Skip(th) ==
  /\ At(th) /\ Current(th).span \in Blocked
  /\ Advance(th, {})
  /\ UNCHANGED <<spans, spans_seq, sends, acked, faults>>

(* Integrity-class error: the span goes to rejected_spans and is counted in    *)
(* the reply.                                                                  *)
Reject(th) ==
  /\ At(th) /\ Current(th).span \in Malformed \ Blocked
  /\ spans_seq' = spans_seq + 1
  /\ Advance(th, {Current(th).span})
  /\ UNCHANGED <<spans, sends, acked, faults>>

(* Mutant: one transaction for the batch, which keeps every row it wrote. *)
RowLockedToBatchEnd(s, th) ==
  \E other \in Thread \ {th} : Busy(other) /\ ~Finished(other) /\
    \E i \in 1..handler[other].at :
      /\ i < handler[other].at \/ handler[other].row # Absent
      /\ Versions[handler[other].batch][i].span = s

(* Another open transaction has written the row of span s. *)
RowLocked(s, th) ==
  \E other \in Thread \ {th} :
    Busy(other) /\ handler[other].row # Absent /\ Current(other).span = s

(* Mutant: every end version overwrites, finalized or not. *)
WrittenAlways(old, ended) ==
  IF old = Absent
  THEN [ended |-> ended, origin |-> ended,
        seq |-> spans_seq + 1, arrival_seq |-> spans_seq + 1]
  ELSE IF ended THEN [old EXCEPT !.ended = TRUE, !.seq = spans_seq + 2]
  ELSE old

(* _INSERT_SQL: insert; complete a partial row; otherwise leave the row.       *)
Written(old, ended) ==
  IF old = Absent
  THEN [ended |-> ended, origin |-> ended,
        seq |-> spans_seq + 1, arrival_seq |-> spans_seq + 1]
  ELSE IF ended /\ ~old.ended
  THEN [old EXCEPT !.ended = TRUE, !.seq = spans_seq + 2]
  ELSE old

(* write_span's statement.  Its row is visible to others after the commit.     *)
Execute(th) ==
  LET s == Current(th).span IN
  /\ At(th) /\ s \notin Blocked \cup Malformed \cup Unstorable
  /\ ~RowLocked(s, th)
  /\ handler' = [handler EXCEPT ![th].row = Written(spans[s], Current(th).ended)]
  /\ spans_seq' = spans_seq + 2
  /\ UNCHANGED <<spans, sends, acked, faults>>

CommitRow(th) == spans' = [spans EXCEPT ![Current(th).span] = handler[th].row]

Commit(th) ==
  /\ Busy(th) /\ handler[th].row # Absent
  /\ CommitRow(th)
  /\ Advance(th, {})
  /\ UNCHANGED <<spans_seq, sends, acked, faults>>

(* Mutant: a connection error only skips the span. *)
FailSkipping(th) ==
  /\ Busy(th) /\ ~Finished(th)
  /\ Current(th).span \in Unstorable \ Blocked \/ faults < MaxFaults
  /\ faults' = IF faults < MaxFaults THEN faults + 1 ELSE faults
  /\ UNCHANGED spans
  /\ Advance(th, {})
  /\ UNCHANGED <<spans_seq, sends, acked>>

(* A connection or other error: the reply asks for a retry and the rest of the *)
(* batch is not written.  A connection may be lost when the commit has already *)
(* happened.  A handler that dies leaves the same behind.                      *)
Fail(th) ==
  /\ Busy(th) /\ ~Finished(th)
  /\ \/ /\ At(th) /\ Current(th).span \in Unstorable \ Blocked
        /\ UNCHANGED <<spans, faults>>
     \/ /\ faults < MaxFaults /\ faults' = faults + 1
        /\ \/ UNCHANGED spans
           \/ handler[th].row # Absent /\ CommitRow(th)
  /\ handler' = [handler EXCEPT ![th] = Absent]
  /\ UNCHANGED <<spans_seq, sends, acked>>

(* Success, or partial success when spans were rejected. *)
Reply(th) ==
  /\ Busy(th) /\ Finished(th)
  /\ LET b == handler[th].batch IN
       acked' = IF acked[b] = Absent
                THEN [acked EXCEPT ![b] = handler[th].rejected] ELSE acked
  /\ handler' = [handler EXCEPT ![th] = Absent]
  /\ UNCHANGED <<spans, spans_seq, sends, faults>>

Work(th) == Skip(th) \/ Reject(th) \/ Execute(th) \/ Commit(th) \/ Reply(th)

Next ==
  \E th \in Thread :
    (\E b \in Batch : Export(th, b)) \/ Work(th) \/ Fail(th)

Spec == Init /\ [][Next]_vars

(* A handler thread is scheduled, and a span it cannot store fails.            *)
FairSpec == Spec /\ \A th \in Thread : WF_vars(Work(th) \/ Fail(th))

--------------------------------------------------------------------------------

TypeOK ==
  /\ spans \in [Span -> Store!SpanRow \cup {Absent}]
  /\ spans_seq \in Nat /\ faults \in Nat
  /\ sends \in [Batch -> Nat]
  /\ acked \in [Batch -> (SUBSET Span) \cup {Absent}]
  /\ handler \in [Thread -> {Absent} \cup
       [batch: Batch, at: Nat \ {0}, row: Store!SpanRow \cup {Absent},
        rejected: SUBSET Span]]
  /\ \A th \in Thread : Busy(th) =>
       /\ handler[th].at <= Len(Versions[handler[th].batch]) + 1
       /\ Finished(th) => handler[th].row = Absent

(* The receiver implements the store it promises: under concurrent handlers of *)
(* the same span, retries and lost replies, a row is inserted once, completed  *)
(* at most once, with a seq of its own each time (ADR-0004).                   *)
StorePromise == Store!Spec

(* A sender that got a success may forget the batch: every version in it is in *)
(* the table, at least as complete as it was sent, or was dropped by the       *)
(* blocklist, or is counted as rejected in the reply (ADR-0003: no loss that   *)
(* the sender cannot detect).                                                  *)
AckMeansKept ==
  \A b \in Batch : acked[b] # Absent =>
    \A i \in DOMAIN Versions[b] :
      LET v == Versions[b][i] IN
      \/ v.span \in Blocked \/ v.span \in acked[b]
      \/ spans[v.span] # Absent /\ (v.ended => spans[v.span].ended)

(* No two rows ever share a seq, the committed ones and those about to be.     *)
(* Readers by cursor rely on it.                                               *)
SeqUnique ==
  LET rows == {<<s, spans[s]>> : s \in {r \in Span : spans[r] # Absent}}
        \cup {<<Current(th).span, handler[th].row>> :
                th \in {x \in Thread : Busy(x) /\ handler[x].row # Absent}}
  IN  \A i, j \in rows : i[2].seq = j[2].seq => i[1] = j[1]

(* Every request is answered: handlers that wait for each other's row locks    *)
(* never wait forever, since each holds one lock at a time.                    *)
Answered == \A th \in Thread : Busy(th) ~> ~Busy(th)

(* A span that cannot be stored does not keep its neighbours in the batch from *)
(* being stored (write_span module docstring, "a poison span aborts only its   *)
(* own write and never blocks a neighbour").                                   *)
NeighboursWritten ==
  [][\A th \in Thread :
       Busy(th) /\ handler'[th] = Absent /\ faults' = faults =>
         \A i \in DOMAIN Versions[handler[th].batch] :
           LET s == Versions[handler[th].batch][i].span IN
           s \in Blocked \cup Malformed \cup Unstorable \/ spans[s] # Absent]_vars
================================================================================
