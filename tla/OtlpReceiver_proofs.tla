-------------------------- MODULE OtlpReceiver_proofs --------------------------
(****************************************************************************)
(* For any number of handler threads, batches, repetitions and faults: the   *)
(* receiver implements SpanStore, no two rows share a seq, and a sender that  *)
(* got a success may forget its batch.                                       *)
(****************************************************************************)
EXTENDS OtlpReceiver, TLAPS

(* The row that a thread has written and not committed, and whose row it is.   *)
Pending(th) == Busy(th) /\ handler[th].row # Absent
Row(th) == handler[th].row
Target(th) == Current(th).span

(* What a pending row is of what is committed: a new row, a completed one, or  *)
(* the row as it was.                                                          *)
Inserts(s, row) ==
  /\ spans[s] = Absent
  /\ Store!Unused(row.seq) /\ row.arrival_seq = row.seq /\ row.origin = row.ended

Completes(s, row) ==
  /\ spans[s] # Absent /\ ~spans[s].ended
  /\ Store!Unused(row.seq) /\ row.seq > spans[s].seq
  /\ row = [spans[s] EXCEPT !.ended = TRUE, !.seq = row.seq]

PendingFits ==
  \A th \in Thread : Pending(th) =>
    LET s == Target(th) IN
      Row(th) = spans[s] \/ Inserts(s, Row(th)) \/ Completes(s, Row(th))

(* Every number in use was drawn. *)
Drawn ==
  /\ \A s \in Span : spans[s] # Absent =>
       spans[s].seq <= spans_seq /\ spans[s].arrival_seq <= spans_seq
  /\ \A th \in Thread : Pending(th) => Row(th).seq <= spans_seq

CommittedApart ==
  \A s, r \in Span : s # r /\ spans[s] # Absent /\ spans[r] # Absent =>
    spans[s].seq # spans[r].seq

(* The row lock: one writer of a span at a time, each with its own number.     *)
PendingApart ==
  \A t, u \in Thread : t # u /\ Pending(t) /\ Pending(u) =>
    Target(t) # Target(u) /\ Row(t).seq # Row(u).seq

RowsInv == PendingFits /\ Drawn /\ CommittedApart /\ PendingApart

(* A version is in a table, at least as complete as it was sent. *)
Holds(table, v) == table[v.span] # Absent /\ (v.ended => table[v.span].ended)

Settled(table, v, rejected) ==
  v.span \in Blocked \/ v.span \in rejected \/ Holds(table, v)

(* A pending row holds its version; the versions behind a handler are settled. *)
RowHolds(th) == Pending(th) => (Current(th).ended => Row(th).ended)

BehindSettled(th) ==
  Busy(th) =>
    \A i \in DOMAIN Versions[handler[th].batch] :
      i < handler[th].at =>
        Settled(spans, Versions[handler[th].batch][i], handler[th].rejected)

AckedSettled ==
  \A b \in Batch : acked[b] # Absent =>
    \A i \in DOMAIN Versions[b] : Settled(spans, Versions[b][i], acked[b])

KeptInv == AckedSettled /\ \A th \in Thread : RowHolds(th) /\ BehindSettled(th)

Job ==
  [batch: Batch, at: Nat \ {0}, row: Store!SpanRow \cup {Absent},
   rejected: SUBSET Span]

--------------------------------------------------------------------------------
(* Types. *)

LEMMA InitTypes == Init => TypeOK
<1> SUFFICES ASSUME Init PROVE TypeOK
  OBVIOUS
<1>1. spans \in [Span -> Store!SpanRow \cup {Absent}]
  BY DEF Init
<1>2. \A th \in Thread : ~Busy(th)
  BY DEF Init, Busy
<1>3. sends \in [Batch -> Nat] /\ acked \in [Batch -> (SUBSET Span) \cup {Absent}]
  BY DEF Init
<1>4. spans_seq \in Nat /\ faults \in Nat
  BY DEF Init
<1>5. handler \in [Thread -> {Absent} \cup
        [batch: Batch, at: Nat \ {0}, row: Store!SpanRow \cup {Absent},
         rejected: SUBSET Span]]
  BY DEF Init
<1> QED
  BY <1>1, <1>2, <1>3, <1>4, <1>5 DEF TypeOK

(* What a busy thread is at, in terms of its batch. *)
LEMMA JobFacts ==
  ASSUME TypeOK, NEW th \in Thread, Busy(th)
  PROVE  /\ handler[th] \in Job
         /\ Versions[handler[th].batch] \in Seq([span: Span, ended: BOOLEAN])
         /\ ~Finished(th) => /\ handler[th].at \in DOMAIN Versions[handler[th].batch]
                             /\ Current(th) \in [span: Span, ended: BOOLEAN]
         /\ Pending(th) => ~Finished(th)
<1>1. handler[th] \in Job
  BY DEF TypeOK, Busy, Job
<1>2. Versions[handler[th].batch] \in Seq([span: Span, ended: BOOLEAN])
  BY <1>1, ReceiverAssumption DEF Job
<1>3. ASSUME ~Finished(th)
      PROVE  /\ handler[th].at \in DOMAIN Versions[handler[th].batch]
             /\ Current(th) \in [span: Span, ended: BOOLEAN]
  <2> DEFINE versions == Versions[handler[th].batch]
  <2>1. handler[th].at \in Nat \ {0} /\ Len(versions) \in Nat
    BY <1>1, <1>2 DEF Job
  <2>2. handler[th].at \in 1..Len(versions)
    BY <1>3, <2>1 DEF Finished
  <2>3. versions \in Seq([span: Span, ended: BOOLEAN])
    BY <1>2
  <2>4. versions[handler[th].at] \in [span: Span, ended: BOOLEAN]
    <3> DEFINE n == handler[th].at
               version == [span: Span, ended: BOOLEAN]
    <3>1. n \in 1..Len(versions) /\ versions \in Seq(version)
      BY <2>2, <2>3
    <3> HIDE DEF versions, n, version
    <3>2. versions[n] \in version
      BY <3>1
    <3> QED
      BY <3>2 DEF n, version
  <2> QED
    BY <2>2, <2>3, <2>4 DEF Current
<1>4. Pending(th) => ~Finished(th)
  BY DEF TypeOK, Pending
<1> QED
  BY <1>1, <1>2, <1>3, <1>4

LEMMA AdvanceFacts ==
  ASSUME TypeOK, NEW th \in Thread, Busy(th), ~Finished(th),
         NEW refused \in SUBSET Span, Advance(th, refused)
  PROVE  /\ handler' \in [Thread -> {Absent} \cup Job]
         /\ handler'[th].batch = handler[th].batch
         /\ handler'[th].at = handler[th].at + 1
         /\ handler'[th].row = Absent
         /\ handler'[th].rejected = handler[th].rejected \cup refused
         /\ \A t \in Thread \ {th} : handler'[t] = handler[t]
<1>1. handler[th] \in Job /\ handler \in [Thread -> {Absent} \cup Job]
  BY JobFacts DEF TypeOK, Job
<1> DEFINE next == handler[th].at + 1
           all == handler[th].rejected \cup refused
           job == [handler[th] EXCEPT !.at = next, !.row = Absent, !.rejected = all]
<1>2. handler' = [handler EXCEPT ![th] = job]
  BY <1>1 DEF Advance
<1>3. /\ job \in Job /\ job.batch = handler[th].batch /\ job.at = handler[th].at + 1
      /\ job.row = Absent /\ job.rejected = handler[th].rejected \cup refused
  <2>1. next \in Nat \ {0} /\ all \in SUBSET Span
    BY <1>1 DEF Job
  <2> HIDE DEF next, all
  <2>2. job \in Job /\ job.batch = handler[th].batch /\ job.at = next
        /\ job.row = Absent /\ job.rejected = all
    BY <1>1, <2>1 DEF Job
  <2> QED
    BY <2>2 DEF next, all
<1> HIDE DEF job
<1> QED
  BY <1>1, <1>2, <1>3

(* The same for a thread that only writes its row. *)
LEMMA ExecuteFacts ==
  ASSUME TypeOK, NEW th \in Thread, Execute(th)
  PROVE  LET s == Current(th).span
             row == Written(spans[s], Current(th).ended) IN
         /\ s \in Span /\ row \in Store!SpanRow
         /\ handler' \in [Thread -> {Absent} \cup Job]
         /\ handler'[th].batch = handler[th].batch
         /\ handler'[th].at = handler[th].at
         /\ handler'[th].row = row
         /\ handler'[th].rejected = handler[th].rejected
         /\ \A t \in Thread \ {th} : handler'[t] = handler[t]
<1> DEFINE s == Current(th).span
           row == Written(spans[s], Current(th).ended)
           job == [handler[th] EXCEPT !.row = row]
<1>1. /\ handler[th] \in Job /\ handler \in [Thread -> {Absent} \cup Job]
      /\ Current(th) \in [span: Span, ended: BOOLEAN]
  BY JobFacts DEF TypeOK, Job, Execute, At
<1>2. s \in Span /\ Current(th).ended \in BOOLEAN
  BY <1>1
<1>3. spans[s] \in Store!SpanRow \cup {Absent} /\ spans_seq \in Nat
  BY <1>2 DEF TypeOK
<1>4. row \in Store!SpanRow
  <2>1. CASE spans[s] = Absent
    BY <1>2, <1>3, <2>1 DEF Written, Store!SpanRow
  <2>2. CASE spans[s] # Absent /\ Current(th).ended /\ ~spans[s].ended
    <3> DEFINE number == spans_seq + 2
    <3>1. row = [spans[s] EXCEPT !.ended = TRUE, !.seq = number]
      BY <2>2 DEF Written
    <3>2. number \in Nat
      BY <1>3
    <3> HIDE DEF number, row
    <3> QED
      BY <1>3, <2>2, <3>1, <3>2 DEF Store!SpanRow
  <2>3. CASE spans[s] # Absent /\ ~(Current(th).ended /\ ~spans[s].ended)
    <3>1. row = spans[s]
      BY <2>3 DEF Written
    <3> QED
      BY <1>3, <2>3, <3>1
  <2> QED
    BY <2>1, <2>2, <2>3
<1>5. handler' = [handler EXCEPT ![th] = job]
  BY <1>1 DEF Execute
<1>6. /\ job \in Job /\ job.batch = handler[th].batch /\ job.at = handler[th].at
      /\ job.row = row /\ job.rejected = handler[th].rejected
  <2> HIDE DEF row
  <2> QED
    BY <1>1, <1>4 DEF Job
<1> HIDE DEF job, row, s
<1>7. /\ handler' \in [Thread -> {Absent} \cup Job]
      /\ handler'[th] = job
      /\ \A t \in Thread \ {th} : handler'[t] = handler[t]
  BY <1>1, <1>5, <1>6
<1>8. /\ s \in Span /\ row \in Store!SpanRow
      /\ handler'[th].batch = handler[th].batch
      /\ handler'[th].at = handler[th].at
      /\ handler'[th].row = row
      /\ handler'[th].rejected = handler[th].rejected
  BY <1>2, <1>4, <1>6, <1>7
<1> QED
  BY <1>7, <1>8 DEF s, row

(* A row is committed by Commit, or by a connection lost after its commit.     *)
LEMMA CommitRowFacts ==
  ASSUME TypeOK, NEW th \in Thread, Pending(th), CommitRow(th)
  PROVE  /\ Target(th) \in Span /\ Row(th) \in Store!SpanRow
         /\ spans' \in [Span -> Store!SpanRow \cup {Absent}]
         /\ spans'[Target(th)] = Row(th)
         /\ \A r \in Span \ {Target(th)} : spans'[r] = spans[r]
<1>1. Target(th) \in Span
  BY JobFacts DEF Pending, Target
<1>2. Row(th) \in Store!SpanRow
  BY JobFacts DEF Pending, Row, Job
<1>3. spans' = [spans EXCEPT ![Target(th)] = Row(th)]
  BY DEF CommitRow, Target, Row
<1> QED
  BY <1>1, <1>2, <1>3 DEF TypeOK

LEMMA NextTypes == TypeOK /\ [Next]_vars => TypeOK'
<1> SUFFICES ASSUME TypeOK, [Next]_vars PROVE TypeOK'
  OBVIOUS
<1> DEFINE InBatch(th) ==
      Busy(th) => /\ handler[th].at <= Len(Versions[handler[th].batch]) + 1
                  /\ Finished(th) => handler[th].row = Absent
<1>0. TypeOK <=>
        /\ spans \in [Span -> Store!SpanRow \cup {Absent}]
        /\ spans_seq \in Nat /\ faults \in Nat
        /\ sends \in [Batch -> Nat]
        /\ acked \in [Batch -> (SUBSET Span) \cup {Absent}]
        /\ handler \in [Thread -> {Absent} \cup Job]
        /\ \A th \in Thread : InBatch(th)
  BY DEF TypeOK, Job
<1>1. CASE UNCHANGED vars
  BY <1>1 DEF vars, TypeOK, Busy, Finished
<1>2. ASSUME NEW th \in Thread, NEW b \in Batch, Export(th, b) PROVE TypeOK'
  <2> DEFINE job == [batch |-> b, at |-> 1, row |-> Absent, rejected |-> {}]
  <2>1. job \in Job /\ job.at = 1 /\ job.batch = b /\ job.row = Absent
    BY DEF Job
  <2>2. Len(Versions[b]) \in Nat
    BY ReceiverAssumption
  <2>3. handler' = [handler EXCEPT ![th] = job]
    BY <1>2 DEF Export
  <2> HIDE DEF job
  <2>4. handler' \in [Thread -> {Absent} \cup Job]
    BY <1>0, <2>1, <2>3
  <2>5. \A t \in Thread : InBatch(t)'
    BY <1>0, <2>1, <2>2, <2>3 DEF Busy, Finished
  <2>6. sends' \in [Batch -> Nat]
    BY <1>2 DEF Export, TypeOK
  <2> QED
    BY <1>0, <1>2, <2>4, <2>5, <2>6 DEF Export, TypeOK, Job
<1>3. ASSUME NEW th \in Thread, NEW refused \in SUBSET Span,
             Busy(th), ~Finished(th), Advance(th, refused)
      PROVE  handler' \in [Thread -> {Absent} \cup Job] /\ \A t \in Thread : InBatch(t)'
  <2>1. /\ handler' \in [Thread -> {Absent} \cup Job]
        /\ handler'[th].batch = handler[th].batch
        /\ handler'[th].at = handler[th].at + 1
        /\ handler'[th].row = Absent
        /\ \A t \in Thread \ {th} : handler'[t] = handler[t]
    BY <1>3, AdvanceFacts
  <2>2. handler[th].at + 1 <= Len(Versions[handler[th].batch]) + 1
    BY <1>3, JobFacts DEF Job
  <2>3. InBatch(th)'
    BY <2>1, <2>2 DEF Busy
  <2>4. ASSUME NEW t \in Thread, t # th PROVE InBatch(t)'
    BY <1>0, <2>1, <2>4 DEF Busy, Finished
  <2> QED
    BY <2>1, <2>3, <2>4
<1>4. ASSUME NEW th \in Thread, handler' = [handler EXCEPT ![th] = Absent]
      PROVE  handler' \in [Thread -> {Absent} \cup Job] /\ \A t \in Thread : InBatch(t)'
  BY <1>0, <1>4 DEF Busy, Finished
<1>5. ASSUME NEW th \in Thread, Skip(th) PROVE TypeOK'
  BY <1>0, <1>3, <1>5 DEF Skip, At, TypeOK, Job
<1>6. ASSUME NEW th \in Thread, Reject(th) PROVE TypeOK'
  <2>1. {Current(th).span} \in SUBSET Span
    BY <1>6, JobFacts DEF Reject, At
  <2> QED
    BY <1>0, <1>3, <1>6, <2>1 DEF Reject, At, TypeOK, Job
<1>7. ASSUME NEW th \in Thread, Execute(th) PROVE TypeOK'
  <2>1. /\ handler' \in [Thread -> {Absent} \cup Job]
        /\ handler'[th].batch = handler[th].batch
        /\ handler'[th].at = handler[th].at
        /\ \A t \in Thread \ {th} : handler'[t] = handler[t]
    BY <1>7, ExecuteFacts
  <2>2. Busy(th) /\ ~Finished(th)
    BY <1>7 DEF Execute, At
  <2>3. \A t \in Thread : InBatch(t)'
    BY <1>0, <2>1, <2>2 DEF Busy, Finished
  <2>4. UNCHANGED <<spans, sends, acked, faults>> /\ spans_seq' = spans_seq + 2
    BY <1>7 DEF Execute
  <2> QED
    BY <1>0, <2>1, <2>3, <2>4 DEF TypeOK, Job
<1>8. ASSUME NEW th \in Thread, Commit(th) PROVE TypeOK'
  <2>1. Pending(th) /\ Busy(th) /\ ~Finished(th)
    BY <1>8, JobFacts DEF Commit, Pending
  <2>2. spans' \in [Span -> Store!SpanRow \cup {Absent}]
    BY <1>8, <2>1, CommitRowFacts DEF Commit
  <2> QED
    BY <1>0, <1>3, <1>8, <2>1, <2>2 DEF Commit, TypeOK, Job
<1>9. ASSUME NEW th \in Thread, Fail(th) PROVE TypeOK'
  <2>1. spans' \in [Span -> Store!SpanRow \cup {Absent}] /\ faults' \in Nat
    BY <1>9, CommitRowFacts DEF Fail, TypeOK, Pending
  <2> QED
    BY <1>0, <1>4, <1>9, <2>1 DEF Fail, TypeOK, Job
<1>10. ASSUME NEW th \in Thread, Reply(th) PROVE TypeOK'
  <2>1. handler[th].batch \in Batch /\ handler[th].rejected \in SUBSET Span
    BY <1>10, JobFacts DEF Reply, Job
  <2>2. acked' \in [Batch -> (SUBSET Span) \cup {Absent}]
    BY <1>10, <2>1 DEF Reply, TypeOK
  <2> QED
    BY <1>0, <1>4, <1>10, <2>2 DEF Reply, TypeOK, Job
<1> QED
  BY <1>1, <1>2, <1>5, <1>6, <1>7, <1>8, <1>9, <1>10 DEF Next, Work

LEMMA SpecTypes == Spec => []TypeOK
BY InitTypes, NextTypes, PTL DEF Spec

--------------------------------------------------------------------------------
(* Rows and their numbers. *)

(* What a step leaves of a thread's pending row. *)
SameRow(th) ==
  Pending(th)' => Pending(th) /\ Row(th)' = Row(th) /\ Target(th)' = Target(th)

(* A thread that a step does not name keeps its row. *)
LEMMA OtherRow ==
  ASSUME NEW th \in Thread, handler'[th] = handler[th]
  PROVE  /\ Pending(th)' <=> Pending(th)
         /\ Row(th)' = Row(th) /\ Target(th)' = Target(th)
         /\ Current(th)' = Current(th)
         /\ Busy(th)' <=> Busy(th)
BY DEF Pending, Row, Target, Busy, Current

LEMMA InitRows == Init => RowsInv
<1> SUFFICES ASSUME Init PROVE RowsInv
  OBVIOUS
<1>1. \A th \in Thread : ~Pending(th)
  BY DEF Init, Pending, Busy
<1>2. \A s \in Span : spans[s] = Absent
  BY DEF Init
<1> QED
  BY <1>1, <1>2 DEF RowsInv, PendingFits, Drawn, CommittedApart, PendingApart

(* A step that writes no row. *)
LEMMA QuietKeepsRows ==
  ASSUME TypeOK, RowsInv, TypeOK', spans' = spans, spans_seq' >= spans_seq,
         \A th \in Thread : SameRow(th)
  PROVE  RowsInv'
<1> USE DEF RowsInv
<1>1. ASSUME NEW th \in Thread, Pending(th)'
      PROVE  Pending(th) /\ Row(th)' = Row(th) /\ Target(th)' = Target(th)
  BY <1>1 DEF SameRow
<1>2. PendingFits'
  <2>1. ASSUME NEW th \in Thread, Pending(th)', NEW s \in Span, s = Target(th)'
        PROVE  \/ Row(th)' = spans'[s]
               \/ Inserts(s, Row(th))' \/ Completes(s, Row(th))'
    <3>1. Row(th) = spans[s] \/ Inserts(s, Row(th)) \/ Completes(s, Row(th))
      BY <1>1, <2>1 DEF PendingFits
    <3> QED
      BY <1>1, <2>1, <3>1 DEF Inserts, Completes, Store!Unused
  <2>2. ASSUME NEW th \in Thread, Pending(th)' PROVE Target(th)' \in Span
    BY <1>1, <2>2, JobFacts DEF Pending, Target
  <2> QED
    BY <2>1, <2>2 DEF PendingFits
<1>3. Drawn'
  <2>1. spans_seq \in Nat /\ spans_seq' \in Nat
    BY DEF TypeOK
  <2>2. ASSUME NEW s \in Span, spans[s] # Absent
        PROVE  spans[s].seq \in Nat /\ spans[s].arrival_seq \in Nat
    BY <2>2 DEF TypeOK, Store!SpanRow
  <2>3. ASSUME NEW th \in Thread, Pending(th) PROVE Row(th).seq \in Nat
    BY <2>3, JobFacts DEF Pending, Row, Job, Store!SpanRow
  <2> QED
    BY <1>1, <2>1, <2>2, <2>3 DEF Drawn
<1>4. CommittedApart'
  BY DEF CommittedApart
<1>5. PendingApart'
  BY <1>1 DEF PendingApart
<1> QED
  BY <1>2, <1>3, <1>4, <1>5

(* The statement of a thread that sees its row unlocked. *)
LEMMA ExecuteKeepsRows ==
  ASSUME TypeOK, RowsInv, TypeOK', NEW th \in Thread, Execute(th)
  PROVE  RowsInv'
<1> USE DEF RowsInv
<1> DEFINE s == Current(th).span
           row == Written(spans[s], Current(th).ended)
<1>1. /\ s \in Span /\ row \in Store!SpanRow
      /\ handler'[th].batch = handler[th].batch
      /\ handler'[th].at = handler[th].at
      /\ handler'[th].row = row
      /\ \A t \in Thread \ {th} : handler'[t] = handler[t]
  BY ExecuteFacts
<1>2. /\ spans' = spans /\ spans_seq' = spans_seq + 2 /\ spans_seq \in Nat
      /\ ~RowLocked(s, th)
  BY DEF Execute, TypeOK
<1>3. Row(th)' = row /\ Target(th)' = s
  BY <1>1 DEF Row, Target, Current
<1>4. \A r \in Span : spans[r] # Absent =>
        /\ spans[r].seq \in Nat /\ spans[r].arrival_seq \in Nat
        /\ spans[r].seq <= spans_seq /\ spans[r].arrival_seq <= spans_seq
  BY DEF Drawn, TypeOK, Store!SpanRow
<1>5. \A t \in Thread : Pending(t) => Row(t).seq \in Nat /\ Row(t).seq <= spans_seq
  <2>1. ASSUME NEW t \in Thread, Pending(t) PROVE Row(t).seq \in Nat
    BY <2>1, JobFacts DEF Pending, Row, Job, Store!SpanRow
  <2> QED
    BY <2>1 DEF Drawn
<1>6. \/ row = spans[s] /\ spans[s] # Absent
      \/ Inserts(s, row) /\ row.seq = spans_seq + 1
      \/ Completes(s, row) /\ row.seq = spans_seq + 2
  <2>1. CASE spans[s] = Absent
    <3>1. row = [ended |-> Current(th).ended, origin |-> Current(th).ended,
                 seq |-> spans_seq + 1, arrival_seq |-> spans_seq + 1]
      BY <2>1 DEF Written
    <3>2. Store!Unused(spans_seq + 1)
      BY <1>2, <1>4 DEF Store!Unused
    <3>3. /\ row.seq = spans_seq + 1 /\ row.arrival_seq = row.seq
          /\ row.origin = row.ended
      BY <3>1
    <3> QED
      BY <2>1, <3>2, <3>3 DEF Inserts
  <2>2. CASE spans[s] # Absent /\ Current(th).ended /\ ~spans[s].ended
    <3> DEFINE number == spans_seq + 2
    <3>1. row = [spans[s] EXCEPT !.ended = TRUE, !.seq = number]
      BY <2>2 DEF Written
    <3>2. spans[s] \in Store!SpanRow
      BY <1>1, <2>2 DEF TypeOK
    <3>3. row.seq = number
      <4> HIDE DEF number
      <4> QED
        BY <3>1, <3>2 DEF Store!SpanRow
    <3>4. Store!Unused(number) /\ number > spans[s].seq
      BY <1>1, <1>2, <1>4, <2>2 DEF Store!Unused
    <3> HIDE DEF number, row
    <3>5. Completes(s, row)
      BY <2>2, <3>1, <3>3, <3>4 DEF Completes
    <3> QED
      BY <3>3, <3>5 DEF number
  <2>3. CASE spans[s] # Absent /\ ~(Current(th).ended /\ ~spans[s].ended)
    BY <2>3 DEF Written
  <2> QED
    BY <2>1, <2>2, <2>3
<1> HIDE DEF s, row
<1>7. \A t \in Thread \ {th} :
        /\ Pending(t)' <=> Pending(t)
        /\ Row(t)' = Row(t) /\ Target(t)' = Target(t)
        /\ Pending(t) => Target(t) \in Span /\ Target(t) # s
  <2>1. ASSUME NEW t \in Thread \ {th}, Pending(t)
        PROVE  Target(t) \in Span /\ Target(t) # s
    <3>1. Target(t) \in Span
      BY <2>1, JobFacts DEF Pending, Target
    <3>2. Target(t) # s
      BY <1>2, <2>1 DEF RowLocked, Pending, Target
    <3> QED
      BY <3>1, <3>2
  <2> QED
    BY <1>1, <2>1, OtherRow
<1>8. PendingFits'
  <2>1. ASSUME NEW t \in Thread \ {th}, Pending(t)', NEW r \in Span, r = Target(t)'
        PROVE  \/ Row(t)' = spans'[r]
               \/ Inserts(r, Row(t))' \/ Completes(r, Row(t))'
    <3>1. Row(t) = spans[r] \/ Inserts(r, Row(t)) \/ Completes(r, Row(t))
      BY <1>7, <2>1 DEF PendingFits
    <3> QED
      BY <1>2, <1>7, <2>1, <3>1 DEF Inserts, Completes, Store!Unused
  <2>2. ASSUME NEW r \in Span, r = Target(th)'
        PROVE  \/ Row(th)' = spans'[r]
               \/ Inserts(r, Row(th))' \/ Completes(r, Row(th))'
    <3>1. r = s
      BY <1>3, <2>2
    <3> QED
      BY <1>2, <1>3, <1>6, <3>1 DEF Inserts, Completes, Store!Unused
  <2> QED
    BY <1>1, <1>3, <1>7, <2>1, <2>2 DEF PendingFits
<1>9. Row(th)'.seq \in Nat /\ Row(th)'.seq <= spans_seq + 2
  <2>1. CASE row = spans[s] /\ spans[s] # Absent
    BY <1>1, <1>2, <1>3, <1>4, <2>1
  <2>2. CASE row.seq \in {spans_seq + 1, spans_seq + 2}
    BY <1>2, <1>3, <2>2
  <2> QED
    BY <1>6, <2>1, <2>2
<1>10. Drawn'
  BY <1>2, <1>4, <1>5, <1>7, <1>9 DEF Drawn
<1>11. CommittedApart'
  BY <1>2 DEF CommittedApart
<1>12. PendingApart'
  <2>1. ASSUME NEW t \in Thread \ {th}, Pending(t)
        PROVE  Target(t) # s /\ Row(t).seq # row.seq
    <3>1. Target(t) # s /\ Target(t) \in Span
      BY <1>7, <2>1
    <3>2. CASE row = spans[s] /\ spans[s] # Absent
      <4>1. \/ Row(t) = spans[Target(t)] /\ spans[Target(t)] # Absent
            \/ Store!Unused(Row(t).seq)
        BY <2>1 DEF PendingFits, Inserts, Completes, Pending, Row
      <4>2. s \in Span /\ row.seq = spans[s].seq
        BY <1>1, <3>2
      <4>3. spans[Target(t)] # Absent => spans[Target(t)].seq # spans[s].seq
        BY <3>1, <3>2, <4>2 DEF CommittedApart
      <4>4. Store!Unused(Row(t).seq) => spans[s].seq # Row(t).seq
        BY <3>2, <4>2 DEF Store!Unused
      <4> QED
        BY <3>1, <4>1, <4>2, <4>3, <4>4
    <3>3. CASE row.seq \in {spans_seq + 1, spans_seq + 2}
      BY <1>2, <1>5, <2>1, <3>1, <3>3
    <3> QED
      BY <1>6, <3>1, <3>2, <3>3
  <2> QED
    BY <1>3, <1>7, <2>1 DEF PendingApart
<1> QED
  BY <1>8, <1>10, <1>11, <1>12

(* The rows of others when a thread's row becomes visible. *)
LEMMA CommitKeepsRows ==
  ASSUME TypeOK, RowsInv, TypeOK', NEW th \in Thread, Pending(th), CommitRow(th),
         spans_seq' = spans_seq,
         ~Pending(th)', \A t \in Thread \ {th} : handler'[t] = handler[t]
  PROVE  RowsInv'
<1> USE DEF RowsInv
<1>1. PICK s \in Span : s = Target(th)
  BY CommitRowFacts
<1>2. PICK row \in Store!SpanRow : row = Row(th)
  BY CommitRowFacts
<1>3. row # Absent
  BY <1>2 DEF Pending, Row
<1>4. spans'[s] = row /\ \A r \in Span \ {s} : spans'[r] = spans[r]
  BY <1>1, <1>2, CommitRowFacts
<1>5. row = spans[s] \/ Inserts(s, row) \/ Completes(s, row)
  BY <1>1, <1>2 DEF PendingFits
<1>6. \/ row.arrival_seq = row.seq
      \/ spans[s] # Absent /\ row.arrival_seq = spans[s].arrival_seq
  <2>1. CASE Completes(s, row)
    <3>1. spans[s] \in Store!SpanRow /\ spans[s] # Absent
      BY <2>1 DEF Completes, TypeOK
    <3> DEFINE n == row.seq
    <3>2. row = [spans[s] EXCEPT !.ended = TRUE, !.seq = n]
      BY <2>1 DEF Completes
    <3> HIDE DEF n
    <3>3. row.arrival_seq = spans[s].arrival_seq
      BY <3>1, <3>2 DEF Store!SpanRow
    <3> QED
      BY <3>1, <3>3
  <2>2. CASE Inserts(s, row)
    BY <2>2 DEF Inserts
  <2>3. CASE row = spans[s]
    BY <1>3, <2>3
  <2> QED
    BY <1>5, <2>1, <2>2, <2>3
<1>7. /\ row.seq \in Nat /\ row.seq <= spans_seq
      /\ row.arrival_seq \in Nat /\ row.arrival_seq <= spans_seq
  <2>1. row.seq \in Nat /\ row.arrival_seq \in Nat /\ row.seq <= spans_seq
    BY <1>2 DEF Drawn, Store!SpanRow
  <2> QED
    BY <1>6, <2>1 DEF Drawn
<1>8. \A t \in Thread :
        Pending(t)' => /\ t # th /\ Pending(t)
                       /\ Row(t)' = Row(t) /\ Target(t)' = Target(t)
                       /\ Target(t) \in Span /\ Target(t) # s
                       /\ Row(t).seq # row.seq
  <2>1. ASSUME NEW t \in Thread, Pending(t)'
        PROVE  /\ t # th /\ Pending(t)
               /\ Row(t)' = Row(t) /\ Target(t)' = Target(t)
    BY <2>1, OtherRow
  <2>2. ASSUME NEW t \in Thread, Pending(t), t # th
        PROVE  Target(t) # s /\ Row(t).seq # row.seq /\ Target(t) \in Span
    <3>1. Target(t) \in Span
      BY <2>2, JobFacts DEF Pending, Target
    <3> QED
      BY <1>1, <1>2, <2>2, <3>1 DEF PendingApart
  <2> QED
    BY <2>1, <2>2
<1>9. ASSUME NEW n, Store!Unused(n), n # row.seq PROVE Store!Unused(n)'
  <2>1. row.arrival_seq # n
    BY <1>9, <1>6 DEF Store!Unused
  <2> QED
    BY <1>4, <1>9, <2>1 DEF Store!Unused
<1>10. PendingFits'
  <2>1. ASSUME NEW t \in Thread, Pending(t)', NEW r \in Span, r = Target(t)'
        PROVE  \/ Row(t)' = spans'[r]
               \/ Inserts(r, Row(t))' \/ Completes(r, Row(t))'
    <3>1. /\ Row(t)' = Row(t) /\ r = Target(t) /\ spans'[r] = spans[r]
          /\ Row(t).seq # row.seq
      BY <1>4, <1>8, <2>1
    <3>2. Row(t) = spans[r] \/ Inserts(r, Row(t)) \/ Completes(r, Row(t))
      BY <1>8, <2>1, <3>1 DEF PendingFits
    <3>3. Store!Unused(Row(t).seq) => Store!Unused(Row(t).seq)'
      <4>1. PICK n : n = Row(t).seq
        OBVIOUS
      <4>2. n = Row(t)'.seq
        BY <3>1, <4>1
      <4>3. Store!Unused(n) => Store!Unused(n)'
        BY <1>9, <3>1, <4>1
      <4> QED
        BY <4>1, <4>2, <4>3 DEF Store!Unused
    <3>4. CASE Row(t) = spans[r]
      BY <3>1, <3>4
    <3>5. CASE Inserts(r, Row(t))
      <4>1. Inserts(r, Row(t))'
        BY <3>1, <3>3, <3>5 DEF Inserts
      <4> QED
        BY <4>1
    <3>6. CASE Completes(r, Row(t))
      <4>1. Completes(r, Row(t))'
        BY <3>1, <3>3, <3>6 DEF Completes
      <4> QED
        BY <4>1
    <3> QED
      BY <3>2, <3>4, <3>5, <3>6
  <2> QED
    BY <1>8, <2>1 DEF PendingFits
<1>11. Drawn'
  <2>1. ASSUME NEW r \in Span, spans'[r] # Absent
        PROVE  spans'[r].seq <= spans_seq /\ spans'[r].arrival_seq <= spans_seq
    <3>1. CASE r = s
      BY <1>4, <1>7, <3>1
    <3>2. CASE r # s
      BY <1>4, <2>1, <3>2 DEF Drawn
    <3> QED
      BY <3>1, <3>2
  <2> QED
    BY <1>8, <2>1 DEF Drawn
<1>12. CommittedApart'
  <2>1. ASSUME NEW r \in Span, r # s, spans[r] # Absent PROVE spans[r].seq # row.seq
    <3>1. CASE row = spans[s]
      BY <1>3, <2>1, <3>1 DEF CommittedApart
    <3>2. CASE Store!Unused(row.seq)
      BY <2>1, <3>2 DEF Store!Unused
    <3> QED
      BY <1>5, <3>1, <3>2 DEF Inserts, Completes
  <2> QED
    BY <1>4, <2>1 DEF CommittedApart
<1>13. PendingApart'
  BY <1>8 DEF PendingApart
<1> QED
  BY <1>10, <1>11, <1>12, <1>13

(* The rows after each action: Execute and the commits aside, none changes.    *)
LEMMA AdvanceIsQuiet ==
  ASSUME TypeOK, NEW th \in Thread, Busy(th), ~Finished(th),
         NEW refused \in SUBSET Span, Advance(th, refused)
  PROVE  /\ ~Pending(th)' /\ \A t \in Thread \ {th} : handler'[t] = handler[t]
         /\ \A t \in Thread : SameRow(t)
<1>1. handler'[th].row = Absent /\ \A t \in Thread \ {th} : handler'[t] = handler[t]
  BY AdvanceFacts
<1> QED
  BY <1>1, OtherRow DEF Pending, SameRow

LEMMA FreeIsQuiet ==
  ASSUME TypeOK, NEW th \in Thread, handler' = [handler EXCEPT ![th] = Absent]
  PROVE  /\ ~Pending(th)' /\ \A t \in Thread \ {th} : handler'[t] = handler[t]
         /\ \A t \in Thread : SameRow(t)
<1>1. handler'[th] = Absent /\ \A t \in Thread \ {th} : handler'[t] = handler[t]
  BY DEF TypeOK
<1> QED
  BY <1>1, OtherRow DEF Pending, Busy, SameRow

LEMMA NextRows == TypeOK /\ RowsInv /\ [Next]_vars => RowsInv'
<1> SUFFICES ASSUME TypeOK, RowsInv, [Next]_vars PROVE RowsInv'
  OBVIOUS
<1>0. TypeOK' /\ spans_seq \in Nat
  BY NextTypes DEF TypeOK
<1>1. CASE UNCHANGED vars
  <2>1. \A th \in Thread : SameRow(th)
    BY <1>1, OtherRow DEF vars, SameRow
  <2> QED
    BY <1>0, <1>1, <2>1, QuietKeepsRows DEF vars
<1>2. ASSUME NEW th \in Thread, NEW b \in Batch, Export(th, b) PROVE RowsInv'
  <2> DEFINE job == [batch |-> b, at |-> 1, row |-> Absent, rejected |-> {}]
  <2>1. handler' = [handler EXCEPT ![th] = job] /\ job.row = Absent
    BY <1>2 DEF Export
  <2> HIDE DEF job
  <2>2. handler'[th] = job /\ \A t \in Thread \ {th} : handler'[t] = handler[t]
    BY <2>1 DEF TypeOK
  <2>3. \A t \in Thread : SameRow(t)
    BY <2>1, <2>2, OtherRow DEF Pending, SameRow
  <2> QED
    BY <1>0, <1>2, <2>3, QuietKeepsRows DEF Export
<1>3. ASSUME NEW th \in Thread, Skip(th) PROVE RowsInv'
  <2>1. \A t \in Thread : SameRow(t)
    BY <1>3, AdvanceIsQuiet DEF Skip, At
  <2> QED
    BY <1>0, <1>3, <2>1, QuietKeepsRows DEF Skip
<1>4. ASSUME NEW th \in Thread, Reject(th) PROVE RowsInv'
  <2>1. {Current(th).span} \in SUBSET Span
    BY <1>4, JobFacts DEF Reject, At
  <2>2. \A t \in Thread : SameRow(t)
    BY <1>4, <2>1, AdvanceIsQuiet DEF Reject, At
  <2>3. spans_seq' >= spans_seq
    BY <1>0, <1>4 DEF Reject
  <2> QED
    BY <1>0, <1>4, <2>2, <2>3, QuietKeepsRows DEF Reject
<1>5. ASSUME NEW th \in Thread, Execute(th) PROVE RowsInv'
  BY <1>0, <1>5, ExecuteKeepsRows
<1>6. ASSUME NEW th \in Thread, Commit(th) PROVE RowsInv'
  <2>1. Pending(th) /\ Busy(th) /\ ~Finished(th)
    BY <1>6, JobFacts DEF Commit, Pending
  <2>2. ~Pending(th)' /\ \A t \in Thread \ {th} : handler'[t] = handler[t]
    BY <1>6, <2>1, AdvanceIsQuiet DEF Commit
  <2> QED
    BY <1>0, <1>6, <2>1, <2>2, CommitKeepsRows DEF Commit
<1>7. ASSUME NEW th \in Thread, Fail(th) PROVE RowsInv'
  <2>1. /\ ~Pending(th)' /\ \A t \in Thread \ {th} : handler'[t] = handler[t]
        /\ \A t \in Thread : SameRow(t)
    BY <1>7, FreeIsQuiet DEF Fail
  <2>2. CASE spans' = spans
    BY <1>0, <1>7, <2>1, <2>2, QuietKeepsRows DEF Fail
  <2>3. CASE Pending(th) /\ CommitRow(th)
    BY <1>0, <1>7, <2>1, <2>3, CommitKeepsRows DEF Fail
  <2> QED
    BY <1>7, <2>2, <2>3 DEF Fail, Pending
<1>8. ASSUME NEW th \in Thread, Reply(th) PROVE RowsInv'
  <2>1. \A t \in Thread : SameRow(t)
    BY <1>8, FreeIsQuiet DEF Reply
  <2> QED
    BY <1>0, <1>8, <2>1, QuietKeepsRows DEF Reply
<1> QED
  BY <1>1, <1>2, <1>3, <1>4, <1>5, <1>6, <1>7, <1>8 DEF Next, Work

LEMMA SpecRows == Spec => []RowsInv
BY InitRows, NextRows, SpecTypes, PTL DEF Spec

--------------------------------------------------------------------------------
(* The refinement. *)

(* A commit is an insert, a completion or, for a row that was left as it was,  *)
(* a stuttering step of the store.                                             *)
LEMMA CommitIsStoreStep ==
  ASSUME TypeOK, RowsInv, NEW th \in Thread, Pending(th), CommitRow(th)
  PROVE  [Store!Next]_spans
<1>1. PICK s \in Span : s = Target(th)
  BY CommitRowFacts
<1>2. PICK row \in Store!SpanRow : row = Row(th)
  BY CommitRowFacts
<1>3. spans'[s] = row /\ row # Absent
  BY <1>1, <1>2, CommitRowFacts DEF Pending, Row
<1>4. Store!OnlyRow(s)
  BY <1>1, CommitRowFacts DEF Store!OnlyRow
<1>5. row = spans[s] \/ Inserts(s, row) \/ Completes(s, row)
  BY <1>1, <1>2 DEF RowsInv, PendingFits
<1>6. CASE row = spans[s]
  BY <1>1, <1>2, <1>6 DEF CommitRow, Row, Target, TypeOK
<1>7. CASE Inserts(s, row)
  <2>1. Store!Insert(s)
    BY <1>3, <1>4, <1>7 DEF Inserts, Store!Insert
  <2> QED
    BY <2>1 DEF Store!Next
<1>8. CASE Completes(s, row)
  <2>1. Store!Finalize(s)
    BY <1>3, <1>4, <1>8 DEF Completes, Store!Finalize
  <2> QED
    BY <2>1 DEF Store!Next
<1> QED
  BY <1>5, <1>6, <1>7, <1>8

LEMMA NextIsStoreStep == TypeOK /\ RowsInv /\ [Next]_vars => [Store!Next]_spans
<1> SUFFICES ASSUME TypeOK, RowsInv, [Next]_vars PROVE [Store!Next]_spans
  OBVIOUS
<1>1. ASSUME NEW th \in Thread, Commit(th) PROVE [Store!Next]_spans
  BY <1>1, CommitIsStoreStep DEF Commit, Pending
<1>2. ASSUME NEW th \in Thread, Fail(th), spans' # spans PROVE [Store!Next]_spans
  BY <1>2, CommitIsStoreStep DEF Fail, Pending
<1>3. ASSUME NEW th \in Thread,
             (\E b \in Batch : Export(th, b)) \/ Skip(th) \/ Reject(th)
               \/ Execute(th) \/ Reply(th)
      PROVE  spans' = spans
  BY <1>3 DEF Export, Skip, Reject, Execute, Reply
<1> QED
  BY <1>1, <1>2, <1>3 DEF Next, Work, vars

(* The receiver implements the append-and-finalize store of ADR-0004, whatever *)
(* handlers run at once and however often batches are repeated: the row lock   *)
(* and the ON CONFLICT clause of write_span's statement suffice.               *)
THEOREM ImplementsStore == Spec => StorePromise
<1>1. Init => Store!Init
  BY DEF Init, Store!Init
<1> QED
  BY <1>1, NextIsStoreStep, SpecTypes, SpecRows, PTL DEF Spec, StorePromise, Store!Spec

(* The number that readers follow names one row: SeqUnique.                    *)
LEMMA RowsAreUnique == TypeOK /\ RowsInv => SeqUnique
<1> SUFFICES ASSUME TypeOK, RowsInv PROVE SeqUnique
  OBVIOUS
<1> USE DEF RowsInv
<1> DEFINE committed == {<<s, spans[s]>> : s \in {r \in Span : spans[r] # Absent}}
           written == {<<Target(th), Row(th)>> : th \in {x \in Thread : Pending(x)}}
<1>1. ASSUME NEW th \in Thread, Pending(th), NEW s \in Span, spans[s] # Absent,
             Row(th).seq = spans[s].seq
      PROVE  Target(th) = s
  <2>1. Target(th) \in Span
    BY <1>1, JobFacts DEF Pending, Target
  <2>2. \/ Row(th) = spans[Target(th)] /\ spans[Target(th)] # Absent
        \/ Store!Unused(Row(th).seq)
    BY <1>1 DEF PendingFits, Inserts, Completes, Pending, Row
  <2>3. ~Store!Unused(Row(th).seq)
    BY <1>1 DEF Store!Unused
  <2> QED
    BY <1>1, <2>1, <2>2, <2>3 DEF CommittedApart
<1>2. \A i, j \in committed \cup written : i[2].seq = j[2].seq => i[1] = j[1]
  <2>1. ASSUME NEW i \in committed, NEW j \in committed, i[2].seq = j[2].seq
        PROVE  i[1] = j[1]
    BY <2>1 DEF CommittedApart
  <2>2. ASSUME NEW i \in committed, NEW j \in written, i[2].seq = j[2].seq
        PROVE  i[1] = j[1]
    BY <1>1, <2>2
  <2>3. ASSUME NEW i \in written, NEW j \in written, i[2].seq = j[2].seq
        PROVE  i[1] = j[1]
    BY <2>3 DEF PendingApart
  <2> HIDE DEF committed, written
  <2> QED
    BY <2>1, <2>2, <2>3
<1> QED
  BY <1>2 DEF SeqUnique, Pending, Target, Row

THEOREM NumbersAreUnique == Spec => []SeqUnique
BY SpecTypes, SpecRows, RowsAreUnique, PTL

--------------------------------------------------------------------------------
(* What a success means. *)

LEMMA InitKept == Init => KeptInv
<1> SUFFICES ASSUME Init PROVE KeptInv
  OBVIOUS
<1>1. \A th \in Thread : ~Busy(th)
  BY DEF Init, Busy
<1>2. \A b \in Batch : acked[b] = Absent
  BY DEF Init
<1> QED
  BY <1>1, <1>2 DEF KeptInv, RowHolds, BehindSettled, AckedSettled, Pending

(* The store's steps take nothing back. *)
LEMMA RowsStay ==
  ASSUME [Store!Next]_spans, NEW s \in Span, spans[s] # Absent
  PROVE  spans'[s] # Absent /\ (spans[s].ended => spans'[s].ended)
<1>1. ASSUME NEW r \in Span, Store!Insert(r)
      PROVE  spans'[s] # Absent /\ (spans[s].ended => spans'[s].ended)
  BY <1>1 DEF Store!Insert, Store!OnlyRow
<1>2. ASSUME NEW r \in Span, Store!Finalize(r)
      PROVE  spans'[s] # Absent /\ (spans[s].ended => spans'[s].ended)
  BY <1>2 DEF Store!Finalize, Store!OnlyRow
<1> QED
  BY <1>1, <1>2 DEF Store!Next

LEMMA SettledStays ==
  ASSUME [Store!Next]_spans, NEW v, v.span \in Span, NEW refused, NEW all,
         refused \subseteq all, Settled(spans, v, refused)
  PROVE  Settled(spans', v, all)
<1>1. spans[v.span] # Absent =>
        spans'[v.span] # Absent /\ (spans[v.span].ended => spans'[v.span].ended)
  BY RowsStay
<1> QED
  BY <1>1 DEF Settled, Holds

LEMMA VersionFacts ==
  ASSUME NEW b \in Batch, NEW i \in DOMAIN Versions[b]
  PROVE  Versions[b][i].span \in Span
<1>1. Versions[b] \in Seq([span: Span, ended: BOOLEAN])
  BY ReceiverAssumption
<1>2. Versions[b][i] \in [span: Span, ended: BOOLEAN]
  <2> DEFINE version == [span: Span, ended: BOOLEAN]
  <2>1. Versions[b] \in Seq(version)
    BY <1>1
  <2> HIDE DEF version
  <2>2. Versions[b][i] \in version
    BY <2>1
  <2> QED
    BY <2>2 DEF version
<1> QED
  BY <1>2

(* A thread whose job is what it was, or further on by settled versions.       *)
LEMMA BehindStays ==
  ASSUME TypeOK, [Store!Next]_spans, NEW th \in Thread, BehindSettled(th), Busy(th),
         handler'[th].batch = handler[th].batch,
         handler[th].rejected \subseteq handler'[th].rejected,
         \A i \in DOMAIN Versions[handler[th].batch] :
           i < handler'[th].at => \/ i < handler[th].at
                                  \/ Settled(spans', Versions[handler[th].batch][i],
                                             handler'[th].rejected)
  PROVE  BehindSettled(th)'
<1>1. PICK b \in Batch : b = handler[th].batch
  BY JobFacts DEF Job
<1>2. PICK all : all = handler'[th].rejected
  OBVIOUS
<1>3. ASSUME NEW i \in DOMAIN Versions[b], i < handler'[th].at
      PROVE  Settled(spans', Versions[b][i], all)
  <2>1. Versions[b][i].span \in Span
    BY <1>3, VersionFacts
  <2>2. CASE i < handler[th].at
    <3>1. Settled(spans, Versions[b][i], handler[th].rejected)
      BY <1>1, <1>3, <2>2 DEF BehindSettled
    <3> QED
      BY <1>2, <2>1, <3>1, SettledStays
  <2>3. CASE ~(i < handler[th].at)
    BY <1>1, <1>2, <1>3, <2>3
  <2> QED
    BY <2>2, <2>3
<1> QED
  BY <1>1, <1>2, <1>3 DEF BehindSettled

LEMMA OthersKept ==
  ASSUME TypeOK, KeptInv, [Store!Next]_spans, NEW th \in Thread,
         handler'[th] = handler[th]
  PROVE  RowHolds(th)' /\ BehindSettled(th)'
<1>1. RowHolds(th)'
  BY OtherRow DEF KeptInv, RowHolds
<1>2. CASE Busy(th)
  <2>1. BehindSettled(th)
    BY DEF KeptInv
  <2>2. /\ handler'[th].batch = handler[th].batch
        /\ handler'[th].at = handler[th].at
        /\ handler[th].rejected \subseteq handler'[th].rejected
    OBVIOUS
  <2>3. \A i \in DOMAIN Versions[handler[th].batch] :
          i < handler'[th].at => \/ i < handler[th].at
                                 \/ Settled(spans', Versions[handler[th].batch][i],
                                            handler'[th].rejected)
    BY <2>2
  <2> QED
    BY <1>1, <1>2, <2>1, <2>2, <2>3, BehindStays
<1>3. CASE ~Busy(th)
  BY <1>1, <1>3 DEF BehindSettled, Busy
<1> QED
  BY <1>2, <1>3

LEMMA AckedStays ==
  ASSUME TypeOK, AckedSettled, [Store!Next]_spans, acked' = acked
  PROVE  AckedSettled'
<1>1. ASSUME NEW b \in Batch, acked[b] # Absent, NEW i \in DOMAIN Versions[b]
      PROVE  Settled(spans', Versions[b][i], acked[b])
  <2>1. Versions[b][i].span \in Span
    BY VersionFacts
  <2>2. Settled(spans, Versions[b][i], acked[b])
    BY <1>1 DEF AckedSettled
  <2> QED
    BY <2>1, <2>2, SettledStays
<1> QED
  BY <1>1 DEF AckedSettled

(* A thread goes on to the next version when this one is settled. *)
LEMMA AdvanceKeeps ==
  ASSUME TypeOK, KeptInv, [Store!Next]_spans, acked' = acked,
         NEW th \in Thread, Busy(th), ~Finished(th),
         NEW refused \in SUBSET Span, Advance(th, refused),
         Settled(spans', Current(th), handler[th].rejected \cup refused)
  PROVE  KeptInv'
<1>1. /\ handler'[th].batch = handler[th].batch
      /\ handler'[th].at = handler[th].at + 1
      /\ handler'[th].row = Absent
      /\ handler'[th].rejected = handler[th].rejected \cup refused
      /\ \A t \in Thread \ {th} : handler'[t] = handler[t]
  BY AdvanceFacts
<1>2. RowHolds(th)'
  BY <1>1 DEF RowHolds, Pending
<1>3. BehindSettled(th)'
  <2>1. ASSUME NEW i \in DOMAIN Versions[handler[th].batch], i < handler[th].at + 1,
               ~(i < handler[th].at)
        PROVE  Versions[handler[th].batch][i] = Current(th)
    <3>1. handler[th].at \in Nat /\ i \in Nat
      <4>1. Versions[handler[th].batch] \in Seq([span: Span, ended: BOOLEAN])
        BY JobFacts
      <4>2. handler[th].at \in Nat
        BY JobFacts DEF Job
      <4> QED
        BY <4>1, <4>2
    <3>2. i = handler[th].at
      BY <2>1, <3>1
    <3> QED
      BY <3>2 DEF Current
  <2>2. \A i \in DOMAIN Versions[handler[th].batch] :
          i < handler'[th].at => \/ i < handler[th].at
                                 \/ Settled(spans', Versions[handler[th].batch][i],
                                            handler'[th].rejected)
    BY <1>1, <2>1
  <2> QED
    BY <1>1, <2>2, BehindStays DEF KeptInv
<1>4. AckedSettled'
  BY AckedStays DEF KeptInv
<1> QED
  BY <1>1, <1>2, <1>3, <1>4, OthersKept DEF KeptInv

LEMMA NextKept == TypeOK /\ RowsInv /\ KeptInv /\ [Next]_vars => KeptInv'
<1> SUFFICES ASSUME TypeOK, RowsInv, KeptInv, [Next]_vars PROVE KeptInv'
  OBVIOUS
<1>0. [Store!Next]_spans
  BY NextIsStoreStep
<1>1. CASE UNCHANGED vars
  <2>1. \A th \in Thread : handler'[th] = handler[th]
    BY <1>1 DEF vars
  <2>2. AckedSettled'
    BY <1>0, <1>1, AckedStays DEF vars, KeptInv
  <2> QED
    BY <1>0, <2>1, <2>2, OthersKept DEF KeptInv
<1>2. ASSUME NEW th \in Thread, NEW b \in Batch, Export(th, b) PROVE KeptInv'
  <2> DEFINE job == [batch |-> b, at |-> 1, row |-> Absent, rejected |-> {}]
  <2>1. /\ handler' = [handler EXCEPT ![th] = job]
        /\ job.row = Absent /\ job.at = 1 /\ job.batch = b
    BY <1>2 DEF Export
  <2> HIDE DEF job
  <2>2. handler'[th] = job /\ \A t \in Thread \ {th} : handler'[t] = handler[t]
    BY <2>1 DEF TypeOK
  <2>3. RowHolds(th)'
    BY <2>1, <2>2 DEF RowHolds, Pending
  <2>4. BehindSettled(th)'
    <3>1. \A i \in DOMAIN Versions[b] : ~(i < 1)
      BY ReceiverAssumption
    <3> QED
      BY <2>1, <2>2, <3>1 DEF BehindSettled
  <2>5. AckedSettled'
    BY <1>0, <1>2, AckedStays DEF Export, KeptInv
  <2> QED
    BY <1>0, <2>2, <2>3, <2>4, <2>5, OthersKept DEF KeptInv
<1>3. ASSUME NEW th \in Thread, Skip(th) PROVE KeptInv'
  <2>1. Settled(spans', Current(th), handler[th].rejected \cup {})
    BY <1>3 DEF Skip, Settled
  <2> QED
    BY <1>0, <1>3, <2>1, AdvanceKeeps DEF Skip, At
<1>4. ASSUME NEW th \in Thread, Reject(th) PROVE KeptInv'
  <2>1. {Current(th).span} \in SUBSET Span
    BY <1>4, JobFacts DEF Reject, At
  <2>2. Settled(spans', Current(th), handler[th].rejected \cup {Current(th).span})
    BY DEF Settled
  <2> QED
    BY <1>0, <1>4, <2>1, <2>2, AdvanceKeeps DEF Reject, At
<1>5. ASSUME NEW th \in Thread, Execute(th) PROVE KeptInv'
  <2>1. /\ handler'[th].batch = handler[th].batch
        /\ handler'[th].at = handler[th].at
        /\ handler'[th].row = Written(spans[Current(th).span], Current(th).ended)
        /\ handler'[th].rejected = handler[th].rejected
        /\ \A t \in Thread \ {th} : handler'[t] = handler[t]
    BY <1>5, ExecuteFacts
  <2>2. RowHolds(th)'
    <3>1. Current(th)' = Current(th)
      BY <2>1 DEF Current
    <3>2. Current(th).ended =>
            Written(spans[Current(th).span], Current(th).ended).ended
      <4>1. Busy(th) /\ ~Finished(th)
        BY <1>5 DEF Execute, At
      <4>2. PICK old : old = spans[Current(th).span]
        OBVIOUS
      <4>3. old \in Store!SpanRow \cup {Absent}
        BY <4>1, <4>2, JobFacts DEF TypeOK
      <4>4. ASSUME Current(th).ended PROVE Written(old, Current(th).ended).ended
        <5>1. CASE old = Absent
          BY <4>4, <5>1 DEF Written
        <5>2. CASE old # Absent /\ ~old.ended
          <6> DEFINE number == spans_seq + 2
          <6>1. Written(old, Current(th).ended)
                  = [old EXCEPT !.ended = TRUE, !.seq = number]
            BY <4>4, <5>2 DEF Written
          <6> HIDE DEF number
          <6> QED
            BY <4>3, <5>2, <6>1 DEF Store!SpanRow
        <5>3. CASE old # Absent /\ old.ended
          BY <5>3 DEF Written
        <5> QED
          BY <5>1, <5>2, <5>3
      <4> QED
        BY <4>2, <4>4
    <3> QED
      BY <2>1, <3>1, <3>2 DEF RowHolds, Row
  <2>3. BehindSettled(th)'
    BY <1>0, <1>5, <2>1, BehindStays DEF Execute, At, KeptInv
  <2>4. AckedSettled'
    BY <1>0, <1>5, AckedStays DEF Execute, KeptInv
  <2> QED
    BY <1>0, <2>1, <2>2, <2>3, <2>4, OthersKept DEF KeptInv
<1>6. ASSUME NEW th \in Thread, Commit(th) PROVE KeptInv'
  <2>1. Pending(th) /\ Busy(th) /\ ~Finished(th)
    BY <1>6, JobFacts DEF Commit, Pending
  <2>2. spans'[Current(th).span] = Row(th)
    BY <1>6, <2>1, CommitRowFacts DEF Commit, Target
  <2>3. Settled(spans', Current(th), handler[th].rejected \cup {})
    BY <2>1, <2>2 DEF KeptInv, RowHolds, Settled, Holds, Pending, Row
  <2> QED
    BY <1>0, <1>6, <2>1, <2>3, AdvanceKeeps DEF Commit
<1>7. ASSUME NEW th \in Thread, Fail(th) \/ Reply(th),
             AckedSettled' PROVE KeptInv'
  <2>1. handler'[th] = Absent /\ \A t \in Thread \ {th} : handler'[t] = handler[t]
    BY <1>7 DEF Fail, Reply, TypeOK
  <2>2. RowHolds(th)' /\ BehindSettled(th)'
    BY <2>1 DEF RowHolds, BehindSettled, Pending, Busy
  <2> QED
    BY <1>0, <1>7, <2>1, <2>2, OthersKept DEF KeptInv
<1>8. ASSUME NEW th \in Thread, Fail(th) PROVE AckedSettled'
  BY <1>0, <1>8, AckedStays DEF Fail, KeptInv
<1>9. ASSUME NEW th \in Thread, Reply(th) PROVE AckedSettled'
  <2>1. PICK b \in Batch : b = handler[th].batch
    BY <1>9, JobFacts DEF Reply, Job
  <2>2. ASSUME NEW i \in DOMAIN Versions[b]
        PROVE  Settled(spans, Versions[b][i], handler[th].rejected)
    <3>1. i < handler[th].at
      <4>1. Versions[b] \in Seq([span: Span, ended: BOOLEAN])
        BY ReceiverAssumption
      <4>2. handler[th].at > Len(Versions[b]) /\ handler[th].at \in Nat
        BY <1>9, <2>1, JobFacts DEF Reply, Finished, Job
      <4> QED
        BY <4>1, <4>2
    <3> QED
      BY <1>9, <2>1, <3>1 DEF KeptInv, BehindSettled, Reply
  <2>3. \A c \in Batch : acked'[c] = acked[c]
                         \/ (c = b /\ acked'[c] = handler[th].rejected)
    <3>1. acked \in [Batch -> (SUBSET Span) \cup {Absent}]
      BY DEF TypeOK
    <3>2. CASE acked[b] = Absent
      BY <1>9, <2>1, <3>1, <3>2 DEF Reply
    <3>3. CASE acked[b] # Absent
      BY <1>9, <2>1, <3>3 DEF Reply
    <3> QED
      BY <3>2, <3>3
  <2>4. spans' = spans
    BY <1>9 DEF Reply
  <2> QED
    BY <2>2, <2>3, <2>4 DEF AckedSettled, KeptInv
<1> QED
  BY <1>1, <1>2, <1>3, <1>4, <1>5, <1>6, <1>7, <1>8, <1>9 DEF Next, Work

LEMMA SpecKept == Spec => []KeptInv
BY InitKept, NextKept, SpecTypes, SpecRows, PTL DEF Spec

(* A sender that got a success may forget its batch (ADR-0003): what it sent   *)
(* is in the table, dropped by the blocklist or counted as rejected, and no    *)
(* later version, retry or failure takes that back.                            *)
THEOREM SuccessMeansKept == Spec => []AckMeansKept
<1>1. KeptInv => AckMeansKept
  BY DEF KeptInv, AckedSettled, AckMeansKept, Settled, Holds
<1> QED
  BY <1>1, SpecKept, PTL
================================================================================
