--------------------------- MODULE LineageSync_proofs ---------------------------
(****************************************************************************)
(* Theorems about the interactions writer and the lineage processor, for any  *)
(* traces, interactions and plans, any batch size, any number of transactions *)
(* and crashes, and every algorithm; the last theorem is of the sidecar's.    *)
(****************************************************************************)
EXTENDS LineageSync, NumberFacts

--------------------------------------------------------------------------------
(* One whole-trace derivation, for every set of rows: the types of what it      *)
(* returns, that a trace with a gap stops somewhere, and that a derived row     *)
(* names the leg's own producer.                                               *)

Interactions == [Interaction -> Optional(InteractionRow)]
Legs == [Key -> Optional(LegRow)]

(* Among the gaps of a trace one comes first in causal order. *)
LEMMA FirstGap ==
  ASSUME NEW legs \in Legs, NEW G \in SUBSET Key, G # {},
         \A k \in G : legs[k] # Absent
  PROVE  \E g \in G : \A h \in G : ~Before(h, g, legs)
<1> DEFINE At == {legs[k].at : k \in G}
<1>1. \A k \in G : legs[k].at \in Nat /\ legs[k].seq \in Nat
  BY DEF Legs, LegRow, Optional
<1>2. PICK a \in At : \A b \in At : a <= b
  <2>1. At \in SUBSET Nat /\ At # {}
    BY <1>1
  <2> QED
    BY <2>1, SmallestOf
<1> DEFINE Tied == {k \in G : legs[k].at = a}
           Seqs == {legs[k].seq : k \in Tied}
<1>3. PICK s \in Seqs : \A r \in Seqs : s <= r
  <2>1. Seqs \in SUBSET Nat /\ Seqs # {}
    BY <1>1, <1>2
  <2> QED
    BY <2>1, SmallestOf
<1>4. PICK g \in Tied : legs[g].seq = s
  BY <1>3
<1>5. \A h \in G : ~Before(h, g, legs)
  <2> SUFFICES ASSUME NEW h \in G, Before(h, g, legs) PROVE FALSE
    OBVIOUS
  <2>1. legs[h].at \in Nat /\ legs[h].seq \in Nat /\ a \in Nat /\ s \in Nat
    BY <1>1, <1>2, <1>3
  <2>2. a <= legs[h].at
    BY <1>2
  <2>3. legs[h].at = a /\ legs[h].seq < s
    BY <2>1, <2>2, <1>4 DEF Before
  <2>4. s <= legs[h].seq
    BY <2>3, <1>3
  <2> QED
    BY <2>1, <2>3, <2>4
<1> QED
  BY <1>4, <1>5

(* What load_trace returns is a set of legs that have rows. *)
LEMMA LoadTraceRows ==
  ASSUME NEW t, NEW ix \in Interactions, NEW legs \in Legs
  PROVE  /\ LoadTrace(t, ix, legs) \in SUBSET Key
         /\ \A k \in LoadTrace(t, ix, legs) :
              /\ TraceOf[k[1]] = t
              /\ legs[k] # Absent /\ legs[k] \in LegRow
              /\ ix[k[1]] # Absent /\ ix[k[1]] \in InteractionRow
BY DEF LoadTrace, KeysOf, Key, Legs, Interactions, Optional

(* The row derived for a leg of the trace has the type of a stored one, and so *)
(* is a row.                                                                   *)
LEMMA DeriveRowType ==
  ASSUME NEW t, NEW ix \in Interactions, NEW legs \in Legs, NEW known,
         NEW k \in LoadTrace(t, ix, legs)
  PROVE  /\ DeriveRow(k, LoadTrace(t, ix, legs), ix, legs, known) \in MetadataRow
         /\ DeriveRow(k, LoadTrace(t, ix, legs), ix, legs, known) # Absent
<1> DEFINE L == LoadTrace(t, ix, legs)
<1>1. ASSUME NEW j \in L PROVE Fact(j, ix, legs, known) \in FactType
  BY LoadTraceRows
  DEF Fact, FactType, LegRow, InteractionRow, Optional
<1>2. legs[k].payload_hash \in Optional(Payload) /\ legs[k].seq \in Nat
  BY LoadTraceRows DEF LegRow, Optional
<1>3. {Fact(j, ix, legs, known) : j \in {i \in L : i = k \/ Before(i, k, legs)}}
        \in SUBSET FactType
  BY <1>1
<1>4. DeriveRow(k, L, ix, legs, known) \in MetadataRow
  BY <1>2, <1>3 DEF DeriveRow, MetadataRow
<1> QED
  BY <1>4, AbsentAssumption

(* A derived set of rows has the type of the stored one. *)
LEMMA DeriveRowsType ==
  ASSUME NEW t, NEW ix \in Interactions, NEW legs \in Legs, NEW known
  PROVE  DeriveRows(t, ix, legs, known) \in [Key -> Optional(MetadataRow)]
<1> DEFINE L == LoadTrace(t, ix, legs)
<1>1. ASSUME NEW k \in L PROVE DeriveRow(k, L, ix, legs, known) \in MetadataRow
  BY DeriveRowType
<1>2. Covered(L, ix, legs, known) \subseteq L
  BY DEF Covered, Prefix
<1> QED
  BY <1>1, <1>2, LoadTraceRows DEF DeriveRows, Optional

(* A trace with a gap has a stop: a gap inside its own causal prefix. *)
LEMMA StopExists ==
  ASSUME NEW t, NEW ix \in Interactions, NEW legs \in Legs,
         Gaps(LoadTrace(t, ix, legs), legs) # {}
  PROVE  LET L == LoadTrace(t, ix, legs) IN
         Gaps(L, legs) \cap Prefix(L, legs) # {}
<1> DEFINE L == LoadTrace(t, ix, legs)
           G == Gaps(L, legs)
<1>1. G \in SUBSET Key /\ \A k \in G : legs[k] # Absent
  BY LoadTraceRows DEF Gaps
<1>2. PICK g \in G : \A h \in G : ~Before(h, g, legs)
  <2> HIDE DEF G
  <2> QED
    BY <1>1, FirstGap DEF G
<1>3. g \in Prefix(L, legs)
  BY <1>2 DEF Prefix, Gaps
<1> QED
  BY <1>2, <1>3

(* A derived coverage claim has the type of a stored one. *)
LEMMA DeriveStatusType ==
  ASSUME NEW t, NEW ix \in Interactions, NEW legs \in Legs
  PROVE  DeriveStatus(t, ix, legs) \in Optional(StatusRow)
<1> DEFINE L == LoadTrace(t, ix, legs)
           Stops == Gaps(L, legs) \cap Prefix(L, legs)
           stop == CHOOSE k \in Stops : TRUE
<1>1. ASSUME Gaps(L, legs) # {} PROVE legs[stop].seq \in Nat
  <2>1. stop \in Stops
    BY <1>1, StopExists
  <2>2. stop \in L
    BY <2>1 DEF Gaps
  <2> QED
    BY <2>2, LoadTraceRows DEF LegRow
<1>2. Prefix(L, legs) \in SUBSET Key
  BY LoadTraceRows DEF Prefix
<1>3. ASSUME Gaps(L, legs) # {}
      PROVE  [status |-> "partial", stopped_at_seq |-> legs[stop].seq,
              prefix_leg_keys |-> Prefix(L, legs)] \in StatusRow
  BY <1>1, <1>2, <1>3 DEF StatusRow, Optional
<1>4. [status |-> "complete", stopped_at_seq |-> Absent, prefix_leg_keys |-> {}]
        \in StatusRow
  BY DEF StatusRow, Optional
<1> QED
  BY <1>3, <1>4 DEF DeriveStatus, Optional

(* A claim that stops nowhere is made of a trace without gaps, and a partial   *)
(* one stores the trace's causal prefix.                                       *)
LEMMA DeriveStatusMeaning ==
  ASSUME NEW t, NEW ix \in Interactions, NEW legs \in Legs,
         LoadTrace(t, ix, legs) # {}
  PROVE  LET L == LoadTrace(t, ix, legs)
             s == DeriveStatus(t, ix, legs)
         IN  /\ s # Absent
             /\ Gaps(L, legs) # {} => /\ s.stopped_at_seq # Absent
                                      /\ s.prefix_leg_keys = Prefix(L, legs)
             /\ Gaps(L, legs) = {} => s.stopped_at_seq = Absent
<1> DEFINE L == LoadTrace(t, ix, legs)
           Stops == Gaps(L, legs) \cap Prefix(L, legs)
           stop == CHOOSE k \in Stops : TRUE
<1>1. DeriveStatus(t, ix, legs) # Absent
  <2>1. ASSUME Gaps(L, legs) # {}
        PROVE  [status |-> "partial", stopped_at_seq |-> legs[stop].seq,
                prefix_leg_keys |-> Prefix(L, legs)] # Absent
    <3>1. DeriveStatus(t, ix, legs)
            = [status |-> "partial", stopped_at_seq |-> legs[stop].seq,
               prefix_leg_keys |-> Prefix(L, legs)]
      BY <2>1 DEF DeriveStatus
    <3>2. legs[stop].seq \in Nat
      BY <2>1, StopExists, LoadTraceRows DEF LegRow, Gaps
    <3>3. Prefix(L, legs) \in SUBSET Key
      BY LoadTraceRows DEF Prefix
    <3> QED
      BY <3>2, <3>3, AbsentAssumption DEF StatusRow, Optional
  <2>2. [status |-> "complete", stopped_at_seq |-> Absent,
         prefix_leg_keys |-> {}] # Absent
    BY AbsentAssumption DEF StatusRow, Optional
  <2> QED
    BY <2>1, <2>2 DEF DeriveStatus
<1>2. ASSUME Gaps(L, legs) # {}
      PROVE  /\ DeriveStatus(t, ix, legs).stopped_at_seq # Absent
             /\ DeriveStatus(t, ix, legs).prefix_leg_keys = Prefix(L, legs)
  <2>1. DeriveStatus(t, ix, legs)
          = [status |-> "partial", stopped_at_seq |-> legs[stop].seq,
             prefix_leg_keys |-> Prefix(L, legs)]
    BY <1>2 DEF DeriveStatus
  <2>2. legs[stop].seq \in Nat
    BY <1>2, StopExists, LoadTraceRows DEF LegRow, Gaps
  <2> QED
    BY <2>1, <2>2, AbsentAssumption
<1>3. ASSUME Gaps(L, legs) = {}
      PROVE  DeriveStatus(t, ix, legs).stopped_at_seq = Absent
  BY <1>3 DEF DeriveStatus
<1> QED
  BY <1>1, <1>2, <1>3

(* A derived row names the producer of its leg, when the producer is known.    *)
LEMMA NamesProducer ==
  ASSUME NEW L, NEW k \in L, NEW ix, NEW legs, NEW known,
         Producer(k, ix) \in known
  PROVE  Producer(k, ix) \in Names(DeriveRow(k, L, ix, legs, known))
<1> DEFINE f == Fact(k, ix, legs, known)
<1>1. f \in DeriveRow(k, L, ix, legs, known).inputs
  BY DEF DeriveRow
<1>2. f.known /\ f.key = k /\ f.caller = ix[k[1]].caller
        /\ f.callee = ix[k[1]].callee
  BY DEF Fact
<1> QED
  BY <1>1, <1>2 DEF Names, Producer

(* A trace of which the legs and their interactions are the same reads the     *)
(* same.                                                                       *)
LEMMA SameReading ==
  ASSUME NEW t, NEW ix \in Interactions, NEW legs \in Legs, NEW ix2, NEW legs2,
         \A k \in KeysOf(t) :
           /\ legs2[k] = legs[k]
           /\ legs[k] # Absent => ix2[k[1]] = ix[k[1]]
  PROVE  LET L == LoadTrace(t, ix, legs) IN
         /\ LoadTrace(t, ix2, legs2) = L
         /\ \A k \in L : Producer(k, ix2) = Producer(k, ix)
         /\ \A known : DeriveRows(t, ix2, legs2, known) = DeriveRows(t, ix, legs, known)
         /\ DeriveStatus(t, ix2, legs2) = DeriveStatus(t, ix, legs)
<1> DEFINE L == LoadTrace(t, ix, legs)
<1>1. LoadTrace(t, ix2, legs2) = L
  BY DEF LoadTrace
<1>2. \A k \in L : legs2[k] = legs[k] /\ ix2[k[1]] = ix[k[1]]
  BY DEF LoadTrace
<1> HIDE DEF L
<1>3. \A k \in L : Producer(k, ix2) = Producer(k, ix)
  BY <1>2 DEF Producer
<1>4. \A j, k \in L : Before(j, k, legs2) <=> Before(j, k, legs)
  BY <1>2 DEF Before
<1>5. Gaps(L, legs2) = Gaps(L, legs)
  BY <1>2 DEF Gaps
<1>6. Prefix(L, legs2) = Prefix(L, legs)
  BY <1>4, <1>5 DEF Prefix, Gaps
<1>7. ASSUME NEW known PROVE DeriveRows(t, ix2, legs2, known) = DeriveRows(t, ix, legs, known)
  <2>1. Covered(L, ix2, legs2, known) = Covered(L, ix, legs, known)
    BY <1>2, <1>3, <1>6 DEF Covered, Prefix
  <2>2. \A j \in L : Fact(j, ix2, legs2, known) = Fact(j, ix, legs, known)
    BY <1>2, <1>3 DEF Fact
  <2>3. ASSUME NEW k \in L
        PROVE  DeriveRow(k, L, ix2, legs2, known) = DeriveRow(k, L, ix, legs, known)
    <3>1. {i \in L : i = k \/ Before(i, k, legs2)} = {i \in L : i = k \/ Before(i, k, legs)}
      BY <1>4
    <3>2. {Fact(j, ix2, legs2, known) : j \in {i \in L : i = k \/ Before(i, k, legs)}}
            = {Fact(j, ix, legs, known) : j \in {i \in L : i = k \/ Before(i, k, legs)}}
      BY <2>2
    <3> QED
      BY <1>2, <3>1, <3>2 DEF DeriveRow
  <2>4. \A k \in Covered(L, ix, legs, known) : k \in L
    BY DEF Covered, Prefix
  <2> QED
    BY <1>1, <2>1, <2>3, <2>4 DEF DeriveRows, L
<1>8. \A k \in Gaps(L, legs) : legs2[k] = legs[k]
  BY <1>2 DEF Gaps
<1>9. DeriveStatus(t, ix2, legs2) = DeriveStatus(t, ix, legs)
  <2> DEFINE Stops == Gaps(L, legs) \cap Prefix(L, legs)
             stop == CHOOSE k \in Stops : TRUE
  <2>1. CASE Gaps(L, legs) = {}
    BY <1>1, <1>5, <1>6, <2>1 DEF DeriveStatus, L
  <2>3. CASE Gaps(L, legs) # {}
    <3>1. Stops # {}
      BY <2>3, StopExists DEF L
    <3>2. legs2[stop] = legs[stop]
      BY <1>8, <3>1
    <3> QED
      BY <1>1, <1>5, <1>6, <2>3, <3>2 DEF DeriveStatus, L
  <2> QED
    BY <2>1, <2>3
<1> QED
  BY <1>1, <1>3, <1>7, <1>9 DEF L

(* Of two sets of known entities that agree on the producers of the legs that  *)
(* may get a row, a derivation makes the same.                                 *)
LEMMA SameKnown ==
  ASSUME NEW t, NEW ix \in Interactions, NEW legs \in Legs, NEW K, NEW known,
         \A k \in Prefix(LoadTrace(t, ix, legs), legs) :
           legs[k].payload_hash # Absent =>
             (Producer(k, ix) \in K <=> Producer(k, ix) \in known)
  PROVE  DeriveRows(t, ix, legs, K) = DeriveRows(t, ix, legs, known)
<1> DEFINE L == LoadTrace(t, ix, legs)
<1>1. \A k \in L : legs[k].at \in Nat /\ legs[k].seq \in Nat
  BY LoadTraceRows DEF LegRow
<1> HIDE DEF L
<1>2. \A k \in Prefix(L, legs) : legs[k].payload_hash # Absent =>
             (Producer(k, ix) \in K <=> Producer(k, ix) \in known)
  BY DEF L
<1>3. Covered(L, ix, legs, K) = Covered(L, ix, legs, known)
  BY <1>2 DEF Covered
<1>4. ASSUME NEW k \in Covered(L, ix, legs, K)
      PROVE  DeriveRow(k, L, ix, legs, K) = DeriveRow(k, L, ix, legs, known)
  <2> DEFINE upTo == {i \in L : i = k \/ Before(i, k, legs)}
  <2>1. /\ k \in L /\ k \in Prefix(L, legs) /\ legs[k].payload_hash # Absent
        /\ \A g \in Gaps(L, legs) : ~Before(g, k, legs)
    BY DEF Covered, Prefix
  <2>2. ASSUME NEW j \in upTo PROVE Fact(j, ix, legs, K) = Fact(j, ix, legs, known)
    <3>1. legs[j].payload_hash # Absent
      BY <2>1 DEF Gaps
    <3>2. ASSUME NEW g \in Gaps(L, legs) PROVE ~Before(g, j, legs)
      <4>1. g \in L /\ ~Before(g, k, legs)
        BY <2>1 DEF Gaps
      <4> QED
        BY <1>1, <2>1, <4>1 DEF Before
    <3>3. j \in Prefix(L, legs)
      BY <3>2 DEF Prefix
    <3>4. (Producer(j, ix) \in K) = (Producer(j, ix) \in known)
      BY <1>2, <3>1, <3>3
    <3> QED
      BY <3>4 DEF Fact
  <2>3. {Fact(j, ix, legs, K) : j \in upTo} = {Fact(j, ix, legs, known) : j \in upTo}
    BY <2>2
  <2> QED
    BY <2>3 DEF DeriveRow
<1> QED
  BY <1>3, <1>4 DEF DeriveRows, L

--------------------------------------------------------------------------------
(* Type correctness.                                                           *)

LEMMA PlanRows ==
  ASSUME NEW p \in Plans
  PROVE  /\ p.trace \in Trace
         /\ p.interactions \in Interactions
         /\ p.legs \in Legs
BY SyncAssumption DEF PlanType, Interactions, Legs

(* Every arm offers traces with numbers. *)
LEMMA WorkType ==
  ASSUME TypeOK
  PROVE  Work(arm) \subseteq Item
<1>1. ASSUME NEW k \in Key, Visible(k)
      PROVE  [trace |-> TraceOf[k[1]], rank |-> interaction_legs[k].seq] \in Item
  BY <1>1, TraceOfAssumption DEF TypeOK, Visible, Item, Key, LegRow, Optional
<1>2. NewLegs \subseteq Item
  BY <1>1 DEF NewLegs
<1>3. QueuedTraces \subseteq Item
  BY DEF QueuedTraces, Item, TypeOK
<1>4. StaleTraces \subseteq Item
  BY <1>1 DEF StaleTraces, StaleLegs
<1> QED
  BY <1>2, <1>3, <1>4 DEF Work, TypeOK

LEMMA InitType == Init => TypeOK
<1> SUFFICES ASSUME Init PROVE TypeOK
  OBVIOUS
<1> QED
  BY DEF Init, TypeOK, NoRows, NoPlan, NoItem, Optional

LEMMA WriterType ==
  ASSUME TypeOK, [WriterStep]_vars
  PROVE  TypeOK'
<1>1. ASSUME NEW p \in Plans, Begin(p) PROVE TypeOK'
  <2>1. lock' \in [Trace -> {"free", "writer", "lineage"}]
    BY <1>1 DEF TypeOK, Begin
  <2>2. todo' \subseteq {k \in Key : plan'.legs[k] # Absent}
    BY <1>1 DEF Begin
  <2>3. wpc' = "interactions" /\ plan' \in Plans
    BY <1>1 DEF Begin
  <2>4. txs' \in Nat
    BY <1>1 DEF TypeOK, Begin
  <2>5. queued' \in BOOLEAN
    BY <1>1, Zenon DEF Begin
  <2> QED
    BY <1>1, <2>1, <2>2, <2>3, <2>4, <2>5 DEF TypeOK, Begin, tables, processor
<1>2. ASSUME WriteInteractions PROVE TypeOK'
  <2>1. plan \in Plans
    BY <1>2 DEF TypeOK, WriteInteractions
  <2>2. tx_interactions' \in [Interaction -> Optional(InteractionRow)]
    BY <1>2, <2>1, PlanRows DEF TypeOK, WriteInteractions, Interactions
  <2> QED
    BY <1>2, <2>1, <2>2 DEF TypeOK, WriteInteractions, tables, processor
<1>3. ASSUME NEW k \in Key, WriteLeg(k) PROVE TypeOK'
  <2>1. plan \in Plans /\ plan.legs[k] # Absent
    BY <1>3 DEF TypeOK, WriteLeg
  <2>2. plan.legs[k] \in LegRow
    BY <2>1, PlanRows DEF Legs, Optional
  <2>3. ASSUME NEW n \in Nat
        PROVE  [plan.legs[k] EXCEPT !.seq = n] \in LegRow
    BY <2>2 DEF LegRow
  <2>4. NewSeq(k) \in Nat
    BY <2>2 DEF NewSeq, LegRow, TypeOK
  <2>5. tx_legs[k] # Absent => tx_legs[k].seq \in Nat
    BY DEF TypeOK, LegRow, Optional
  <2>6. tx_legs' \in [Key -> Optional(LegRow)] /\ legs_seq' \in Nat
    BY <1>3, <2>3, <2>4, <2>5
    DEF WriteLeg, InsertLeg, UpdateLeg, TypeOK, Optional
  <2>7. queued' \in BOOLEAN
    BY <1>3, Zenon DEF WriteLeg, InsertLeg, UpdateLeg
  <2> QED
    BY <1>3, <2>1, <2>6, <2>7 DEF TypeOK, WriteLeg, tables, processor
<1>4. ASSUME DeleteUnwanted PROVE TypeOK'
  <2>1. /\ tx_legs' \in [Key -> Optional(LegRow)]
        /\ tx_interactions' \in [Interaction -> Optional(InteractionRow)]
        /\ queued' \in BOOLEAN
    BY <1>4 DEF DeleteUnwanted, TypeOK, Optional
  <2> QED
    BY <1>4, <2>1 DEF TypeOK, DeleteUnwanted, tables, processor
<1>5. ASSUME EndTx, wpc # "idle" PROVE
        /\ wpc' = "idle" /\ plan' = NoPlan /\ todo' = {} /\ queued' \in BOOLEAN
        /\ lock' \in [Trace -> {"free", "writer", "lineage"}]
  BY <1>5 DEF EndTx, TypeOK
<1>6. ASSUME Commit PROVE TypeOK'
  <2>1. plan \in Plans
    BY <1>6 DEF TypeOK, Commit
  <2>2. entities' \subseteq Entity
    <3>1. Endpoints(plan.interactions) \subseteq Entity
      BY <2>1, PlanRows DEF Endpoints, Interactions, InteractionRow, Optional
    <3> QED
      BY <1>6, <3>1 DEF Commit, EntitiesAfter, TypeOK
  <2>3. lineage_metadata' \in [Key -> Optional(MetadataRow)]
    BY <1>6 DEF Commit, TypeOK, Optional
  <2>4. dirty' \in [Trace -> Nat] /\ dirty_generation' \in Nat
    BY <1>6 DEF Commit, QueueTrace, TypeOK
  <2> QED
    BY <1>5, <1>6, <2>2, <2>3, <2>4 DEF TypeOK, Commit, processor
<1>7. ASSUME Rollback PROVE TypeOK'
  BY <1>5, <1>7 DEF TypeOK, Rollback, tables, processor
<1>8. ASSUME UNCHANGED vars PROVE TypeOK'
  BY <1>8 DEF TypeOK, vars, tables, writer, processor
<1> QED
  BY <1>1, <1>2, <1>3, <1>4, <1>6, <1>7, <1>8 DEF WriterStep, FinishTx

LEMMA NextItemType ==
  ASSUME TypeOK, NextItem
  PROVE  /\ batch' \in SUBSET Item /\ item' = NoItem /\ more' \in BOOLEAN
         /\ phase' \in {"fetch", "lock"} /\ arm' \in {"cursor", "dirty", "stale"}
<1>1. batch' \in SUBSET Item /\ item' = NoItem
  BY DEF TypeOK, NextItem
<1>2. more' \in BOOLEAN /\ phase' \in {"fetch", "lock"}
  BY DEF TypeOK, NextItem
<1>3. arm' \in {"cursor", "dirty", "stale"}
  BY DEF TypeOK, NextItem, NextArm
<1> QED
  BY <1>1, <1>2, <1>3

LEMMA ProcessorType ==
  ASSUME TypeOK, Drain \/ Crash
  PROVE  TypeOK'
<1>1. ASSUME Fetch PROVE TypeOK'
  <2>1. PICK chosen \in SUBSET Work(arm) :
          /\ batch' = chosen
          /\ more' = (Cardinality(chosen) = BatchSize)
          /\ IF chosen = {} THEN arm' = NextArm(arm) /\ phase' = "fetch"
                            ELSE arm' = arm /\ phase' = "lock"
    BY <1>1, Zenon DEF Fetch
  <2>2. batch' \in SUBSET Item
    BY <2>1, WorkType
  <2>3. more' \in BOOLEAN
    BY <2>1, Zenon
  <2>4. arm' \in {"cursor", "dirty", "stale"} /\ phase' \in {"fetch", "lock"}
    BY <2>1 DEF TypeOK, NextArm
  <2> QED
    BY <1>1, <2>2, <2>3, <2>4 DEF TypeOK, Fetch, tables, writer
<1>2. ASSUME LockTrace PROVE TypeOK'
  <2>1. PICK i \in batch : lock' = [lock EXCEPT ![i.trace] = "lineage"] /\ item' = i
    BY <1>2 DEF LockTrace
  <2>2. lock' \in [Trace -> {"free", "writer", "lineage"}] /\ item' \in Item
    BY <2>1 DEF TypeOK, Item
  <2> QED
    BY <1>2, <2>2 DEF TypeOK, LockTrace, tables, writer
<1>3. ASSUME Load PROVE TypeOK'
  <2>1. interactions \in Interactions /\ interaction_legs \in Legs
    BY DEF TypeOK, Interactions, Legs
  <2>2. derived' \in [Key -> Optional(MetadataRow)]
    BY <1>3, <2>1, DeriveRowsType DEF Load
  <2>3. claim' \in Optional(StatusRow)
    BY <1>3, <2>1, DeriveStatusType DEF Load
  <2> QED
    BY <1>3, <2>2, <2>3 DEF TypeOK, Load, tables, writer
<1>4. ASSUME Store PROVE TypeOK'
  <2>1. lineage_metadata' \in [Key -> Optional(MetadataRow)]
    <3>1. ASSUME NEW k \in Key PROVE StoredRow(k) \in Optional(MetadataRow)
      BY DEF StoredRow, TypeOK, Optional
    <3> QED
      BY <1>4, <3>1 DEF Store, TypeOK
  <2>2. lineage_trace_status' \in [Trace -> Optional(StatusRow)]
    BY <1>4 DEF Store, TypeOK
  <2>3. cursor' \in Nat
    BY <1>4 DEF Store, TypeOK, Item, NoItem
  <2>4. lock' \in [Trace -> {"free", "writer", "lineage"}]
    BY <1>4 DEF Store, TypeOK
  <2>5. derived' \in [Key -> Optional(MetadataRow)] /\ claim' \in Optional(StatusRow)
    BY <1>4 DEF Store, NoRows, Optional
  <2>6. /\ batch' \in SUBSET Item /\ more' \in BOOLEAN
        /\ item' \in Item \cup {NoItem}
        /\ phase' \in {"fetch", "lock", "load", "store", "unqueue"}
        /\ arm' \in {"cursor", "dirty", "stale"}
    <3>1. CASE arm = "dirty"
      BY <1>4, <3>1 DEF Store, TypeOK
    <3>2. CASE arm # "dirty"
      BY <1>4, <3>2, NextItemType DEF Store
    <3> QED
      BY <3>1, <3>2
  <2> QED
    BY <1>4, <2>1, <2>2, <2>3, <2>4, <2>5, <2>6 DEF TypeOK, Store, writer
<1>5. ASSUME Unqueue PROVE TypeOK'
  <2>1. dirty' \in [Trace -> Nat]
    BY <1>5 DEF Unqueue, TypeOK
  <2>2. /\ batch' \in SUBSET Item /\ item' = NoItem /\ more' \in BOOLEAN
        /\ phase' \in {"fetch", "lock"} /\ arm' \in {"cursor", "dirty", "stale"}
    BY <1>5, NextItemType DEF Unqueue
  <2> QED
    BY <1>5, <2>1, <2>2 DEF TypeOK, Unqueue, writer
<1>6. ASSUME Crash PROVE TypeOK'
  <2>1. lock' \in [Trace -> {"free", "writer", "lineage"}]
    BY <1>6 DEF TypeOK, Crash
  <2>2. /\ phase' = "fetch" /\ arm' = "cursor" /\ batch' = {} /\ item' = NoItem
        /\ derived' \in [Key -> Optional(MetadataRow)]
        /\ claim' \in Optional(StatusRow) /\ crashes' \in Nat
    BY <1>6 DEF TypeOK, Crash, NoRows, Optional
  <2>3. more' \in BOOLEAN
    BY <1>6, Zenon DEF Crash
  <2> QED
    BY <1>6, <2>1, <2>2, <2>3 DEF TypeOK, Crash, tables, writer
<1> QED
  BY <1>1, <1>2, <1>3, <1>4, <1>5, <1>6 DEF Drain

LEMMA NextType ==
  ASSUME TypeOK, [Next]_vars
  PROVE  TypeOK'
<1>1. ASSUME NEW e \in LateEntity, EntityLands(e) PROVE TypeOK'
  BY <1>1, SyncAssumption DEF TypeOK, EntityLands, writer, processor
<1> QED
  BY <1>1, WriterType, ProcessorType DEF Next

(* The type invariant holds in every reachable state. *)
THEOREM TypeCorrect == Spec => []TypeOK
<1>1. Init => TypeOK
  BY InitType
<1>2. TypeOK /\ [Next]_vars => TypeOK'
  BY NextType
<1> QED
  BY <1>1, <1>2, PTL DEF Spec

--------------------------------------------------------------------------------
(* The sweep reports nothing that a re-derivation would not change.            *)

LEMMA CurrentIsQuiet ==
  ASSUME TypeOK, NEW t \in Trace, Current(t)
  PROVE  StaleLegs(t) = {}
<1> DEFINE L == LoadTrace(t, interactions, interaction_legs)
           rows == DeriveRows(t, interactions, interaction_legs, entities)
<1> SUFFICES ASSUME NEW k \in StaleLegs(t) PROVE FALSE
  OBVIOUS
<1>1. interactions \in Interactions /\ interaction_legs \in Legs
  BY DEF TypeOK, Interactions, Legs
<1>2. /\ k \in Key /\ k \in L /\ k \in KeysOf(t) /\ TraceOf[k[1]] = t
      /\ interaction_legs[k] # Absent
  BY DEF StaleLegs, Visible, LoadTrace, KeysOf
<1>3. lineage_metadata[k] = rows[k]
  BY <1>2 DEF Current
<1>4. rows[k] = IF k \in Covered(L, interactions, interaction_legs, entities)
                THEN DeriveRow(k, L, interactions, interaction_legs, entities)
                ELSE Absent
  BY <1>2 DEF DeriveRows
<1>5. CASE MissingRow(k)
  <2>1. rows[k] = Absent
    BY <1>3, <1>5 DEF MissingRow
  <2>2. k \notin Covered(L, interactions, interaction_legs, entities)
    <3> SUFFICES ASSUME k \in Covered(L, interactions, interaction_legs, entities)
                 PROVE  FALSE
      OBVIOUS
    <3>1. rows[k] = DeriveRow(k, L, interactions, interaction_legs, entities)
      BY <1>4
    <3>2. rows[k] # Absent
      BY <1>1, <1>2, <3>1, DeriveRowType
    <3> QED
      BY <2>1, <3>2
  <2>3. k \notin Prefix(L, interaction_legs)
    BY <1>5, <2>2 DEF Covered, MissingRow
  <2>4. Gaps(L, interaction_legs) # {}
    BY <1>2, <2>3 DEF Prefix
  <2>5. lineage_trace_status[t] = DeriveStatus(t, interactions, interaction_legs)
    BY DEF Current
  <2>6. /\ lineage_trace_status[t] # Absent
        /\ lineage_trace_status[t].stopped_at_seq # Absent
        /\ lineage_trace_status[t].prefix_leg_keys = Prefix(L, interaction_legs)
    BY <1>1, <1>2, <2>4, <2>5, DeriveStatusMeaning
  <2> QED
    BY <1>2, <1>5, <2>3, <2>6 DEF MissingRow
<1>6. CASE DriftedRow(k)
  <2>1. k \in Covered(L, interactions, interaction_legs, entities)
        /\ lineage_metadata[k]
             = DeriveRow(k, L, interactions, interaction_legs, entities)
    BY <1>3, <1>4, <1>6 DEF DriftedRow
  <2>2. lineage_metadata[k].payload_hash = interaction_legs[k].payload_hash
    BY <2>1 DEF DeriveRow
  <2>3. Producer(k, interactions) \in entities
          => Producer(k, interactions) \in Names(lineage_metadata[k])
    BY <1>2, <2>1, NamesProducer
  <2> QED
    BY <1>6, <2>2, <2>3 DEF DriftedRow
<1> QED
  BY <1>5, <1>6 DEF StaleLegs

(* The sweep never reports a trace whose stored lineage is already what a      *)
(* derivation would store (_fetch_stale_traces).                               *)
THEOREM SweepIsQuiet == Spec => []SweepQuiet
<1>1. TypeOK => SweepQuiet
  BY CurrentIsQuiet DEF SweepQuiet
<1> QED
  BY <1>1, TypeCorrect, PTL

--------------------------------------------------------------------------------
(* No lineage row outlives its leg.  The invariant relates the writer's open   *)
(* transaction to the committed tables, and the rows the processor is about to *)
(* store to the lock it holds.                                                 *)

(* A leg's interaction exists, committed and in the transaction. *)
LegsHaveInteractions ==
  /\ \A k \in Key : interaction_legs[k] # Absent => interactions[k[1]] # Absent
  /\ \A k \in Key : tx_legs[k] # Absent => tx_interactions[k[1]] # Absent

(* The transaction starts from the committed tables, writes interactions       *)
(* before legs, and takes rows away only in its last step, from its own trace, *)
(* under the lock.                                                             *)
Transaction ==
  /\ wpc \in {"idle", "interactions"} =>
       tx_interactions = interactions /\ tx_legs = interaction_legs
  /\ wpc = "legs" => \A i \in Interaction :
       plan.interactions[i] # Absent => tx_interactions[i] # Absent
  /\ \A i \in Interaction :
       interactions[i] # Absent /\ tx_interactions[i] = Absent =>
         TakesLock /\ wpc = "commit" /\ TraceOf[i] = plan.trace
  /\ \A k \in Key :
       interaction_legs[k] # Absent /\ tx_legs[k] = Absent =>
         TakesLock /\ wpc = "commit" /\ TraceOf[k[1]] = plan.trace

(* Who holds a trace's lock. *)
LockHeld ==
  /\ TakesLock /\ wpc # "idle" => lock[plan.trace] = "writer"
  /\ phase \in {"load", "store"} => item \in Item /\ lock[item.trace] = "lineage"

(* The rows about to be stored belong to legs that still exist. *)
DerivedVisible ==
  phase = "store" =>
    \A k \in Key : derived[k] # Absent => TraceOf[k[1]] = item.trace /\ Visible(k)

OrphanInv ==
  TypeOK /\ LegsHaveInteractions /\ Transaction /\ LockHeld /\ DerivedVisible
    /\ NoOrphanLineage

LEMMA InitOrphan == Init => OrphanInv
<1> SUFFICES ASSUME Init PROVE OrphanInv
  OBVIOUS
<1>1. \A k \in Key : k[1] \in Interaction
  BY DEF Key
<1> QED
  BY <1>1, InitType DEF Init, OrphanInv, LegsHaveInteractions, Transaction,
     LockHeld, DerivedVisible, NoOrphanLineage, NoRows

LEMMA WriterOrphan ==
  ASSUME OrphanInv, TypeOK', WriterStep
  PROVE  OrphanInv'
<1> USE DEF OrphanInv
<1>1. \A k \in Key : k[1] \in Interaction
  BY DEF Key
<1>2. ASSUME NEW p \in Plans, Begin(p) PROVE OrphanInv'
  <2>1. /\ wpc = "idle" /\ wpc' = "interactions" /\ plan' = p
        /\ UNCHANGED <<tables, tx_interactions, tx_legs, processor>>
    BY <1>2 DEF Begin
  <2>2. LegsHaveInteractions' /\ NoOrphanLineage' /\ DerivedVisible'
    BY <2>1 DEF LegsHaveInteractions, NoOrphanLineage, DerivedVisible, Visible,
       tables, processor
  <2>3. Transaction'
    BY <1>1, <2>1 DEF Transaction, tables
  <2>4. p.trace \in Trace
    BY PlanRows
  <2>5. LockHeld'
    <3>1. TakesLock' => lock'[plan'.trace] = "writer"
      BY <1>2, <2>1, <2>4 DEF Begin, TakesLock, TypeOK
    <3>2. ASSUME phase' \in {"load", "store"}
          PROVE  item' \in Item /\ lock'[item'.trace] = "lineage"
      BY <1>2, <2>1, <2>4, <3>2 DEF Begin, LockHeld, TypeOK, processor, Item
    <3> QED
      BY <3>1, <3>2 DEF LockHeld
  <2> QED
    BY <2>2, <2>3, <2>5
<1>3. ASSUME WriteInteractions PROVE OrphanInv'
  <2>1. /\ wpc = "interactions" /\ wpc' = "legs"
        /\ \A i \in Interaction :
             tx_interactions'[i] = IF plan.interactions[i] # Absent
                                   THEN plan.interactions[i]
                                   ELSE tx_interactions[i]
        /\ UNCHANGED <<tables, lock, plan, tx_legs, processor>>
    BY <1>3 DEF WriteInteractions
  <2>2. LegsHaveInteractions' /\ NoOrphanLineage' /\ DerivedVisible'
    BY <1>1, <2>1 DEF LegsHaveInteractions, NoOrphanLineage, DerivedVisible,
       Visible, tables, processor
  <2>3. Transaction'
    BY <1>1, <2>1 DEF Transaction, tables
  <2>4. LockHeld'
    BY <2>1 DEF LockHeld, TakesLock, processor
  <2> QED
    BY <2>2, <2>3, <2>4
<1>4. ASSUME NEW k \in Key, WriteLeg(k) PROVE OrphanInv'
  <2>1. /\ wpc = "legs" /\ k \in todo
        /\ UNCHANGED <<tables, lock, wpc, plan, tx_interactions, processor>>
    BY <1>4 DEF WriteLeg
  <2>2. \A j \in Key : j # k => tx_legs'[j] = tx_legs[j]
    BY <1>4 DEF WriteLeg, InsertLeg, UpdateLeg, TypeOK
  <2>3. tx_legs'[k] # Absent
    <3>1. plan \in Plans /\ plan.legs[k] # Absent
      BY <2>1 DEF TypeOK
    <3>2. plan.legs[k] \in LegRow
      BY <3>1, PlanRows DEF Legs, Optional
    <3>3. tx_legs[k] # Absent => tx_legs[k].seq \in Nat
      BY DEF TypeOK, LegRow, Optional
    <3>4. NewSeq(k) \in Nat
      BY <3>2 DEF NewSeq, LegRow, TypeOK
    <3>5. \A n \in Nat : [plan.legs[k] EXCEPT !.seq = n] \in LegRow
      BY <3>2 DEF LegRow
    <3>6. tx_legs'[k] \in LegRow
      BY <1>4, <3>3, <3>4, <3>5 DEF WriteLeg, InsertLeg, UpdateLeg, TypeOK
    <3> QED
      BY <3>6, AbsentAssumption
  <2>4. tx_interactions[k[1]] # Absent
    <3>1. plan \in Plans /\ plan.legs[k] # Absent
      BY <2>1 DEF TypeOK
    <3>2. plan.interactions[k[1]] # Absent
      BY <3>1, SyncAssumption DEF PlanOK
    <3> QED
      BY <1>1, <2>1, <3>2 DEF Transaction
  <2>5. LegsHaveInteractions'
    BY <2>1, <2>2, <2>4 DEF LegsHaveInteractions, tables
  <2>6. Transaction'
    BY <2>1, <2>2, <2>3 DEF Transaction, tables
  <2>7. NoOrphanLineage' /\ DerivedVisible' /\ LockHeld'
    BY <2>1 DEF NoOrphanLineage, DerivedVisible, LockHeld, Visible, TakesLock,
       tables, processor
  <2> QED
    BY <2>5, <2>6, <2>7
<1>5. ASSUME DeleteUnwanted PROVE OrphanInv'
  <2>1. /\ wpc = "legs" /\ wpc' = "commit"
        /\ \A k \in Key : tx_legs'[k] = IF k[1] \in Unwanted THEN Absent
                                                             ELSE tx_legs[k]
        /\ \A i \in Interaction : tx_interactions'[i] =
             IF i \in Unwanted THEN Absent ELSE tx_interactions[i]
        /\ UNCHANGED <<tables, lock, plan, processor>>
    BY <1>5 DEF DeleteUnwanted
  <2>2. \A i \in Unwanted : TakesLock /\ TraceOf[i] = plan.trace
    BY DEF Unwanted
  <2>3. LegsHaveInteractions'
    BY <1>1, <2>1 DEF LegsHaveInteractions, tables
  <2>4. Transaction'
    BY <1>1, <2>1, <2>2 DEF Transaction, TakesLock, tables
  <2>5. NoOrphanLineage' /\ DerivedVisible' /\ LockHeld'
    BY <2>1 DEF NoOrphanLineage, DerivedVisible, LockHeld, Visible, TakesLock,
       tables, processor
  <2> QED
    BY <2>3, <2>4, <2>5
<1>6. ASSUME EndTx PROVE
        /\ wpc' = "idle"
        /\ \A t \in Trace : lock[t] = "lineage" => lock'[t] = "lineage"
  BY <1>6 DEF EndTx
<1>7. ASSUME Commit PROVE OrphanInv'
  <2>1. /\ wpc = "commit" /\ wpc' = "idle"
        /\ interactions' = tx_interactions /\ interaction_legs' = tx_legs
        /\ tx_interactions' = tx_interactions /\ tx_legs' = tx_legs
        /\ UNCHANGED processor
        /\ \A k \in Key : lineage_metadata'[k] =
             IF interaction_legs[k] # Absent /\ tx_legs[k] = Absent
             THEN Absent ELSE lineage_metadata[k]
    BY <1>7 DEF Commit, EndTx
  <2>2. LegsHaveInteractions' /\ Transaction'
    BY <1>1, <2>1 DEF LegsHaveInteractions, Transaction
  <2>3. NoOrphanLineage'
    BY <2>1 DEF NoOrphanLineage, Visible, LegsHaveInteractions
  <2>4. LockHeld'
    BY <1>6, <1>7, <2>1 DEF Commit, LockHeld, processor, Item
  <2>5. DerivedVisible'
    <3> SUFFICES ASSUME phase = "store", NEW k \in Key, derived[k] # Absent
                 PROVE  TraceOf[k[1]] = item.trace /\ tx_legs[k] # Absent
      BY <2>1 DEF DerivedVisible, Visible, LegsHaveInteractions, processor
    <3>1. TraceOf[k[1]] = item.trace /\ Visible(k)
      BY DEF DerivedVisible
    <3>2. lock[item.trace] = "lineage"
      BY DEF LockHeld
    <3>3. tx_legs[k] = Absent => TakesLock /\ TraceOf[k[1]] = plan.trace
      BY <3>1 DEF Transaction, Visible
    <3> QED
      BY <2>1, <3>1, <3>2, <3>3 DEF LockHeld
  <2> QED
    BY <2>2, <2>3, <2>4, <2>5
<1>8. ASSUME Rollback PROVE OrphanInv'
  <2>1. /\ wpc' = "idle" /\ tx_interactions' = interactions
        /\ tx_legs' = interaction_legs /\ UNCHANGED <<tables, processor>>
    BY <1>8 DEF Rollback, EndTx
  <2>2. LegsHaveInteractions' /\ Transaction'
    BY <1>1, <2>1 DEF LegsHaveInteractions, Transaction, tables
  <2>3. NoOrphanLineage' /\ DerivedVisible'
    BY <2>1 DEF NoOrphanLineage, DerivedVisible, Visible, tables, processor
  <2>4. LockHeld'
    BY <1>6, <1>8, <2>1 DEF Rollback, LockHeld, processor, Item
  <2> QED
    BY <2>2, <2>3, <2>4
<1> QED
  BY <1>2, <1>3, <1>4, <1>5, <1>7, <1>8 DEF WriterStep, FinishTx

LEMMA ProcessorOrphan ==
  ASSUME OrphanInv, TypeOK', Drain \/ Crash
  PROVE  OrphanInv'
<1> USE DEF OrphanInv
<1>1. ASSUME UNCHANGED <<tables, writer>>,
             \A t \in Trace : lock[t] = "writer" => lock'[t] = "writer"
      PROVE  /\ LegsHaveInteractions' /\ Transaction' /\ NoOrphanLineage'
             /\ TakesLock' /\ wpc' # "idle" => lock'[plan'.trace] = "writer"
  <2>1. wpc # "idle" => plan.trace \in Trace
    BY PlanRows DEF TypeOK
  <2> QED
    BY <1>1, <2>1 DEF LegsHaveInteractions, Transaction, NoOrphanLineage,
       LockHeld, Visible, TakesLock, tables, writer
<1>2. ASSUME Fetch PROVE OrphanInv'
  <2>1. UNCHANGED <<tables, writer, lock>> /\ phase' \in {"fetch", "lock"}
    BY <1>2 DEF Fetch
  <2> QED
    BY <1>1, <2>1 DEF DerivedVisible, LockHeld
<1>3. ASSUME LockTrace PROVE OrphanInv'
  <2>1. PICK i \in batch : /\ lock[i.trace] = "free" /\ item' = i
                           /\ lock' = [lock EXCEPT ![i.trace] = "lineage"]
    BY <1>3 DEF LockTrace
  <2>2. UNCHANGED <<tables, writer>> /\ phase' = "load"
    BY <1>3 DEF LockTrace
  <2>3. i \in Item /\ i.trace \in Trace
    BY DEF TypeOK, Item
  <2>4. item' \in Item /\ lock'[item'.trace] = "lineage"
    BY <2>1, <2>3 DEF TypeOK
  <2>5. \A t \in Trace : lock[t] = "writer" => lock'[t] = "writer"
    BY <2>1 DEF TypeOK
  <2> QED
    BY <1>1, <2>2, <2>4, <2>5 DEF DerivedVisible, LockHeld
<1>4. ASSUME Load PROVE OrphanInv'
  <2>1. /\ phase = "load" /\ phase' = "store"
        /\ UNCHANGED <<tables, writer, lock, item>>
        /\ derived' = DeriveRows(item.trace, interactions, interaction_legs,
                                 entities)
    BY <1>4 DEF Load
  <2>2. DerivedVisible'
    <3> SUFFICES ASSUME NEW k \in Key, derived'[k] # Absent
                 PROVE  TraceOf[k[1]] = item.trace /\ Visible(k)
      BY <2>1 DEF DerivedVisible, Visible, tables
    <3>1. k \in LoadTrace(item.trace, interactions, interaction_legs)
      BY <2>1 DEF DeriveRows, Covered, Prefix
    <3> QED
      BY <3>1 DEF LoadTrace, KeysOf, Visible
  <2> QED
    BY <1>1, <2>1, <2>2 DEF LockHeld
<1>5. ASSUME Store PROVE OrphanInv'
  <2>1. /\ phase = "store" /\ phase' \in {"fetch", "lock", "unqueue"}
        /\ lock' = [lock EXCEPT ![item.trace] = "free"]
        /\ UNCHANGED <<interactions, interaction_legs, writer>>
        /\ \/ lineage_metadata' = lineage_metadata
           \/ lineage_metadata' = [k \in Key |-> StoredRow(k)]
    BY <1>5 DEF Store, NextItem
  <2>2. LegsHaveInteractions' /\ Transaction'
    BY <2>1 DEF LegsHaveInteractions, Transaction, TakesLock, writer
  <2>3. NoOrphanLineage'
    <3> SUFFICES ASSUME NEW k \in Key, lineage_metadata'[k] # Absent
                 PROVE  Visible(k)
      BY <2>1 DEF NoOrphanLineage, Visible
    <3>1. CASE lineage_metadata' = lineage_metadata
      BY <3>1 DEF NoOrphanLineage
    <3>2. CASE lineage_metadata' = [j \in Key |-> StoredRow(j)]
      <4>1. derived[k] # Absent \/ lineage_metadata[k] # Absent
        BY <3>2 DEF StoredRow
      <4> QED
        BY <2>1, <4>1 DEF NoOrphanLineage, DerivedVisible
    <3> QED
      BY <2>1, <3>1, <3>2
  <2>4. LockHeld'
    <3>1. ASSUME TakesLock, wpc # "idle" PROVE lock'[plan.trace] = "writer"
      <4>1. lock[plan.trace] = "writer" /\ lock[item.trace] = "lineage"
        BY <2>1, <3>1 DEF LockHeld
      <4>2. plan.trace \in Trace
        BY <3>1, PlanRows DEF TypeOK
      <4> QED
        BY <2>1, <4>1, <4>2 DEF TypeOK
    <3> QED
      BY <2>1, <3>1 DEF LockHeld, TakesLock, writer
  <2> QED
    BY <2>1, <2>2, <2>3, <2>4 DEF DerivedVisible
<1>6. ASSUME Unqueue PROVE OrphanInv'
  <2>1. /\ UNCHANGED <<interactions, interaction_legs, lineage_metadata, lock,
                       writer>>
        /\ phase' \in {"fetch", "lock"}
    BY <1>6 DEF Unqueue, NextItem
  <2> QED
    BY <2>1 DEF LegsHaveInteractions, Transaction, LockHeld, DerivedVisible,
       NoOrphanLineage, Visible, TakesLock, writer
<1>7. ASSUME Crash PROVE OrphanInv'
  <2>1. /\ UNCHANGED <<tables, writer>> /\ phase' = "fetch"
        /\ \A t \in Trace : lock[t] = "writer" => lock'[t] = "writer"
    BY <1>7 DEF Crash
  <2> QED
    BY <1>1, <2>1 DEF DerivedVisible, LockHeld
<1> QED
  BY <1>2, <1>3, <1>4, <1>5, <1>6, <1>7 DEF Drain

LEMMA NextOrphan ==
  ASSUME OrphanInv, [Next]_vars
  PROVE  OrphanInv'
<1>1. TypeOK'
  BY NextType DEF OrphanInv
<1>2. ASSUME NEW e \in LateEntity, EntityLands(e) PROVE OrphanInv'
  BY <1>1, <1>2 DEF OrphanInv, EntityLands, LegsHaveInteractions, Transaction,
     LockHeld, DerivedVisible, NoOrphanLineage, Visible, TakesLock, writer,
     processor
<1>3. ASSUME UNCHANGED vars PROVE OrphanInv'
  BY <1>1, <1>3 DEF OrphanInv, vars, tables, LegsHaveInteractions, Transaction,
     LockHeld, DerivedVisible, NoOrphanLineage, Visible, TakesLock, writer,
     processor
<1> QED
  BY <1>1, <1>2, <1>3, WriterOrphan, ProcessorOrphan DEF Next

(* A stored lineage row always belongs to a leg that exists: the trace lock    *)
(* keeps the sidecar's deletes out of the time between the processor's read    *)
(* and its writes (trace_lock.py), and the other writers never delete.         *)
THEOREM NoOrphans == Spec => []NoOrphanLineage
<1>1. Init => OrphanInv
  BY InitOrphan
<1>2. OrphanInv /\ [Next]_vars => OrphanInv'
  BY NextOrphan
<1>3. OrphanInv => NoOrphanLineage
  BY DEF OrphanInv
<1> QED
  BY <1>1, <1>2, <1>3, PTL DEF Spec

--------------------------------------------------------------------------------
(* The durable cursor.                                                         *)

(* While the cursor arm runs, nothing it fetched lies below the cursor, and it *)
(* handles the lowest first.                                                   *)
BatchAhead ==
  arm = "cursor" =>
    /\ \A i \in batch : cursor <= i.rank
    /\ phase \in {"load", "store"} =>
         item \in batch /\ \A i \in batch : item.rank <= i.rank

CursorInv == TypeOK /\ BatchAhead

LEMMA NextCursor ==
  ASSUME CursorInv, [Next]_vars
  PROVE  CursorInv' /\ cursor' >= cursor
<1> USE DEF CursorInv
<1>1. TypeOK'
  BY NextType
<1>2. ASSUME UNCHANGED <<cursor, processor>>
      PROVE  BatchAhead' /\ cursor' >= cursor
  BY <1>2 DEF BatchAhead, processor, TypeOK
<1>3. ASSUME WriterStep \/ (\E e \in LateEntity : EntityLands(e)) \/ UNCHANGED vars
      PROVE  UNCHANGED <<cursor, processor>>
  BY <1>3 DEF WriterStep, FinishTx, Begin, WriteInteractions, WriteLeg,
     DeleteUnwanted, Commit, Rollback, EntityLands, vars, tables
<1>4. ASSUME Fetch PROVE BatchAhead' /\ cursor' >= cursor
  <2>1. cursor' = cursor /\ phase' \in {"fetch", "lock"}
    BY <1>4 DEF Fetch, tables
  <2>2. ASSUME arm' = "cursor" PROVE \A i \in batch' : cursor <= i.rank
    <3>1. batch' = {} \/ (arm' = arm /\ batch' \subseteq Work(arm))
      BY <1>4 DEF Fetch
    <3>2. \A i \in NewLegs : cursor <= i.rank
      BY DEF NewLegs, Visible, TypeOK, LegRow, Optional
    <3> QED
      BY <2>2, <3>1, <3>2 DEF Work
  <2> QED
    BY <2>1, <2>2 DEF BatchAhead, TypeOK
<1>5. ASSUME LockTrace PROVE BatchAhead' /\ cursor' >= cursor
  <2>1. /\ item' \in batch /\ \A i \in batch : item'.rank <= i.rank
        /\ UNCHANGED <<cursor, arm, batch>>
    BY <1>5 DEF LockTrace, tables
  <2> QED
    BY <2>1 DEF BatchAhead, TypeOK
<1>6. ASSUME Load PROVE BatchAhead' /\ cursor' >= cursor
  BY <1>6 DEF Load, BatchAhead, TypeOK, tables
<1>7. ASSUME NextItem
      PROVE  /\ phase' \in {"fetch", "lock"} /\ batch' \subseteq batch
             /\ arm' = "cursor" => arm = "cursor" \/ batch' = {}
  BY <1>7 DEF NextItem
<1>8. ASSUME Store PROVE BatchAhead' /\ cursor' >= cursor
  <2>1. CASE arm = "cursor"
    <3>1. cursor' = item.rank /\ NextItem
      BY <1>8, <2>1 DEF Store
    <3>2. item \in batch /\ \A i \in batch : item.rank <= i.rank
      BY <1>8, <2>1 DEF BatchAhead, Store
    <3> QED
      BY <1>7, <2>1, <3>1, <3>2 DEF BatchAhead
  <2>2. CASE arm = "dirty"
    BY <1>8, <2>2 DEF Store, BatchAhead, TypeOK
  <2>3. CASE arm = "stale"
    <3>1. cursor' = cursor /\ NextItem
      BY <1>8, <2>3 DEF Store
    <3> QED
      BY <1>7, <2>3, <3>1 DEF BatchAhead, TypeOK
  <2> QED
    BY <2>1, <2>2, <2>3 DEF TypeOK
<1>9. ASSUME Unqueue PROVE BatchAhead' /\ cursor' >= cursor
  <2>1. cursor' = cursor /\ NextItem
    BY <1>9 DEF Unqueue
  <2> QED
    BY <1>7, <2>1 DEF BatchAhead, TypeOK
<1>10. ASSUME Crash PROVE BatchAhead' /\ cursor' >= cursor
  BY <1>10 DEF Crash, BatchAhead, TypeOK, tables
<1> QED
  BY <1>1, <1>2, <1>3, <1>4, <1>5, <1>6, <1>8, <1>9, <1>10 DEF Next, Drain

(* No step, of either process or of a crash and restart, moves the durable     *)
(* cursor back.                                                                *)
THEOREM CursorNeverMovesBack == Spec => CursorMonotone
<1>1. Init => CursorInv
  BY InitType DEF Init, CursorInv, BatchAhead
<1>2. CursorInv /\ [Next]_vars => CursorInv' /\ cursor' >= cursor
  BY NextCursor
<1>3. CursorInv /\ [Next]_vars => [cursor' >= cursor]_vars
  BY <1>2
<1> QED
  BY <1>1, <1>2, <1>3, PTL DEF Spec, CursorMonotone

--------------------------------------------------------------------------------
(* No correction is lost.  The stored lineage of a trace need not be current:  *)
(* it is then the lineage of an older set of known entities, and the sweep or  *)
(* the cursor arm finds what that set lacked.                                  *)

(* The rows and the claim of t are those of a derivation that knew only        *)
(* producers that are still known.                                             *)
DerivedFrom(K, t, rows, status) ==
  /\ \A k \in KeysOf(t) : rows[k] = DeriveRows(t, interactions, interaction_legs, K)[k]
  /\ status = DeriveStatus(t, interactions, interaction_legs)
  /\ \A k \in LoadTrace(t, interactions, interaction_legs) :
       Producer(k, interactions) \in K => Producer(k, interactions) \in entities

Settled(t) ==
  \E K \in SUBSET Entity : DerivedFrom(K, t, lineage_metadata, lineage_trace_status[t])

Caught(t) == Settled(t) \/ Ahead(t) \/ StaleLegs(t) # {}

Found == \A t \in Trace : Caught(t) \/ dirty[t] > 0

(* What the processor is about to store, and a queue row about to go.          *)
Redriven ==
  /\ \A t \in Trace : dirty[t] <= dirty_generation
  /\ phase = "store" =>
       \E K \in SUBSET Entity : DerivedFrom(K, item.trace, derived, claim)
  /\ phase = "unqueue" =>
       /\ arm = "dirty" /\ item \in Item /\ item.rank <= dirty_generation
       /\ item.rank = dirty[item.trace] => Caught(item.trace)
  /\ arm = "dirty" =>
       /\ \A i \in batch : i.rank <= dirty_generation
       /\ phase \in {"load", "store"} => item \in batch

(* The open transaction touches its own trace only, and changes nothing that   *)
(* the triggers would not have queued.                                         *)
Touched ==
  /\ \A i \in Interaction :
       tx_interactions[i] # interactions[i] => wpc # "idle" /\ TraceOf[i] = plan.trace
  /\ \A k \in Key :
       tx_legs[k] # interaction_legs[k] => wpc # "idle" /\ TraceOf[k[1]] = plan.trace
  /\ ~queued =>
       \A k \in Key : interaction_legs[k] # Absent =>
         /\ tx_legs[k] = interaction_legs[k]
         /\ tx_interactions[k[1]] = interactions[k[1]]

(* Sequence numbers are drawn once, and those of the open transaction lie past *)
(* everything the processor has seen.                                          *)
Stored(k) == interaction_legs[k] # Absent
Fresh(k) == tx_legs[k] # Absent /\ interaction_legs[k] = Absent

(* Nothing lies past the sequence. *)
Drawn ==
  /\ \A k \in Key : tx_legs[k] # Absent => tx_legs[k].seq <= legs_seq
  /\ \A k \in Key : Stored(k) => interaction_legs[k].seq <= legs_seq
  /\ cursor <= legs_seq
  /\ arm = "cursor" => \A i \in batch : i.rank <= legs_seq

Distinct ==
  /\ \A k \in Key : Stored(k) /\ tx_legs[k] # Absent =>
       tx_legs[k].seq = interaction_legs[k].seq
  /\ \A j, k \in Key : Stored(j) /\ Stored(k) /\ j # k =>
       interaction_legs[j].seq # interaction_legs[k].seq
  /\ \A j, k \in Key : tx_legs[j] # Absent /\ tx_legs[k] # Absent /\ j # k =>
       tx_legs[j].seq # tx_legs[k].seq

FreshPast ==
  \A k \in Key : Fresh(k) =>
    /\ cursor < tx_legs[k].seq
    /\ \A j \in Key : Stored(j) => interaction_legs[j].seq < tx_legs[k].seq
    /\ arm = "cursor" => \A i \in batch : i.rank < tx_legs[k].seq

Numbers == Drawn /\ Distinct /\ FreshPast

(* A batch of the cursor arm skips no leg. *)
Consecutive ==
  arm = "cursor" =>
    /\ \A i, j \in batch : i.rank = j.rank => i = j
    /\ \A k \in Key, i \in batch :
         Stored(k) /\ cursor < interaction_legs[k].seq
           /\ interaction_legs[k].seq <= i.rank =>
             [trace |-> TraceOf[k[1]], rank |-> interaction_legs[k].seq] \in batch

SyncInv ==
  OrphanInv /\ CursorInv /\ Found /\ Redriven /\ Touched /\ Numbers /\ Consecutive

(* An older set of known entities leaves a leg for the sweep or the cursor arm *)
(* to find, unless it derived what the entities known now would.               *)
LEMMA SettledIsFound ==
  ASSUME TypeOK, NEW t \in Trace, Settled(t), ~Ahead(t), StaleLegs(t) = {}
  PROVE  Current(t)
<1> DEFINE L == LoadTrace(t, interactions, interaction_legs)
<1>1. interactions \in Interactions /\ interaction_legs \in Legs /\ cursor \in Nat
  BY DEF TypeOK, Interactions, Legs
<1>2. PICK K \in SUBSET Entity : DerivedFrom(K, t, lineage_metadata, lineage_trace_status[t])
  BY DEF Settled
<1>3. ASSUME NEW k \in Prefix(L, interaction_legs),
             interaction_legs[k].payload_hash # Absent,
             Producer(k, interactions) \in entities, Producer(k, interactions) \notin K
      PROVE  FALSE
  <2>1. /\ k \in L /\ k \in KeysOf(t) /\ k \in Key /\ TraceOf[k[1]] = t /\ Visible(k)
        /\ interaction_legs[k].seq \in Nat
    BY <1>1, LoadTraceRows DEF Prefix, LoadTrace, KeysOf, Visible, LegRow
  <2>2. lineage_metadata[k] = Absent
    BY <1>2, <1>3, <2>1 DEF DerivedFrom, DeriveRows, Covered
  <2>3. interaction_legs[k].seq <= cursor
    BY <1>1, <2>1 DEF Ahead
  <2>4. lineage_trace_status[t] = DeriveStatus(t, interactions, interaction_legs)
    BY <1>2 DEF DerivedFrom
  <2>5. lineage_trace_status[t].stopped_at_seq # Absent
          => k \in lineage_trace_status[t].prefix_leg_keys
    BY <1>1, <1>3, <2>1, <2>4, DeriveStatusMeaning
  <2>6. MissingRow(k)
    BY <1>3, <2>1, <2>2, <2>3, <2>5 DEF MissingRow
  <2> QED
    BY <2>1, <2>6 DEF StaleLegs
<1>4. ASSUME NEW k \in Prefix(L, interaction_legs), Producer(k, interactions) \in K
      PROVE  Producer(k, interactions) \in entities
  <2>1. k \in L
    BY DEF Prefix
  <2> QED
    BY <1>2, <1>4, <2>1 DEF DerivedFrom
<1>5. DeriveRows(t, interactions, interaction_legs, K)
        = DeriveRows(t, interactions, interaction_legs, entities)
  BY <1>1, <1>3, <1>4, SameKnown
<1> QED
  BY <1>2, <1>5 DEF DerivedFrom, Current

(* A step leaves what a derivation of t reads as it is, but for entities that  *)
(* become known.                                                               *)
Untouched(t) ==
  /\ \A k \in KeysOf(t) :
       /\ interaction_legs'[k] = interaction_legs[k]
       /\ interaction_legs[k] # Absent => interactions'[k[1]] = interactions[k[1]]
  /\ \A k \in LoadTrace(t, interactions, interaction_legs) :
       Producer(k, interactions) \in entities => Producer(k, interactions) \in entities'

LEMMA UntouchedReads ==
  ASSUME TypeOK, NEW t, Untouched(t)
  PROVE  LET L == LoadTrace(t, interactions, interaction_legs) IN
         /\ LoadTrace(t, interactions', interaction_legs') = L
         /\ \A k \in L : Producer(k, interactions') = Producer(k, interactions)
         /\ \A K : DeriveRows(t, interactions', interaction_legs', K)
                     = DeriveRows(t, interactions, interaction_legs, K)
         /\ DeriveStatus(t, interactions', interaction_legs')
              = DeriveStatus(t, interactions, interaction_legs)
         /\ \A k \in L : Visible(k) /\ Visible(k)'
<1>1. interactions \in Interactions /\ interaction_legs \in Legs
  BY DEF TypeOK, Interactions, Legs
<1>2. \A k \in KeysOf(t) :
        /\ interaction_legs'[k] = interaction_legs[k]
        /\ interaction_legs[k] # Absent => interactions'[k[1]] = interactions[k[1]]
  BY DEF Untouched
<1>3. \A k \in LoadTrace(t, interactions, interaction_legs) : Visible(k) /\ Visible(k)'
  BY <1>2 DEF LoadTrace, Visible
<1> QED
  BY <1>1, <1>2, <1>3, SameReading

(* What was derived of t is still what a derivation gives.                     *)
LEMMA DerivedStays ==
  ASSUME TypeOK, NEW t, Untouched(t), NEW K,
         DerivedFrom(K, t, lineage_metadata, lineage_trace_status[t]),
         \A k \in KeysOf(t) : lineage_metadata'[k] = lineage_metadata[k],
         lineage_trace_status'[t] = lineage_trace_status[t]
  PROVE  DerivedFrom(K, t, lineage_metadata, lineage_trace_status[t])'
BY UntouchedReads DEF DerivedFrom, Untouched

(* The same of the rows that the processor holds.                              *)
LEMMA HeldStays ==
  ASSUME TypeOK, NEW t, Untouched(t), NEW K,
         DerivedFrom(K, t, derived, claim), UNCHANGED <<derived, claim>>
  PROVE  DerivedFrom(K, t, derived, claim)'
BY UntouchedReads DEF DerivedFrom, Untouched

(* A trace that was caught stays so while no leg of it is passed by.           *)
LEMMA CaughtStays ==
  ASSUME TypeOK, TypeOK', NEW t \in Trace, Untouched(t), Caught(t),
         \A k \in KeysOf(t) : lineage_metadata'[k] = lineage_metadata[k],
         lineage_trace_status'[t] = lineage_trace_status[t],
         cursor <= cursor', Ahead(t) => Ahead(t)'
  PROVE  Caught(t)'
<1>1. CASE Settled(t)
  BY <1>1, DerivedStays DEF Caught, Settled
<1>2. CASE Ahead(t)
  BY <1>2 DEF Caught
<1>3. ASSUME NEW k \in StaleLegs(t) PROVE StaleLegs(t)' # {}
  <2>1. /\ k \in KeysOf(t) /\ k \in Key /\ TraceOf[k[1]] = t /\ Visible(k)
        /\ k \in LoadTrace(t, interactions, interaction_legs)
        /\ interaction_legs[k].seq \in Nat
    BY DEF StaleLegs, Visible, LoadTrace, KeysOf, TypeOK, Optional, LegRow
  <2>2. /\ Visible(k)' /\ Producer(k, interactions') = Producer(k, interactions)
        /\ interaction_legs'[k] = interaction_legs[k]
        /\ lineage_metadata'[k] = lineage_metadata[k]
        /\ Producer(k, interactions) \in entities => Producer(k, interactions) \in entities'
    BY <2>1, UntouchedReads DEF Untouched
  <2>3. interaction_legs[k].seq <= cursor => interaction_legs'[k].seq <= cursor'
    BY <2>1, <2>2 DEF TypeOK
  <2>4. MissingRow(k) => MissingRow(k)'
    BY <2>1, <2>2, <2>3 DEF MissingRow
  <2>5. DriftedRow(k) => DriftedRow(k)'
    BY <2>1, <2>2 DEF DriftedRow
  <2> QED
    BY <1>3, <2>1, <2>2, <2>4, <2>5 DEF StaleLegs
<1> QED
  BY <1>1, <1>2, <1>3 DEF Caught

(* A leg ahead of a cursor that does not move stays ahead.                     *)
LEMMA AheadStays ==
  ASSUME TypeOK, NEW t, Untouched(t), cursor' = cursor, Ahead(t)
  PROVE  Ahead(t)'
<1>1. PICK k \in KeysOf(t) : Visible(k) /\ interaction_legs[k].seq > cursor
  BY DEF Ahead
<1>2. k \in LoadTrace(t, interactions, interaction_legs)
  BY <1>1 DEF LoadTrace, Visible
<1>3. Visible(k)' /\ interaction_legs'[k].seq > cursor'
  BY <1>1, <1>2, UntouchedReads DEF Untouched
<1> QED
  BY <1>3 DEF Ahead

LEMMA InitSync == Init => SyncInv
<1> SUFFICES ASSUME Init PROVE SyncInv
  OBVIOUS
<1>1. OrphanInv /\ CursorInv
  BY InitOrphan, InitType DEF Init, CursorInv, BatchAhead
<1>2. ASSUME NEW t \in Trace PROVE Settled(t)
  <2>1. LoadTrace(t, interactions, interaction_legs) = {}
    BY DEF Init, LoadTrace, KeysOf
  <2>2. DeriveStatus(t, interactions, interaction_legs) = Absent
    BY <2>1 DEF DeriveStatus
  <2>3. \A k \in KeysOf(t) : DeriveRows(t, interactions, interaction_legs, {})[k] = Absent
    BY <2>1 DEF DeriveRows, Covered, Prefix, KeysOf
  <2>4. DerivedFrom({}, t, lineage_metadata, lineage_trace_status[t])
    BY <2>1, <2>2, <2>3 DEF DerivedFrom, Init, NoRows, KeysOf
  <2> QED
    BY <2>4 DEF Settled
<1>3. Found
  BY <1>2 DEF Found, Caught
<1>4. Touched
  BY DEF Init, Touched
<1>5. Redriven /\ Numbers /\ Consecutive
  BY DEF Init, Redriven, Numbers, Drawn, Distinct, FreshPast, Consecutive,
     Fresh, Stored
<1> QED
  BY <1>1, <1>3, <1>4, <1>5 DEF SyncInv

(* What concerns the tables and the processor only.                            *)
LEMMA TablesStay ==
  ASSUME SyncInv, UNCHANGED <<tables, dirty_generation, processor>>
  PROVE  Found' /\ Redriven' /\ Consecutive'
<1>1. \A t : Caught(t)' <=> Caught(t)
  BY DEF tables, Caught, Settled, DerivedFrom, Ahead, StaleLegs, Visible, MissingRow,
     DriftedRow
<1>2. \A K : DerivedFrom(K, item.trace, derived, claim)'
               <=> DerivedFrom(K, item.trace, derived, claim)
  BY DEF tables, processor, DerivedFrom
<1>3. Found'
  BY <1>1 DEF SyncInv, Found, tables
<1>4. Redriven'
  BY <1>1, <1>2 DEF SyncInv, Redriven, tables, processor
<1>5. Consecutive'
  BY DEF SyncInv, Consecutive, Stored, tables, processor
<1> QED
  BY <1>3, <1>4, <1>5

(* The steps of a transaction before its end.                                  *)
LEMMA TransactionSync ==
  ASSUME SyncInv, Algorithm = "sidecar", OrphanInv', CursorInv',
         (\E p \in Plans : Begin(p)) \/ WriteInteractions
           \/ (\E k \in Key : WriteLeg(k)) \/ DeleteUnwanted \/ Rollback
  PROVE  SyncInv'
<1> USE DEF SyncInv, OrphanInv
<1>1. \A k \in Key : k[1] \in Interaction /\ k[2] \in LegType /\ k = <<k[1], k[2]>>
  BY DEF Key
<1>2. UNCHANGED <<tables, dirty_generation, processor>>
  BY DEF Begin, WriteInteractions, WriteLeg, DeleteUnwanted, Rollback
<1>3. Found' /\ Redriven' /\ Consecutive'
  BY <1>2, TablesStay
<1>4. ASSUME NEW p \in Plans, Begin(p) PROVE Touched' /\ Numbers'
  <2>1. /\ wpc = "idle"
        /\ UNCHANGED <<tables, legs_seq, tx_interactions, tx_legs, processor>>
    BY <1>4 DEF Begin
  <2>2. tx_interactions = interactions /\ tx_legs = interaction_legs
    BY <2>1 DEF Transaction
  <2>3. Touched'
    BY <2>1, <2>2 DEF Touched, tables
  <2>4. Numbers'
    BY <2>1 DEF Numbers, Drawn, Distinct, FreshPast, Fresh,
       Stored, tables, processor
  <2> QED
    BY <2>3, <2>4
<1>5. ASSUME WriteInteractions PROVE Touched' /\ Numbers'
  <2>1. /\ wpc = "interactions" /\ wpc' = "legs"
        /\ \A i \in Interaction :
             tx_interactions'[i] = IF plan.interactions[i] # Absent
                                   THEN plan.interactions[i] ELSE tx_interactions[i]
        /\ queued' = (\E i \in Interaction : InteractionDirty(i))
        /\ UNCHANGED <<tables, legs_seq, plan, tx_legs, processor>>
    BY <1>5 DEF WriteInteractions
  <2>2. tx_interactions = interactions /\ tx_legs = interaction_legs
    BY <2>1 DEF Transaction
  <2>3. plan \in Plans /\ PlanOK(plan)
    BY <2>1, SyncAssumption DEF TypeOK
  <2>4. \A i \in Interaction : plan.interactions[i] # Absent => TraceOf[i] = plan.trace
    BY <2>3 DEF PlanOK
  <2>5. ASSUME NEW k \in Key, interaction_legs[k] # Absent, ~queued'
        PROVE  tx_interactions'[k[1]] = interactions[k[1]]
    <3>1. tx_interactions[k[1]] # Absent
      BY <2>2, <2>5 DEF LegsHaveInteractions
    <3>2. \E type \in LegType : tx_legs[<<k[1], type>>] # Absent
      BY <1>1, <2>2, <2>5
    <3>3. plan.interactions[k[1]] \in {Absent, tx_interactions[k[1]]}
      BY <1>1, <2>1, <2>5, <3>1, <3>2 DEF InteractionDirty
    <3> QED
      BY <1>1, <2>1, <2>2, <3>3
  <2>6. Touched'
    BY <2>1, <2>2, <2>4, <2>5 DEF Touched, tables
  <2>7. Numbers'
    BY <2>1 DEF Numbers, Drawn, Distinct, FreshPast, Fresh,
       Stored, tables, processor
  <2> QED
    BY <2>6, <2>7
<1>6. ASSUME NEW k \in Key, WriteLeg(k) PROVE Touched' /\ Numbers'
  <2>1. /\ wpc = "legs" /\ k \in todo
        /\ UNCHANGED <<tables, wpc, plan, tx_interactions, processor>>
    BY <1>6 DEF WriteLeg
  <2>2. plan \in Plans /\ PlanOK(plan) /\ plan.legs[k] # Absent
    BY <2>1, SyncAssumption DEF TypeOK
  <2>3. TraceOf[k[1]] = plan.trace /\ plan.legs[k] \in LegRow
    BY <1>1, <2>2, PlanRows DEF PlanOK, Legs, Optional
  <2>4. \A j \in Key : j # k => tx_legs'[j] = tx_legs[j]
    BY <1>6 DEF WriteLeg, InsertLeg, UpdateLeg, TypeOK
  <2>5. legs_seq \in Nat /\ cursor \in Nat /\ \A i \in batch : i.rank \in Nat
    BY DEF TypeOK, Item
  <2>6. /\ \A j \in Key : tx_legs[j] # Absent => tx_legs[j].seq \in Nat
        /\ \A j \in Key : interaction_legs[j] # Absent => interaction_legs[j].seq \in Nat
    BY DEF TypeOK, LegRow, Optional
  <2>7. CASE InsertLeg(k)
    <3>1. /\ tx_legs[k] = Absent
          /\ tx_legs' = [tx_legs EXCEPT ![k] = [plan.legs[k] EXCEPT !.seq = legs_seq + 1]]
          /\ legs_seq' = legs_seq + 1
          /\ queued' = (queued \/ BelowReach(k, NewSeq(k)))
      BY <2>7 DEF InsertLeg, NewSeq
    <3>2. interaction_legs[k] = Absent
      BY <2>1, <3>1 DEF Transaction
    <3>3. tx_legs'[k] # Absent => tx_legs'[k].seq = legs_seq + 1
      BY <2>3, <3>1 DEF TypeOK, LegRow
    <3>4. Touched'
      BY <2>1, <2>3, <2>4, <3>1, <3>2 DEF Touched, tables
    <3>5. Drawn'
      BY <2>1, <2>4, <2>5, <2>6, <3>1, <3>2, <3>3
      DEF Numbers, Drawn, Stored, tables, processor
    <3>6. Distinct'
      BY <2>1, <2>4, <2>5, <2>6, <3>1, <3>2, <3>3
      DEF Numbers, Drawn, Distinct, Stored, tables
    <3>7. FreshPast'
      <4> SUFFICES ASSUME NEW j \in Key, Fresh(j)'
                   PROVE  /\ cursor < tx_legs'[j].seq
                          /\ \A i \in Key : Stored(i) =>
                               interaction_legs[i].seq < tx_legs'[j].seq
                          /\ arm = "cursor" => \A i \in batch : i.rank < tx_legs'[j].seq
        BY <2>1 DEF FreshPast, Stored, tables, processor
      <4>1. CASE j = k
        BY <2>5, <2>6, <3>1, <3>3, <4>1 DEF Fresh, Numbers, Drawn, Stored
      <4>2. CASE j # k
        BY <2>1, <2>4, <4>2 DEF Numbers, FreshPast, Fresh, tables
      <4> QED
        BY <4>1, <4>2
    <3> QED
      BY <3>4, <3>5, <3>6, <3>7 DEF Numbers
  <2>8. CASE UpdateLeg(k)
    <3>1. /\ tx_legs[k] # Absent /\ tx_legs[k] \in LegRow
          /\ tx_legs'[k] = [plan.legs[k] EXCEPT !.seq = tx_legs[k].seq]
          /\ legs_seq' = legs_seq
          /\ queued' = (queued \/ LegDirty(k))
      BY <2>8 DEF UpdateLeg, TypeOK, Optional
    <3>2. tx_legs'[k] \in LegRow /\ tx_legs'[k].seq = tx_legs[k].seq
      BY <2>3, <3>1 DEF LegRow
    <3>3. ~queued' => tx_legs'[k] = tx_legs[k]
      BY <2>3, <3>1 DEF LegDirty, LegRow
    <3>4. Touched'
      BY <2>1, <2>3, <2>4, <3>1, <3>3 DEF Touched, tables
    <3>5. \A j \in Key : /\ tx_legs'[j].seq = tx_legs[j].seq
                         /\ tx_legs'[j] # Absent <=> tx_legs[j] # Absent
      BY <2>4, <3>1, <3>2, AbsentAssumption
    <3>6. Numbers'
      BY <2>1, <3>1, <3>5 DEF Numbers, Drawn, Distinct, FreshPast, Fresh, Stored,
         tables, processor
    <3> QED
      BY <3>4, <3>6
  <2> QED
    BY <1>6, <2>7, <2>8 DEF WriteLeg
<1>7. ASSUME DeleteUnwanted PROVE Touched' /\ Numbers'
  <2>1. /\ wpc = "legs" /\ wpc' = "commit"
        /\ \A k \in Key : tx_legs'[k] = IF k[1] \in Unwanted THEN Absent
                                                             ELSE tx_legs[k]
        /\ \A i \in Interaction : tx_interactions'[i] =
             IF i \in Unwanted THEN Absent ELSE tx_interactions[i]
        /\ queued' = (queued \/ Unwanted # {})
        /\ UNCHANGED <<tables, legs_seq, plan, processor>>
    BY <1>7 DEF DeleteUnwanted
  <2>2. \A i \in Unwanted : TraceOf[i] = plan.trace
    BY DEF Unwanted
  <2>3. Touched'
    BY <1>1, <2>1, <2>2 DEF Touched, tables
  <2>4. Numbers'
    BY <2>1 DEF Numbers, Drawn, Distinct, FreshPast, Fresh,
       Stored, tables, processor
  <2> QED
    BY <2>3, <2>4
<1>8. ASSUME Rollback PROVE Touched' /\ Numbers'
  <2>1. /\ tx_interactions' = interactions /\ tx_legs' = interaction_legs
        /\ UNCHANGED <<tables, legs_seq, processor>>
    BY <1>8 DEF Rollback
  <2>2. Touched'
    BY <2>1 DEF Touched, tables
  <2>3. Numbers'
    BY <2>1 DEF Numbers, Drawn, Distinct, FreshPast, Fresh,
       Stored, tables, processor
  <2> QED
    BY <2>2, <2>3
<1> QED
  BY <1>3, <1>4, <1>5, <1>6, <1>7, <1>8

(* A commit that queues nothing, or of another trace, either adds a leg ahead  *)
(* of the cursor or changes nothing that a derivation of t reads.              *)
LEMMA CommitReads ==
  ASSUME SyncInv, Algorithm = "sidecar", Commit,
         NEW t \in Trace, t # plan.trace \/ ~queued,
         \A k \in KeysOf(t) : ~Fresh(k)
  PROVE  /\ Untouched(t)
         /\ \A k \in KeysOf(t) : lineage_metadata'[k] = lineage_metadata[k]
<1> USE DEF SyncInv, OrphanInv
<1>1. /\ interactions' = tx_interactions /\ interaction_legs' = tx_legs
      /\ entities' = EntitiesAfter
      /\ \A k \in Key : lineage_metadata'[k] =
           IF interaction_legs[k] # Absent /\ tx_legs[k] = Absent
           THEN Absent ELSE lineage_metadata[k]
  BY DEF Commit
<1>2. \A k \in KeysOf(t) : k \in Key /\ k[1] \in Interaction /\ TraceOf[k[1]] = t
  BY DEF KeysOf, Key
<1>3. ASSUME NEW k \in KeysOf(t)
      PROVE  /\ tx_legs[k] = interaction_legs[k]
             /\ interaction_legs[k] # Absent => tx_interactions[k[1]] = interactions[k[1]]
  <2>1. CASE t # plan.trace
    BY <1>2, <2>1 DEF Touched
  <2>2. CASE ~queued
    BY <1>2, <2>2 DEF Touched, Fresh
  <2> QED
    BY <2>1, <2>2
<1>4. ASSUME NEW k \in LoadTrace(t, interactions, interaction_legs),
             Producer(k, interactions) \in entities
      PROVE  Producer(k, interactions) \in entities'
  <2>1. k \in KeysOf(t) /\ interaction_legs[k] # Absent /\ interactions[k[1]] # Absent
    BY DEF LoadTrace
  <2>2. tx_interactions[k[1]] = interactions[k[1]] /\ k[1] \in Interaction
    BY <1>2, <1>3, <2>1
  <2>3. Producer(k, interactions) \in Endpoints(tx_interactions)
    BY <2>1, <2>2 DEF Endpoints, Producer
  <2> QED
    BY <1>1, <1>4, <2>3 DEF EntitiesAfter
<1> QED
  BY <1>1, <1>2, <1>3, <1>4 DEF Untouched

LEMMA CommitCaught ==
  ASSUME SyncInv, TypeOK', OrphanInv', Algorithm = "sidecar", Commit,
         NEW t \in Trace, t # plan.trace \/ ~queued, Caught(t)
  PROVE  Caught(t)'
<1> USE DEF SyncInv, OrphanInv
<1>1. /\ interaction_legs' = tx_legs /\ UNCHANGED <<lineage_trace_status, cursor>>
  BY DEF Commit
<1>2. CASE \E k \in KeysOf(t) : Fresh(k)
  <2>1. PICK k \in KeysOf(t) : Fresh(k)
    BY <1>2
  <2>2. k \in Key /\ interaction_legs'[k] # Absent /\ cursor' < interaction_legs'[k].seq
    BY <1>1, <2>1 DEF KeysOf, Fresh, Numbers, FreshPast
  <2>3. Visible(k)'
    BY <2>2 DEF LegsHaveInteractions, Visible
  <2>4. interaction_legs'[k].seq \in Nat /\ cursor' \in Nat
    BY <2>2 DEF TypeOK, LegRow, Optional
  <2>5. Ahead(t)'
    BY <2>1, <2>2, <2>3, <2>4 DEF Ahead
  <2> QED
    BY <2>5 DEF Caught
<1>3. CASE \A k \in KeysOf(t) : ~Fresh(k)
  <2>1. /\ Untouched(t)
        /\ \A k \in KeysOf(t) : lineage_metadata'[k] = lineage_metadata[k]
    BY <1>3, CommitReads
  <2>2. Ahead(t) => Ahead(t)'
    BY <1>1, <2>1, AheadStays
  <2>3. cursor <= cursor'
    BY <1>1 DEF TypeOK
  <2> QED
    BY <1>1, <2>1, <2>2, <2>3, CaughtStays
<1> QED
  BY <1>2, <1>3

LEMMA CommitSync ==
  ASSUME SyncInv, Algorithm = "sidecar", OrphanInv', CursorInv', Commit
  PROVE  SyncInv'
<1> USE DEF SyncInv, OrphanInv
<1>1. /\ wpc = "commit"
      /\ interactions' = tx_interactions /\ interaction_legs' = tx_legs
      /\ queued' = FALSE
      /\ UNCHANGED <<lineage_trace_status, cursor, legs_seq, tx_interactions, tx_legs,
                     processor>>
      /\ QueueTrace(plan.trace)
  BY DEF Commit, EndTx
<1>2. plan.trace \in Trace
  BY <1>1, PlanRows DEF TypeOK
<1>3. /\ \A t \in Trace : t # plan.trace \/ ~queued => dirty'[t] = dirty[t]
      /\ queued => /\ dirty'[plan.trace] = dirty_generation + 1
                   /\ dirty_generation' = dirty_generation + 1
      /\ ~queued => dirty_generation' = dirty_generation
      /\ dirty_generation \in Nat /\ dirty_generation' \in Nat
  BY <1>1, <1>2 DEF QueueTrace, TypeOK
<1>4. Found'
  <2> SUFFICES ASSUME NEW t \in Trace PROVE Caught(t)' \/ dirty'[t] > 0
    BY DEF Found
  <2>1. CASE t = plan.trace /\ queued
    BY <1>3, <2>1
  <2>2. CASE t # plan.trace \/ ~queued
    BY <1>3, <2>2, CommitCaught DEF Found
  <2> QED
    BY <2>1, <2>2
<1>5. Redriven'
  <2>1. ASSUME phase = "store"
        PROVE  \E K \in SUBSET Entity : DerivedFrom(K, item.trace, derived, claim)'
    <3>1. PICK t : t = item.trace
      OBVIOUS
    <3>2. t \in Trace /\ t # plan.trace
      BY <1>1, <2>1, <3>1 DEF LockHeld, TakesLock, Item
    <3>3. PICK K \in SUBSET Entity : DerivedFrom(K, t, derived, claim)
      BY <2>1, <3>1 DEF Redriven
    <3>4. \A k \in KeysOf(t) : ~Fresh(k)
      BY <3>2 DEF Fresh, Touched, KeysOf
    <3>5. Untouched(t)
      BY <3>2, <3>4, CommitReads
    <3>6. DerivedFrom(K, t, derived, claim)'
      BY <1>1, <3>3, <3>5, HeldStays DEF processor
    <3>7. item'.trace = t
      BY <1>1, <3>1 DEF processor
    <3> QED
      BY <3>6, <3>7
  <2>2. ASSUME phase = "unqueue"
        PROVE  /\ item \in Item /\ item.rank <= dirty_generation'
               /\ item.rank = dirty'[item.trace] => Caught(item.trace)'
    <3>1. item \in Item /\ item.rank <= dirty_generation /\ item.rank \in Nat
      BY <2>2 DEF Redriven, Item
    <3>2. PICK t \in Trace : t = item.trace
      BY <3>1 DEF Item
    <3>3. ASSUME item.rank = dirty'[t] PROVE Caught(t)'
      <4>1. t # plan.trace \/ ~queued
        BY <1>3, <3>1, <3>3
      <4>2. dirty'[t] = dirty[t]
        BY <1>3, <4>1
      <4>3. Caught(t)
        BY <2>2, <3>2, <3>3, <4>2 DEF Redriven
      <4> QED
        BY <4>1, <4>3, CommitCaught
    <3>4. item'.trace = t
      BY <1>1, <3>2 DEF processor
    <3> QED
      BY <1>3, <3>1, <3>2, <3>3, <3>4
  <2>3. arm = "dirty" => \A i \in batch : i.rank <= dirty_generation'
    <3>1. \A i \in batch : i.rank \in Nat
      BY DEF TypeOK, Item
    <3> QED
      BY <1>3, <3>1 DEF Redriven
  <2>4. ASSUME NEW t \in Trace PROVE dirty'[t] <= dirty_generation'
    <3>1. dirty[t] \in Nat /\ dirty[t] <= dirty_generation
      BY DEF TypeOK, Redriven
    <3> QED
      BY <1>3, <3>1
  <2> QED
    BY <1>1, <2>1, <2>2, <2>3, <2>4 DEF Redriven, processor
<1>6. Touched'
  BY <1>1 DEF Touched
<1>7. Numbers'
  BY <1>1 DEF Numbers, Drawn, Distinct, FreshPast, Fresh, Stored, processor
<1>8. Consecutive'
  <2> SUFFICES ASSUME arm = "cursor", NEW k \in Key, NEW i \in batch,
                      tx_legs[k] # Absent, cursor < tx_legs[k].seq, tx_legs[k].seq <= i.rank
               PROVE  [trace |-> TraceOf[k[1]], rank |-> tx_legs[k].seq] \in batch
    BY <1>1 DEF Consecutive, Stored, processor
  <2>1. tx_legs[k].seq \in Nat /\ i.rank \in Nat
    BY DEF TypeOK, LegRow, Optional, Item
  <2>2. Stored(k)
    BY <2>1 DEF Numbers, FreshPast, Fresh, Stored
  <2>3. interaction_legs[k].seq = tx_legs[k].seq
    BY <2>2 DEF Numbers, Distinct
  <2> QED
    BY <2>2, <2>3 DEF Consecutive
<1> QED
  BY <1>4, <1>5, <1>6, <1>7, <1>8

(* An entity that becomes known changes what is derived, and nothing else.     *)
LEMMA EntitySync ==
  ASSUME SyncInv, OrphanInv', CursorInv', NEW e \in LateEntity, EntityLands(e)
  PROVE  SyncInv'
<1> USE DEF SyncInv, OrphanInv
<1>1. /\ entities \subseteq entities'
      /\ UNCHANGED <<interactions, interaction_legs, lineage_metadata,
                     lineage_trace_status, dirty, cursor, legs_seq,
                     dirty_generation, writer, processor>>
  BY DEF EntityLands
<1>2. \A t : Untouched(t)
  BY <1>1 DEF Untouched
<1>3. ASSUME NEW t \in Trace, Caught(t) PROVE Caught(t)'
  <2>1. Ahead(t) => Ahead(t)'
    BY <1>1, <1>2, AheadStays
  <2>2. cursor <= cursor'
    BY <1>1 DEF TypeOK
  <2> QED
    BY <1>1, <1>2, <1>3, <2>1, <2>2, CaughtStays
<1>4. Found'
  BY <1>1, <1>3 DEF Found
<1>5. Redriven'
  <2>1. PICK t : t = item.trace
    OBVIOUS
  <2>2. item'.trace = t
    BY <1>1, <2>1 DEF processor
  <2>3. ASSUME phase = "store"
        PROVE  \E K \in SUBSET Entity : DerivedFrom(K, item.trace, derived, claim)'
    <3>1. PICK K \in SUBSET Entity : DerivedFrom(K, t, derived, claim)
      BY <2>1, <2>3 DEF Redriven
    <3>2. DerivedFrom(K, t, derived, claim)'
      BY <1>1, <1>2, <3>1, HeldStays DEF processor
    <3> QED
      BY <2>2, <3>2
  <2>4. ASSUME phase = "unqueue", item.rank = dirty[item.trace] PROVE Caught(item.trace)'
    <3>1. t \in Trace /\ Caught(t)
      BY <2>1, <2>4 DEF Redriven, Item
    <3> QED
      BY <1>3, <2>2, <3>1
  <2> QED
    BY <1>1, <2>3, <2>4 DEF Redriven, processor
<1>6. Touched'
  BY <1>1 DEF Touched, writer
<1>7. Numbers' /\ Consecutive'
  BY <1>1 DEF Numbers, Drawn, Distinct, FreshPast, Fresh, Stored, Consecutive, writer,
     processor
<1> QED
  BY <1>4, <1>5, <1>6, <1>7

(* What concerns the tables and the writer only.                               *)
LEMMA QuietSync ==
  ASSUME SyncInv, UNCHANGED <<tables, dirty_generation, legs_seq, writer>>
  PROVE  Found' /\ Touched' /\ \A t : Caught(t)' <=> Caught(t)
<1>1. \A t : Caught(t)' <=> Caught(t)
  BY DEF tables, Caught, Settled, DerivedFrom, Ahead, StaleLegs, Visible, MissingRow,
     DriftedRow
<1>2. Found'
  BY <1>1 DEF SyncInv, Found, tables
<1>3. Touched'
  BY DEF SyncInv, Touched, tables, writer
<1> QED
  BY <1>1, <1>2, <1>3

LEMMA FetchSync ==
  ASSUME SyncInv, OrphanInv', CursorInv', Fetch
  PROVE  SyncInv'
<1> USE DEF SyncInv, OrphanInv
<1>1. UNCHANGED <<tables, dirty_generation, legs_seq, writer, item>>
        /\ phase' \in {"fetch", "lock"}
  BY DEF Fetch
<1>2. PICK chosen : /\ FirstOf(Work(arm), chosen) /\ batch' = chosen
                    /\ chosen # {} => arm' = arm
  BY DEF Fetch
<1>3. Found' /\ Touched'
  BY <1>1, QuietSync
<1>4. \A i \in batch' : arm' = arm /\ i \in Work(arm)
  BY <1>2 DEF FirstOf
<1>5. Redriven'
  <2>1. ASSUME arm' = "dirty", NEW i \in batch' PROVE i.rank <= dirty_generation
    <3>1. i \in QueuedTraces
      BY <1>4, <2>1 DEF Work
    <3> QED
      BY <3>1 DEF QueuedTraces, Redriven
  <2> QED
    BY <1>1, <2>1 DEF Redriven, tables
<1>6. ASSUME arm' = "cursor", NEW i \in batch'
      PROVE  \E k \in Key : /\ Stored(k) /\ interaction_legs[k].seq \in Nat
                            /\ i = [trace |-> TraceOf[k[1]], rank |-> interaction_legs[k].seq]
  <2>1. i \in NewLegs
    BY <1>4, <1>6 DEF Work
  <2> QED
    BY <2>1 DEF NewLegs, Visible, Stored, TypeOK, LegRow, Optional
<1>7. Numbers'
  <2>1. ASSUME arm' = "cursor", NEW i \in batch'
        PROVE  /\ i.rank <= legs_seq
               /\ \A k \in Key : Fresh(k) => i.rank < tx_legs[k].seq
    BY <1>6, <2>1 DEF Numbers, Drawn, FreshPast
  <2> QED
    BY <1>1, <2>1 DEF Numbers, Drawn, Distinct, FreshPast, Fresh, Stored, tables, writer
<1>8. Consecutive'
  <2>1. ASSUME arm' = "cursor", NEW i \in batch', NEW j \in batch', i.rank = j.rank
        PROVE  i = j
    BY <1>6, <2>1 DEF Numbers, Distinct
  <2>2. ASSUME arm' = "cursor", NEW k \in Key, NEW i \in batch', Stored(k),
               cursor < interaction_legs[k].seq, interaction_legs[k].seq <= i.rank
        PROVE  [trace |-> TraceOf[k[1]], rank |-> interaction_legs[k].seq] \in batch'
    <3> DEFINE n == [trace |-> TraceOf[k[1]], rank |-> interaction_legs[k].seq]
    <3>1. interaction_legs[k].seq \in Nat /\ cursor \in Nat
      BY <2>2 DEF Stored, TypeOK, LegRow, Optional
    <3>2. Visible(k)
      BY <2>2 DEF LegsHaveInteractions, Visible, Stored
    <3>3. n \in NewLegs /\ arm = "cursor"
      BY <1>4, <2>2, <3>1, <3>2 DEF NewLegs
    <3>4. PICK j \in Key : /\ Stored(j) /\ interaction_legs[j].seq \in Nat
                           /\ i = [trace |-> TraceOf[j[1]], rank |-> interaction_legs[j].seq]
      BY <1>6, <2>2
    <3>5. n \notin batch' => i.rank <= n.rank
      BY <1>2, <3>3 DEF FirstOf, Work
    <3>6. n \notin batch' => j = k
      BY <2>2, <3>1, <3>4, <3>5 DEF Numbers, Distinct
    <3> QED
      BY <3>4, <3>6
  <2> QED
    BY <1>1, <2>1, <2>2 DEF Consecutive, Stored, tables
<1> QED
  BY <1>3, <1>5, <1>7, <1>8

(* The lock, the read, and a crash.                                            *)
LEMMA ReadSync ==
  ASSUME SyncInv, OrphanInv', CursorInv', LockTrace \/ Load \/ Crash
  PROVE  SyncInv'
<1> USE DEF SyncInv, OrphanInv
<1>1. UNCHANGED <<tables, dirty_generation, legs_seq, writer>>
  BY DEF LockTrace, Load, Crash
<1>2. Found' /\ Touched'
  BY <1>1, QuietSync
<1>3. CASE LockTrace
  <2>1. /\ phase' = "load" /\ item' \in batch /\ UNCHANGED <<batch, arm>>
    BY <1>3 DEF LockTrace
  <2> QED
    BY <1>1, <1>2, <2>1 DEF Redriven, Numbers, Drawn, Distinct, FreshPast, Fresh, Stored,
       Consecutive, tables, writer
<1>4. CASE Load
  <2>1. /\ phase = "load" /\ phase' = "store" /\ UNCHANGED <<item, batch, arm>>
        /\ derived' = DeriveRows(item.trace, interactions, interaction_legs, entities)
        /\ claim' = DeriveStatus(item.trace, interactions, interaction_legs)
    BY <1>4 DEF Load
  <2>2. \E K \in SUBSET Entity : DerivedFrom(K, item.trace, derived, claim)'
    <3>1. entities' = entities /\ entities \in SUBSET Entity
      BY <1>1 DEF tables, TypeOK
    <3> QED
      BY <1>1, <2>1, <3>1 DEF DerivedFrom, tables
  <2> QED
    BY <1>1, <1>2, <2>1, <2>2 DEF Redriven, Numbers, Drawn, Distinct, FreshPast, Fresh,
       Stored, Consecutive, tables, writer
<1>5. CASE Crash
  <2>1. phase' = "fetch" /\ batch' = {}
    BY <1>5 DEF Crash
  <2> QED
    BY <1>1, <1>2, <2>1 DEF Redriven, Numbers, Drawn, Distinct, FreshPast, Fresh, Stored,
       Consecutive, tables, writer
<1> QED
  BY <1>3, <1>4, <1>5

(* What Store writes of the item's trace is what was derived, and it leaves    *)
(* the other traces alone.                                                     *)
LEMMA StoredRows ==
  ASSUME SyncInv, Store
  PROVE  /\ item.trace \in Trace
         /\ \A k \in KeysOf(item.trace) : lineage_metadata'[k] = derived[k]
         /\ lineage_trace_status'[item.trace] = claim
         /\ \A t \in Trace : t # item.trace =>
              /\ lineage_trace_status'[t] = lineage_trace_status[t]
              /\ \A k \in KeysOf(t) : lineage_metadata'[k] = lineage_metadata[k]
<1> USE DEF SyncInv, OrphanInv
<1>1. /\ phase = "store"
      /\ lineage_metadata' = IF claim = Absent THEN lineage_metadata
                             ELSE [k \in Key |-> StoredRow(k)]
      /\ lineage_trace_status' = [lineage_trace_status EXCEPT ![item.trace] = claim]
  BY DEF Store
<1>2. item.trace \in Trace
  BY <1>1 DEF LockHeld, Item
<1>3. PICK K \in SUBSET Entity : DerivedFrom(K, item.trace, derived, claim)
  BY <1>1 DEF Redriven
<1>4. ASSUME NEW k \in KeysOf(item.trace) PROVE lineage_metadata'[k] = derived[k]
  <2>1. k \in Key /\ TraceOf[k[1]] = item.trace
    BY DEF KeysOf
  <2>2. lineage_metadata[k] # Absent
          => k \in LoadTrace(item.trace, interactions, interaction_legs)
    BY <2>1 DEF NoOrphanLineage, Visible, LoadTrace
  <2>3. CASE claim = Absent
    <3>1. LoadTrace(item.trace, interactions, interaction_legs) = {}
      <4>1. interactions \in Interactions /\ interaction_legs \in Legs
        BY DEF TypeOK, Interactions, Legs
      <4> QED
        BY <1>3, <2>3, <4>1, DeriveStatusMeaning DEF DerivedFrom
    <3>2. derived[k] = Absent
      BY <1>3, <2>1, <3>1 DEF DerivedFrom, DeriveRows, Covered, Prefix
    <3> QED
      BY <1>1, <2>2, <2>3, <3>1, <3>2
  <2>4. CASE claim # Absent
    <3>1. lineage_metadata'[k] = StoredRow(k)
      BY <1>1, <2>1, <2>4
    <3>2. interactions[k[1]] = Absent => lineage_metadata[k] = Absent
      BY <2>1 DEF NoOrphanLineage, Visible
    <3> QED
      BY <3>1, <3>2 DEF StoredRow
  <2> QED
    BY <2>3, <2>4
<1>5. ASSUME NEW t \in Trace, t # item.trace, NEW k \in KeysOf(t)
      PROVE  lineage_metadata'[k] = lineage_metadata[k]
  <2>1. k \in Key /\ TraceOf[k[1]] = t /\ k \notin KeysOf(item.trace)
    BY <1>5 DEF KeysOf
  <2>2. derived[k] = Absent
    BY <1>1, <1>5, <2>1 DEF DerivedVisible
  <2> QED
    BY <1>1, <2>1, <2>2 DEF StoredRow
<1> QED
  BY <1>1, <1>2, <1>4, <1>5 DEF TypeOK

(* A leg that the cursor arm passes by is of the trace it derived.             *)
LEMMA NonePassedBy ==
  ASSUME SyncInv, Store, NEW t \in Trace, t # item.trace, Ahead(t)
  PROVE  Ahead(t)'
<1> USE DEF SyncInv, OrphanInv
<1>1. /\ phase = "store" /\ UNCHANGED <<interactions, interaction_legs>>
      /\ cursor' = IF arm = "cursor" THEN item.rank ELSE cursor
  BY DEF Store
<1>2. PICK k \in KeysOf(t) : Visible(k) /\ interaction_legs[k].seq > cursor
  BY DEF Ahead
<1>3. /\ k \in Key /\ TraceOf[k[1]] = t /\ Stored(k)
      /\ interaction_legs[k].seq \in Nat /\ cursor \in Nat
  BY <1>2 DEF KeysOf, Visible, Stored, TypeOK, LegRow, Optional
<1>4. ASSUME arm = "cursor" PROVE item.rank < interaction_legs[k].seq
  <2>1. item \in batch /\ item.rank \in Nat /\ \A i \in batch : item.rank <= i.rank
    BY <1>1, <1>4 DEF CursorInv, BatchAhead, TypeOK, Item
  <2> DEFINE n == [trace |-> t, rank |-> interaction_legs[k].seq]
  <2>2. interaction_legs[k].seq <= item.rank => n \in batch
    BY <1>2, <1>3, <1>4, <2>1 DEF Consecutive
  <2>3. interaction_legs[k].seq <= item.rank => n = item
    BY <1>3, <1>4, <2>1, <2>2 DEF Consecutive
  <2>4. n # item
    OBVIOUS
  <2> QED
    BY <1>3, <2>1, <2>3, <2>4
<1>5. cursor' < interaction_legs[k].seq
  BY <1>1, <1>2, <1>3, <1>4
<1>6. Visible(k)' /\ interaction_legs'[k].seq = interaction_legs[k].seq /\ cursor' \in Nat
  BY <1>1, <1>2, <1>3 DEF Visible, LockHeld, Item
<1> QED
  BY <1>2, <1>3, <1>5, <1>6 DEF Ahead

LEMMA StoreSync ==
  ASSUME SyncInv, OrphanInv', CursorInv', Store
  PROVE  SyncInv'
<1> USE DEF SyncInv, OrphanInv
<1>1. /\ phase = "store"
      /\ UNCHANGED <<interactions, interaction_legs, entities, dirty, legs_seq,
                     dirty_generation, writer>>
      /\ cursor' = IF arm = "cursor" THEN item.rank ELSE cursor
      /\ \/ arm = "dirty" /\ phase' = "unqueue" /\ UNCHANGED <<arm, batch, item>>
         \/ arm # "dirty" /\ NextItem
  BY DEF Store
<1>2. cursor <= cursor' /\ cursor \in Nat /\ cursor' \in Nat
  <2>1. arm = "cursor" => cursor <= item.rank
    BY <1>1 DEF CursorInv, BatchAhead
  <2> QED
    BY <1>1, <2>1 DEF TypeOK
<1>3. \A t : Untouched(t)
  BY <1>1 DEF Untouched
<1>4. PICK t0 \in Trace : t0 = item.trace
  BY StoredRows
<1>5. Caught(t0)'
  <2>1. PICK K \in SUBSET Entity : DerivedFrom(K, t0, derived, claim)
    BY <1>1, <1>4 DEF Redriven
  <2>2. DerivedFrom(K, t0, lineage_metadata, lineage_trace_status[t0])'
    BY <1>1, <1>4, <2>1, StoredRows DEF DerivedFrom
  <2> QED
    BY <2>2 DEF Caught, Settled
<1>6. ASSUME NEW t \in Trace, t # t0, Caught(t) PROVE Caught(t)'
  <2>1. Ahead(t) => Ahead(t)'
    BY <1>4, <1>6, NonePassedBy
  <2>2. /\ lineage_trace_status'[t] = lineage_trace_status[t]
        /\ \A k \in KeysOf(t) : lineage_metadata'[k] = lineage_metadata[k]
    BY <1>4, <1>6, StoredRows
  <2> QED
    BY <1>2, <1>3, <1>6, <2>1, <2>2, CaughtStays
<1>7. Found'
  BY <1>1, <1>5, <1>6 DEF Found
<1>8. \/ arm = "dirty" /\ phase' = "unqueue" /\ UNCHANGED <<arm, batch, item>>
      \/ /\ arm # "dirty" /\ phase' \in {"fetch", "lock"} /\ batch' = batch \ {item}
         /\ arm' = arm \/ batch' = {}
  BY <1>1 DEF NextItem
<1>9. Redriven'
  <2>1. CASE arm = "dirty"
    <3>1. item \in batch /\ item.rank <= dirty_generation
      BY <1>1, <2>1 DEF Redriven
    <3>2. phase' = "unqueue" /\ item \in Item /\ UNCHANGED <<arm, batch, item>>
      BY <1>8, <2>1, <3>1 DEF TypeOK
    <3>3. Caught(item.trace)'
      BY <1>4, <1>5, <3>2
    <3> QED
      BY <1>1, <2>1, <3>1, <3>2, <3>3 DEF Redriven
  <2>2. CASE arm # "dirty"
    BY <1>1, <1>8, <2>2 DEF Redriven
  <2> QED
    BY <2>1, <2>2
<1>10. Touched'
  BY <1>1 DEF Touched, writer
<1>11. arm = "cursor" => item \in batch
  BY <1>1 DEF CursorInv, BatchAhead
<1>12. Numbers'
  <2>1. Drawn'
    BY <1>1, <1>8, <1>11 DEF Numbers, Drawn, Stored, writer
  <2>2. Distinct'
    BY <1>1 DEF Numbers, Distinct, Stored, writer
  <2>3. FreshPast'
    BY <1>1, <1>8, <1>11 DEF Numbers, FreshPast, Fresh, Stored, writer
  <2> QED
    BY <2>1, <2>2, <2>3 DEF Numbers
<1>13. Consecutive'
  <2>1. CASE arm # "cursor" \/ batch' = {}
    BY <1>8, <2>1 DEF Consecutive
  <2>2. CASE arm = "cursor" /\ batch' = batch \ {item}
    <3> SUFFICES ASSUME NEW k \in Key, NEW i \in batch', Stored(k),
                        cursor' < interaction_legs[k].seq, interaction_legs[k].seq <= i.rank
                 PROVE  [trace |-> TraceOf[k[1]], rank |-> interaction_legs[k].seq]
                          \in batch'
      BY <1>1, <2>2 DEF Consecutive, Stored
    <3>1. interaction_legs[k].seq \in Nat
      BY DEF Stored, TypeOK, LegRow, Optional
    <3>2. cursor < interaction_legs[k].seq /\ interaction_legs[k].seq # item.rank
      BY <1>1, <1>2, <2>2, <3>1
    <3>3. [trace |-> TraceOf[k[1]], rank |-> interaction_legs[k].seq] \in batch
      BY <2>2, <3>2 DEF Consecutive
    <3> QED
      BY <2>2, <3>2, <3>3
  <2> QED
    BY <1>8, <2>1, <2>2
<1> QED
  BY <1>7, <1>9, <1>10, <1>12, <1>13

LEMMA UnqueueSync ==
  ASSUME SyncInv, OrphanInv', CursorInv', Unqueue
  PROVE  SyncInv'
<1> USE DEF SyncInv, OrphanInv
<1>1. /\ phase = "unqueue"
      /\ dirty' = IF dirty[item.trace] = item.rank
                  THEN [dirty EXCEPT ![item.trace] = 0] ELSE dirty
      /\ NextItem
      /\ UNCHANGED <<interactions, interaction_legs, entities, lineage_metadata,
                     lineage_trace_status, cursor, legs_seq, dirty_generation, writer>>
  BY DEF Unqueue
<1>2. /\ phase' \in {"fetch", "lock"} /\ batch' = batch \ {item}
      /\ arm' = arm \/ batch' = {}
  BY <1>1 DEF NextItem
<1>3. \A t : Caught(t)' <=> Caught(t)
  BY <1>1 DEF Caught, Settled, DerivedFrom, Ahead, StaleLegs, Visible, MissingRow,
     DriftedRow
<1>4. Found'
  <2> SUFFICES ASSUME NEW t \in Trace PROVE Caught(t) \/ dirty'[t] > 0
    BY <1>3 DEF Found
  <2>1. CASE dirty[item.trace] = item.rank /\ t = item.trace
    BY <1>1, <2>1 DEF Redriven
  <2>2. CASE ~(dirty[item.trace] = item.rank /\ t = item.trace)
    BY <1>1, <2>2 DEF Found, TypeOK
  <2> QED
    BY <2>1, <2>2
<1>5. Redriven'
  <2>1. \A t \in Trace : dirty'[t] <= dirty_generation
    BY <1>1 DEF Redriven, TypeOK
  <2> QED
    BY <1>1, <1>2, <2>1 DEF Redriven
<1>6. Touched'
  BY <1>1 DEF Touched, writer
<1>7. arm' = "cursor" => batch' = {}
  BY <1>1, <1>2 DEF Redriven
<1>8. Numbers'
  BY <1>1, <1>7 DEF Numbers, Drawn, Distinct, FreshPast, Fresh, Stored, writer
<1>9. Consecutive'
  BY <1>7 DEF Consecutive
<1> QED
  BY <1>4, <1>5, <1>6, <1>8, <1>9

LEMMA NextSync ==
  ASSUME SyncInv, Algorithm = "sidecar", [Next]_vars
  PROVE  SyncInv'
<1>1. OrphanInv' /\ CursorInv'
  BY NextOrphan, NextCursor DEF SyncInv
<1>2. CASE UNCHANGED vars
  <2>1. Found' /\ Redriven' /\ Consecutive'
    BY <1>2, TablesStay DEF vars
  <2>2. Touched'
    BY <1>2 DEF SyncInv, Touched, vars, tables, writer
  <2>3. Numbers'
    BY <1>2 DEF SyncInv, Numbers, Drawn, Distinct, FreshPast, Fresh, Stored, vars, tables,
       writer, processor
  <2> QED
    BY <1>1, <2>1, <2>2, <2>3 DEF SyncInv
<1>3. CASE WriterStep
  BY <1>1, <1>3, TransactionSync, CommitSync DEF WriterStep, FinishTx
<1>4. CASE Drain \/ Crash
  BY <1>1, <1>4, FetchSync, ReadSync, StoreSync, UnqueueSync DEF Drain
<1> QED
  BY <1>1, <1>2, <1>3, <1>4, EntitySync DEF Next

(* Under the sidecar writer no correction is lost: whatever the writer, the    *)
(* processor, late entities and crashes do, a trace whose stored lineage is    *)
(* not current is in the queue, or the cursor arm or the sweep will find it.   *)
THEOREM NothingSlipsThrough ==
  ASSUME Algorithm = "sidecar" PROVE Spec => []NoLostCorrection
<1>1. SyncInv => NoLostCorrection
  BY SettledIsFound
  DEF SyncInv, OrphanInv, Found, Caught, NoLostCorrection
<1> QED
  BY <1>1, InitSync, NextSync, PTL DEF Spec
=================================================================================
