-------------------------------- MODULE Driver --------------------------------
(****************************************************************************)
(* The loop every stream consumer runs (processors/_driver.py): follow a     *)
(* table by a durable cursor, one transaction per item, woken by NOTIFY or   *)
(* by a poll timeout; and the writers of that table, who draw a number from  *)
(* a sequence and make the row visible when they commit.                     *)
(*                                                                          *)
(* Simplifications.  An item is its number.  The loop's own variable cursor  *)
(* always equals the durable one between items, so it is left out.  The      *)
(* stop event is left out: a loop told to stop does nothing more.            *)
(****************************************************************************)
EXTENDS Naturals, FiniteSets

CONSTANTS
  Writers,     \* how many transactions write the table at a time
  BatchSize,   \* batch_size
  MaxItems,    \* bound: numbers drawn
  MaxFaults    \* bound: lost sessions, lost notifications, restarts

ASSUME DriverAssumption ==
  /\ Writers \in Nat \ {0} /\ BatchSize \in Nat \ {0}
  /\ MaxItems \in Nat /\ MaxFaults \in Nat

VARIABLES
  drawn,      \* the sequence's last value
  open,       \* numbers of transactions not yet ended
  committed,  \* numbers of visible rows
  cursor,     \* processor_state.last_processed_seq
  mode,       \* "start": the first drain; "connect": opening the LISTEN
              \* session; "listen"; "poll": no session
  draining,   \* inside drain, else waiting (or connecting)
  batch,      \* items read and not yet processed
  more,       \* the batch was full, drain reads another
  notified,   \* the session holds a notification
  processed,  \* items whose processing has committed
  late,       \* items that committed after the loop had gone past them
  faults

table == <<drawn, open, committed, late>>
loop == <<cursor, mode, draining, batch, more, processed>>
vars == <<table, loop, notified, faults>>

Number == 1..MaxItems

Init ==
  /\ drawn = 0 /\ open = {} /\ committed = {} /\ late = {}
  /\ cursor = 0 /\ mode = "start" /\ draining = TRUE
  /\ batch = {} /\ more = FALSE /\ processed = {}
  /\ notified = FALSE /\ faults = 0

--------------------------------------------------------------------------------
(* The writers. *)

Draw ==
  /\ drawn < MaxItems /\ Cardinality(open) < Writers
  /\ drawn' = drawn + 1 /\ open' = open \cup {drawn + 1}
  /\ UNCHANGED <<committed, late, loop, notified, faults>>

(* The loop has read, or processed, an item above n. *)
GonePast(n) == n <= cursor \/ \E i \in batch : n < i

(* The insert trigger notifies a session that listens, at commit.              *)
CommitItem(n) ==
  /\ open' = open \ {n} /\ committed' = committed \cup {n}
  /\ late' = IF GonePast(n) THEN late \cup {n} ELSE late
  /\ notified' = (notified \/ mode = "listen")
  /\ UNCHANGED <<drawn, loop, faults>>

RollbackItem(n) ==
  /\ open' = open \ {n}
  /\ UNCHANGED <<drawn, committed, late, loop, notified, faults>>

--------------------------------------------------------------------------------
(* The loop. *)

Past == {n \in committed : n > cursor}

(* What follows a drain: the first one, opening the session; else the wait.    *)
AfterDrain == IF mode = "start" THEN "connect" ELSE mode

(* fetch_batch: the lowest BatchSize items past the cursor. *)
Read ==
  /\ draining /\ batch = {}
  /\ batch' = {n \in Past : Cardinality({m \in Past : m < n}) < BatchSize}
  /\ more' = (Cardinality(Past) >= BatchSize)
  /\ IF Past = {} THEN draining' = FALSE /\ mode' = AfterDrain
                  ELSE UNCHANGED <<draining, mode>>
  /\ UNCHANGED <<table, cursor, processed, notified, faults>>

(* Mutant: the cursor moves to the end of the batch with its first item. *)
HandleJumping ==
  /\ draining
  /\ \E n \in batch :
       /\ \A m \in batch : n <= m
       /\ processed' = processed \cup {n}
       /\ batch' = batch \ {n}
  /\ cursor' = IF \E m \in batch : m > cursor
               THEN CHOOSE m \in batch : \A k \in batch : k <= m ELSE cursor
  /\ IF batch' = {} /\ ~more THEN draining' = FALSE /\ mode' = AfterDrain
                             ELSE UNCHANGED <<draining, mode>>
  /\ UNCHANGED <<table, more, notified, faults>>

(* process_item and advance_cursor, in one transaction.  A short batch ends    *)
(* the drain.                                                                  *)
Handle ==
  /\ draining
  /\ \E n \in batch :
       /\ \A m \in batch : n <= m
       /\ processed' = processed \cup {n} /\ cursor' = n
       /\ batch' = batch \ {n}
  /\ IF batch' = {} /\ ~more THEN draining' = FALSE /\ mode' = AfterDrain
                             ELSE UNCHANGED <<draining, mode>>
  /\ UNCHANGED <<table, more, notified, faults>>

(* _wake_loop opens the session and then waits. *)
Connect ==
  /\ mode = "connect"
  /\ mode' = "listen"
  /\ UNCHANGED <<table, cursor, draining, batch, more, processed, notified, faults>>

Waiting == ~draining /\ mode \in {"listen", "poll"}

(* The wait ends, by a notification or by the timeout; the loop drains. *)
Wake ==
  /\ Waiting /\ notified
  /\ draining' = TRUE /\ notified' = FALSE
  /\ UNCHANGED <<table, cursor, mode, batch, more, processed, faults>>

(* Mutant: without a session the loop drains once. *)
TimeoutListening ==
  /\ Waiting /\ mode = "listen" /\ draining' = TRUE
  /\ UNCHANGED <<table, cursor, mode, batch, more, processed, notified, faults>>

Timeout ==
  /\ Waiting /\ draining' = TRUE
  /\ UNCHANGED <<table, cursor, mode, batch, more, processed, notified, faults>>

(* The session cannot be opened, or the wait fails: _poll_loop, which drains   *)
(* at once.                                                                    *)
LoseSession ==
  /\ faults < MaxFaults /\ faults' = faults + 1
  /\ ~draining /\ mode \in {"connect", "listen"}
  /\ mode' = "poll" /\ draining' = TRUE /\ notified' = FALSE
  /\ UNCHANGED <<table, cursor, batch, more, processed>>

(* A notification is dropped on the way. *)
LoseNotification ==
  /\ faults < MaxFaults /\ faults' = faults + 1
  /\ notified /\ notified' = FALSE
  /\ UNCHANGED <<table, loop>>

(* The process dies, or an error in drain ends it; it restarts at the durable  *)
(* cursor.                                                                     *)
Restart ==
  /\ faults < MaxFaults /\ faults' = faults + 1
  /\ mode' = "start" /\ draining' = TRUE
  /\ batch' = {} /\ more' = FALSE /\ notified' = FALSE
  /\ UNCHANGED <<table, cursor, processed>>

--------------------------------------------------------------------------------

Write == Draw \/ \E n \in open : CommitItem(n) \/ RollbackItem(n)

Step == Read \/ Handle \/ Connect \/ Wake \/ Timeout

Next == Write \/ Step \/ LoseSession \/ LoseNotification \/ Restart

Spec == Init /\ [][Next]_vars

(* The loop's process is scheduled and its waits time out. *)
FairSpec == Spec /\ WF_vars(Step)

--------------------------------------------------------------------------------

TypeOK ==
  /\ drawn \in Nat /\ cursor \in Nat /\ faults \in Nat
  /\ open \subseteq 1..drawn /\ committed \subseteq 1..drawn
  /\ open \cap committed = {}
  /\ late \subseteq committed /\ processed \subseteq committed
  /\ batch \subseteq committed /\ Cardinality(batch) <= BatchSize
  /\ mode \in {"start", "connect", "listen", "poll"}
  /\ draining \in BOOLEAN /\ more \in BOOLEAN /\ notified \in BOOLEAN
  /\ (mode = "start" => draining) /\ (batch # {} => draining)

(* Whatever fails, an item at or below the cursor has been processed, unless   *)
(* the loop had already gone past it when it became visible (the gap that      *)
(* docs/PROJECT.md leaves to a later mechanism).                               *)
NoneLost ==
  \A n \in committed \ late : n <= cursor => n \in processed

(* Every other item is processed in the end, although notifications get lost,  *)
(* the session drops for good and the process restarts: "correctness depends   *)
(* only on the poll backstop".                                                 *)
EventuallyProcessed ==
  \A n \in Number :
    n \in committed \ late ~> n \in processed

(* While the loop waits with a session, an item it has not processed has left  *)
(* a notification, so that it does not wait for the timeout (run: "so an item  *)
(* that landed before LISTEN was registered is not stranded until the first    *)
(* poll timeout").                                                             *)
NoticedAtOnce ==
  (Waiting /\ mode = "listen" /\ faults = 0) => (Past = {} \/ notified)
================================================================================
