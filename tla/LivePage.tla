------------------------------- MODULE LivePage -------------------------------
(****************************************************************************)
(* One open trace page and what keeps it current (ADR-0034): the change hub  *)
(* and the event stream of api/live.py, the version token of                 *)
(* retrieval/trace_version.py, and the page's hook, ui/src/api/live.ts.      *)
(*                                                                          *)
(* A trace has two parts that are written by different processors, its       *)
(* interactions and its lineage, and the page has a view of each.  A part is *)
(* a number that grows with every change: the token digests the stored       *)
(* values, and derivations do not return to an earlier value (a new leg has  *)
(* a new seq, spans are only added).  The token's two parts are read by      *)
(* statements with a snapshot each.                                          *)
(*                                                                          *)
(* Simplifications.  The grace after a wake only passes time.  The           *)
(* keepalive comment is left out.  The hub hands over a notification in one  *)
(* step.  A read whose first attempt fails is sent once more: a snapshot     *)
(* taken later.  A read that is taken back leaves nothing behind.            *)
(****************************************************************************)
EXTENDS Naturals, Sequences

CONSTANTS
  None,        \* no token yet
  MaxWrites,   \* bound: changes of the interactions
  MaxSent      \* bound: tokens on their way to the page

ASSUME LivePageAssumption == MaxWrites \in Nat /\ MaxSent \in Nat \ {0}

View == {"interactions", "lineage"}

VARIABLES
  trace,       \* the derived tables: each part's latest version
  listening,   \* the hub's LISTEN session is registered
  notified,    \* the version last notified and not yet handed over, or 0
  event,       \* the stream's asyncio.Event is set
  announced,   \* history: the version of the stream's latest wake
  stream,      \* where _stream is: gone, reading, comparing, waiting
  marks,       \* the token's first part, between its two statements, else 0
  token,       \* the last token the stream sent, or None
  sent,        \* tokens on their way to the page
  source,      \* the page's EventSource: connecting, open, closed
  lastId,      \* the page's last token, or None
  polling,     \* the poll timer is set
  bare,        \* views whose query has no data yet
  pending,     \* views whose read has not reached the database
  served,      \* views whose answer is on its way
  reply,       \* the version in the answer on its way, or 0
  picture,     \* the version of each part that the page shows
  failed,      \* views whose last read failed
  swallowed    \* history: views whose answer on its way was older than the token
               \* that came meanwhile, and was not asked for again

server == <<listening, notified, event, announced, stream, marks, token>>
queries == <<bare, pending, served, reply, picture, failed, swallowed>>
browser == <<lastId, polling, queries>>
vars == <<trace, server, sent, source, browser>>

Init ==
  /\ trace = [v \in View |-> 0]
  /\ listening = FALSE /\ notified = 0
  /\ event = FALSE /\ announced = 0
  /\ stream = "gone" /\ marks = 0 /\ token = None
  /\ sent = <<>> /\ source = "connecting"
  /\ lastId = None /\ polling = FALSE
  /\ bare \in SUBSET View /\ pending = bare   \* the others are cached and fresh
  /\ served = {} /\ reply = [v \in View |-> 0]
  /\ picture = [v \in View |-> 0] /\ failed = {} /\ swallowed = {}

--------------------------------------------------------------------------------
(* The processors. *)

(* A notification reaches only a registered session. *)
Notify(version) == notified' = IF listening THEN version ELSE notified

(* A derivation commits.  Legs notify when they are written (migration 0012),  *)
(* deletions when they queue the trace (0026).                                 *)
WriteInteractions ==
  /\ trace["interactions"] < MaxWrites
  /\ trace' = [trace EXCEPT !["interactions"] = @ + 1]
  /\ Notify(trace'["interactions"])
  /\ UNCHANGED <<listening, event, announced, stream, marks, token, sent, source, browser>>

(* The lineage processor commits what it derived from a version it loaded.     *)
(* Its tables have no trigger that notifies.                                   *)
WriteLineage ==
  /\ \E n \in trace["lineage"] + 1..trace["interactions"] :
       trace' = [trace EXCEPT !["lineage"] = n]
  /\ UNCHANGED <<server, sent, source, browser>>

(* The channels are global: another trace's insert notifies too. *)
OtherTrace ==
  /\ Notify(trace["interactions"])
  /\ UNCHANGED <<trace, listening, event, announced, stream, marks, token, sent, source, browser>>

--------------------------------------------------------------------------------
(* ChangeHub. *)

(* _wake_all, on the loop thread: every subscribed stream's event is set. *)
WakeAll ==
  /\ notified > 0 /\ notified' = 0
  /\ event' = (event \/ stream # "gone")
  /\ announced' = IF stream = "gone" THEN announced ELSE notified
  /\ UNCHANGED <<trace, listening, stream, marks, token, sent, source, browser>>

Listen ==
  /\ ~listening /\ listening' = TRUE
  /\ UNCHANGED <<trace, notified, event, announced, stream, marks, token, sent, source, browser>>

LoseSession ==
  /\ listening
  /\ listening' = FALSE /\ notified' = 0
  /\ UNCHANGED <<trace, event, announced, stream, marks, token, sent, source, browser>>

--------------------------------------------------------------------------------
(* _stream. *)

(* The page's EventSource connects: a new stream subscribes and reads.         *)
Connect ==
  /\ source = "connecting" /\ source' = "open"
  /\ stream' = "reading" /\ sent' = <<>>
  /\ UNCHANGED <<trace, listening, notified, event, announced, marks, token, browser>>

(* Mutant: no backstop. *)
RereadOnWake ==
  /\ stream = "waiting" /\ event
  /\ stream' = "reading" /\ event' = FALSE
  /\ UNCHANGED <<trace, listening, notified, announced, marks, token, sent, source, browser>>

(* A wake or the backstop ends the wait; the event is cleared before the read. *)
Reread ==
  /\ stream = "waiting"
  /\ stream' = "reading" /\ event' = FALSE
  /\ UNCHANGED <<trace, listening, notified, announced, marks, token, sent, source, browser>>

(* get_trace_version, the statement for es, legs and dig. *)
ReadMarks ==
  /\ stream = "reading" /\ stream' = "comparing"
  /\ Len(sent) < MaxSent
  /\ marks' = trace["interactions"]
  /\ UNCHANGED <<trace, listening, notified, event, announced, token, sent, source, browser>>

(* The two statements' results together. *)
TraceVersion == [v \in View |-> IF v = "lineage" THEN trace[v] ELSE marks]

(* Mutant: the event is cleared once the read is done. *)
EmitThenClear ==
  /\ stream = "comparing" /\ stream' = "waiting" /\ marks' = 0
  /\ token' = TraceVersion
  /\ sent' = IF TraceVersion # token THEN Append(sent, TraceVersion) ELSE sent
  /\ event' = FALSE
  /\ UNCHANGED <<trace, listening, notified, announced, source, browser>>

(* get_trace_version's other statements; a token that differs is sent.         *)
Emit ==
  /\ stream = "comparing" /\ stream' = "waiting" /\ marks' = 0
  /\ token' = TraceVersion
  /\ sent' = IF TraceVersion # token THEN Append(sent, TraceVersion) ELSE sent
  /\ UNCHANGED <<trace, listening, notified, event, announced, source, browser>>

--------------------------------------------------------------------------------
(* useTraceLive and the page's queries. *)

(* invalidateQueries leaves a query without data the read it has under way;    *)
(* every other read starts, or is taken back and starts again.                 *)
JoinedReads == bare \cap (pending \cup served)

Invalidate ==
  /\ pending' = pending \cup (View \ JoinedReads)
  /\ served' = served \cap JoinedReads
  /\ reply' = [v \in View |-> IF v \in JoinedReads THEN reply[v] ELSE 0]

(* What a token does to the queries. *)
Signal(version) ==
  /\ Invalidate
  /\ swallowed' = {v \in bare \cap served : reply[v] < version[v]}

NoSignal == UNCHANGED <<pending, served, reply, swallowed>>

(* Mutant: the first token is only a baseline. *)
ReceiveBaseline ==
  /\ source = "open" /\ sent # <<>> /\ sent' = Tail(sent)
  /\ polling' = FALSE /\ lastId' = Head(sent)
  /\ IF lastId # None /\ Head(sent) # lastId THEN Signal(Head(sent)) ELSE NoSignal
  /\ UNCHANGED <<trace, server, source, bare, picture, failed>>

(* The change listener. *)
Receive ==
  /\ source = "open" /\ sent # <<>> /\ sent' = Tail(sent)
  /\ polling' = FALSE /\ lastId' = Head(sent)
  /\ IF Head(sent) # lastId THEN Signal(Head(sent)) ELSE NoSignal
  /\ UNCHANGED <<trace, server, source, bare, picture, failed>>

(* The stream ends and unsubscribes; its variables are gone. *)
EndStream ==
  /\ stream' = "gone" /\ marks' = 0 /\ token' = None
  /\ event' = FALSE /\ announced' = 0

(* The connection breaks or is refused: the browser connects again, or gives   *)
(* up on a reply that is not 200.  onerror starts polling.                     *)
Break ==
  /\ source # "closed"
  /\ source' \in {"connecting", "closed"}
  /\ polling' = TRUE
  /\ EndStream /\ sent' = <<>>
  /\ UNCHANGED <<trace, listening, notified, lastId, queries>>

(* reopenTimer. *)
Reopen ==
  /\ source = "closed" /\ source' = "connecting"
  /\ UNCHANGED <<trace, server, sent, browser>>

(* pollTimer. *)
Poll ==
  /\ polling /\ Invalidate
  /\ swallowed' = swallowed \cap bare \cap served
  /\ UNCHANGED <<trace, server, sent, source, lastId, polling, bare, picture, failed>>

(* The server answers a read with what the view is now.                        *)
Serve(v) ==
  /\ v \in pending /\ pending' = pending \ {v}
  /\ served' = served \cup {v}
  /\ reply' = [reply EXCEPT ![v] = trace[v]]
  /\ UNCHANGED <<trace, server, sent, source, lastId, polling, bare, picture, failed, swallowed>>

(* The answer arrives: the query has data and is no longer invalidated.        *)
Land(v) ==
  /\ v \in served /\ served' = served \ {v}
  /\ picture' = [picture EXCEPT ![v] = reply[v]]
  /\ reply' = [reply EXCEPT ![v] = 0]
  /\ bare' = bare \ {v} /\ failed' = failed \ {v}
  /\ UNCHANGED <<trace, server, sent, source, lastId, polling, pending, swallowed>>

(* The read and its one retry fail; the page keeps what it shows.              *)
FailRead(v) ==
  /\ v \in pending \cup served
  /\ pending' = pending \ {v} /\ served' = served \ {v}
  /\ reply' = [reply EXCEPT ![v] = 0]
  /\ failed' = failed \cup {v} /\ swallowed' = swallowed \ {v}
  /\ UNCHANGED <<trace, server, sent, source, lastId, polling, bare, picture>>

--------------------------------------------------------------------------------

StreamStep == Reread \/ ReadMarks \/ Emit

Next ==
  \/ WriteInteractions \/ WriteLineage \/ OtherTrace
  \/ WakeAll \/ Listen \/ LoseSession
  \/ Connect \/ StreamStep
  \/ Receive \/ Break \/ Reopen \/ Poll
  \/ \E v \in View : Serve(v) \/ Land(v) \/ FailRead(v)

Spec == Init /\ [][Next]_vars

(* The server's loop and the browser run; the hub and the writers need not.    *)
(* Polling takes an answer back again and again: some answer comes sooner.     *)
FairSpec ==
  /\ Spec
  /\ WF_vars(StreamStep) /\ WF_vars(Connect) /\ WF_vars(Receive)
  /\ WF_vars(Reopen) /\ WF_vars(Poll) /\ \A v \in View : WF_vars(Serve(v)) /\ SF_vars(Land(v))

--------------------------------------------------------------------------------

Token == [View -> 0..MaxWrites]

TypeOK ==
  /\ trace \in Token /\ trace["lineage"] <= trace["interactions"]
  /\ listening \in BOOLEAN /\ event \in BOOLEAN /\ polling \in BOOLEAN
  /\ notified \in 0..MaxWrites /\ announced \in 0..MaxWrites
  /\ stream \in {"gone", "reading", "comparing", "waiting"}
  /\ marks \in 0..MaxWrites
  /\ token \in Token \cup {None} /\ lastId \in Token \cup {None}
  /\ sent \in Seq(Token) /\ Len(sent) <= MaxSent
  /\ source \in {"connecting", "open", "closed"}
  /\ stream = "gone" <=> source # "open"
  /\ bare \subseteq View /\ failed \subseteq View /\ swallowed \subseteq View
  /\ pending \subseteq View /\ served \subseteq View \ pending
  /\ reply \in Token /\ picture \in Token

(* A wake is never slept over: a stream that waits with its event clear has    *)
(* read at least what its latest wake was about (_stream, "Clear BEFORE the    *)
(* read, never after").                                                        *)
WakeHeard ==
  stream = "waiting" /\ ~event => token["interactions"] >= announced

(* Views that are not being read, and whose last read did not fail. *)
Settled == View \ (pending \cup served \cup failed)

(* A settled view shows at least what the page's last token stands for, also   *)
(* for the first token and after a reconnect (live.ts, "The first event also   *)
(* invalidates").  The one exception: a first read that had been answered with *)
(* less when the token came, and had not landed.                               *)
PictureCoversToken ==
  lastId # None => \A v \in Settled \ swallowed : picture[v] >= lastId[v]

(* When the trace has come to rest the page shows it, for good, whatever       *)
(* notifications, sessions and connections were lost; but for a view whose     *)
(* last read failed, or whose first read swallowed the token, which waits for  *)
(* the next change (api/live.py, "the backstop ... is the correctness          *)
(* guarantee").                                                                *)
EventuallyShown ==
  <>[](\A v \in View \ (failed \cup swallowed) : picture[v] = trace[v])

(* live.ts of the first event: "Re-reading once at that point closes the       *)
(* window" between the page's first reads and the first token.  It does not    *)
(* for a first read that is still under way.                                   *)
WindowCloses ==
  lastId # None => \A v \in Settled : picture[v] >= lastId[v]
================================================================================
