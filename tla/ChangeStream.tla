---------------------------- MODULE ChangeStream ----------------------------
(***************************************************************************)
(* Change subscriptions: the change log of the SQLite provider, its        *)
(* retention, the watch channel that wakes waiting readers, and the stream *)
(* that BackendEngine::subscribe builds on them.  The log is shared by all *)
(* scopes and numbered by one AUTOINCREMENT cursor; the frontier and the   *)
(* retention mark are kept per scope.                                      *)
(*                                                                         *)
(* Every database call runs to its end on the provider's one connection,   *)
(* so it is one step.  Between two steps other calls run, a call's future  *)
(* may be dropped, and the process may die.  The signal that follows a     *)
(* commit is sent by the caller's future and is a step of its own.         *)
(***************************************************************************)
EXTENDS Naturals, Sequences, FiniteSets

CONSTANTS
    Entity,      \* entities
    Scope,       \* scopes
    ScopeOf,     \* the scope of each entity
    Subscriber,  \* consumers, one subscription each at a time
    Home,        \* the scope each consumer subscribes in
    Filter,      \* the entities its filter lets through
    NoCursor,    \* after_cursor is absent
    PageLimit,   \* rows one read returns (256 in the engine)
    MaxCursor,   \* bound: changes published
    MaxBatch     \* bound: changes of one publication

ASSUME EntitiesHaveScopes == ScopeOf \in [Entity -> Scope]
ASSUME SubscribersHaveScopes == Home \in [Subscriber -> Scope]
ASSUME FiltersAreEntities == Filter \in [Subscriber -> SUBSET Entity]
ASSUME NoCursorIsNone == NoCursor \notin Nat
ASSUME PagesHoldRows == PageLimit \in Nat \ {0}
ASSUME BoundsAreNumbers == MaxCursor \in Nat /\ MaxBatch \in Nat

VARIABLES
    history,        \* every change ever published, by cursor (never pruned)
    changes,        \* patchouli_change: the cursors still retained
    aged,           \* retained rows recorded before the retention cutoff
    frontier,       \* patchouli_scope_frontier: last cursor of each scope
    prunedThrough,  \* patchouli_change_retention, 0 where it has no row
    unsignalled,    \* commits whose caller has not signalled yet
    lost,           \* a signal was dropped and none has been sent since
    pc,             \* where each consumer's stream is
    pos,            \* the stream's cursor
    page,           \* rows read and not yet yielded
    woken,          \* the stream's watch receiver has an unseen generation
    saved,          \* the cursor the consumer last saved
    from,           \* the cursor its first subscription was accepted at
    seen            \* the changes it has received since then

logVars == <<history, changes, aged, frontier, prunedThrough>>
signalVars == <<unsignalled, lost>>
streamVars == <<pc, pos, page, woken>>
consumerVars == <<saved, from, seen>>
streamsVars == <<logVars, signalVars, streamVars, consumerVars>>

Live == {"read", "yield", "wait", "check", "sleep"}

Cursors == 1..Len(history)

ScopeAt(c) == ScopeOf[history[c]]

(* The rows read_changes keeps for a query: its scope and its filters.     *)
Matches(s, c) == ScopeAt(c) = Home[s] /\ history[c] \in Filter[s]

StreamsTypeOK ==
    /\ history \in Seq(Entity)
    /\ changes \subseteq Cursors
    /\ aged \subseteq changes
    /\ frontier \in [Scope -> 0..Len(history)]
    /\ prunedThrough \in [Scope -> 0..Len(history)]
    /\ unsignalled \in Nat
    /\ lost \in BOOLEAN
    /\ pc \in [Subscriber -> Live \cup {"off", "expired"}]
    /\ pos \in [Subscriber -> Nat]
    /\ page \in [Subscriber -> SUBSET Cursors]
    /\ woken \in [Subscriber -> BOOLEAN]
    /\ saved \in [Subscriber -> Nat \cup {NoCursor}]
    /\ from \in [Subscriber -> Nat]
    /\ seen \in [Subscriber -> SUBSET Cursors]

StreamsInit ==
    /\ history = <<>>
    /\ changes = {}
    /\ aged = {}
    /\ frontier = [sc \in Scope |-> 0]
    /\ prunedThrough = [sc \in Scope |-> 0]
    /\ unsignalled = 0
    /\ lost = FALSE
    /\ pc = [s \in Subscriber |-> "off"]
    /\ pos = [s \in Subscriber |-> 0]
    /\ page = [s \in Subscriber |-> {}]
    /\ woken = [s \in Subscriber |-> FALSE]
    /\ saved = [s \in Subscriber |-> NoCursor]
    /\ from = [s \in Subscriber |-> 0]
    /\ seen = [s \in Subscriber |-> {}]

-----------------------------------------------------------------------------
(* The writers.                                                            *)

(* The changes of one publication: all in one scope.                       *)
Publications ==
    {b \in UNION {[1..n -> Entity] : n \in 1..MaxBatch} :
        \A i \in DOMAIN b : ScopeOf[b[i]] = ScopeOf[b[1]]}

(* One transaction inserts the changes of a publication.                   *)
Publish ==
    /\ \E b \in Publications :
          /\ Len(history) + Len(b) <= MaxCursor
          /\ history' = history \o b
          /\ changes' = changes \cup (Len(history) + 1)..(Len(history) + Len(b))
          /\ frontier' = [frontier EXCEPT ![ScopeOf[b[1]]] = Len(history) + Len(b)]
    /\ unsignalled' = unsignalled + 1
    /\ UNCHANGED <<aged, prunedThrough, lost, streamVars, consumerVars>>

(* signal_changes, once the committing call has returned to its future:    *)
(* marks the generation unseen for every receiver there is.                *)
Signal ==
    /\ unsignalled > 0
    /\ unsignalled' = unsignalled - 1
    /\ lost' = FALSE
    /\ woken' = [s \in Subscriber |-> pc[s] \in {"check", "sleep"}]
    /\ UNCHANGED <<logVars, pc, pos, page, consumerVars>>

(* The future is dropped after the connection thread has taken its call    *)
(* and before it signals: an engine's HTTP call to a storage node times    *)
(* out or its connection closes.                                           *)
Abandon ==
    /\ unsignalled > 0
    /\ unsignalled' = unsignalled - 1
    /\ lost' = TRUE
    /\ UNCHANGED <<logVars, streamVars, consumerVars>>

(* Time passes for a row.  Its recorded_at is read by an engine before the *)
(* commit is queued, so rows need not age in the order of their cursors.   *)
Age(c) ==
    /\ c \in changes \ aged
    /\ aged' = aged \cup {c}
    /\ UNCHANGED <<history, changes, frontier, prunedThrough, signalVars,
                   streamVars, consumerVars>>

-----------------------------------------------------------------------------
(* Reading the log.                                                        *)

Marks(sc) == {prunedThrough[sc]} \cup {c \in aged : ScopeAt(c) = sc}

(* The first statement of read_changes: raises the mark of each scope to   *)
(* the last row that has aged.                                             *)
RecordPruned ==
    /\ prunedThrough' \in [Scope -> 0..Len(history)]
    /\ \A sc \in Scope :
          /\ prunedThrough'[sc] \in Marks(sc)
          /\ \A m \in Marks(sc) : m <= prunedThrough'[sc]

(* The second statement: deletes those rows.                               *)
DeleteAged ==
    /\ changes' = changes \ aged
    /\ aged' = {}

(* Mutant: a cursor one row before the retained log is accepted.           *)
CursorExpiredLate(cursor, current, pruned) ==
    cursor > current \/ cursor + 2 < pruned + 1

(* Mutant: the last cursor before the retained log is refused.             *)
CursorExpiredEarly(cursor, current, pruned) ==
    cursor > current \/ cursor + 1 <= pruned + 1

(* validate_change_cursor; the oldest cursor of a page is pruned + 1.      *)
CursorExpired(cursor, current, pruned) ==
    cursor > current \/ cursor + 1 < pruned + 1

(* The first PageLimit rows of a result.                                   *)
IsPage(p, rows) ==
    /\ p \subseteq rows
    /\ \A c \in p : \A d \in rows : d < c => d \in p
    /\ Cardinality(p) = IF Cardinality(rows) < PageLimit
                        THEN Cardinality(rows) ELSE PageLimit

-----------------------------------------------------------------------------
(* The subscriptions.                                                      *)

(* subscribe: probes the log, which prunes it, and accepts or refuses the  *)
(* cursor.  A consumer that has saved a cursor resumes from it; a new one  *)
(* gives none, or one that it was handed.                                  *)
Subscribe(s) ==
    /\ pc[s] = "off"
    /\ RecordPruned
    /\ DeleteAged
    /\ \E after \in IF saved[s] = NoCursor
                    THEN (0..MaxCursor) \cup {NoCursor} ELSE {saved[s]} :
          LET cursor == IF after = NoCursor THEN frontier[Home[s]] ELSE after
          IN  /\ pos' = [pos EXCEPT ![s] = cursor]
              /\ \/ /\ CursorExpired(cursor, frontier[Home[s]], prunedThrough'[Home[s]])
                    /\ pc' = [pc EXCEPT ![s] = "expired"]
                    /\ UNCHANGED <<saved, from>>
                 \/ /\ ~CursorExpired(cursor, frontier[Home[s]], prunedThrough'[Home[s]])
                    /\ pc' = [pc EXCEPT ![s] = "read"]
                    /\ saved' = [saved EXCEPT ![s] = cursor]
                    /\ from' = IF saved[s] = NoCursor
                               THEN [from EXCEPT ![s] = cursor] ELSE from
    /\ UNCHANGED <<history, frontier, signalVars, page, woken, seen>>

Rows(s) == {c \in changes \ aged : c > pos[s] /\ Matches(s, c)}

(* One read_changes call of the stream and what the stream makes of it.    *)
ReadPage(s) ==
    /\ pc[s] = "read"
    /\ RecordPruned
    /\ DeleteAged
    /\ \/ /\ CursorExpired(pos[s], frontier[Home[s]], prunedThrough'[Home[s]])
          /\ pc' = [pc EXCEPT ![s] = "expired"]
          /\ UNCHANGED <<pos, page>>
       \/ /\ ~CursorExpired(pos[s], frontier[Home[s]], prunedThrough'[Home[s]])
          /\ \E p \in SUBSET Rows(s) :
                /\ IsPage(p, Rows(s))
                /\ page' = [page EXCEPT ![s] = p]
                /\ \/ /\ p = {}
                      /\ pos' = [pos EXCEPT ![s] = frontier[Home[s]]]
                      /\ pc' = [pc EXCEPT ![s] = "wait"]
                   \/ /\ p # {}
                      /\ pc' = [pc EXCEPT ![s] = "yield"]
                      /\ UNCHANGED pos
    /\ UNCHANGED <<history, frontier, signalVars, woken, consumerVars>>

(* Yields the next row; the consumer saves its cursor, or has not yet when *)
(* its connection is lost.                                                 *)
Yield(s) ==
    /\ pc[s] = "yield"
    /\ \E c \in page[s] :
          /\ \A d \in page[s] : c <= d
          /\ pos' = [pos EXCEPT ![s] = c]
          /\ page' = [page EXCEPT ![s] = @ \ {c}]
          /\ seen' = [seen EXCEPT ![s] = @ \cup {c}]
          /\ saved' \in {saved, [saved EXCEPT ![s] = c]}
          /\ pc' = IF page[s] = {c} THEN [pc EXCEPT ![s] = "read"] ELSE pc
    /\ UNCHANGED <<logVars, signalVars, woken, from>>

(* wait_for_changes first subscribes to the watch channel...               *)
Watch(s) ==
    /\ pc[s] = "wait"
    /\ woken' = [woken EXCEPT ![s] = FALSE]
    /\ pc' = [pc EXCEPT ![s] = "check"]
    /\ UNCHANGED <<logVars, signalVars, pos, page, consumerVars>>

(* Mutant: waits for the signal without reading the frontier first.        *)
SleepUnchecked(s) ==
    /\ pc[s] = "check"
    /\ pc' = [pc EXCEPT ![s] = IF woken[s] THEN "read" ELSE "sleep"]
    /\ woken' = [woken EXCEPT ![s] = FALSE]
    /\ UNCHANGED <<logVars, signalVars, pos, page, consumerVars>>

(* ... then reads the frontier, and returns or awaits changed().           *)
Check(s) ==
    /\ pc[s] = "check"
    /\ \/ /\ frontier[Home[s]] > pos[s]
          /\ pc' = [pc EXCEPT ![s] = "read"]
          /\ woken' = [woken EXCEPT ![s] = FALSE]
       \/ /\ frontier[Home[s]] <= pos[s]
          /\ pc' = [pc EXCEPT ![s] = "sleep"]
          /\ UNCHANGED woken
    /\ UNCHANGED <<logVars, signalVars, pos, page, consumerVars>>

(* changed() resolves on an unseen generation, whichever scope it is of.   *)
Wake(s) ==
    /\ pc[s] = "sleep"
    /\ woken[s]
    /\ woken' = [woken EXCEPT ![s] = FALSE]
    /\ pc' = [pc EXCEPT ![s] = "check"]
    /\ UNCHANGED <<logVars, signalVars, pos, page, consumerVars>>

(* The subscription's task is aborted: unsubscribe, or the connection ends.*)
Drop(s) ==
    /\ pc[s] \in Live
    /\ pc' = [pc EXCEPT ![s] = "off"]
    /\ page' = [page EXCEPT ![s] = {}]
    /\ woken' = [woken EXCEPT ![s] = FALSE]
    /\ UNCHANGED <<logVars, signalVars, pos, consumerVars>>

(* After CURSOR_EXPIRED the consumer rebuilds its state and starts anew.   *)
Resync(s) ==
    /\ pc[s] = "expired"
    /\ pc' = [pc EXCEPT ![s] = "off"]
    /\ page' = [page EXCEPT ![s] = {}]
    /\ saved' = [saved EXCEPT ![s] = NoCursor]
    /\ seen' = [seen EXCEPT ![s] = {}]
    /\ UNCHANGED <<logVars, signalVars, pos, woken, from>>

(* The provider's process dies and starts again: the streams are gone, and *)
(* a read may have recorded its mark without deleting the rows.            *)
Crash ==
    /\ \/ RecordPruned
       \/ UNCHANGED prunedThrough
    /\ unsignalled' = 0
    /\ lost' = FALSE
    /\ pc' = [s \in Subscriber |-> IF pc[s] \in Live THEN "off" ELSE pc[s]]
    /\ page' = [s \in Subscriber |-> {}]
    /\ woken' = [s \in Subscriber |-> FALSE]
    /\ UNCHANGED <<history, changes, aged, frontier, pos, consumerVars>>

-----------------------------------------------------------------------------
StreamStep(s) == ReadPage(s) \/ Yield(s) \/ Watch(s) \/ Check(s) \/ Wake(s)

StreamsNext ==
    \/ Publish \/ Signal \/ Abandon \/ Crash
    \/ \E c \in Cursors : Age(c)
    \/ \E s \in Subscriber :
          StreamStep(s) \/ Subscribe(s) \/ Drop(s) \/ Resync(s)

StreamsSpec == StreamsInit /\ [][StreamsNext]_streamsVars

(* Streams are polled by the runtime and their consumers keep reading; a   *)
(* caller that is not dropped signals.                                     *)
FairStreamsSpec ==
    /\ StreamsSpec
    /\ WF_streamsVars(Signal)
    /\ \A s \in Subscriber : WF_streamsVars(StreamStep(s))

-----------------------------------------------------------------------------
(* Delivery is resumable and at least once: whatever was pruned, filtered, *)
(* paged, aborted or crashed meanwhile, a consumer has received every      *)
(* change its filter lets through between the cursor it was first accepted *)
(* at and the cursor its stream, or its saved position, has reached.       *)
NoSilentGap ==
    \A s \in Subscriber : \A c \in Cursors :
        /\ Matches(s, c)
        /\ from[s] < c
        /\ \/ pc[s] \in Live /\ c <= pos[s]
           \/ saved[s] # NoCursor /\ c <= saved[s]
        => c \in seen[s]

(* CURSOR_EXPIRED is answered only to a cursor the log cannot serve: one   *)
(* beyond the scope's frontier, or one after which a change of the scope   *)
(* is no longer retained.                                                  *)
ExpiryIsJustified ==
    [][\A s \in Subscriber :
          pc[s] # "expired" /\ pc'[s] = "expired" =>
              \/ pos'[s] > frontier[Home[s]]
              \/ \E c \in Cursors \ changes' : ScopeAt(c) = Home[s] /\ c > pos'[s]]_streamsVars

(* A change published while a subscription is live reaches its consumer,   *)
(* unless the subscription ends first: the wakeup of wait_for_changes is   *)
(* never lost between reading the frontier and awaiting the signal.  A     *)
(* caller dropped before it signals may leave the change undelivered, and  *)
(* then only until the next signal of any scope.                           *)
EveryChangeIsDelivered ==
    \A s \in Subscriber : \A c \in 1..MaxCursor :
        (pc[s] \in Live /\ c \in Cursors /\ pos[s] < c /\ Matches(s, c) /\ ~lost)
            ~> (pc[s] \notin Live \/ (c <= pos[s] /\ c \in seen[s]) \/ lost)
=============================================================================
