------------------------- MODULE ChangeStreamProofs -------------------------
(***************************************************************************)
(* NoSilentGap and ExpiryIsJustified hold for every log, every set of      *)
(* consumers and filters, every page size and every bound.                 *)
(***************************************************************************)
EXTENDS ChangeStream, FiniteSetTheorems, SequenceTheorems, TLAPS

(* A change that is gone lies at or below its scope's mark.                *)
GoneIsMarked == \A c \in Cursors \ changes : c <= prunedThrough[ScopeAt(c)]

(* A mark is a change of its scope that is gone, or deleted by the next    *)
(* read.                                                                   *)
MarkIsGone ==
    \A sc \in Scope : prunedThrough[sc] # 0 =>
        /\ prunedThrough[sc] \in Cursors
        /\ ScopeAt(prunedThrough[sc]) = sc
        /\ prunedThrough[sc] \notin changes \ aged

(* Cursors handed to consumers are positions of the log.                   *)
PositionsExist ==
    \A s \in Subscriber :
        /\ pc[s] \in Live => pos[s] <= Len(history)
        /\ saved[s] # NoCursor => saved[s] <= Len(history)

(* A page holds what comes next: no matching change between the stream's   *)
(* cursor and a row of the page is missing from it.                        *)
PageIsNext ==
    \A s \in Subscriber : pc[s] = "yield" =>
        \A c \in page[s] :
            /\ pos[s] < c
            /\ \A d \in Cursors : pos[s] < d /\ d < c /\ Matches(s, d) => d \in page[s]

StreamsInv ==
    /\ StreamsTypeOK
    /\ GoneIsMarked
    /\ MarkIsGone
    /\ PositionsExist
    /\ PageIsNext
    /\ NoSilentGap

USE EntitiesHaveScopes, SubscribersHaveScopes, FiltersAreEntities, NoCursorIsNone,
    PagesHoldRows, BoundsAreNumbers

(* A page is empty only when there is nothing to return.                   *)
LEMMA EmptyPage ==
    ASSUME NEW n \in Nat, NEW rows \in SUBSET (1..n), IsPage({}, rows)
    PROVE  rows = {}
<1>1. IsFiniteSet(rows)
    <2>1. IsFiniteSet(1..n)
        BY FS_Interval
    <2> QED
        BY <2>1, FS_Subset
<1>2. Cardinality({}) = 0
    BY FS_EmptySet
<1>3. Cardinality(rows) = 0
    BY <1>1, <1>2, FS_CardinalityType DEF IsPage
<1> QED
    BY <1>1, <1>3, FS_EmptySet

(* What a publication appends: old cursors keep their changes.             *)
LEMMA PublishAppends ==
    ASSUME StreamsTypeOK, NEW b \in Publications, history' = history \o b
    PROVE  /\ history' \in Seq(Entity)
           /\ Len(b) \in Nat \ {0}
           /\ Len(history') = Len(history) + Len(b)
           /\ \A c \in Cursors : history'[c] = history[c]
           /\ ScopeOf[b[1]] \in Scope
           /\ \A c \in (Len(history) + 1)..(Len(history) + Len(b)) :
                  ScopeOf[history'[c]] = ScopeOf[b[1]]
<1>1. PICK n \in 1..MaxBatch : b \in [1..n -> Entity]
    BY DEF Publications
<1>2. b \in Seq(Entity) /\ Len(b) = n
    BY <1>1
<1>3. \A i \in 1..n : ScopeOf[b[i]] = ScopeOf[b[1]]
    BY <1>1 DEF Publications
<1>4. history \in Seq(Entity)
    BY DEF StreamsTypeOK
<1>5. /\ history' \in Seq(Entity)
      /\ Len(history') = Len(history) + Len(b)
      /\ \A i \in 1..(Len(history) + Len(b)) :
            history'[i] = IF i <= Len(history) THEN history[i] ELSE b[i - Len(history)]
    BY <1>2, <1>4, ConcatProperties
<1>6. \A c \in Cursors : history'[c] = history[c]
    BY <1>2, <1>4, <1>5 DEF Cursors
<1>7. ASSUME NEW c \in (Len(history) + 1)..(Len(history) + Len(b))
      PROVE  ScopeOf[history'[c]] = ScopeOf[b[1]]
    <2>1. history'[c] = b[c - Len(history)] /\ c - Len(history) \in 1..n
        BY <1>2, <1>4, <1>5
    <2> QED
        BY <2>1, <1>3
<1>8. b[1] \in Entity /\ n \in Nat \ {0}
    BY <1>1
<1>9. ScopeOf[b[1]] \in Scope /\ Len(b) \in Nat \ {0}
    BY <1>2, <1>8
<1> QED
    BY <1>5, <1>6, <1>7, <1>9

(* The initial state satisfies the invariant.                              *)
LEMMA StreamsInvInit == StreamsInit => StreamsInv
<1> SUFFICES ASSUME StreamsInit PROVE StreamsInv
    OBVIOUS
<1>1. Cursors = {} /\ Len(history) = 0 /\ history \in Seq(Entity)
    BY DEF StreamsInit, Cursors
<1>b. lost \in BOOLEAN
    BY Zenon DEF StreamsInit
<1>2. StreamsTypeOK
    BY <1>1, <1>b DEF StreamsInit, StreamsTypeOK, Live
<1> QED
    BY <1>1, <1>2 DEF StreamsInit, StreamsInv, GoneIsMarked, MarkIsGone, PositionsExist,
       PageIsNext, NoSilentGap, Live

(* Recording the marks: they are positions, never fall, and pass what has  *)
(* aged.                                                                   *)
LEMMA MarksRise ==
    ASSUME StreamsInv, RecordPruned
    PROVE  /\ prunedThrough' \in [Scope -> 0..Len(history)]
           /\ \A sc \in Scope :
                 /\ prunedThrough[sc] <= prunedThrough'[sc]
                 /\ \A c \in aged : ScopeAt(c) = sc => c <= prunedThrough'[sc]
                 /\ prunedThrough'[sc] # 0 =>
                       /\ prunedThrough'[sc] \in Cursors
                       /\ ScopeAt(prunedThrough'[sc]) = sc
                       /\ prunedThrough'[sc] \notin changes \ aged
    BY DEF StreamsInv, StreamsTypeOK, RecordPruned, Marks, MarkIsGone

(* Every change has a scope.                                               *)
LEMMA ScopesAreScopes ==
    ASSUME StreamsTypeOK, NEW c \in Cursors
    PROVE  ScopeAt(c) \in Scope /\ c \in Nat /\ Len(history) \in Nat
    BY DEF StreamsTypeOK, Cursors, ScopeAt

(* What subscribing does: the cursor it takes, and whether it is accepted. *)
LEMMA SubscribeAccepts ==
    ASSUME StreamsTypeOK, NEW s \in Subscriber, Subscribe(s)
    PROVE  \E cursor \in Nat :
              /\ pos' = [pos EXCEPT ![s] = cursor]
              /\ saved[s] # NoCursor => cursor = saved[s]
              /\ \/ /\ pc' = [pc EXCEPT ![s] = "expired"]
                    /\ CursorExpired(cursor, frontier[Home[s]], prunedThrough'[Home[s]])
                    /\ saved' = saved /\ from' = from
                 \/ /\ pc' = [pc EXCEPT ![s] = "read"]
                    /\ ~CursorExpired(cursor, frontier[Home[s]], prunedThrough'[Home[s]])
                    /\ saved' = [saved EXCEPT ![s] = cursor]
                    /\ from' = IF saved[s] = NoCursor
                               THEN [from EXCEPT ![s] = cursor] ELSE from
<1>1. frontier[Home[s]] \in Nat /\ saved[s] \in Nat \cup {NoCursor}
    BY DEF StreamsTypeOK
<1> DEFINE Given(after) == IF after = NoCursor THEN frontier[Home[s]] ELSE after
<1>2. PICK after \in IF saved[s] = NoCursor
                     THEN (0..MaxCursor) \cup {NoCursor} ELSE {saved[s]} :
              /\ pos' = [pos EXCEPT ![s] = Given(after)]
              /\ \/ /\ CursorExpired(Given(after), frontier[Home[s]], prunedThrough'[Home[s]])
                    /\ pc' = [pc EXCEPT ![s] = "expired"]
                    /\ saved' = saved /\ from' = from
                 \/ /\ ~CursorExpired(Given(after), frontier[Home[s]], prunedThrough'[Home[s]])
                    /\ pc' = [pc EXCEPT ![s] = "read"]
                    /\ saved' = [saved EXCEPT ![s] = Given(after)]
                    /\ from' = IF saved[s] = NoCursor
                               THEN [from EXCEPT ![s] = Given(after)] ELSE from
    BY Zenon DEF Subscribe
<1>3. Given(after) \in Nat /\ (saved[s] # NoCursor => Given(after) = saved[s])
    BY <1>1
<1> HIDE DEF Given
<1> QED
    BY <1>2, <1>3

(* Every step keeps the types.                                             *)
LEMMA StreamsTypeStep ==
    ASSUME StreamsInv, [StreamsNext]_streamsVars
    PROVE  StreamsTypeOK'
<1> USE DEF StreamsInv, StreamsTypeOK, Live
<1>0. Len(history) \in Nat /\ (history' = history => Cursors' = Cursors)
    BY DEF Cursors
<1>1. CASE Publish
    <2>1. PICK b \in Publications :
             /\ history' = history \o b
             /\ changes' = changes \cup (Len(history) + 1)..(Len(history) + Len(b))
             /\ frontier' = [frontier EXCEPT ![ScopeOf[b[1]]] = Len(history) + Len(b)]
        BY <1>1 DEF Publish
    <2>2. /\ history' \in Seq(Entity)
          /\ Len(b) \in Nat \ {0}
          /\ Len(history') = Len(history) + Len(b)
          /\ ScopeOf[b[1]] \in Scope
        BY <2>1, PublishAppends
    <2>3. Cursors \subseteq Cursors' /\ 0..Len(history) \subseteq 0..Len(history')
        BY <1>0, <2>2, SMTT(30) DEF Cursors
    <2>4. (Len(history) + 1)..(Len(history) + Len(b)) \subseteq 1..Len(history')
        BY <1>0, <2>2
    <2>a. changes' \subseteq Cursors'
        <3>1. changes \subseteq Cursors'
            BY <2>3
        <3> QED
            BY <2>1, <2>4, <3>1 DEF Cursors
    <2>5. frontier' \in [Scope -> 0..Len(history')]
        BY <1>0, <2>1, <2>2, <2>3
    <2> QED
        BY <1>1, <2>2, <2>3, <2>a, <2>5, SMTT(30) DEF Publish, streamVars, consumerVars
<1>2. CASE Signal
    <2>1. lost' \in BOOLEAN
        BY <1>2, Zenon DEF Signal
    <2> QED
        BY <1>0, <1>2, <2>1 DEF Signal, logVars, consumerVars
<1>3. CASE Abandon
    BY <1>0, <1>3 DEF Abandon, logVars, streamVars, consumerVars
<1>4. CASE Crash
    <2>1. prunedThrough' \in [Scope -> 0..Len(history)]
        BY <1>4 DEF Crash, RecordPruned
    <2> QED
        BY <1>0, <1>4, <2>1 DEF Crash, consumerVars
<1>5. ASSUME NEW c \in Cursors, Age(c) PROVE StreamsTypeOK'
    BY <1>0, <1>5 DEF Age, signalVars, streamVars, consumerVars
<1>6. ASSUME NEW s \in Subscriber, ReadPage(s) PROVE StreamsTypeOK'
    <2>1. prunedThrough' \in [Scope -> 0..Len(history)] /\ changes' \subseteq changes /\ aged' = {}
        BY <1>6 DEF ReadPage, RecordPruned, DeleteAged
    <2>2. frontier[Home[s]] \in Nat
        BY <1>0
    <2>3. page' \in [Subscriber -> SUBSET Cursors]
        BY <1>6 DEF ReadPage, Rows
    <2>4. pos' \in [Subscriber -> Nat] /\ pc' \in [Subscriber -> Live \cup {"off", "expired"}]
        BY <1>6, <2>2 DEF ReadPage
    <2> QED
        BY <1>0, <1>6, <2>1, <2>3, <2>4 DEF ReadPage, signalVars, consumerVars
<1>7. ASSUME NEW s \in Subscriber, Yield(s) PROVE StreamsTypeOK'
    <2>1. PICK c \in page[s] :
             /\ pos' = [pos EXCEPT ![s] = c]
             /\ page' = [page EXCEPT ![s] = @ \ {c}]
             /\ seen' = [seen EXCEPT ![s] = @ \cup {c}]
             /\ saved' \in {saved, [saved EXCEPT ![s] = c]}
             /\ pc' = IF page[s] = {c} THEN [pc EXCEPT ![s] = "read"] ELSE pc
        BY <1>7 DEF Yield
    <2>2. c \in Cursors /\ c \in Nat
        BY <1>0 DEF Cursors
    <2>3. seen' \in [Subscriber -> SUBSET Cursors] /\ page' \in [Subscriber -> SUBSET Cursors]
        BY <2>1, <2>2
    <2>4. /\ saved' \in [Subscriber -> Nat \cup {NoCursor}]
          /\ pos' \in [Subscriber -> Nat]
          /\ pc' \in [Subscriber -> Live \cup {"off", "expired"}]
        BY <2>1, <2>2
    <2> QED
        BY <1>0, <1>7, <2>3, <2>4 DEF Yield, signalVars, logVars
<1>8. ASSUME NEW s \in Subscriber, Watch(s) PROVE StreamsTypeOK'
    BY <1>0, <1>8 DEF Watch, signalVars, logVars, consumerVars
<1>9. ASSUME NEW s \in Subscriber, Check(s) PROVE StreamsTypeOK'
    BY <1>0, <1>9 DEF Check, signalVars, logVars, consumerVars
<1>10. ASSUME NEW s \in Subscriber, Wake(s) PROVE StreamsTypeOK'
    BY <1>0, <1>10 DEF Wake, signalVars, logVars, consumerVars
<1>11. ASSUME NEW s \in Subscriber, Subscribe(s) PROVE StreamsTypeOK'
    <2>1. prunedThrough' \in [Scope -> 0..Len(history)] /\ changes' \subseteq changes /\ aged' = {}
        BY <1>11 DEF Subscribe, RecordPruned, DeleteAged
    <2>2. frontier[Home[s]] \in Nat
        BY <1>0
    <2>3. PICK cursor \in Nat :
             /\ pos' = [pos EXCEPT ![s] = cursor]
             /\ \/ /\ pc' = [pc EXCEPT ![s] = "expired"]
                   /\ saved' = saved /\ from' = from
                \/ /\ pc' = [pc EXCEPT ![s] = "read"]
                   /\ saved' = [saved EXCEPT ![s] = cursor]
                   /\ from' = from \/ from' = [from EXCEPT ![s] = cursor]
        BY <1>11, SubscribeAccepts
    <2>4. /\ pos' \in [Subscriber -> Nat]
          /\ pc' \in [Subscriber -> Live \cup {"off", "expired"}]
        BY <2>3
    <2>5. saved' \in [Subscriber -> Nat \cup {NoCursor}]
        BY <2>3, ZenonT(60)
    <2>6. from' \in [Subscriber -> Nat]
        BY <2>3
    <2> QED
        BY <1>0, <1>11, <2>1, <2>4, <2>5, <2>6 DEF Subscribe, signalVars
<1>12. ASSUME NEW s \in Subscriber, Drop(s) PROVE StreamsTypeOK'
    BY <1>0, <1>12 DEF Drop, signalVars, logVars, consumerVars
<1>13. ASSUME NEW s \in Subscriber, Resync(s) PROVE StreamsTypeOK'
    BY <1>0, <1>13 DEF Resync, signalVars, logVars
<1>14. CASE UNCHANGED streamsVars
    BY <1>0, <1>14 DEF streamsVars, signalVars, logVars, streamVars, consumerVars
<1> QED
    BY <1>1, <1>2, <1>3, <1>4, <1>5, <1>6, <1>7, <1>8, <1>9, <1>10, <1>11, <1>12, <1>13,
       <1>14 DEF StreamsNext, StreamStep

(* A step that publishes nothing keeps what the cursors stand for.         *)
LEMMA SameHistory ==
    ASSUME history' = history
    PROVE  /\ Cursors' = Cursors
           /\ \A c : ScopeAt(c)' = ScopeAt(c)
           /\ \A s, c : Matches(s, c)' = Matches(s, c)
    BY DEF Cursors, ScopeAt, Matches

(* Deleting what has aged after recording it keeps the marks right.        *)
LEMMA PruneKeepsMarks ==
    ASSUME StreamsInv, RecordPruned, DeleteAged, history' = history
    PROVE  GoneIsMarked' /\ MarkIsGone'
<1>1. GoneIsMarked'
    <2> SUFFICES ASSUME NEW c \in Cursors, c \notin changes \ aged
                 PROVE  c <= prunedThrough'[ScopeAt(c)]
        BY SameHistory DEF GoneIsMarked, DeleteAged
    <2>1. ScopeAt(c) \in Scope /\ c \in Nat /\ Len(history) \in Nat
        BY ScopesAreScopes DEF StreamsInv
    <2>2. prunedThrough[ScopeAt(c)] \in Nat /\ prunedThrough'[ScopeAt(c)] \in Nat
        BY <2>1, MarksRise DEF StreamsInv, StreamsTypeOK
    <2>3. CASE c \in aged
        BY <2>1, <2>3, MarksRise
    <2>4. CASE c \notin changes
        BY <2>1, <2>2, <2>4, MarksRise DEF StreamsInv, GoneIsMarked
    <2> QED
        BY <2>3, <2>4
<1>2. MarkIsGone'
    BY SameHistory, MarksRise DEF MarkIsGone, DeleteAged
<1> QED
    BY <1>1, <1>2

(* Every step keeps the marks and the log in agreement.                    *)
LEMMA MarksStep ==
    ASSUME StreamsInv, [StreamsNext]_streamsVars
    PROVE  GoneIsMarked' /\ MarkIsGone'
<1>1. CASE Publish
    <2>1. PICK b \in Publications :
             /\ history' = history \o b
             /\ changes' = changes \cup (Len(history) + 1)..(Len(history) + Len(b))
        BY <1>1 DEF Publish
    <2>2. /\ Len(b) \in Nat \ {0}
          /\ Len(history') = Len(history) + Len(b)
          /\ \A c \in Cursors : history'[c] = history[c]
        BY <2>1, PublishAppends DEF StreamsInv
    <2>3. Len(history) \in Nat
        BY DEF StreamsInv, StreamsTypeOK
    <2>4. Cursors' = Cursors \cup (Len(history) + 1)..(Len(history) + Len(b))
        BY <2>2, <2>3 DEF Cursors
    <2>5. prunedThrough' = prunedThrough /\ aged' = aged
        BY <1>1 DEF Publish
    <2>6. \A c \in Cursors : ScopeAt(c)' = ScopeAt(c)
        BY <2>2 DEF ScopeAt
    <2>7. GoneIsMarked'
        BY <2>1, <2>4, <2>5, <2>6 DEF StreamsInv, GoneIsMarked
    <2>8. ASSUME NEW sc \in Scope, prunedThrough[sc] # 0
          PROVE  /\ prunedThrough[sc] \in Cursors'
                 /\ ScopeAt(prunedThrough[sc])' = sc
                 /\ prunedThrough[sc] \notin changes' \ aged
        <3>1. /\ prunedThrough[sc] \in Cursors
              /\ ScopeAt(prunedThrough[sc]) = sc
              /\ prunedThrough[sc] \notin changes \ aged
            BY <2>8 DEF StreamsInv, MarkIsGone
        <3>2. prunedThrough[sc] \notin (Len(history) + 1)..(Len(history) + Len(b))
            BY <2>3, <3>1 DEF Cursors
        <3>3. ScopeAt(prunedThrough[sc])' = sc
            BY <2>2, <2>5, <3>1 DEF ScopeAt
        <3> QED
            BY <2>1, <2>4, <3>1, <3>2, <3>3
    <2>9. MarkIsGone'
        BY <2>5, <2>8 DEF MarkIsGone, ScopeAt
    <2> QED
        BY <2>7, <2>9
<1>2. CASE Crash
    <2>1. history' = history /\ changes' = changes /\ aged' = aged
        BY <1>2 DEF Crash
    <2>2. CASE prunedThrough' = prunedThrough
        BY <2>1, <2>2, SameHistory DEF StreamsInv, GoneIsMarked, MarkIsGone
    <2>3. CASE RecordPruned
        <3>1. MarkIsGone'
            BY <2>1, <2>3, SameHistory, MarksRise DEF MarkIsGone
        <3>2. ASSUME NEW c \in Cursors, c \notin changes
              PROVE  c <= prunedThrough'[ScopeAt(c)]
            <4>1. ScopeAt(c) \in Scope /\ c \in Nat /\ Len(history) \in Nat
                BY ScopesAreScopes DEF StreamsInv
            <4>2. prunedThrough[ScopeAt(c)] \in Nat /\ prunedThrough'[ScopeAt(c)] \in Nat
                BY <2>3, <4>1, MarksRise DEF StreamsInv, StreamsTypeOK
            <4> QED
                BY <2>3, <3>2, <4>1, <4>2, MarksRise DEF StreamsInv, GoneIsMarked
        <3> QED
            BY <2>1, <3>1, <3>2, SameHistory DEF GoneIsMarked
    <2> QED
        BY <1>2, <2>2, <2>3 DEF Crash
<1>3. ASSUME NEW c \in Cursors, Age(c) PROVE GoneIsMarked' /\ MarkIsGone'
    BY <1>3, SameHistory DEF Age, StreamsInv, GoneIsMarked, MarkIsGone
<1>4. ASSUME NEW s \in Subscriber, ReadPage(s) \/ Subscribe(s)
      PROVE  GoneIsMarked' /\ MarkIsGone'
    BY <1>4, PruneKeepsMarks DEF ReadPage, Subscribe
<1>5. CASE UNCHANGED logVars
    BY <1>5, SameHistory DEF logVars, StreamsInv, GoneIsMarked, MarkIsGone
<1> QED
    BY <1>1, <1>2, <1>3, <1>4, <1>5 DEF StreamsNext, StreamStep, Signal, Abandon, Yield,
       Watch, Check, Wake, Drop, Resync, streamsVars

(* A step that leaves the streams' cursors, pages and consumers alone, or  *)
(* only ends streams and sends them back to read or wait.                  *)
LEMMA QuietStep ==
    ASSUME StreamsInv, history' = history, pos' = pos, saved' = saved, from' = from,
           seen' = seen,
           \A s \in Subscriber : pc'[s] \in Live => pc[s] \in Live,
           \A s \in Subscriber : pc'[s] = "yield" => pc[s] = "yield" /\ page'[s] = page[s]
    PROVE  PositionsExist' /\ PageIsNext' /\ NoSilentGap'
<1>1. PositionsExist'
    BY DEF StreamsInv, PositionsExist
<1>2. PageIsNext'
    BY SameHistory DEF StreamsInv, PageIsNext
<1>3. NoSilentGap'
    BY SameHistory DEF StreamsInv, NoSilentGap
<1> QED
    BY <1>1, <1>2, <1>3

(* Publishing: the new changes lie beyond every position.                  *)
LEMMA PublishKeepsConsumers ==
    ASSUME StreamsInv, Publish
    PROVE  PositionsExist' /\ PageIsNext' /\ NoSilentGap'
<1>1. PICK b \in Publications : history' = history \o b
    BY DEF Publish
<1>2. /\ Len(b) \in Nat \ {0}
      /\ Len(history') = Len(history) + Len(b)
      /\ \A c \in Cursors : history'[c] = history[c]
    BY <1>1, PublishAppends DEF StreamsInv
<1>3. /\ pc' = pc /\ pos' = pos /\ page' = page /\ saved' = saved /\ from' = from
      /\ seen' = seen
    BY DEF Publish, streamVars, consumerVars
<1>4. Len(history) \in Nat
    BY DEF StreamsInv, StreamsTypeOK
<1>5. \A c \in Cursors' : c \in Nat /\ (c <= Len(history) => c \in Cursors)
    BY <1>2, <1>4 DEF Cursors
<1>6. \A s \in Subscriber : \A c \in Cursors : Matches(s, c)' = Matches(s, c)
    BY <1>2 DEF Matches, ScopeAt
<1>7. PositionsExist'
    <2>1. \A s \in Subscriber : pos[s] \in Nat /\ (saved[s] # NoCursor => saved[s] \in Nat)
        BY DEF StreamsInv, StreamsTypeOK
    <2> QED
        BY <1>2, <1>3, <1>4, <2>1 DEF StreamsInv, PositionsExist
<1>8. PageIsNext'
    <2> SUFFICES ASSUME NEW s \in Subscriber, pc[s] = "yield", NEW c \in page[s],
                        NEW d \in Cursors', pos[s] < d, d < c, Matches(s, d)'
                 PROVE  d \in page[s]
        BY <1>3 DEF StreamsInv, PageIsNext
    <2>1. c \in Cursors
        BY DEF StreamsInv, StreamsTypeOK
    <2>2. d \in Cursors
        BY <1>4, <1>5, <2>1 DEF Cursors
    <2> QED
        BY <1>6, <2>2 DEF StreamsInv, PageIsNext
<1>9. NoSilentGap'
    <2> SUFFICES ASSUME NEW s \in Subscriber, NEW c \in Cursors', Matches(s, c)', from[s] < c,
                        \/ pc[s] \in Live /\ c <= pos[s]
                        \/ saved[s] # NoCursor /\ c <= saved[s]
                 PROVE  c \in seen[s]
        BY <1>3 DEF NoSilentGap
    <2>1. c <= Len(history)
        <3>1. pos[s] \in Nat /\ (saved[s] # NoCursor => saved[s] \in Nat)
            BY DEF StreamsInv, StreamsTypeOK
        <3>2. CASE pc[s] \in Live /\ c <= pos[s]
            BY <1>4, <1>5, <3>1, <3>2 DEF StreamsInv, PositionsExist
        <3>3. CASE saved[s] # NoCursor /\ c <= saved[s]
            BY <1>4, <1>5, <3>1, <3>3 DEF StreamsInv, PositionsExist
        <3> QED
            BY <3>2, <3>3
    <2> QED
        BY <1>5, <1>6, <2>1 DEF StreamsInv, NoSilentGap
<1> QED
    BY <1>7, <1>8, <1>9

(* Reading a page: an empty one lets the cursor jump to the frontier,      *)
(* because every matching change up to there has been received.            *)
LEMMA ReadKeepsConsumers ==
    ASSUME StreamsInv, NEW s \in Subscriber, ReadPage(s)
    PROVE  PositionsExist' /\ PageIsNext' /\ NoSilentGap'
<1> DEFINE expired == CursorExpired(pos[s], frontier[Home[s]], prunedThrough'[Home[s]])
<1>1. /\ history' = history /\ saved' = saved /\ from' = from /\ seen' = seen
      /\ RecordPruned
    BY DEF ReadPage, consumerVars
<1>2. Len(history) \in Nat /\ Home[s] \in Scope
    BY DEF StreamsInv, StreamsTypeOK
<1>3. CASE expired
    <2>1. pc' = [pc EXCEPT ![s] = "expired"] /\ pos' = pos /\ page' = page
        BY <1>3 DEF ReadPage
    <2> QED
        BY <1>1, <2>1, QuietStep DEF Live, StreamsInv, StreamsTypeOK
<1>4. CASE ~expired
    <2>0. /\ frontier[Home[s]] \in 0..Len(history)
          /\ pos[s] \in Nat
          /\ prunedThrough'[Home[s]] \in Nat
          /\ prunedThrough[Home[s]] \in Nat
        BY <1>1, <1>2, MarksRise DEF StreamsInv, StreamsTypeOK
    <2>1. /\ pos[s] <= frontier[Home[s]]
          /\ prunedThrough'[Home[s]] <= pos[s]
        BY <1>2, <1>4, <2>0 DEF CursorExpired
    <2>2. PICK p \in SUBSET Rows(s) :
             /\ IsPage(p, Rows(s))
             /\ page' = [page EXCEPT ![s] = p]
             /\ \/ /\ p = {}
                   /\ pos' = [pos EXCEPT ![s] = frontier[Home[s]]]
                   /\ pc' = [pc EXCEPT ![s] = "wait"]
                \/ /\ p # {}
                   /\ pc' = [pc EXCEPT ![s] = "yield"]
                   /\ pos' = pos
        BY <1>4 DEF ReadPage
    <2>3. ASSUME NEW c \in Cursors, Matches(s, c), pos[s] < c
          PROVE  c \in Rows(s)
        <3>1. ScopeAt(c) = Home[s] /\ c \in Nat
            BY <2>3, ScopesAreScopes DEF Matches, StreamsInv
        <3>2. c \in changes
            <4> SUFFICES ASSUME c \notin changes PROVE FALSE
                OBVIOUS
            <4>1. c <= prunedThrough[Home[s]]
                BY <3>1 DEF StreamsInv, GoneIsMarked
            <4>2. prunedThrough[Home[s]] <= prunedThrough'[Home[s]]
                BY <1>1, <1>2, MarksRise
            <4> QED
                BY <2>0, <2>1, <2>3, <3>1, <4>1, <4>2
        <3>3. c \notin aged
            <4> SUFFICES ASSUME c \in aged PROVE FALSE
                OBVIOUS
            <4>1. c <= prunedThrough'[Home[s]]
                BY <1>1, <1>2, <3>1, MarksRise
            <4> QED
                BY <2>0, <2>1, <2>3, <3>1, <4>1
        <3> QED
            BY <2>3, <3>2, <3>3 DEF Rows
    <2>4. Rows(s) \in SUBSET (1..Len(history))
        BY DEF Rows, StreamsInv, StreamsTypeOK, Cursors
    <2>5. CASE p = {}
        <3>1. Rows(s) = {}
            BY <1>2, <2>2, <2>4, <2>5, EmptyPage
        <3>2. pos' = [pos EXCEPT ![s] = frontier[Home[s]]] /\ pc' = [pc EXCEPT ![s] = "wait"]
            BY <2>2, <2>5
        <3>3. PositionsExist'
            BY <1>1, <1>2, <2>0, <3>2 DEF StreamsInv, StreamsTypeOK, PositionsExist, Live
        <3>4. PageIsNext'
            BY <1>1, <2>2, <3>2, SameHistory DEF StreamsInv, StreamsTypeOK, PageIsNext
        <3>5. NoSilentGap'
            <4> SUFFICES ASSUME NEW t \in Subscriber, NEW c \in Cursors, Matches(t, c),
                                from[t] < c,
                                \/ pc'[t] \in Live /\ c <= pos'[t]
                                \/ saved[t] # NoCursor /\ c <= saved[t]
                         PROVE  c \in seen[t]
                BY <1>1, SameHistory DEF NoSilentGap
            <4>1. CASE t # s
                BY <3>2, <4>1 DEF StreamsInv, StreamsTypeOK, NoSilentGap
            <4>2. CASE t = s
                <5>1. ~(pos[s] < c)
                    BY <2>3, <3>1, <4>2
                <5>2. c <= pos[s] /\ pc[s] \in Live
                    BY <2>0, <5>1 DEF ReadPage, Live, Cursors
                <5> QED
                    BY <4>2, <5>2 DEF StreamsInv, NoSilentGap
            <4> QED
                BY <4>1, <4>2
        <3> QED
            BY <3>3, <3>4, <3>5
    <2>6. CASE p # {}
        <3>1. pc' = [pc EXCEPT ![s] = "yield"] /\ pos' = pos
            BY <2>2, <2>6
        <3>2. pc[s] \in Live
            BY DEF ReadPage, Live
        <3>3. PositionsExist'
            BY <1>1, <3>1, <3>2 DEF StreamsInv, StreamsTypeOK, PositionsExist
        <3>4. NoSilentGap'
            BY <1>1, <3>1, <3>2, SameHistory DEF StreamsInv, StreamsTypeOK, NoSilentGap
        <3>5. PageIsNext'
            <4> SUFFICES ASSUME NEW t \in Subscriber, pc'[t] = "yield", NEW c \in page'[t]
                         PROVE  /\ pos[t] < c
                                /\ \A d \in Cursors : pos[t] < d /\ d < c /\ Matches(t, d)
                                                     => d \in page'[t]
                BY <1>1, <3>1, SameHistory DEF PageIsNext
            <4>1. CASE t # s
                BY <2>2, <3>1, <4>1 DEF StreamsInv, StreamsTypeOK, PageIsNext
            <4>2. CASE t = s
                <5>1. page'[t] = p
                    BY <2>2, <4>2 DEF StreamsInv, StreamsTypeOK
                <5>2. c \in Rows(s)
                    BY <5>1
                <5>3. pos[s] < c
                    BY <2>0, <5>2 DEF Rows
                <5>4. \A d \in Rows(s) : d < c => d \in p
                    BY <2>2, <5>1 DEF IsPage
                <5> QED
                    BY <2>3, <4>2, <5>1, <5>3, <5>4
            <4> QED
                BY <4>1, <4>2
        <3> QED
            BY <3>3, <3>4, <3>5
    <2> QED
        BY <2>5, <2>6
<1> QED
    BY <1>3, <1>4

(* Yielding: the row is the next matching change after the cursor.         *)
LEMMA YieldKeepsConsumers ==
    ASSUME StreamsInv, NEW s \in Subscriber, Yield(s)
    PROVE  PositionsExist' /\ PageIsNext' /\ NoSilentGap'
<1>1. PICK c \in page[s] :
         /\ \A d \in page[s] : c <= d
         /\ pos' = [pos EXCEPT ![s] = c]
         /\ page' = [page EXCEPT ![s] = @ \ {c}]
         /\ seen' = [seen EXCEPT ![s] = @ \cup {c}]
         /\ saved' = saved \/ saved' = [saved EXCEPT ![s] = c]
         /\ pc' = IF page[s] = {c} THEN [pc EXCEPT ![s] = "read"] ELSE pc
    BY DEF Yield
<1>2. /\ history' = history /\ from' = from
      /\ pc[s] = "yield" /\ pc[s] \in Live
    BY DEF Yield, logVars, Live
<1>3. Len(history) \in Nat /\ c \in Cursors /\ c \in Nat /\ pos[s] \in Nat
    BY DEF StreamsInv, StreamsTypeOK, Cursors
<1>4. pos[s] < c /\ \A d \in Cursors : pos[s] < d /\ d < c /\ Matches(s, d) => d \in page[s]
    BY <1>2 DEF StreamsInv, PageIsNext
<1>5. \A t \in Subscriber : t # s =>
         /\ pos'[t] = pos[t] /\ page'[t] = page[t] /\ seen'[t] = seen[t]
         /\ saved'[t] = saved[t] /\ pc'[t] = pc[t]
    BY <1>1 DEF StreamsInv, StreamsTypeOK
<1>6. /\ pos'[s] = c /\ page'[s] = page[s] \ {c} /\ seen'[s] = seen[s] \cup {c}
      /\ saved'[s] = saved[s] \/ saved'[s] = c
    BY <1>1 DEF StreamsInv, StreamsTypeOK
<1>7. PositionsExist'
    <2> SUFFICES ASSUME NEW t \in Subscriber
                 PROVE  /\ pc'[t] \in Live => pos'[t] <= Len(history)
                        /\ saved'[t] # NoCursor => saved'[t] <= Len(history)
        BY <1>2 DEF PositionsExist
    <2>1. CASE t # s
        BY <1>5, <2>1 DEF StreamsInv, PositionsExist
    <2>2. CASE t = s
        BY <1>3, <1>6, <2>2 DEF StreamsInv, PositionsExist, Cursors
    <2> QED
        BY <2>1, <2>2
<1>8. PageIsNext'
    <2> SUFFICES ASSUME NEW t \in Subscriber, pc'[t] = "yield", NEW e \in page'[t]
                 PROVE  /\ pos'[t] < e
                        /\ \A d \in Cursors : pos'[t] < d /\ d < e /\ Matches(t, d)
                                             => d \in page'[t]
        BY <1>2, SameHistory DEF PageIsNext
    <2>1. CASE t # s
        BY <1>5, <2>1 DEF StreamsInv, PageIsNext
    <2>2. CASE t = s
        <3>1. e \in page[s] /\ e # c /\ e \in Nat
            BY <1>3, <1>6, <2>2 DEF StreamsInv, StreamsTypeOK, Cursors
        <3>2. c < e
            BY <1>1, <1>3, <3>1
        <3>3. ASSUME NEW d \in Cursors, c < d, d < e, Matches(s, d)
              PROVE  d \in page[s] \ {c}
            <4>1. pos[s] < d /\ d # c
                BY <1>3, <1>4, <3>3 DEF Cursors
            <4> QED
                BY <1>2, <3>1, <3>3, <4>1 DEF StreamsInv, PageIsNext
        <3> QED
            BY <1>6, <2>2, <3>2, <3>3
    <2> QED
        BY <2>1, <2>2
<1>9. NoSilentGap'
    <2> SUFFICES ASSUME NEW t \in Subscriber, NEW d \in Cursors, Matches(t, d), from[t] < d,
                        \/ pc'[t] \in Live /\ d <= pos'[t]
                        \/ saved'[t] # NoCursor /\ d <= saved'[t]
                 PROVE  d \in seen'[t]
        BY <1>2, SameHistory DEF NoSilentGap
    <2>1. CASE t # s
        BY <1>5, <2>1 DEF StreamsInv, NoSilentGap
    <2>2. CASE t = s /\ saved[s] # NoCursor /\ d <= saved[s]
        BY <1>6, <2>2 DEF StreamsInv, NoSilentGap
    <2>3. CASE t = s /\ d <= c
        <3>1. CASE d = c
            BY <1>6, <2>3, <3>1
        <3>2. CASE pos[s] < d /\ d < c
            <4>1. d \in page[s]
                BY <1>4, <2>3, <3>2
            <4> QED
                BY <1>1, <1>3, <3>2, <4>1 DEF Cursors
        <3>3. CASE d <= pos[s]
            BY <1>2, <1>6, <2>3, <3>3 DEF StreamsInv, NoSilentGap
        <3> QED
            BY <1>3, <2>3, <3>1, <3>2, <3>3 DEF Cursors
    <2> QED
        BY <1>6, <2>1, <2>2, <2>3
<1> QED
    BY <1>7, <1>8, <1>9

(* Subscribing: a new consumer starts at the accepted cursor; a resuming   *)
(* one has received everything up to the cursor it saved.                  *)
LEMMA SubscribeKeepsConsumers ==
    ASSUME StreamsInv, NEW s \in Subscriber, Subscribe(s)
    PROVE  PositionsExist' /\ PageIsNext' /\ NoSilentGap'
<1>1. PICK cursor \in Nat :
         /\ pos' = [pos EXCEPT ![s] = cursor]
         /\ saved[s] # NoCursor => cursor = saved[s]
         /\ \/ /\ pc' = [pc EXCEPT ![s] = "expired"]
               /\ saved' = saved /\ from' = from
            \/ /\ pc' = [pc EXCEPT ![s] = "read"]
               /\ ~CursorExpired(cursor, frontier[Home[s]], prunedThrough'[Home[s]])
               /\ saved' = [saved EXCEPT ![s] = cursor]
               /\ from' = IF saved[s] = NoCursor THEN [from EXCEPT ![s] = cursor] ELSE from
    BY SubscribeAccepts DEF StreamsInv
<1>2. history' = history /\ page' = page /\ seen' = seen
    BY DEF Subscribe
<1>3. Len(history) \in Nat /\ frontier[Home[s]] \in 0..Len(history)
    BY DEF StreamsInv, StreamsTypeOK
<1>4. /\ pos'[s] = cursor
      /\ \A t \in Subscriber : t # s =>
            pos'[t] = pos[t] /\ pc'[t] = pc[t] /\ saved'[t] = saved[t] /\ from'[t] = from[t]
    BY <1>1 DEF StreamsInv, StreamsTypeOK
<1>5. \/ pc'[s] = "expired" /\ saved'[s] = saved[s] /\ from'[s] = from[s]
      \/ /\ pc'[s] = "read" /\ saved'[s] = cursor
         /\ cursor <= frontier[Home[s]]
         /\ from'[s] = IF saved[s] = NoCursor THEN cursor ELSE from[s]
    BY <1>1, <1>3 DEF StreamsInv, StreamsTypeOK, CursorExpired
<1>6. PositionsExist'
    <2> SUFFICES ASSUME NEW t \in Subscriber
                 PROVE  /\ pc'[t] \in Live => pos'[t] <= Len(history)
                        /\ saved'[t] # NoCursor => saved'[t] <= Len(history)
        BY <1>2 DEF PositionsExist
    <2>1. CASE t # s
        BY <1>4, <2>1 DEF StreamsInv, PositionsExist
    <2>2. CASE t = s
        BY <1>3, <1>4, <1>5, <2>2 DEF StreamsInv, PositionsExist, Live
    <2> QED
        BY <2>1, <2>2
<1>7. PageIsNext'
    BY <1>2, <1>4, <1>5, SameHistory DEF StreamsInv, PageIsNext
<1>8. NoSilentGap'
    <2> SUFFICES ASSUME NEW t \in Subscriber, NEW c \in Cursors, Matches(t, c), from'[t] < c,
                        \/ pc'[t] \in Live /\ c <= pos'[t]
                        \/ saved'[t] # NoCursor /\ c <= saved'[t]
                 PROVE  c \in seen[t]
        BY <1>2, SameHistory DEF NoSilentGap
    <2>1. CASE t # s
        BY <1>4, <2>1 DEF StreamsInv, NoSilentGap
    <2>2. CASE t = s
        <3>1. c \in Nat
            BY ScopesAreScopes DEF StreamsInv
        <3>2. CASE pc'[s] = "expired"
            BY <1>5, <2>2, <3>2 DEF StreamsInv, NoSilentGap, Live
        <3>3. CASE pc'[s] = "read"
            <4>1. c <= cursor /\ saved[s] # NoCursor
                BY <1>4, <1>5, <2>2, <3>1, <3>3
            <4> QED
                BY <1>1, <1>5, <2>2, <3>3, <4>1 DEF StreamsInv, NoSilentGap
        <3> QED
            BY <1>5, <3>2, <3>3
    <2> QED
        BY <2>1, <2>2
<1> QED
    BY <1>6, <1>7, <1>8

(* Every step keeps positions, pages and consumers consistent.             *)
LEMMA ConsumersStep ==
    ASSUME StreamsInv, [StreamsNext]_streamsVars
    PROVE  PositionsExist' /\ PageIsNext' /\ NoSilentGap'
<1> USE DEF Live
<1>0. pc \in [Subscriber -> Live \cup {"off", "expired"}] /\ page \in [Subscriber -> SUBSET Cursors]
    BY DEF StreamsInv, StreamsTypeOK
<1>1. CASE Publish
    BY <1>1, PublishKeepsConsumers
<1>2. CASE Signal \/ Abandon \/ (\E c \in Cursors : Age(c)) \/ UNCHANGED streamsVars
    BY <1>2, QuietStep DEF Signal, Abandon, Age, streamsVars, logVars, streamVars, consumerVars
<1>3. CASE Crash
    BY <1>0, <1>3, QuietStep DEF Crash, consumerVars
<1>4. ASSUME NEW s \in Subscriber, Watch(s) \/ Check(s) \/ Wake(s) \/ Drop(s)
      PROVE  PositionsExist' /\ PageIsNext' /\ NoSilentGap'
    BY <1>0, <1>4, QuietStep DEF Watch, Check, Wake, Drop, logVars, consumerVars
<1>5. ASSUME NEW s \in Subscriber, Resync(s)
      PROVE  PositionsExist' /\ PageIsNext' /\ NoSilentGap'
    <2>1. /\ history' = history /\ from' = from /\ pos' = pos
          /\ pc' = [pc EXCEPT ![s] = "off"] /\ page' = [page EXCEPT ![s] = {}]
          /\ saved' = [saved EXCEPT ![s] = NoCursor] /\ seen' = [seen EXCEPT ![s] = {}]
        BY <1>5 DEF Resync, logVars
    <2>2. /\ pc'[s] = "off" /\ saved'[s] = NoCursor
          /\ \A t \in Subscriber : t # s => /\ pc'[t] = pc[t] /\ page'[t] = page[t]
                                           /\ saved'[t] = saved[t] /\ seen'[t] = seen[t]
        BY <2>1 DEF StreamsInv, StreamsTypeOK
    <2>3. PositionsExist'
        BY <2>1, <2>2 DEF StreamsInv, PositionsExist
    <2>4. PageIsNext'
        BY <2>1, <2>2, SameHistory DEF StreamsInv, PageIsNext
    <2>5. NoSilentGap'
        BY <2>1, <2>2, SameHistory DEF StreamsInv, NoSilentGap
    <2> QED
        BY <2>3, <2>4, <2>5
<1> QED
    BY <1>1, <1>2, <1>3, <1>4, <1>5, ReadKeepsConsumers, YieldKeepsConsumers,
       SubscribeKeepsConsumers DEF StreamsNext, StreamStep

(* The inductive invariant holds in every reachable state.                 *)
THEOREM StreamsInvariant == StreamsSpec => []StreamsInv
<1>1. StreamsInit => StreamsInv
    BY StreamsInvInit
<1>2. StreamsInv /\ [StreamsNext]_streamsVars => StreamsInv'
    BY StreamsTypeStep, MarksStep, ConsumersStep DEF StreamsInv
<1> QED
    BY <1>1, <1>2, PTL DEF StreamsSpec

(* No consumer ever misses a change between the cursor it was accepted at  *)
(* and the one it has reached, whatever its filter, the page size and the  *)
(* retention, across aborted subscriptions and restarts of the provider.   *)
THEOREM DeliveryHasNoGap == StreamsSpec => []NoSilentGap
<1>1. StreamsInv => NoSilentGap
    BY DEF StreamsInv
<1> QED
    BY <1>1, StreamsInvariant, PTL

(* CURSOR_EXPIRED is answered only to a cursor the log cannot serve.       *)
THEOREM CursorsExpireWithReason == StreamsSpec => ExpiryIsJustified
<1> DEFINE Reason(s) ==
        \/ pos'[s] > frontier[Home[s]]
        \/ \E c \in Cursors \ changes' : ScopeAt(c) = Home[s] /\ c > pos'[s]
<1>1. ASSUME StreamsInv, NEW s \in Subscriber, RecordPruned, DeleteAged,
             NEW cursor \in Nat, pos'[s] = cursor,
             CursorExpired(cursor, frontier[Home[s]], prunedThrough'[Home[s]])
      PROVE  Reason(s)
    <2>1. Len(history) \in Nat /\ Home[s] \in Scope
        BY <1>1 DEF StreamsInv, StreamsTypeOK
    <2>2. prunedThrough'[Home[s]] \in Nat /\ frontier[Home[s]] \in Nat
        BY <1>1, <2>1, MarksRise DEF StreamsInv, StreamsTypeOK
    <2>3. CASE cursor > frontier[Home[s]]
        BY <1>1, <2>3
    <2>4. CASE cursor < prunedThrough'[Home[s]]
        <3>1. prunedThrough'[Home[s]] # 0
            BY <1>1, <2>2, <2>4
        <3>2. /\ prunedThrough'[Home[s]] \in Cursors \ changes'
              /\ ScopeAt(prunedThrough'[Home[s]]) = Home[s]
            BY <1>1, <2>1, <3>1, MarksRise DEF DeleteAged
        <3> QED
            BY <1>1, <2>2, <2>4, <3>2
    <2> QED
        BY <1>1, <2>2, <2>3, <2>4 DEF CursorExpired
<1>2. ASSUME StreamsInv, [StreamsNext]_streamsVars, NEW s \in Subscriber,
             pc[s] # "expired", pc'[s] = "expired"
      PROVE  Reason(s)
    <2>0. pc \in [Subscriber -> Live \cup {"off", "expired"}] /\ pos \in [Subscriber -> Nat]
        BY <1>2 DEF StreamsInv, StreamsTypeOK
    <2>1. ReadPage(s) \/ Subscribe(s)
        BY <1>2, <2>0 DEF StreamsNext, StreamStep, Publish, Signal, Abandon, Crash, Age,
           ReadPage, Yield, Watch, Check, Wake, Subscribe, Drop, Resync, streamsVars,
           streamVars, Live
    <2>2. CASE ReadPage(s)
        <3>1. /\ RecordPruned /\ DeleteAged /\ pos'[s] = pos[s] /\ pos[s] \in Nat
              /\ CursorExpired(pos[s], frontier[Home[s]], prunedThrough'[Home[s]])
            BY <1>2, <2>0, <2>2 DEF ReadPage
        <3> QED
            BY <1>1, <1>2, <3>1
    <2>3. CASE Subscribe(s)
        <3>1. PICK cursor \in Nat :
                 /\ pos' = [pos EXCEPT ![s] = cursor]
                 /\ \/ CursorExpired(cursor, frontier[Home[s]], prunedThrough'[Home[s]])
                    \/ pc' = [pc EXCEPT ![s] = "read"]
            BY <1>2, <2>3, SubscribeAccepts DEF StreamsInv
        <3>2. pos'[s] = cursor /\ CursorExpired(cursor, frontier[Home[s]], prunedThrough'[Home[s]])
            BY <1>2, <2>0, <3>1
        <3>3. RecordPruned /\ DeleteAged
            BY <2>3 DEF Subscribe
        <3> QED
            BY <1>1, <1>2, <3>2, <3>3
    <2> QED
        BY <2>1, <2>2, <2>3
<1>3. StreamsInv /\ [StreamsNext]_streamsVars =>
         [\A s \in Subscriber :
             pc[s] # "expired" /\ pc'[s] = "expired" => Reason(s)]_streamsVars
    BY <1>2
<1> QED
    BY <1>3, StreamsInvariant, PTL DEF StreamsSpec, ExpiryIsJustified
=============================================================================
