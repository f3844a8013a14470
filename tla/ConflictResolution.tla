------------------------- MODULE ConflictResolution -------------------------
(***************************************************************************)
(* Values, Automerge documents and conflict resolution                     *)
(* (crates/backend/src/conflict.rs and its callers in engine.rs): what an  *)
(* update or a delete of one entity makes of the heads it did not name.    *)
(*                                                                         *)
(* A value has one field under a merge rule (None when its pointer is      *)
(* absent) and a rest.  The field carries its discriminator group          *)
(* (group_by; NoGroup when that pointer is absent) and a text, of which    *)
(* only the number of occurrences of each character is kept.  A document   *)
(* is the set of its changes, as Automerge has it: a root change puts a    *)
(* new object under "value", any other inserts and deletes in the object   *)
(* of its root; the object of the greatest root wins when several were put *)
(* concurrently.  Interleavings with other requests are Engine's subject:  *)
(* here an update and its commit are one step.                             *)
(***************************************************************************)
EXTENDS Naturals, FiniteSets, Sequences

CONSTANTS
    MaxVersion,  \* bound: versions the entity may have
    ChangeId,    \* change identities, ordered like actor identities
    Char,        \* characters of a text
    Group,       \* values of the discriminator
    NoGroup,     \* the discriminator is absent (group_values is None)
    Rest,        \* the part of a value no merge rule covers
    Menu,        \* fields a client may propose
    None

ASSUME VersionsAreBounded == MaxVersion \in Nat \ {0}
ASSUME ChangeIdsAreOrdered == ChangeId \subseteq Nat /\ IsFiniteSet(ChangeId)
ASSUME GroupsAreNames == NoGroup \notin Group
ASSUME NoneIsNoVersion == None \notin 1 .. MaxVersion

VARIABLES
    stored,      \* patchouli_entity_version and its CRDT tables
    heads,       \* patchouli_entity_head
    next,        \* the next version identity
    named        \* history: the versions the last mutation named as bases

vars == <<stored, heads, next, named>>

Text == [Char -> 0 .. Cardinality(ChangeId)]
Field == [group : Group \cup {NoGroup}, text : Text] \cup {None}
(* A client proposes no field, or a text that has each character at most   *)
(* once.                                                                   *)
ASSUME ProposalsAreFields ==
    Menu \subseteq [group : Group \cup {NoGroup}, text : [Char -> {0, 1}]] \cup {None}
ASSUME NoneIsNoField == None \notin [group : Group \cup {NoGroup}, text : Text]

Value == [rest : Rest, field : Field]
Tag == ChangeId \X Char
Change == [id : ChangeId, root : ChangeId, group : Group \cup {NoGroup},
           adds : SUBSET Char, dels : SUBSET Tag]
Row == [state : {"active", "deleted"}, value : Value, doc : SUBSET Change]

(* Rows, heads and the counter have their types.  An empty document stands *)
(* for a field without CRDT state.                                         *)
TypeOK ==
    /\ stored \in [1 .. next - 1 -> Row]
    /\ heads \subseteq DOMAIN stored
    /\ next \in 1 .. MaxVersion + 1
    /\ named \subseteq DOMAIN stored

-----------------------------------------------------------------------------
(* CrdtDocument                                                            *)

Roots(doc) == {c.root : c \in doc}
Winner(doc) == CHOOSE r \in Roots(doc) : \A q \in Roots(doc) : q <= r
Deleted(doc) == UNION {c.dels : c \in doc}

(* The live insertions of character x in the winning object.               *)
Live(doc, x) ==
    {<<c.id, x>> : c \in {c \in doc : c.root = Winner(doc) /\ x \in c.adds}}
      \ Deleted(doc)

Json(doc) ==
    [group |-> (CHOOSE c \in doc : c.id = Winner(doc)).group,
     text |-> [x \in Char |-> Cardinality(Live(doc, x))]]

FromJson(id, f) ==
    {[id |-> id, root |-> id, group |-> f.group,
      adds |-> {x \in Char : f.text[x] > 0}, dels |-> {}]}

MergeDocuments(docs) == UNION docs

(* The edits that turn the document's text into f's; none when it is f's.  *)
ChangeDocument(doc, id, f) ==
    LET adds == {x \in Char : f.text[x] > 0 /\ Live(doc, x) = {}}
        keep(x) == IF f.text[x] = 0 \/ Live(doc, x) = {} THEN {}
                   ELSE {CHOOSE t \in Live(doc, x) : TRUE}
        dels == UNION {Live(doc, x) \ keep(x) : x \in Char}
    IN  IF adds = {} /\ dels = {} THEN doc
        ELSE doc \cup {[id |-> id, root |-> Winner(doc),
                        group |-> f.group, adds |-> adds, dels |-> dels]}

-----------------------------------------------------------------------------
(* Candidates: [value, doc, source], source None for a new version         *)

(* Whether a base shares the merge group of the proposed field f and has a *)
(* document for it.  Two absent discriminators compare equal.              *)
MergeableBase(v, f) ==
    /\ stored[v].state = "active"
    /\ stored[v].value.field # None
    /\ stored[v].value.field.group = f.group
    /\ stored[v].doc # {}

(* prepare_candidate: the proposed value with the documents of its bases   *)
(* merged and changed to it, or a document of its own.                     *)
PrepareCandidate(bases, value, id) ==
    LET f == value.field
    IN  [value |-> value, source |-> None,
         doc |-> IF f = None THEN {}
                 ELSE IF \A v \in bases : MergeableBase(v, f)
                      THEN ChangeDocument(
                        MergeDocuments({stored[v].doc : v \in bases}), id, f)
                 ELSE FromJson(id, f)]

(* Under the reject fallback a proposal that cannot build on every base is *)
(* refused.                                                                *)
PrepareRejects(plan, bases, value) ==
    /\ plan.otherwise = "reject"
    /\ value.field = None \/ ~ \A v \in bases : MergeableBase(v, value.field)

(* A stored document that does not render the stored field is reported as  *)
(* provider corruption and refuses the update.                             *)
Corrupt(v) == stored[v].doc # {} /\ Json(stored[v].doc) # stored[v].value.field

StoredCandidate(v) ==
    [value |-> stored[v].value, doc |-> stored[v].doc, source |-> v]

-----------------------------------------------------------------------------
(* resolve_prepared_conflict over a sequence of candidates                 *)

(* Candidate i takes part in the merge of its field.                       *)
Grouped(cs, i) ==
    /\ cs[i].value.field # None
    /\ cs[i].doc # {}
    /\ cs[i].value.field.group # NoGroup

(* Those that merge with i.                                                *)
SameGroup(cs, i) ==
    IF Grouped(cs, i)
    THEN {j \in DOMAIN cs : Grouped(cs, j)
            /\ cs[j].value.field.group = cs[i].value.field.group}
    ELSE {}

MergeRejects(cs) == \E i \in DOMAIN cs : Cardinality(SameGroup(cs, i)) < 2

(* Mutants: the merged text is written without the merged document; the    *)
(* later branch of a group wins.                                           *)
MergedValueOnly(cs, i) ==
    IF Cardinality(SameGroup(cs, i)) < 2 THEN cs[i]
    ELSE [cs[i] EXCEPT
            !.value.field = Json(MergeDocuments({cs[j].doc :
                                                   j \in SameGroup(cs, i)})),
            !.source = None]
LastBranchWins(cs, i) ==
    LET last == CHOOSE j \in SameGroup(cs, i) : \A k \in SameGroup(cs, i) : k <= j
    IN  IF Cardinality(SameGroup(cs, i)) < 2 THEN cs[i]
        ELSE [value |-> [cs[i].value EXCEPT !.field = cs[last].value.field],
              doc |-> cs[last].doc, source |-> None]

MergedCandidate(cs, i) ==
    LET doc == MergeDocuments({cs[j].doc : j \in SameGroup(cs, i)})
    IN  IF Cardinality(SameGroup(cs, i)) < 2 THEN cs[i]
        ELSE [value |-> [cs[i].value EXCEPT !.field = Json(doc)],
              doc |-> doc, source |-> None]

(* collapse_identical_variants: candidates of equal value become one, at   *)
(* the first one's place.                                                  *)
Collapse(cs) ==
    LET same(i) == {j \in DOMAIN cs : cs[j].value = cs[i].value}
        first == {i \in DOMAIN cs : \A j \in same(i) : i <= j}
    IN  [i \in first |->
           [value |-> cs[i].value,
            doc |-> MergeDocuments({cs[j].doc : j \in same(i)}),
            source |-> IF same(i) = {i} THEN cs[i].source ELSE None]]

(* The variants, by the position of their first candidate.                 *)
Resolve(plan, cs) ==
    IF Len(cs) <= 1 \/ plan.strategy = "mvcc" THEN cs
    ELSE Collapse(<<>> \o [i \in DOMAIN cs |-> MergedCandidate(cs, i)])

ResolveRejects(plan, cs) ==
    /\ Len(cs) > 1
    /\ \/ plan.strategy = "reject"
       \/ plan.strategy = "merge" /\ plan.otherwise = "reject" /\ MergeRejects(cs)

-----------------------------------------------------------------------------
(* Mutations of the entity                                                 *)

Plan == [strategy : {"reject", "mvcc", "merge"}, otherwise : {"mvcc", "reject"}]
UsedIds == UNION {{c.id : c \in stored[v].doc} : v \in DOMAIN stored}
FreshIds == ChangeId \ UsedIds

Init ==
    /\ stored = <<>>
    /\ heads = {}
    /\ next = 1
    /\ named = {}

Create(value, id) ==
    /\ next = 1
    /\ stored' = <<[state |-> "active", value |-> value,
                    doc |-> IF value.field = None THEN {}
                            ELSE FromJson(id, value.field)]>>
    /\ heads' = {1}
    /\ next' = 2
    /\ named' = {}

(* Mutant: the heads the mutation named count as concurrent too.           *)
AllHeads(bases) == heads

Concurrent(bases) == heads \ bases
ConcurrentIn(bases, state) == {v \in Concurrent(bases) : stored[v].state = state}

(* A sequence of the active heads the mutation did not name.               *)
Orders(S) == {s \in [1 .. Cardinality(S) -> S] :
                \A i, j \in DOMAIN s : s[i] = s[j] => i = j}
Candidates(bases, value, id, order) ==
    <<PrepareCandidate(bases, value, id)>>
      \o [i \in DOMAIN order |-> StoredCandidate(order[i])]

UpdateRejects(plan, bases, value, id, order) ==
    \/ plan.strategy = "reject" /\ bases # heads
    \/ \E v \in bases \cup Concurrent(bases) : Corrupt(v)
    \/ PrepareRejects(plan, bases, value)
    \/ plan.otherwise = "reject" /\ ConcurrentIn(bases, "deleted") # {}
    \/ ResolveRejects(plan, Candidates(bases, value, id, order))

(* Mutant: a head the update did not name is dropped once it is merged     *)
(* with nothing.                                                           *)
HeadsOfNewOnly(vs, kept, bases) == kept

(* The heads that stay: variants with a source, and tombstones the update  *)
(* did not name.                                                           *)
KeptHeads(vs, kept, bases) == kept \cup ConcurrentIn(bases, "deleted")

Update(plan, bases, value, id, order) ==
    LET vs == Resolve(plan, Candidates(bases, value, id, order))
        fresh == {i \in DOMAIN vs : vs[i].source = None}
        kept == {vs[i].source : i \in DOMAIN vs \ fresh}
        version(i) == next + Cardinality({j \in fresh : j < i})
    IN  /\ heads # {} /\ next <= MaxVersion
        /\ ~UpdateRejects(plan, bases, value, id, order)
        /\ next + Cardinality(fresh) <= MaxVersion + 1
        /\ stored' = [v \in 1 .. next + Cardinality(fresh) - 1 |->
             IF v < next THEN stored[v]
             ELSE LET i == CHOOSE i \in fresh : version(i) = v
                  IN  [state |-> "active", value |-> vs[i].value,
                       doc |-> vs[i].doc]]
        /\ heads' = KeptHeads(vs, kept, bases) \cup {version(i) : i \in fresh}
        /\ next' = next + Cardinality(fresh)
        /\ named' = bases

(* A tombstone carries no value; the heads not named stay beside it unless *)
(* the strategy or its fallback rejects them.                              *)
Tombstone == [state |-> "deleted", doc |-> {},
              value |-> [rest |-> CHOOSE r \in Rest : TRUE, field |-> None]]

Delete(plan, bases) ==
    /\ heads # {}
    /\ next <= MaxVersion
    /\ plan.strategy = "reject" => bases = heads
    /\ Concurrent(bases) # {} => "reject" \notin {plan.strategy, plan.otherwise}
    /\ stored' = [v \in 1 .. next |-> IF v < next THEN stored[v] ELSE Tombstone]
    /\ heads' = Concurrent(bases) \cup {next}
    /\ next' = next + 1
    /\ named' = bases

(* The bases a client names: the heads it read, or any one version.        *)
Bases == {heads} \cup {{v} : v \in DOMAIN stored}
Values == [rest : Rest, field : Menu]

(* Only the identities of roots are compared: any other change draws the   *)
(* least.                                                                  *)
DrawnIds(bases, value) ==
    IF value.field # None /\ \A v \in bases : MergeableBase(v, value.field)
    THEN {i \in FreshIds : \A j \in FreshIds : i <= j}
    ELSE FreshIds

Next ==
    \/ \E value \in Values, id \in FreshIds : Create(value, id)
    \/ \E bases \in Bases, value \in Values :
         \E id \in DrawnIds(bases, value), plan \in Plan,
            order \in Orders(ConcurrentIn(bases, "active")) :
            Update(plan, bases, value, id, order)
    \/ \E bases \in Bases, plan \in Plan : Delete(plan, bases)

Spec == Init /\ [][Next]_vars

-----------------------------------------------------------------------------
(* Safety                                                                  *)

(* Documents of different discriminator groups are never merged: every     *)
(* object a document holds was put for the same group (prepare_candidate   *)
(* starts a new document when the group changes, merge_candidates merges   *)
(* within a group).                                                        *)
GroupsNeverMix ==
    \A v \in DOMAIN stored : Cardinality({c.group : c \in stored[v].doc}) <= 1

(* The stored document of a field renders the stored field, whatever was   *)
(* merged and collapsed into it (prepare_candidate and stored_candidate    *)
(* treat anything else as corruption and refuse every later update), and   *)
(* it is made of the changes of one group.                                 *)
DocumentMatchesValue == GroupsNeverMix /\ \A v \in DOMAIN stored : ~Corrupt(v)

(* The order in which candidates reach merge_candidates (the proposed one, *)
(* then heads in the order of their random identities) decides nothing:    *)
(* any order of the active heads yields the same variants.                 *)
OrderIsImmaterial ==
    LET active == {v \in heads : stored[v].state = "active"}
        outcome(s) == LET cs == [i \in DOMAIN s |-> StoredCandidate(s[i])]
                          vs == Resolve([strategy |-> "merge",
                                         otherwise |-> "mvcc"], cs)
                      IN  {vs[i] : i \in DOMAIN vs}
    IN  Cardinality({outcome(s) : s \in Orders(active)}) = 1

(* No edit its author never saw is lost: a head the mutation did not name  *)
(* stays a head, or a new head has all changes of its document and its     *)
(* rest (concurrent_heads, merge_candidates, collapse_identical_variants). *)
UnseenEditsSurvive ==
    [][\A v \in (heads \ heads') \ named' :
         \E w \in heads' \ heads :
            /\ stored[v].doc \subseteq stored'[w].doc
            /\ stored'[w].value.rest = stored[v].value.rest]_vars

(* Naming every current head resolves the entity to the one version the    *)
(* mutation creates, as the protocol promises.                             *)
NamingAllHeadsResolves ==
    [][heads # {} /\ heads \subseteq named' => heads' = {next}]_vars
=============================================================================
