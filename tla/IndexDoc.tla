------------------------------ MODULE IndexDoc ------------------------------
(***************************************************************************)
(* index.json as internal/index keeps it: a list of version entries, that  *)
(* every Upsert merges and sorts by semantic version.  The list may start  *)
(* as anything a person can leave in a hand-edited file: out of order, with *)
(* two entries of one version, with strings that are no semantic version.  *)
(* Module Catalogue says what the operations are to do to the catalogue     *)
(* that the list stands for; the invariants relate the two.                *)
(***************************************************************************)
EXTENDS Catalogue, FiniteSets

Seqs == INSTANCE SequencesExt

CONSTANTS
    Rank,         \* semver precedence of a version string, 0 if unparseable
    Documents,    \* the lists that index.json may hold at first
    Stagings,     \* what publishes may stage
    Constraints,  \* the version strings that each constraint accepts
    MaxTime       \* bound: operations in a behaviour

Entry == [ version: Versions, created: Nat, artifacts: [OsArches -> Artifact \cup {None}] ]

\* An entry's artifacts are of its version and under their os-arches.
IsList(list) ==
    /\ list \in Seq(Entry)
    /\ \A i \in DOMAIN list : \A oa \in OsArches :
         LET a == list[i].artifacts[oa]
         IN  a # None => a.key.slot = [version |-> list[i].version, osArch |-> oa]

ASSUME IndexDocAssumption ==
    /\ Rank \in [Versions -> Nat]
    /\ MaxTime \in Nat
    /\ None \notin OsArches
    /\ \A list \in Documents : IsList(list)
    /\ Stagings \subseteq Seq(Artifact)
    /\ Constraints \subseteq SUBSET Versions
    /\ \A accepts \in Constraints : \A v \in accepts : Rank[v] > 0

VARIABLES
    doc,     \* the index: its Updated time and its list of entries
    before,  \* the index as it was before the operation in op
    op,      \* the latest operation, a publish's loop of Upserts being one
    clock    \* counts operations; what time.Now returns during one

vars == <<doc, before, op, clock>>

Names(list) == [i \in DOMAIN list |-> list[i].version]

NoArtifacts == [oa \in OsArches |-> None]

---------------------------------------------------------------------------
(* Sorting, of version strings and of entries *)

\* The position of the first entry of a version, 0 if there is none.
findVersion(list, v) ==
    LET same == { i \in DOMAIN list : list[i].version = v }
    IN  IF same = {} THEN 0 ELSE CHOOSE i \in same : \A j \in same : i <= j

Parseable(v) == Rank[v] > 0

\* semver.SortAscending: the parseable ones in ascending order.  sort.Sort is not
\* stable, so strings of equal precedence may come out in either order.
SortAscending(names) ==
    { s \in Seqs!SetToSeqs({ v \in names : Parseable(v) }) :
        \A i, j \in DOMAIN s : i < j => Rank[s[i]] <= Rank[s[j]] }

\* The strings that do not parse, each once, in the order of first appearance.
Unparseable(list) ==
    { s \in Seqs!SetToSeqs({ v \in Seqs!ToSet(Names(list)) : ~Parseable(v) }) :
        \A i, j \in DOMAIN s : i < j => findVersion(list, s[i]) < findVersion(list, s[j]) }

\* Variant: the merged entries share one map of artifacts.
MergeAliased(list, v) ==
    LET times == { list[i].created : i \in { j \in DOMAIN list : list[j].version = v } } \ {0}
        has(oa) == { i \in DOMAIN list : list[i].artifacts[oa] # None }
    IN  [ version |-> v,
          created |-> IF times = {} THEN 0 ELSE CHOOSE t \in times : \A u \in times : t <= u,
          artifacts |-> [ oa \in OsArches |->
            IF has(oa) = {} THEN None
            ELSE list[CHOOSE i \in has(oa) : \A j \in has(oa) : j <= i].artifacts[oa] ] ]

\* The entries of one version as one: for each os-arch the last that has it, the
\* earliest publish time that is known.
Merge(list, v) ==
    LET same  == { i \in DOMAIN list : list[i].version = v }
        times == { list[i].created : i \in same } \ {0}
        has(oa) == { i \in same : list[i].artifacts[oa] # None }
    IN  [ version |-> v,
          created |-> IF times = {} THEN 0 ELSE CHOOSE t \in times : \A u \in times : t <= u,
          artifacts |-> [ oa \in OsArches |->
            IF has(oa) = {} THEN None
            ELSE list[CHOOSE i \in has(oa) : \A j \in has(oa) : j <= i].artifacts[oa] ] ]

\* Variant: what does not parse is dropped.
SortDropping(list) ==
    { [i \in DOMAIN order |-> Merge(list, order[i])] :
        order \in SortAscending(Seqs!ToSet(Names(list))) }

\* The lists SortVersions may leave: parseable versions ascending, then the rest.
SortVersions(list) ==
    { [i \in DOMAIN order |-> Merge(list, order[i])] :
        order \in { sorted \o rest : sorted \in SortAscending(Seqs!ToSet(Names(list))),
                                     rest \in Unparseable(list) } }

---------------------------------------------------------------------------
(* The operations on the list *)

\* Variant: does not sort.
UpsertUnsorted(list, art, now) ==
    LET slot == art.key.slot
        n    == findVersion(list, slot.version)
    IN  { IF n = 0
          THEN Append(list, [ version |-> slot.version, created |-> now,
                              artifacts |-> [NoArtifacts EXCEPT ![slot.osArch] = art] ])
          ELSE [list EXCEPT ![n].artifacts[slot.osArch] = art] }

\* Variant: replaces the entry of the version.
UpsertReplacing(list, art, now) ==
    LET slot == art.key.slot
        n    == findVersion(list, slot.version)
    IN  SortVersions(
          Append(IF n = 0 THEN list ELSE Seqs!RemoveAt(list, n),
                 [ version |-> slot.version, created |-> now,
                   artifacts |-> [NoArtifacts EXCEPT ![slot.osArch] = art] ]))

\* Sets the artifact in the first entry of its version, or in a new one.
Upsert(list, art, now) ==
    LET slot == art.key.slot
        n    == findVersion(list, slot.version)
    IN  SortVersions(
          IF n = 0
          THEN Append(list, [ version |-> slot.version, created |-> now,
                              artifacts |-> [NoArtifacts EXCEPT ![slot.osArch] = art] ])
          ELSE [list EXCEPT ![n].artifacts[slot.osArch] = art])

\* Variant: keeps a version without artifacts.
RemoveKeeping(list, v, oa) ==
    LET n == findVersion(list, v)
    IN  IF n = 0 \/ (oa # None /\ list[n].artifacts[oa] = None) THEN list
        ELSE IF oa = None THEN Seqs!RemoveAt(list, n)
        ELSE [list EXCEPT ![n].artifacts[oa] = None]

\* The os-arch None stands for "", the whole version.
RemoveEntry(list, v, oa) ==
    LET n == findVersion(list, v)
    IN  IF n = 0 \/ (oa # None /\ list[n].artifacts[oa] = None) THEN list
        ELSE IF oa = None \/ \A other \in OsArches \ {oa} : list[n].artifacts[other] = None
        THEN Seqs!RemoveAt(list, n)
        ELSE [list EXCEPT ![n].artifacts[oa] = None]

SetCreated(list, v, t) ==
    LET n == findVersion(list, v)
    IN  IF n = 0 THEN list ELSE [list EXCEPT ![n].created = t]

---------------------------------------------------------------------------
(* Resolution *)

\* Variant: walks the versions upwards.
ResolveUpwards(names, accepts) ==
    { s[CHOOSE i \in DOMAIN s : s[i] \in accepts /\ \A j \in DOMAIN s : j < i => s[j] \notin accepts] :
        s \in { sorted \in SortAscending(names) : \E i \in DOMAIN sorted : sorted[i] \in accepts } }

\* semver.Resolve: the last string in ascending order that the constraint accepts.
Resolve(names, accepts) ==
    { s[CHOOSE i \in DOMAIN s : s[i] \in accepts /\ \A j \in DOMAIN s : j > i => s[j] \notin accepts] :
        s \in { sorted \in SortAscending(names) : \E i \in DOMAIN sorted : sorted[i] \in accepts } }

\* What ResolveVersion may answer: an artifact, or None for an error.
ResolveVersion(list, accepts, oa) ==
    LET resolved == Resolve(Seqs!ToSet(Names(list)), accepts)
    IN  IF resolved = {} THEN {None}
        ELSE { list[findVersion(list, v)].artifacts[oa] : v \in resolved }

---------------------------------------------------------------------------
Init ==
    /\ \E list \in Documents : doc = [updated |-> 0, versions |-> list]
    /\ before = doc
    /\ op = [kind |-> "load"]
    /\ clock = 0

\* An operation may begin when no publish is between two of its Upserts.
Begin(o) ==
    /\ clock < MaxTime
    /\ op.kind = "publish" => op.left = << >>
    /\ clock' = clock + 1
    /\ before' = doc
    /\ op' = o

\* The first Upsert of a publish's mutation.
Publish ==
    \E staged \in Stagings :
      /\ staged # << >>
      /\ Begin([kind |-> "publish", staged |-> <<Head(staged)>>, left |-> Tail(staged)])
      /\ \E list \in Upsert(doc.versions, Head(staged), clock + 1) :
           doc' = [updated |-> clock + 1, versions |-> list]

\* And the ones that follow it.
PublishMore ==
    /\ op.kind = "publish"
    /\ op.left # << >>
    /\ \E list \in Upsert(doc.versions, Head(op.left), clock) :
         doc' = [updated |-> clock, versions |-> list]
    /\ op' = [op EXCEPT !.staged = Append(@, Head(op.left)), !.left = Tail(@)]
    /\ UNCHANGED <<before, clock>>

RemoveFrom ==
    \E v \in Versions, oa \in OsArches \cup {None} :
      LET list == RemoveEntry(doc.versions, v, oa)
      IN  /\ Begin([kind |-> "remove", version |-> v, osArch |-> oa])
          /\ doc' = [ updated  |-> IF list = doc.versions THEN doc.updated ELSE clock + 1,
                      versions |-> list ]

\* reindex overrides a publish time, and sorts once more.
Restamp ==
    \E v \in Versions, t \in {0, clock} :
      /\ Begin([kind |-> "restamp", version |-> v, time |-> t])
      /\ \E list \in SortVersions(SetCreated(doc.versions, v, t)) :
           doc' = [doc EXCEPT !.versions = list]

\* The bound on operations ends a behaviour.
Done ==
    /\ clock = MaxTime
    /\ op.kind = "publish" => op.left = << >>
    /\ UNCHANGED vars

Next == Publish \/ PublishMore \/ RemoveFrom \/ Restamp \/ Done

Spec == Init /\ [][Next]_vars

---------------------------------------------------------------------------
(* Properties *)

\* One entry a version, the parseable ones first and ascending.
Canonical(list) ==
    \A i, j \in DOMAIN list : i < j =>
      /\ list[i].version # list[j].version
      /\ Parseable(list[j].version) =>
           Parseable(list[i].version) /\ Rank[list[i].version] <= Rank[list[j].version]

\* What the code makes of an empty index: also no entry without artifacts.
Tidy(list) ==
    /\ Canonical(list)
    /\ \A i \in DOMAIN list : list[i].artifacts # NoArtifacts

\* The catalogue that a list stands for.
CatalogueOf(d) ==
    [ updated |-> d.updated,
      created |-> [v \in Versions |-> Merge(d.versions, v).created],
      arts    |-> [s \in Slot |-> Merge(d.versions, s.version).artifacts[s.osArch]] ]

TypeOK ==
    /\ doc.updated \in 0..MaxTime
    /\ IsList(doc.versions)
    /\ clock \in 0..MaxTime

\* index.go:131-169: Upsert and SortVersions leave a canonical list whatever they
\* start from, and no operation spoils one.
StaysCanonical ==
    \/ Canonical(doc.versions)
    \/ op.kind = "load"
    \/ op.kind = "remove" /\ ~Canonical(before.versions)

\* publish.go:187-192, index.go:76-93: a publish's Upserts, one after the other
\* with a sort after each, make exactly the change Catalogue gives for them all.
PublishIsUpsertAll ==
    /\ op.kind = "publish"
    /\ Tidy(before.versions)
    => CatalogueOf(doc) = UpsertAll(CatalogueOf(before), op.staged, clock)

\* rm.go:66-68, index.go:109-129: likewise Remove, which leaves no entry that has
\* no artifacts.
RemoveIsRemove ==
    /\ op.kind = "remove"
    /\ Tidy(before.versions)
    => /\ CatalogueOf(doc) = Remove(CatalogueOf(before),
            { s \in Slot : s.version = op.version /\ op.osArch \in {None, s.osArch} }, clock)
       /\ \A i \in DOMAIN doc.versions : doc.versions[i].artifacts # NoArtifacts

\* index.go:131-134, 109-129: no operation loses anything of a list, even of a
\* hand-edited one with two entries of a version: a slot that had an artifact has
\* one unless it was to be removed, and a known publish time stays when it should.
NothingLost ==
    LET was == CatalogueOf(before)
        now == CatalogueOf(doc)
        named(s) == /\ op.kind = "remove"
                    /\ s.version = op.version
                    /\ op.osArch \in {None, s.osArch}
    IN  /\ \A s \in Slot : was.arts[s] # None /\ ~named(s) => now.arts[s] # None
        /\ \A v \in Versions :
             op.kind = "publish" /\ was.created[v] # 0 => now.created[v] = was.created[v]

\* semver.go:28-59, index.go:193-210: whatever the order of the list, a constraint
\* resolves to the highest parseable version that it accepts, and on a canonical
\* list to the artifact which the catalogue has for it.
ResolvesHighest ==
    \A accepts \in Constraints :
      LET names  == Seqs!ToSet(Names(doc.versions))
          fit    == names \cap accepts
          answer == { v \in fit : \A w \in fit : Rank[w] <= Rank[v] }
      IN  /\ Resolve(names, accepts) = answer
          /\ Canonical(doc.versions) /\ fit # {} =>
               \A oa \in OsArches :
                 ResolveVersion(doc.versions, accepts, oa) =
                   { CatalogueOf(doc).arts[[version |-> v, osArch |-> oa]] : v \in answer }

=============================================================================
