----------------------------- MODULE Catalogue -----------------------------
(***************************************************************************)
(* One tool's index document (index.json) as a value: which artifact every *)
(* version and os-arch maps to, when each version was first published, and *)
(* when the document last changed.  The operators are what internal/index  *)
(* does to a document that it then re-sorts; the order of the version list *)
(* itself is the subject of module IndexDoc.                               *)
(***************************************************************************)
EXTENDS Integers, Sequences

CONSTANTS
    Versions,    \* version strings
    OsArches,    \* "<os>-<arch>" strings
    Files,       \* file names
    Digests,     \* SHA-256 digests, standing for the bytes they digest
    None         \* no artifact in a slot

Slot == [version: Versions, osArch: OsArches]

\* An object key "<tool>/<version>/<os>-<arch>/<filename>".
Key == [slot: Slot, file: Files]

\* An index entry.  Its size is a function of the bytes, hence of the digest.
Artifact == [key: Key, sha: Digests]

ASSUME CatalogueAssumption == None \notin Artifact

\* created is 0 for a version that is absent or whose publish time is unknown.
Document == [ updated: Nat,
              created: [Versions -> Nat],
              arts:    [Slot -> Artifact \cup {None}] ]

New == [ updated |-> 0,
         created |-> [v \in Versions |-> 0],
         arts    |-> [s \in Slot |-> None] ]

HasVersion(doc, v) ==
    \E s \in Slot : s.version = v /\ doc.arts[s] # None

---------------------------------------------------------------------------
\* The staged artifacts that survive a run of Upserts: the last of each slot.
Landed(staged) ==
    { staged[i] : i \in { j \in DOMAIN staged :
        \A k \in DOMAIN staged :
            k > j => staged[k].key.slot # staged[j].key.slot } }

LandsIn(staged, s) == \E a \in Landed(staged) : a.key.slot = s

\* Variant: an os-arch that is already there is left as it is.
UpsertMissing(doc, staged, now) ==
    [ updated |-> now,
      created |-> [ v \in Versions |->
          IF /\ ~HasVersion(doc, v)
             /\ \E a \in Landed(staged) : a.key.slot.version = v
          THEN now ELSE doc.created[v] ],
      arts    |-> [ s \in Slot |->
          IF LandsIn(staged, s) /\ doc.arts[s] = None
          THEN CHOOSE a \in Landed(staged) : a.key.slot = s
          ELSE doc.arts[s] ] ]

\* publish's mutation: idx.Upsert of every staged artifact, in order, at now.
UpsertAll(doc, staged, now) ==
    [ updated |-> now,
      created |-> [ v \in Versions |->
          IF /\ ~HasVersion(doc, v)
             /\ \E a \in Landed(staged) : a.key.slot.version = v
          THEN now ELSE doc.created[v] ],
      arts    |-> [ s \in Slot |->
          IF LandsIn(staged, s)
          THEN CHOOSE a \in Landed(staged) : a.key.slot = s
          ELSE doc.arts[s] ] ]

\* rm's mutation: one slot, or every slot of a version when osArch is "".
\* A version left without artifacts goes, and its publish time with it.
Remove(doc, slots, now) ==
    IF \A s \in slots : doc.arts[s] = None
    THEN doc
    ELSE LET kept == [ s \in Slot |->
                         IF s \in slots THEN None ELSE doc.arts[s] ]
         IN  [ updated |-> now,
               created |-> [ v \in Versions |->
                   IF \E s \in Slot : s.version = v /\ kept[s] # None
                   THEN doc.created[v] ELSE 0 ],
               arts    |-> kept ]

\* reindex's rebuild: Upsert of one hashed object, its version's publish time
\* overridden by stamp.
Rebuild(doc, art, stamp, now) ==
    [ updated |-> now,
      created |-> [doc.created EXCEPT ![art.key.slot.version] = stamp],
      arts    |-> [doc.arts EXCEPT ![art.key.slot] = art] ]

\* The earliest LastModified in a listing of version v's objects, 0 if none.
Earliest(listing, v) ==
    LET times == { r.modified : r \in { q \in listing : q.key.slot.version = v } }
    IN  IF times = {} THEN 0
        ELSE CHOOSE t \in times : \A u \in times : t <= u
=============================================================================
