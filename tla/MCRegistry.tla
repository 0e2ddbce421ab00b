----------------------------- MODULE MCRegistry -----------------------------
(***************************************************************************)
(* Small instances of Registry: three invocations, two versions of two     *)
(* os-arches, two file names and two digests.                              *)
(***************************************************************************)
EXTENDS Registry, TLC

CONSTANTS p1, p2, p3, v1, v2, linux, darwin, old, new

Art(v, oa, f, sha) ==
    [key |-> [slot |-> [version |-> v, osArch |-> oa], file |-> f], sha |-> sha]

\* Keys in lexicographic order: by version, then by os-arch, then by file.
MCKeyOrder ==
    [ k \in Key |-> (IF k.slot.version = v1 THEN 0 ELSE 4)
                    + (IF k.slot.osArch = darwin THEN 0 ELSE 2) + k.file ]

SlotsOf(v) == {s \in Slot : s.version = v}

Pub(arts)  == [op |-> "publish", staged |-> arts]
RmOf(S)    == [op |-> "rm", slots |-> S]
Rebuilding == [op |-> "reindex"]

Run3(a, b, c) == (p1 :> a @@ p2 :> b @@ p3 :> c)

Holding(arts) == [ s \in Slot |->
    IF \E a \in arts : a.key.slot = s THEN CHOOSE a \in arts : a.key.slot = s ELSE None ]

In(works, buckets) == [work: works, bucket: buckets]

\* What earlier commands left: indexed artifacts, versions whose publish time
\* is unknown, and objects that interrupted commands left unindexed.
Bucket(arts, legacy, orphans) ==
    [arts |-> Holding(arts), legacy |-> legacy, orphans |-> orphans]

---------------------------------------------------------------------------
(* publish against publish and rm *)

\* A dist directory with two archives of one os-arch: the second wins the slot.
Twice == << Art(v1, linux, 1, new), Art(v1, linux, 2, old) >>

\* And one of each of two.
Both == << Art(v1, linux, 1, new), Art(v1, darwin, 1, new) >>

UpdateWorkloads ==
    { Run3(Pub(<<Art(v1, linux, 1, new)>>), Pub(<<Art(v1, darwin, 1, new)>>),
           RmOf({s \in SlotsOf(v1) : s.osArch = linux})),
      Run3(Pub(Twice), Pub(<<Art(v2, linux, 2, new)>>), RmOf(SlotsOf(v2))) }

Updated == Bucket({Art(v1, linux, 1, old), Art(v2, darwin, 1, old)}, {v2}, {})

---------------------------------------------------------------------------
(* reindex against publish, rm and another reindex *)

ReindexAmongWriters ==
    Run3(Rebuilding, Pub(<<Art(v2, linux, 1, new)>>),
         RmOf({s \in SlotsOf(v1) : s.osArch = linux}))

ReindexOfTwo ==
    Run3(Rebuilding, Pub(<<Art(v1, darwin, 1, new)>>),
         RmOf({s \in SlotsOf(v1) : s.osArch = linux}))

TwoReindexes == Run3(Rebuilding, Rebuilding, Pub(<<Art(v1, linux, 1, new)>>))

\* Two files of one slot and a version without an entry.
Orphaned == Bucket({Art(v1, linux, 1, old), Art(v1, darwin, 1, old)}, {},
                   {Art(v1, linux, 2, new), Art(v2, darwin, 1, old)})

\* A version without a publish time, and one with.
Undated == Bucket({Art(v1, linux, 1, old), Art(v2, darwin, 1, new)}, {v1}, {})

\* An index that is lost, or was never written.
Lost == Bucket({}, {}, {Art(v1, linux, 2, new)})

CommandScenarios ==
    In(UpdateWorkloads, {Updated})
      \cup In({ReindexAmongWriters}, {Orphaned})
      \cup In({ReindexOfTwo}, {Undated})
      \cup In({TwoReindexes}, {Lost})

---------------------------------------------------------------------------
(* Writers that nothing disturbs but each other *)

ReliableWorkloads ==
    { Run3(Pub(Both), Pub(<<Art(v1, linux, 1, old)>>), RmOf(SlotsOf(v2))),
      Run3(Pub(<<Art(v1, linux, 1, old)>>), Pub(<<Art(v1, darwin, 1, new)>>),
           Pub(<<Art(v2, linux, 1, new)>>)),
      Run3(Pub(<<Art(v1, linux, 1, old)>>), Rebuilding, RmOf(SlotsOf(v2))),
      Run3(Pub(<<Art(v1, linux, 1, old)>>), Rebuilding, Rebuilding) }

ReliableBuckets ==
    { Bucket({}, {}, {}),
      Bucket({Art(v2, linux, 1, old), Art(v2, darwin, 1, old)}, {}, {}) }

ReliableScenarios == In(ReliableWorkloads, ReliableBuckets)

---------------------------------------------------------------------------
(* Two invocations that disagree with the documentation *)

Run2(a, b) == (p1 :> a @@ p2 :> b)

PublishedBuckets == { Bucket({Art(v1, linux, 1, old)}, {}, {}) }

RepublishDuringRm ==
    In({Run2(RmOf(SlotsOf(v1)), Pub(<<Art(v1, linux, 1, new)>>))}, PublishedBuckets)

PublishDuringReindex ==
    In({Run2(Rebuilding, Pub(<<Art(v2, linux, 1, new)>>))}, PublishedBuckets)
=============================================================================
