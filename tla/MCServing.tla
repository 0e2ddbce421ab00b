----------------------------- MODULE MCServing -----------------------------
(***************************************************************************)
(* Small instances of Serving: two requests, or verify, beside one or two  *)
(* commands.  The commands are those of MCRegistry.                        *)
(***************************************************************************)
EXTENDS Serving, TLC

CONSTANTS p1, p2, v1, v2, v3, linux, darwin, old, new, r1, r2

\* v2 and v3 differ in their build metadata only: neither precedes the other.
MCRank == v1 :> 1 @@ v2 :> 2 @@ v3 :> 2

Place == v1 :> 1 @@ v2 :> 2 @@ v3 :> 3

MCKeyOrder ==
    [ k \in Key |-> 2 * Place[k.slot.version]
                    + (IF k.slot.osArch = darwin THEN 0 ELSE 1) ]

Art(v, oa, sha) == [key |-> [slot |-> [version |-> v, osArch |-> oa], file |-> 1], sha |-> sha]

Pub(arts) == [op |-> "publish", staged |-> arts]
RmOf(v)   == [op |-> "rm", slots |-> {s \in Slot : s.version = v}]

Bucket(arts) ==
    [ arts    |-> [ s \in Slot |-> IF \E a \in arts : a.key.slot = s
                                   THEN CHOOSE a \in arts : a.key.slot = s ELSE None ],
      legacy  |-> {}, orphans |-> {} ]

Published == Bucket({Art(v1, linux, old), Art(v2, linux, old)})

Run2(a, b) == (p1 :> a @@ p2 :> b)

\* A command on its own: the other has nothing to remove, and fails.
Alone(c) == Run2(c, RmOf(v3))

\* A version is withdrawn; a file is published again with other bytes; a tool is
\* new; a version goes while another is published again; the index is rebuilt
\* around a publish; a version goes while it is published again.
Withdrawn   == Alone(RmOf(v2))
Republished == Alone(Pub(<<Art(v2, linux, new), Art(v2, darwin, new)>>))
Founded     == Alone(Pub(<<Art(v1, linux, new)>>))
Several     == Run2(Pub(<<Art(v1, linux, new)>>), RmOf(v2))
Rebuilt     == Run2(Pub(<<Art(v1, linux, new)>>), [op |-> "reindex"])
Raced       == Run2(Pub(<<Art(v1, linux, old)>>), RmOf(v1))

\* One of two versions of equal precedence goes; there is no v1 to remove.
Twins   == Bucket({Art(v2, linux, old), Art(v3, darwin, old)})
Parted  == Alone(RmOf(v1))

MCScenarios ==
    { [work |-> w, bucket |-> Published] : w \in {Withdrawn, Republished, Several, Rebuilt, Raced} }
      \cup { [work |-> Founded, bucket |-> Bucket({})], [work |-> Parted, bucket |-> Twins] }

Asks(kind, accepts, oa, admitted) ==
    [kind |-> kind, accepts |-> accepts, osArch |-> oa, admitted |-> admitted]

Latest(kind) == Asks(kind, {v1, v2}, linux, TRUE)

Asked(during, one, other) ==
    [during |-> {during}, query |-> (r1 :> one @@ r2 :> other), verifying |-> FALSE]

MCAudiences ==
    { Asked(Withdrawn, Latest("artifact"), Latest("artifact")),
      Asked(Republished, Latest("artifact"), Asks("artifact", {v2}, darwin, TRUE)),
      Asked(Founded, Latest("resolve"), Asks("versions", {}, None, TRUE)),
      Asked(Parted, Asks("artifact", {v2, v3}, darwin, TRUE), Asks("resolve", {v3}, None, TRUE)),
      Asked(Raced, Asks("artifact", {v1}, linux, TRUE), Asks("artifact", {v1}, linux, FALSE)),
      [ during    |-> {Several, Rebuilt, Raced, Founded},
        query     |-> (r1 :> Asks("artifact", {v1}, None, TRUE)
                         @@ r2 :> Asks("artifact", {v1}, linux, FALSE)),
        verifying |-> TRUE ] }

\* A range that no version satisfies.
NoMatch == { Asked(Withdrawn, Asks("resolve", {v3}, None, TRUE),
                   Asks("artifact", {v3}, linux, TRUE)) }
=============================================================================
