----------------------------- MODULE MCIndexDoc -----------------------------
(***************************************************************************)
(* Lists of up to four version strings: 1.0.0, 1.1.0, v1.1.0 (of the same  *)
(* precedence) and nightly, which is no semantic version.                  *)
(***************************************************************************)
EXTENDS IndexDoc, TLC

CONSTANTS v100, v110, vv110, nightly, linux, darwin, old, new

MCRank == v100 :> 1 @@ v110 :> 2 @@ vv110 :> 2 @@ nightly :> 0

Art(v, oa, sha) ==
    [key |-> [slot |-> [version |-> v, osArch |-> oa], file |-> 1], sha |-> sha]

\* An entry whose artifacts, one for each of the os-arches, have digest sha.
Of(v, created, oas, sha) ==
    [ version |-> v, created |-> created,
      artifacts |-> [oa \in OsArches |-> IF oa \in oas THEN Art(v, oa, sha) ELSE None] ]

\* An empty index, and one as publishes leave it.
Published ==
    { << >>,
      << Of(v100, 0, OsArches, old), Of(vv110, 0, {linux}, old), Of(nightly, 0, {darwin}, old) >> }

\* Edited by hand: out of order, with two entries of a version, and with one that
\* has no artifacts.
Untidy ==
    { << Of(nightly, 0, {linux}, old), Of(v110, 0, {linux}, old), Of(v100, 0, {darwin}, old) >> }

Doubled ==
    { << Of(v110, 0, {linux}, new), Of(v100, 0, {linux}, old), Of(v110, 0, OsArches, old) >> }

Emptied ==
    { << Of(v100, 1, {}, old), Of(v110, 0, {darwin}, old) >> }

AllDocuments == Published \cup Untidy \cup Doubled \cup Emptied

MCStagings ==
    { << Art(v100, linux, new) >>,
      << Art(v110, linux, new), Art(v110, darwin, old), Art(v110, linux, old) >>,
      << Art(nightly, darwin, new), Art(nightly, linux, new) >> }

\* latest, ~1.0 and =1.1.0
MCConstraints == { {v100, v110, vv110}, {v100}, {v110, vv110} }
=============================================================================
