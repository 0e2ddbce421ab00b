---------------------------- MODULE AtomicIndex ----------------------------
(***************************************************************************)
(* What the conditional index writes promise: every command changes the    *)
(* index in one indivisible step, as if it were alone.  A command that     *)
(* fails has not changed it, or only in the way it would have by           *)
(* succeeding; one that succeeds has changed it at least once.  reindex    *)
(* promises less: it puts some well-formed catalogue in place of the       *)
(* index, whatever the index has come to be.                               *)
(***************************************************************************)
EXTENDS Catalogue

CONSTANTS Procs

VARIABLES
    cmd,      \* what each invocation was asked to do
    doc,      \* the tool's index document
    outcome   \* what has become of each command

avars == <<cmd, doc, outcome>>

WellFormed(d) ==
    \A s \in Slot : d.arts[s] # None => d.arts[s].key.slot = s

AInit ==
    /\ WellFormed(doc)
    /\ outcome = [p \in Procs |-> "pending"]

\* The change of one command.  The document carries the time it was made at.
Effect(c) ==
    \/ /\ c.op = "publish"
       /\ doc' = UpsertAll(doc, c.staged, doc'.updated)
    \/ /\ c.op = "rm"
       /\ doc' = Remove(doc, c.slots, doc'.updated)
    \/ /\ c.op = "reindex"
       /\ WellFormed(doc')

\* The command takes effect.  It stays pending if it does not come to know.
Apply(p) ==
    /\ outcome[p] = "pending"
    /\ Effect(cmd[p])
    /\ \E o \in {"pending", "applied"} : outcome' = [outcome EXCEPT ![p] = o]
    /\ UNCHANGED cmd

\* The command reports an error, before its change or while cleaning up after it.
Fail(p) ==
    /\ outcome[p] # "failed"
    /\ outcome' = [outcome EXCEPT ![p] = "failed"]
    /\ UNCHANGED <<cmd, doc>>

ANext == \E p \in Procs : Apply(p) \/ Fail(p)

ASpec == AInit /\ [][ANext]_avars
=============================================================================
