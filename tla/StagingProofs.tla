---------------------------- MODULE StagingProofs ----------------------------
(***************************************************************************)
(* What publish makes of a directory that may change under it, for any      *)
(* files, any checksums.txt, any naming of files and any number of changes. *)
(***************************************************************************)
EXTENDS Staging, WellFoundedInduction, TLAPS

---------------------------------------------------------------------------
(* Vocabulary *)

FileOf(i) == staged[i].key.file

\* In each stage the variables are as far as the stage goes.
Phases ==
    /\ pc \in {"begin", "stage"} => sent = 0
    /\ pc = "begin" => staged = << >> /\ sums = None
    /\ pc = "stage" => run.mode = "dist"
    /\ run.mode = "dist" /\ (pc \in {"upload", "index", "told"} \/ sent > 0) =>
         next = Len(run.entries) + 1
    /\ pc = "index" => sent = Len(staged)

\* Nothing is staged twice, and what is staged was looked at.
StagedOnce ==
    /\ \A i, j \in DOMAIN staged : FileOf(i) = FileOf(j) => i = j
    /\ run.mode = "dist" =>
         \A i \in DOMAIN staged : \E j \in DOMAIN run.entries : j < next /\ run.entries[j] = FileOf(i)

\* Every archive that was looked at is staged, if its name tells what it is.
StagedAll ==
    run.mode = "dist" =>
      \A j \in DOMAIN run.entries :
        j < next /\ run.entries[j] \in Archives =>
          None \in InferOSArch(run.entries[j]) \/ \E i \in DOMAIN staged : FileOf(i) = run.entries[j]

\* What is staged has the digest that its file had, and that is listed for it.
StagedAsRead ==
    \A i \in DOMAIN staged :
      /\ staged[i].sha = content[FileOf(i)] \/ FileOf(i) \in stale
      /\ run.lines # None => sums # None /\ sums[FileOf(i)] = staged[i].sha

SumsAsListed ==
    /\ sums # None => run.lines # None /\ run.lines \in Seq(Line) /\ sums = ParseChecksums(run.lines)
    /\ pc = "stage" /\ run.lines # None => sums # None

\* What is uploaded was staged, and has the digest it was staged with.
UploadedAsStaged ==
    /\ \A i \in 1..sent : objects[staged[i].key] = staged[i].sha \/ FileOf(i) \in stale
    /\ \A k \in Key : objects[k] # None => \E i \in 1..sent : staged[i].key = k

StagingInv ==
    /\ run \in Runs
    /\ TypeOK
    /\ Phases
    /\ StagedOnce
    /\ StagedAll
    /\ StagedAsRead
    /\ SumsAsListed
    /\ UploadedAsStaged

---------------------------------------------------------------------------
(* What checksums.txt and a file name say. *)

\* Of some lines there is a last one.
LEMMA LastIndex ==
    ASSUME NEW n \in Nat, NEW I \in SUBSET (1..n), I # {}
    PROVE  \E i \in I : \A j \in I : j <= i
<1> DEFINE left == { m \in Nat : \E i \in I : m = n - i }
<1>1. left # {}
  <2>1. PICK i \in I : TRUE
    OBVIOUS
  <2>2. n - i \in Nat
    OBVIOUS
  <2> QED
    BY <2>2
<1>2. PICK m \in left : \A l \in left : <<l, m>> \notin OpToRel(<, Nat)
  <2>1. left \subseteq Nat
    OBVIOUS
  <2> HIDE DEF left
  <2> QED
    BY <1>1, <2>1, NatLessThanWellFounded, WFMin, Zenon
<1>3. PICK i \in I : m = n - i
  OBVIOUS
<1>4. ASSUME NEW j \in I, ~(j <= i) PROVE FALSE
  <2>1. n - j \in left /\ n - j \in Nat /\ m \in Nat /\ n - j < m
    BY <1>3, <1>4
  <2>2. <<n - j, m>> \in OpToRel(<, Nat)
    BY <2>1 DEF OpToRel
  <2> QED
    BY <1>2, <2>1, <2>2
<1> QED
  BY <1>4

\* ParseChecksums answers for every file with the digest of one of its lines, or None.
LEMMA ParsedSums ==
    ASSUME NEW lines \in Seq(Line)
    PROVE  /\ ParseChecksums(lines) \in [Files -> Digests \cup {None}]
           /\ \A f \in Files : ParseChecksums(lines)[f] # None =>
                \E i \in DOMAIN lines : /\ lines[i].file = f
                                        /\ lines[i].sha = ParseChecksums(lines)[f]
<1>1. ASSUME NEW f \in Files
      PROVE  LET sum == ParseChecksums(lines)[f]
             IN  \/ sum = None
                 \/ \E i \in DOMAIN lines : lines[i].file = f /\ lines[i].sha = sum
  <2> DEFINE of == { i \in DOMAIN lines : lines[i].file = f }
  <2>1. ParseChecksums(lines)[f] =
          IF of = {} THEN None ELSE lines[CHOOSE i \in of : \A j \in of : j <= i].sha
    BY DEF ParseChecksums
  <2>2. CASE of = {}
    BY <2>1, <2>2
  <2>3. CASE of # {}
    <3>1. Len(lines) \in Nat /\ of \in SUBSET (1..Len(lines))
      OBVIOUS
    <3>2. (CHOOSE i \in of : \A j \in of : j <= i) \in of
      <4> HIDE DEF of
      <4>1. \E i \in of : \A j \in of : j <= i
        BY <2>3, <3>1, LastIndex
      <4> QED
        BY <4>1
    <3> QED
      BY <2>1, <2>3, <3>2
  <2> QED
    BY <2>2, <2>3
<1>2. \A f \in Files : ParseChecksums(lines)[f] \in Digests \cup {None}
  <2>1. \A i \in DOMAIN lines : lines[i] \in Line
    OBVIOUS
  <2>2. \A i \in DOMAIN lines : lines[i].sha \in Digests
    BY <2>1 DEF Line
  <2> QED
    BY <1>1, <2>2
<1> QED
  BY <1>1, <1>2 DEF ParseChecksums

LEMMA InferredType ==
    ASSUME NEW f, NEW osArch \in InferOSArch(f), osArch # None
    PROVE  osArch \in OsArches
<1>1. osArch \in firstToken(Words[f], OsTokens) \X firstToken(Words[f], ArchTokens)
  BY DEF InferOSArch
<1>2. PICK o \in DOMAIN OsTokens, a \in DOMAIN ArchTokens :
        osArch = <<OsTokens[o], ArchTokens[a]>>
  BY <1>1 DEF firstToken
<1> QED
  BY <1>2, StagingAssumption

LEMMA ArtifactTyped ==
    ASSUME IsRun(run), NEW f \in Files, NEW osArch \in OsArches, NEW sha \in Digests
    PROVE  /\ ArtifactOf(f, osArch, sha) \in Artifact
           /\ ArtifactOf(f, osArch, sha).key.file = f
           /\ ArtifactOf(f, osArch, sha).key.slot.version = run.version
           /\ ArtifactOf(f, osArch, sha).sha = sha
BY DEF IsRun, ArtifactOf, Artifact, Key, Slot

---------------------------------------------------------------------------
(* One lemma for every action. *)

LEMMA StagedTyped ==
    ASSUME TypeOK, NEW i \in DOMAIN staged
    PROVE  /\ i \in Nat /\ staged[i] \in Artifact /\ staged[i].key \in Key
           /\ FileOf(i) \in Files /\ staged[i].sha \in Digests
<1>1. staged \in Seq(Artifact)
  BY DEF TypeOK
<1>2. i \in Nat /\ staged[i] \in Artifact
  BY <1>1
<1> QED
  BY <1>2 DEF Artifact, Key, FileOf

LEMMA InitStagingInv == Init => StagingInv
<1> SUFFICES ASSUME Init PROVE StagingInv
  OBVIOUS
<1>1. run \in Runs /\ IsRun(run)
  BY StagingAssumption DEF Init
<1>2. Len(run.entries) \in Nat
  BY <1>1 DEF IsRun
<1>3. TypeOK
  BY <1>1, <1>2, StagingAssumption DEF Init, TypeOK, IsRun, Final
<1>4. Phases
  BY DEF Init, Phases
<1>5. StagedOnce /\ StagedAsRead
  BY DEF Init, StagedOnce, StagedAsRead
<1>6. StagedAll
  <2>1. \A j \in DOMAIN run.entries : ~(j < next)
    BY <1>1 DEF Init, IsRun
  <2> QED
    BY <2>1 DEF StagedAll
<1>7. SumsAsListed
  BY DEF Init, SumsAsListed
<1>8. UploadedAsStaged
  BY DEF Init, UploadedAsStaged
<1> QED
  BY <1>1, <1>3, <1>4, <1>5, <1>6, <1>7, <1>8 DEF StagingInv

LEMMA FailStep == StagingInv /\ Fail => StagingInv'
<1> SUFFICES ASSUME StagingInv, Fail PROVE StagingInv'
  OBVIOUS
<1> USE DEF StagingInv, Fail, files
<1>1. (run \in Runs)' /\ TypeOK'
  BY DEF TypeOK, Final
<1>2. Phases'
  BY DEF Phases
<1>3. StagedOnce' /\ StagedAll'
  BY DEF StagedOnce, StagedAll, FileOf, InferOSArch
<1>4. StagedAsRead'
  BY DEF StagedAsRead, FileOf
<1>5. SumsAsListed'
  BY DEF SumsAsListed
<1>6. UploadedAsStaged'
  BY DEF UploadedAsStaged, FileOf
<1> QED
  BY <1>1, <1>2, <1>3, <1>4, <1>5, <1>6

LEMMA SingleStep == StagingInv /\ PublishSingle => StagingInv'
<1> SUFFICES ASSUME StagingInv, PublishSingle PROVE StagingInv'
  OBVIOUS
<1>1. run \in Runs /\ IsRun(run) /\ TypeOK /\ Phases /\ run.mode = "file" /\ pc = "begin"
  BY StagingAssumption DEF StagingInv, PublishSingle
<1> DEFINE f == run.entries[1]
           art == ArtifactOf(f, run.osArch, content[f])
<1>2. CASE Fail
  BY <1>2, FailStep
<1>3. CASE /\ content[f] # None
           /\ staged' = <<art>>
           /\ Upload
           /\ UNCHANGED <<run, files, sums, next, sent, objects>>
  <2>1. f \in Files /\ content[f] \in Digests /\ run.osArch \in OsArches /\ run.lines = None
    BY <1>1, <1>3 DEF IsRun, TypeOK
  <2>2. /\ art \in Artifact /\ art.key.file = f /\ art.key.slot.version = run.version
        /\ art.sha = content[f]
    BY <1>1, <2>1, ArtifactTyped
  <2> HIDE DEF art, f
  <2>3. /\ staged' = <<art>> /\ sent = 0 /\ sums = None
        /\ pc' \in {"told", "upload"} /\ sent' = 0
    BY <1>1, <1>3 DEF Phases, Upload
  <2>4. DOMAIN staged' = {1} /\ staged'[1] = art /\ Len(staged') = 1 /\ staged' \in Seq(Artifact)
    BY <2>2, <2>3
  <2>5. TypeOK'
    BY <1>1, <1>3, <2>2, <2>3, <2>4 DEF TypeOK, files, Final
  <2>6. Phases'
    BY <1>1, <1>3, <2>3 DEF Phases
  <2>7. StagedOnce' /\ StagedAll'
    BY <1>1, <1>3, <2>4 DEF StagedOnce, StagedAll, FileOf
  <2>8. StagedAsRead'
    BY <1>3, <2>1, <2>2, <2>4 DEF StagedAsRead, FileOf, files
  <2>9. SumsAsListed'
    BY <1>3, <2>3 DEF SumsAsListed
  <2>10. UploadedAsStaged'
    BY <1>3, <2>3 DEF StagingInv, UploadedAsStaged
  <2> QED
    BY <1>1, <1>3, <2>5, <2>6, <2>7, <2>8, <2>9, <2>10 DEF StagingInv
<1> QED
  BY <1>2, <1>3 DEF PublishSingle

LEMMA ChecksumsStep == StagingInv /\ ReadChecksums => StagingInv'
<1> SUFFICES ASSUME StagingInv, ReadChecksums PROVE StagingInv'
  OBVIOUS
<1>1. run \in Runs /\ IsRun(run) /\ TypeOK /\ Phases /\ run.mode = "dist" /\ pc = "begin"
  BY StagingAssumption DEF StagingInv, ReadChecksums
<1>2. CASE Fail
  BY <1>2, FailStep
<1>3. CASE /\ run.lines # None => Malformed \notin { run.lines[i] : i \in DOMAIN run.lines }
           /\ sums' = IF run.lines = None THEN None ELSE ParseChecksums(run.lines)
           /\ pc' = "stage"
           /\ UNCHANGED <<run, files, next, staged, sent, objects>>
  <2>1. run.lines # None => run.lines \in Seq(Line)
    BY <1>1, <1>3 DEF IsRun
  <2>2. run.lines # None => sums' \in [Files -> Digests \cup {None}] /\ sums' # None
    BY <1>3, <2>1, ParsedSums, StagingAssumption
  <2>3. staged = << >> /\ sent = 0
    BY <1>1 DEF Phases
  <2>4. TypeOK'
    BY <1>1, <1>3, <2>2 DEF TypeOK, files
  <2>5. Phases'
    BY <1>1, <1>3, <2>3 DEF Phases
  <2>6. StagedOnce' /\ StagedAll'
    BY <1>3 DEF StagingInv, StagedOnce, StagedAll, FileOf, InferOSArch
  <2>7. StagedAsRead'
    BY <1>3, <2>3 DEF StagedAsRead
  <2>8. SumsAsListed'
    BY <1>3, <2>1, <2>2 DEF SumsAsListed
  <2>9. UploadedAsStaged'
    BY <1>3 DEF StagingInv, UploadedAsStaged, FileOf, files
  <2> QED
    BY <1>1, <1>3, <2>4, <2>5, <2>6, <2>7, <2>8, <2>9 DEF StagingInv
<1> QED
  BY <1>2, <1>3 DEF ReadChecksums

LEMMA NextStep == StagingInv /\ StageNext => StagingInv'
<1> SUFFICES ASSUME StagingInv, StageNext PROVE StagingInv'
  OBVIOUS
<1>1. /\ run \in Runs /\ IsRun(run) /\ TypeOK /\ Phases
      /\ run.mode = "dist" /\ pc = "stage" /\ sent = 0
  BY StagingAssumption DEF StagingInv, StageNext, Phases
<1>2. next \in DOMAIN run.entries /\ Len(run.entries) \in Nat /\ DOMAIN run.entries = 1..Len(run.entries)
  BY <1>1 DEF StageNext, TypeOK, IsRun
<1> DEFINE f == run.entries[next]
<1>3. f \in Files
  BY <1>1, <1>2 DEF IsRun
<1>4. PICK osArch \in InferOSArch(f) :
        \/ /\ Skips(f, osArch)
           /\ next' = next + 1
           /\ UNCHANGED <<run, files, sums, staged, sent, objects, pc>>
        \/ Fail
        \/ /\ ~Skips(f, osArch)
           /\ ~Refuses(f)
           /\ staged' = Append(staged, ArtifactOf(f, osArch, content[f]))
           /\ next' = next + 1
           /\ UNCHANGED <<run, files, sums, sent, objects, pc>>
  BY DEF StageNext
<1>5. CASE Fail
  BY <1>5, FailStep
<1>6. CASE /\ Skips(f, osArch)
           /\ next' = next + 1
           /\ UNCHANGED <<run, files, sums, staged, sent, objects, pc>>
  <2>1. TypeOK'
    BY <1>1, <1>2, <1>6 DEF TypeOK, files
  <2>2. Phases'
    BY <1>1, <1>6 DEF Phases
  <2>3. StagedOnce'
    BY <1>1, <1>2, <1>6 DEF StagingInv, StagedOnce, FileOf
  <2>4. StagedAll'
    <3>1. f \in Archives => None \in InferOSArch(f)
      BY <1>4, <1>6 DEF Skips
    <3>2. \A j \in DOMAIN run.entries : j < next + 1 => j < next \/ j = next
      BY <1>2
    <3>3. StagedAll /\ run' = run /\ next' = next + 1 /\ staged' = staged
      BY <1>6 DEF StagingInv
    <3> QED
      BY <1>1, <3>1, <3>2, <3>3 DEF StagedAll, FileOf, InferOSArch
  <2>5. StagedAsRead' /\ SumsAsListed'
    BY <1>6 DEF StagingInv, StagedAsRead, SumsAsListed, FileOf, files
  <2>6. UploadedAsStaged'
    BY <1>6 DEF StagingInv, UploadedAsStaged, FileOf, files
  <2> QED
    BY <1>1, <1>6, <2>1, <2>2, <2>3, <2>4, <2>5, <2>6 DEF StagingInv
<1>7. CASE /\ ~Skips(f, osArch)
           /\ ~Refuses(f)
           /\ staged' = Append(staged, ArtifactOf(f, osArch, content[f]))
           /\ next' = next + 1
           /\ UNCHANGED <<run, files, sums, sent, objects, pc>>
  <2> DEFINE art == ArtifactOf(f, osArch, content[f])
             n == Len(staged) + 1
  <2>1. f \in Archives /\ osArch \in OsArches
    BY <1>4, <1>7, InferredType DEF Skips
  <2>2. content[f] \in Digests /\ (sums # None => sums[f] = content[f])
    BY <1>1, <1>3, <1>7 DEF Refuses, TypeOK
  <2>3. /\ art \in Artifact /\ art.key.file = f /\ art.key.slot.version = run.version
        /\ art.sha = content[f]
    BY <1>1, <1>3, <2>1, <2>2, ArtifactTyped
  <2> HIDE DEF art
  <2>4. staged \in Seq(Artifact) /\ staged' = Append(staged, art)
    BY <1>1, <1>7 DEF TypeOK, art
  <2>5. /\ n \in Nat /\ Len(staged) \in Nat /\ Len(staged') = n
        /\ DOMAIN staged' = DOMAIN staged \cup {n} /\ DOMAIN staged = 1..Len(staged)
        /\ staged' \in Seq(Artifact) /\ staged'[n] = art
    BY <2>3, <2>4
  <2>6. \A i \in DOMAIN staged : i # n /\ staged'[i] = staged[i]
    BY <2>4, <2>5
  <2>7. \A i \in DOMAIN staged : FileOf(i) # f
    <3>1. ASSUME NEW i \in DOMAIN staged, FileOf(i) = f PROVE FALSE
      <4>1. PICK j \in DOMAIN run.entries : j < next /\ run.entries[j] = f
        BY <1>1, <3>1 DEF StagingInv, StagedOnce
      <4> QED
        BY <1>1, <1>2, <4>1 DEF IsRun
    <3> QED
      BY <3>1
  <2> HIDE DEF f, n
  <2>8. /\ run' = run /\ next' = next + 1 /\ pc' = pc /\ sums' = sums /\ sent' = sent
        /\ content' = content /\ stale' = stale /\ changes' = changes /\ objects' = objects
    BY <1>7 DEF files
  <2>9. TypeOK'
    <3>1. \A i \in DOMAIN staged' : staged'[i].key.slot.version = run.version
      BY <1>1, <2>3, <2>5, <2>6 DEF TypeOK
    <3>2. next + 1 \in 1 .. Len(run.entries) + 1
      BY <1>2
    <3>3. sent \in 0..Len(staged')
      BY <1>1, <2>5
    <3> QED
      BY <1>1, <2>5, <2>8, <3>1, <3>2, <3>3 DEF TypeOK, Final
  <2>10. Phases'
    BY <1>1, <2>8 DEF Phases
  <2>11. StagedOnce'
    <3>1. \A i, j \in DOMAIN staged' : staged'[i].key.file = staged'[j].key.file => i = j
      BY <2>3, <2>5, <2>6, <2>7 DEF StagingInv, StagedOnce, FileOf
    <3>2. ASSUME NEW i \in DOMAIN staged'
          PROVE  \E j \in DOMAIN run.entries : j < next + 1 /\ run.entries[j] = staged'[i].key.file
      <4>1. CASE i = n
        BY <1>2, <2>3, <2>5, <4>1 DEF f
      <4>2. CASE i # n
        <5>1. PICK j \in DOMAIN run.entries : j < next /\ run.entries[j] = staged[i].key.file
          BY <1>1, <2>5, <4>2 DEF StagingInv, StagedOnce, FileOf
        <5>2. j < next + 1
          BY <1>2, <5>1
        <5> QED
          BY <2>5, <2>6, <4>2, <5>1, <5>2
      <4> QED
        BY <4>1, <4>2
    <3> QED
      BY <2>8, <3>1, <3>2 DEF StagedOnce, FileOf
  <2>12. StagedAll'
    <3>1. \A j \in DOMAIN run.entries : j < next + 1 => j < next \/ j = next
      BY <1>2
    <3>2. staged'[n].key.file = f /\ n \in DOMAIN staged'
      BY <2>3, <2>5
    <3>3. ASSUME NEW j \in DOMAIN run.entries, j < next + 1, run.entries[j] \in Archives
          PROVE  \/ None \in InferOSArch(run.entries[j])
                 \/ \E i \in DOMAIN staged' : staged'[i].key.file = run.entries[j]
      <4>1. CASE j = next
        BY <3>2, <4>1 DEF f
      <4>2. CASE j < next
        BY <1>1, <2>5, <2>6, <3>3, <4>2 DEF StagingInv, StagedAll, FileOf
      <4> QED
        BY <3>1, <3>3, <4>1, <4>2
    <3> QED
      BY <2>8, <3>3 DEF StagedAll, FileOf, InferOSArch
  <2>13. StagedAsRead'
    <3>1. StagedAsRead /\ SumsAsListed
      BY DEF StagingInv
    <3>2. run.lines # None => sums # None
      BY <1>1, <3>1 DEF SumsAsListed
    <3>3. ASSUME NEW i \in DOMAIN staged'
          PROVE  /\ staged'[i].sha = content[staged'[i].key.file] \/ staged'[i].key.file \in stale
                 /\ run.lines # None => sums # None /\ sums[staged'[i].key.file] = staged'[i].sha
      <4>1. CASE i = n
        BY <2>2, <2>3, <2>5, <3>2, <4>1
      <4>2. CASE i # n
        BY <2>5, <2>6, <3>1, <4>2 DEF StagedAsRead, FileOf
      <4> QED
        BY <4>1, <4>2
    <3> QED
      BY <2>8, <3>3 DEF StagedAsRead, FileOf
  <2>14. SumsAsListed'
    BY <2>8 DEF StagingInv, SumsAsListed
  <2>15. UploadedAsStaged'
    <3>1. UploadedAsStaged /\ sent = 0
      BY <1>1 DEF StagingInv
    <3> QED
      BY <2>8, <3>1 DEF UploadedAsStaged
  <2> QED
    BY <1>1, <2>8, <2>9, <2>10, <2>11, <2>12, <2>13, <2>14, <2>15 DEF StagingInv
<1> QED
  BY <1>4, <1>5, <1>6, <1>7

LEMMA AllStagedStep == StagingInv /\ AllStaged => StagingInv'
<1> SUFFICES ASSUME StagingInv, AllStaged PROVE StagingInv'
  OBVIOUS
<1>1. CASE Fail
  BY <1>1, FailStep
<1>2. CASE /\ staged # << >>
           /\ Upload
           /\ UNCHANGED <<run, files, sums, next, staged, sent, objects>>
  <2>1. /\ run \in Runs /\ IsRun(run) /\ TypeOK /\ Phases
        /\ pc = "stage" /\ sent = 0 /\ next > Len(run.entries)
    BY StagingAssumption DEF StagingInv, AllStaged, Phases
  <2>2. next = Len(run.entries) + 1
    BY <2>1 DEF TypeOK, IsRun
  <2>3. pc' \in {"told", "upload"}
    BY <1>2 DEF Upload
  <2>4. staged \in Seq(Artifact) /\ sent < Len(staged)
    BY <1>2, <2>1 DEF TypeOK
  <2>5. TypeOK'
    BY <1>2, <2>1, <2>3, <2>4 DEF TypeOK, files, Final
  <2>6. Phases'
    BY <1>2, <2>1, <2>2, <2>3 DEF Phases
  <2>7. StagedOnce' /\ StagedAll'
    BY <1>2 DEF StagingInv, StagedOnce, StagedAll, FileOf, InferOSArch
  <2>8. StagedAsRead'
    BY <1>2 DEF StagingInv, StagedAsRead, FileOf, files
  <2>9. SumsAsListed'
    BY <1>2, <2>1, <2>3 DEF StagingInv, SumsAsListed
  <2>10. UploadedAsStaged'
    BY <1>2 DEF StagingInv, UploadedAsStaged, FileOf, files
  <2> QED
    BY <1>2, <2>1, <2>5, <2>6, <2>7, <2>8, <2>9, <2>10 DEF StagingInv
<1> QED
  BY <1>1, <1>2 DEF AllStaged

LEMMA UploadStep == StagingInv /\ UploadNext => StagingInv'
<1> SUFFICES ASSUME StagingInv, UploadNext PROVE StagingInv'
  OBVIOUS
<1> DEFINE n == sent + 1
           k == staged[n].key
<1>1. CASE Fail
  BY <1>1, FailStep
<1>2. CASE /\ content[k.file] # None
           /\ objects' = [objects EXCEPT ![k] = content[k.file]]
           /\ sent' = n
           /\ pc' = IF n = Len(staged) THEN "index" ELSE "upload"
           /\ UNCHANGED <<run, files, sums, next, staged>>
  <2>1. /\ run \in Runs /\ TypeOK /\ Phases /\ StagedOnce /\ StagedAsRead /\ UploadedAsStaged
        /\ pc = "upload"
    BY DEF StagingInv, UploadNext
  <2>2. /\ staged \in Seq(Artifact) /\ sent \in 0..Len(staged) /\ sent < Len(staged)
        /\ Len(staged) \in Nat /\ sent \in Nat
    BY <2>1 DEF TypeOK
  <2>3. n \in DOMAIN staged /\ n \in 1..Len(staged) /\ 1..n = (1..sent) \cup {n} /\ n \notin 1..sent
        /\ DOMAIN staged = 1..Len(staged)
    BY <2>2
  <2>4. k \in Key /\ FileOf(n) \in Files /\ k.file = FileOf(n) /\ staged[n].sha \in Digests
    BY <2>1, <2>3, StagedTyped DEF FileOf
  <2>5. content[k.file] \in Digests
    BY <1>2, <2>1, <2>4 DEF TypeOK
  <2>6. /\ objects' \in [Key -> Digests \cup {None}] /\ objects'[k] = content[k.file]
        /\ \A l \in Key : l # k => objects'[l] = objects[l]
    BY <1>2, <2>1, <2>4, <2>5 DEF TypeOK
  <2>7. /\ run' = run /\ content' = content /\ changes' = changes /\ stale' = stale
        /\ sums' = sums /\ next' = next /\ staged' = staged /\ sent' = n
        /\ pc' \in {"index", "upload"} /\ (pc' = "index" <=> n = Len(staged))
    BY <1>2 DEF files
  <2> HIDE DEF n
  <2>8. TypeOK'
    <3>1. staged # << >>
      BY <2>2
    <3>2. n \in 0..Len(staged) /\ (n # Len(staged) => n < Len(staged))
      BY <2>3, <2>2
    <3> QED
      BY <2>1, <2>2, <2>6, <2>7, <3>1, <3>2 DEF TypeOK, Final
  <2>9. Phases'
    BY <2>1, <2>7 DEF Phases
  <2>10. StagedOnce' /\ StagedAll'
    BY <2>7 DEF StagingInv, StagedOnce, StagedAll, FileOf, InferOSArch
  <2>11. StagedAsRead'
    BY <2>7 DEF StagingInv, StagedAsRead, FileOf
  <2>12. SumsAsListed'
    BY <2>1, <2>7 DEF StagingInv, SumsAsListed
  <2>13. UploadedAsStaged'
    <3>1. ASSUME NEW i \in 1..n
          PROVE  objects'[staged[i].key] = staged[i].sha \/ FileOf(i) \in stale
      <4>1. CASE i = n
        BY <2>1, <2>3, <2>4, <2>6, <4>1 DEF StagedAsRead, FileOf
      <4>2. CASE i # n
        <5>1. i \in 1..sent /\ i \in DOMAIN staged
          BY <2>2, <2>3, <3>1, <4>2
        <5>2. FileOf(i) # FileOf(n)
          BY <2>1, <2>3, <4>2, <5>1 DEF StagedOnce
        <5>3. staged[i].key \in Key /\ staged[i].key # k
          BY <2>1, <2>4, <5>1, <5>2, StagedTyped DEF FileOf
        <5>4. objects[staged[i].key] = staged[i].sha \/ FileOf(i) \in stale
          BY <2>1, <5>1 DEF UploadedAsStaged
        <5> QED
          BY <2>6, <5>3, <5>4
      <4> QED
        BY <4>1, <4>2
    <3>2. ASSUME NEW l \in Key, objects'[l] # None PROVE \E i \in 1..n : staged[i].key = l
      <4>1. CASE l = k
        BY <2>3, <4>1
      <4>2. CASE l # k
        BY <2>1, <2>3, <2>6, <3>2, <4>2 DEF UploadedAsStaged
      <4> QED
        BY <4>1, <4>2
    <3> QED
      BY <2>7, <3>1, <3>2 DEF UploadedAsStaged, FileOf
  <2> QED
    BY <2>1, <2>7, <2>8, <2>9, <2>10, <2>11, <2>12, <2>13 DEF StagingInv
<1> QED
  BY <1>1, <1>2 DEF UploadNext

LEMMA ChangeStep == ASSUME StagingInv, NEW f \in Files, Change(f) PROVE StagingInv'
<1>1. /\ run \in Runs /\ TypeOK /\ Phases /\ MaxChanges \in Nat /\ pc \notin Final
  BY StagingAssumption DEF StagingInv, Change
<1>2. /\ run' = run /\ sums' = sums /\ next' = next /\ staged' = staged /\ sent' = sent
      /\ objects' = objects /\ pc' = pc /\ changes' = changes + 1 /\ changes < MaxChanges
  BY DEF Change
<1>3. PICK c \in Digests \cup {None} : content' = [content EXCEPT ![f] = c]
  BY DEF Change
<1>4. /\ stale \subseteq stale' /\ stale' \subseteq stale \cup {f}
      /\ \A i \in DOMAIN staged : FileOf(i) = f => f \in stale'
  BY DEF Change, FileOf
<1>5. \A g \in Files : g # f => content'[g] = content[g]
  BY <1>1, <1>3 DEF TypeOK
<1>6. TypeOK'
  BY <1>1, <1>2, <1>3, <1>4 DEF TypeOK
<1>7. Phases' /\ SumsAsListed'
  BY <1>1, <1>2 DEF StagingInv, Phases, SumsAsListed
<1>8. StagedOnce' /\ StagedAll'
  BY <1>2 DEF StagingInv, StagedOnce, StagedAll, FileOf, InferOSArch
<1>9. StagedAsRead'
  <2>1. ASSUME NEW i \in DOMAIN staged
        PROVE  staged[i].sha = content'[FileOf(i)] \/ FileOf(i) \in stale'
    <3>1. FileOf(i) \in Files
      BY <1>1, StagedTyped
    <3>2. staged[i].sha = content[FileOf(i)] \/ FileOf(i) \in stale
      BY DEF StagingInv, StagedAsRead
    <3> QED
      BY <1>4, <1>5, <3>1, <3>2
  <2> QED
    BY <1>2, <2>1 DEF StagingInv, StagedAsRead, FileOf
<1>10. UploadedAsStaged'
  BY <1>2, <1>4 DEF StagingInv, UploadedAsStaged, FileOf
<1> QED
  BY <1>1, <1>2, <1>6, <1>7, <1>8, <1>9, <1>10 DEF StagingInv

LEMMA StutterStep == StagingInv /\ UNCHANGED vars => StagingInv'
<1> SUFFICES ASSUME StagingInv, UNCHANGED vars PROVE StagingInv'
  OBVIOUS
<1>1. (run \in Runs)' /\ TypeOK' /\ Phases'
  BY DEF StagingInv, vars, TypeOK, Phases
<1>2. StagedOnce' /\ StagedAll'
  BY DEF StagingInv, vars, StagedOnce, StagedAll, FileOf, InferOSArch
<1>3. StagedAsRead' /\ UploadedAsStaged'
  BY DEF StagingInv, vars, StagedAsRead, UploadedAsStaged, FileOf
<1>4. SumsAsListed'
  BY DEF StagingInv, vars, SumsAsListed
<1> QED
  BY <1>1, <1>2, <1>3, <1>4 DEF StagingInv

LEMMA StagingInvariant == Spec => []StagingInv
<1>1. StagingInv /\ [Next]_vars => StagingInv'
  <2> SUFFICES ASSUME StagingInv, [Next]_vars PROVE StagingInv'
    OBVIOUS
  <2>1. CASE PublishSingle
    BY <2>1, SingleStep
  <2>2. CASE ReadChecksums
    BY <2>2, ChecksumsStep
  <2>3. CASE StageNext
    BY <2>3, NextStep
  <2>4. CASE AllStaged
    BY <2>4, AllStagedStep
  <2>5. CASE UploadNext
    BY <2>5, UploadStep
  <2>6. CASE UploadFails
    BY <2>6, FailStep DEF UploadFails
  <2>7. CASE \E f \in Files : Change(f)
    BY <2>7, ChangeStep
  <2>8. CASE Done \/ UNCHANGED vars
    BY <2>8, StutterStep DEF Done
  <2> QED
    BY <2>1, <2>2, <2>3, <2>4, <2>5, <2>6, <2>7, <2>8 DEF Next, Step
<1> QED
  BY <1>1, InitStagingInv, PTL DEF Spec

---------------------------------------------------------------------------
(* What a publish hands to the bucket and to the index *)

\* What publish stages is what Registry assumes of a publish: artifacts, all of the
\* version of the command line, and at least one of them when they are handed on.
THEOREM StagingTypeCorrect == Spec => []TypeOK
BY StagingInvariant, PTL DEF StagingInv

\* publish.go:128-134: with a checksums.txt, nothing is uploaded before every archive
\* of the directory has passed, and only what is listed, or was changed since.
THEOREM OnlyListedIsUploaded == Spec => []UploadsAreListed
<1>1. StagingInv => UploadsAreListed
  <2> SUFFICES ASSUME StagingInv, run.lines # None, NEW k \in Key, objects[k] # None
               PROVE  /\ \/ k.file \in stale
                         \/ \E i \in DOMAIN run.lines : /\ run.lines[i].file = k.file
                                                        /\ run.lines[i].sha = objects[k]
                      /\ \A f \in Entries \cap Archives :
                           None \in InferOSArch(f) \/ \E i \in DOMAIN staged : staged[i].key.file = f
    BY DEF UploadsAreListed
  <2>1. IsRun(run) /\ TypeOK /\ run.mode = "dist"
    BY StagingAssumption DEF StagingInv, IsRun
  <2>2. PICK i \in 1..sent : staged[i].key = k
    BY DEF StagingInv, UploadedAsStaged
  <2>3. i \in DOMAIN staged /\ sent > 0
    BY <2>1, <2>2 DEF TypeOK
  <2>4. next = Len(run.entries) + 1
    BY <2>1, <2>3 DEF StagingInv, Phases
  <2>5. ASSUME k.file \notin stale
        PROVE  \E l \in DOMAIN run.lines : /\ run.lines[l].file = k.file
                                           /\ run.lines[l].sha = objects[k]
    <3>1. staged[i].sha = objects[k] /\ FileOf(i) = k.file
      BY <2>2, <2>5 DEF StagingInv, UploadedAsStaged, FileOf
    <3>2. sums # None /\ sums[k.file] = objects[k]
      BY <2>3, <3>1 DEF StagingInv, StagedAsRead
    <3>3. run.lines \in Seq(Line) /\ sums = ParseChecksums(run.lines)
      BY <3>2 DEF StagingInv, SumsAsListed
    <3>4. k.file \in Files
      BY DEF Key
    <3> QED
      BY <3>2, <3>3, <3>4, ParsedSums
  <2>6. ASSUME NEW f \in Entries \cap Archives
        PROVE  None \in InferOSArch(f) \/ \E l \in DOMAIN staged : staged[l].key.file = f
    <3>1. PICK j \in DOMAIN run.entries : run.entries[j] = f
      BY <2>6 DEF Entries
    <3>2. j < next
      BY <2>1, <2>4, <3>1 DEF IsRun
    <3> QED
      BY <2>1, <2>6, <3>1, <3>2 DEF StagingInv, StagedAll, FileOf
  <2> QED
    BY <2>5, <2>6
<1> QED
  BY <1>1, StagingInvariant, PTL

\* publish.go:174-191: publish reads each file twice, to hash it and to upload it; what
\* it then puts into the index describes what it uploaded, unless the file was changed
\* in between.
THEOREM IndexDescribesUploads == Spec => []IndexedAsUploaded
<1>1. StagingInv => IndexedAsUploaded
  <2> SUFFICES ASSUME StagingInv, pc = "index", NEW i \in DOMAIN staged
               PROVE  objects[staged[i].key] = staged[i].sha \/ staged[i].key.file \in stale
    BY DEF IndexedAsUploaded
  <2>1. sent = Len(staged) /\ staged \in Seq(Artifact)
    BY DEF StagingInv, Phases, TypeOK
  <2>2. i \in 1..sent
    BY <2>1
  <2> QED
    BY <2>2 DEF StagingInv, UploadedAsStaged, FileOf
<1> QED
  BY <1>1, StagingInvariant, PTL
---------------------------------------------------------------------------
(* What a name is taken to say *)

\* A token is where its first word is, and reaches to its length.
LEMMA TokenAt ==
    ASSUME NEW words, IsSequence(words), NEW t \in Tokens
    PROVE  \A i \in boundedIndex(words, t) : i \in DOMAIN words /\ i \in Nat /\ words[i] = t[1]
<1> SUFFICES ASSUME NEW i \in boundedIndex(words, t)
             PROVE  i \in DOMAIN words /\ i \in Nat /\ words[i] = t[1]
  OBVIOUS
<1> DEFINE n == Len(t)
<1>1. PICK W : words \in Seq(W)
  BY DEF IsSequence
<1>2. PICK T : t \in Seq(T)
  BY NamingAssumption DEF IsSequence
<1>3. n \in Nat /\ n >= 1 /\ 1 \in DOMAIN t
  BY <1>2, NamingAssumption
<1>4. /\ i \in DOMAIN words
      /\ i + n - 1 <= Len(words)
      /\ SubSeq(words, i, i + n - 1) = t
  BY DEF boundedIndex
<1>5. i \in Nat /\ i >= 1 /\ i <= Len(words)
  BY <1>1, <1>4
<1>6. SubSeq(words, i, i + n - 1)[1] = words[i]
  BY <1>1, <1>3, <1>4, <1>5
<1> QED
  BY <1>4, <1>5, <1>6

\* The first token counts: where all of a table begin at k or later, and one there, it
\* is that one.
LEMMA FirstIsIt ==
    ASSUME NEW words, IsSequence(words), NEW tokens, DOMAIN tokens \subseteq Tokens,
           \A t, u \in DOMAIN tokens : t[1] = u[1] => t = u,
           NEW t \in DOMAIN tokens, NEW k \in boundedIndex(words, t),
           \A u \in DOMAIN tokens : \A j \in boundedIndex(words, u) : k <= j
    PROVE  firstToken(words, tokens) = {tokens[t]}
<1>1. \A u \in DOMAIN tokens : \A j \in boundedIndex(words, u) :
        j \in Nat /\ words[j] = u[1]
  BY TokenAt
<1>2. ASSUME NEW u \in DOMAIN tokens, NEW i \in boundedIndex(words, u),
             \A v \in DOMAIN tokens : \A j \in boundedIndex(words, v) : i <= j
      PROVE  u = t
  <2>1. i <= k /\ k <= i /\ i \in Nat /\ k \in Nat
    BY <1>1, <1>2
  <2>2. i = k
    BY <2>1
  <2> QED
    BY <1>1, <2>2
<1> QED
  BY <1>2 DEF firstToken

\* So the name of an archive is taken to say what it says, if its tool has no such word.
LEMMA InfersNamed ==
    ASSUME NEW f \in Files, Named[f] # None, NamesItsOwn(f)
    PROVE  InferOSArch(f) = {Named[f]}
<1> DEFINE words == Words[f]
<1>1. IsSequence(words)
  BY NamingAssumption
<1>2. PICK n \in 0..Len(words), o \in DOMAIN OsTokens, a \in DOMAIN ArchTokens :
        /\ \A i \in 1..n : words[i] \in ToolWords[f]
        /\ n + Len(o) + Len(a) <= Len(words)
        /\ SubSeq(words, n + 1, n + Len(o)) = o
        /\ SubSeq(words, n + Len(o) + 1, n + Len(o) + Len(a)) = a
        /\ Named[f] = <<OsTokens[o], ArchTokens[a]>>
  BY NamingAssumption DEF IsStyled
<1> HIDE DEF words
<1>3. PICK W : words \in Seq(W)
  BY <1>1 DEF IsSequence
<1>4. o \in Tokens /\ a \in Tokens /\ DOMAIN OsTokens \subseteq Tokens /\ DOMAIN ArchTokens \subseteq Tokens
  BY DEF Tokens
<1>5. /\ Len(o) \in Nat /\ Len(o) >= 1 /\ DOMAIN o = 1..Len(o)
      /\ Len(a) \in Nat /\ Len(a) >= 1
  <2>1. \A t \in Tokens : Len(t) \in Nat /\ Len(t) >= 1 /\ DOMAIN t = 1..Len(t)
    <3> SUFFICES ASSUME NEW t \in Tokens
                 PROVE  Len(t) \in Nat /\ Len(t) >= 1 /\ DOMAIN t = 1..Len(t)
      OBVIOUS
    <3>1. PICK T : t \in Seq(T)
      BY NamingAssumption DEF IsSequence
    <3> QED
      BY <3>1, NamingAssumption
  <2> QED
    BY <1>4, <2>1
<1>6. n \in Nat /\ Len(words) \in Nat /\ DOMAIN words = 1..Len(words)
  BY <1>3
<1>7. n + 1 \in boundedIndex(words, o)
  <2>1. n + 1 \in DOMAIN words /\ (n + 1) + Len(o) - 1 = n + Len(o) /\ n + Len(o) <= Len(words)
    BY <1>2, <1>5, <1>6
  <2> QED
    BY <1>2, <2>1 DEF boundedIndex
<1>8. n + Len(o) + 1 \in boundedIndex(words, a)
  <2>1. /\ n + Len(o) + 1 \in DOMAIN words
        /\ (n + Len(o) + 1) + Len(a) - 1 = n + Len(o) + Len(a)
    BY <1>2, <1>5, <1>6
  <2> QED
    BY <1>2, <2>1 DEF boundedIndex
<1>9. ASSUME NEW t \in Tokens, NEW j \in boundedIndex(words, t) PROVE j \in Nat /\ n + 1 <= j
  <2>1. j \in DOMAIN words /\ j \in Nat /\ words[j] = t[1]
    BY <1>1, TokenAt
  <2>2. t[1] \notin ToolWords[f]
    BY DEF NamesItsOwn
  <2>3. j \notin 1..n
    BY <1>2, <2>1, <2>2
  <2> QED
    BY <1>6, <2>1, <2>3
<1>10. ASSUME NEW t \in DOMAIN ArchTokens, NEW j \in boundedIndex(words, t)
       PROVE  n + Len(o) + 1 <= j
  <2>1. j \in Nat /\ n + 1 <= j /\ words[j] = t[1]
    BY <1>1, <1>4, <1>9, TokenAt
  <2>2. ASSUME ~(n + Len(o) + 1 <= j) PROVE FALSE
    <3>1. j - n \in DOMAIN o
      BY <1>5, <1>6, <2>1, <2>2
    <3>2. SubSeq(words, n + 1, n + Len(o))[j - n] = words[j]
      BY <1>2, <1>3, <1>5, <1>6, <2>1, <2>2
    <3>3. o[j - n] = t[1]
      BY <1>2, <2>1, <3>2
    <3> QED
      BY <3>1, <3>3, NamingAssumption
  <2> QED
    BY <2>2
<1>11. firstToken(words, OsTokens) = {OsTokens[o]}
  BY <1>1, <1>4, <1>7, <1>9, FirstIsIt, NamingAssumption
<1>12. firstToken(words, ArchTokens) = {ArchTokens[a]}
  BY <1>1, <1>4, <1>8, <1>10, FirstIsIt, NamingAssumption
<1>13. InferOSArch(f) = {OsTokens[o]} \X {ArchTokens[a]}
  BY <1>11, <1>12 DEF InferOSArch, words
<1> QED
  BY <1>2, <1>13

\* dist.go:46-65: firstToken goes over a table in Go's random map order, and yet the
\* same name always says the same.
THEOREM NamesAreUnambiguous ==
    \A f \in Files : \A one, other \in InferOSArch(f) : one = other
<1>1. ASSUME NEW words, IsSequence(words), NEW tokens, DOMAIN tokens \subseteq Tokens,
             \A t, u \in DOMAIN tokens : t[1] = u[1] => t = u
      PROVE  \A x, y \in firstToken(words, tokens) : x = y
  <2> SUFFICES ASSUME NEW x \in firstToken(words, tokens), NEW y \in firstToken(words, tokens)
               PROVE  x = y
    OBVIOUS
  <2>1. PICK t \in DOMAIN tokens : x = tokens[t] /\ \E i \in boundedIndex(words, t) :
          \A u \in DOMAIN tokens : \A j \in boundedIndex(words, u) : i <= j
    BY DEF firstToken
  <2>2. PICK u \in DOMAIN tokens : y = tokens[u] /\ \E j \in boundedIndex(words, u) :
          \A w \in DOMAIN tokens : \A k \in boundedIndex(words, w) : j <= k
    BY DEF firstToken
  <2>3. PICK i \in boundedIndex(words, t) :
          \A w \in DOMAIN tokens : \A j \in boundedIndex(words, w) : i <= j
    BY <2>1
  <2>4. PICK j \in boundedIndex(words, u) :
          \A w \in DOMAIN tokens : \A k \in boundedIndex(words, w) : j <= k
    BY <2>2
  <2>5. i \in Nat /\ j \in Nat /\ words[i] = t[1] /\ words[j] = u[1]
    BY <1>1, TokenAt
  <2>6. i <= j /\ j <= i
    BY <2>3, <2>4
  <2>7. i = j
    BY <2>5, <2>6
  <2>8. t = u
    BY <1>1, <2>5, <2>7
  <2> QED
    BY <2>1, <2>2, <2>8
<1>2. ASSUME NEW f \in Files, NEW one \in InferOSArch(f), NEW other \in InferOSArch(f)
      PROVE  one = other
  <2> DEFINE oses == firstToken(Words[f], OsTokens)
             arches == firstToken(Words[f], ArchTokens)
  <2>1. IsSequence(Words[f])
    BY NamingAssumption
  <2>2. DOMAIN OsTokens \subseteq Tokens /\ DOMAIN ArchTokens \subseteq Tokens
    BY DEF Tokens
  <2>3. \A x, y \in oses : x = y
    BY <1>1, <2>1, <2>2, NamingAssumption
  <2>4. \A x, y \in arches : x = y
    BY <1>1, <2>1, <2>2, NamingAssumption
  <2>5. InferOSArch(f) = (oses \X arches) \cup (IF oses = {} \/ arches = {} THEN {None} ELSE {})
    BY DEF InferOSArch
  <2> HIDE DEF oses, arches
  <2>6. CASE oses = {} \/ arches = {}
    BY <2>5, <2>6
  <2>7. CASE oses # {} /\ arches # {}
    <3>1. one \in oses \X arches /\ other \in oses \X arches
      BY <2>5, <2>7
    <3> QED
      BY <2>3, <2>4, <3>1
  <2> QED
    BY <2>6, <2>7
<1> QED
  BY <1>2

\* What a directory's files are staged under was told by their names.
StagedNamed ==
    run.mode = "dist" =>
      \A i \in DOMAIN staged : staged[i].key.slot.osArch \in InferOSArch(FileOf(i))

LEMMA NamedStep == StagingInv /\ StagedNamed /\ [Next]_vars => StagedNamed'
<1> SUFFICES ASSUME StagingInv, StagedNamed, [Next]_vars PROVE StagedNamed'
  OBVIOUS
<1>1. ASSUME run' = run, staged' = staged PROVE StagedNamed'
  BY <1>1 DEF StagedNamed, FileOf, InferOSArch
<1>2. CASE PublishSingle
  BY <1>2, <1>1 DEF PublishSingle, Fail, StagedNamed
<1>3. CASE StageNext
  <2>1. CASE run' = run /\ staged' = staged
    BY <2>1, <1>1
  <2>2. CASE \E f \in {run.entries[next]}, osArch \in InferOSArch(run.entries[next]) :
               run' = run /\ staged' = Append(staged, ArtifactOf(f, osArch, content[f]))
    <3>1. PICK osArch \in InferOSArch(run.entries[next]) :
            /\ run' = run
            /\ staged' = Append(staged, ArtifactOf(run.entries[next], osArch, content[run.entries[next]]))
      BY <2>2
    <3> DEFINE art == ArtifactOf(run.entries[next], osArch, content[run.entries[next]])
    <3>2. art.key.file = run.entries[next] /\ art.key.slot.osArch = osArch
      BY DEF ArtifactOf
    <3> HIDE DEF art
    <3>3. staged \in Seq(Artifact)
      BY DEF StagingInv, TypeOK
    <3>4. \A i \in DOMAIN staged' : (i \in DOMAIN staged /\ staged'[i] = staged[i]) \/ staged'[i] = art
      BY <3>1, <3>3 DEF art
    <3>5. ASSUME run.mode = "dist", NEW i \in DOMAIN staged'
          PROVE  staged'[i].key.slot.osArch \in InferOSArch(staged'[i].key.file)
      BY <3>1, <3>2, <3>4, <3>5 DEF StagedNamed, FileOf
    <3> QED
      BY <3>1, <3>5 DEF StagedNamed, FileOf, InferOSArch
  <2> QED
    BY <1>3, <2>1, <2>2 DEF StageNext, Fail
<1>4. CASE ReadChecksums \/ AllStaged \/ UploadNext \/ UploadFails
  BY <1>1, <1>4 DEF ReadChecksums, AllStaged, UploadNext, UploadFails, Fail
<1>5. CASE (\E f \in Files : Change(f)) \/ Done \/ UNCHANGED vars
  BY <1>1, <1>5 DEF Change, Done, vars
<1> QED
  BY <1>2, <1>3, <1>4, <1>5 DEF Next, Step

\* dist.go:54-57: an archive with a goreleaser-style name, of a tool without such a word
\* in its name, is published under the os and arch it names, whatever else is in the
\* directory and becomes of it.
THEOREM PublishNamesRightly == Spec => []PublishedAsNamed
<1>1. Init => StagedNamed
  BY DEF Init, StagedNamed
<1>2. StagingInv /\ StagedNamed => PublishedAsNamed
  <2> SUFFICES ASSUME StagingInv, StagedNamed, run.mode = "dist", pc \in {"upload", "index", "told"},
                      NEW f \in Entries \cap Archives, Named[f] # None, NamesItsOwn(f)
               PROVE  \E i \in DOMAIN staged :
                        staged[i].key.file = f /\ staged[i].key.slot.osArch = Named[f]
    BY DEF PublishedAsNamed
  <2>1. IsRun(run) /\ TypeOK
    BY StagingAssumption DEF StagingInv
  <2>2. PICK j \in DOMAIN run.entries : run.entries[j] = f
    BY DEF Entries
  <2>3. f \in Files /\ j < next
    BY <2>1, <2>2 DEF IsRun, StagingInv, Phases
  <2>4. InferOSArch(f) = {Named[f]}
    BY <2>3, InfersNamed
  <2>5. PICK i \in DOMAIN staged : FileOf(i) = f
    BY <2>2, <2>3, <2>4 DEF StagingInv, StagedAll
  <2> QED
    BY <2>4, <2>5 DEF StagedNamed, FileOf
<1> QED
  BY <1>1, <1>2, NamedStep, StagingInvariant, PTL DEF Spec
=============================================================================
