------------------------------ MODULE Staging ------------------------------
(***************************************************************************)
(* How publish gets from files to the artifacts that it uploads: which     *)
(* files of a dist directory it takes, under which os-arch, how it holds   *)
(* them against checksums.txt, and what it then reads again to upload.     *)
(* A build may still be writing the files.  What it stages is the input    *)
(* of module Registry, which takes over where the index is updated.        *)
(***************************************************************************)
EXTENDS Catalogue

CONSTANTS
    Runs,         \* the command lines, each with the files it finds
    Words,        \* of each file name, in lower case, as its delimiters part them
    Archives,     \* the file names that end like an archive
    OsTokens,     \* the aliases of an os: a function on sequences of words
    ArchTokens,   \* and of an arch; x86_64 is two words, that names part with "_"
    Named,        \* the os and arch that a goreleaser-style name is to say, or None
    ToolWords,    \* of each file name, the words of its tool and version
    Malformed,    \* a line of checksums.txt that has only one field
    MaxChanges    \* bound: how often a file changes while publish runs

Tokens == DOMAIN OsTokens \cup DOMAIN ArchTokens

\* A line of checksums.txt names a file by some path; its base name is what counts.
Line == [file: Files, sha: Digests]

\* A command line and what it finds: --file names one file, its os and arch, and
\* has no checksums.txt; a directory lists every name once.  Names of directories in it
\* are passed over like those of no archive, and are left out.
IsRun(r) ==
    /\ r.mode \in {"file", "dist"}
    /\ r.version \in Versions
    /\ r.entries \in Seq(Files)
    /\ \A i, j \in DOMAIN r.entries : r.entries[i] = r.entries[j] => i = j
    /\ r.content \in [Files -> Digests \cup {None}]
    /\ r.lines = None \/ r.lines \in Seq(Line \cup {Malformed})
    /\ r.mode = "file" => Len(r.entries) = 1 /\ r.osArch \in OsArches /\ r.lines = None

ASSUME StagingAssumption ==
    /\ MaxChanges \in Nat
    /\ None \notin Digests \cup [Files -> Digests \cup {None}]
    /\ \A o \in DOMAIN OsTokens, a \in DOMAIN ArchTokens :
          <<OsTokens[o], ArchTokens[a]>> \in OsArches
    /\ \A r \in Runs : IsRun(r)

IsSequence(s) == s \in Seq({ s[i] : i \in DOMAIN s })

\* A goreleaser-style name: the tool and its version, an os, an arch, and the rest.
IsStyled(f) ==
    \E n \in 0..Len(Words[f]), o \in DOMAIN OsTokens, a \in DOMAIN ArchTokens :
      /\ \A i \in 1..n : Words[f][i] \in ToolWords[f]
      /\ n + Len(o) + Len(a) <= Len(Words[f])
      /\ SubSeq(Words[f], n + 1, n + Len(o)) = o
      /\ SubSeq(Words[f], n + Len(o) + 1, n + Len(o) + Len(a)) = a
      /\ Named[f] = <<OsTokens[o], ArchTokens[a]>>

\* In the tables of dist.go no two tokens begin with one word, and no arch begins with
\* a word of an os.
ASSUME NamingAssumption ==
    /\ \A t \in Tokens : IsSequence(t) /\ t # << >>
    /\ \A t, u \in DOMAIN OsTokens : t[1] = u[1] => t = u
    /\ \A t, u \in DOMAIN ArchTokens : t[1] = u[1] => t = u
    /\ \A o \in DOMAIN OsTokens, a \in DOMAIN ArchTokens : \A i \in DOMAIN o : o[i] # a[1]
    /\ \A f \in Files : IsSequence(Words[f]) /\ (Named[f] # None => IsStyled(f))

VARIABLES
    run,       \* the command line
    content,   \* what each file holds now, None if it is gone
    changes,   \* how often files changed
    stale,     \* files that changed after they were hashed
    sums,      \* checksums.txt as a function of file names, None without one
    next,      \* the directory entry to look at
    staged,    \* the artifacts that are ready to be uploaded
    sent,      \* how many of them were uploaded
    objects,   \* what was uploaded at each key
    pc

files == <<content, changes, stale>>
vars  == <<run, content, changes, stale, sums, next, staged, sent, objects, pc>>

Final == {"index", "told", "failed"}

Init ==
    /\ run \in Runs
    /\ content = run.content
    /\ changes = 0
    /\ stale = {}
    /\ sums = None
    /\ next = 1
    /\ staged = << >>
    /\ sent = 0
    /\ objects = [k \in Key |-> None]
    /\ pc = "begin"

---------------------------------------------------------------------------
(* What a file name and checksums.txt say *)

\* Variant: looks at single words.
boundedIndexWordwise(words, token) == { i \in DOMAIN words : <<words[i]>> = token }

\* Where a token is in a name, bounded by delimiters or the edges.
boundedIndex(words, token) ==
    { i \in DOMAIN words : /\ i + Len(token) - 1 <= Len(words)
                           /\ SubSeq(words, i, i + Len(token) - 1) = token }

\* firstToken: the values of the tokens that are in the name before any other.
firstToken(words, tokens) ==
    { tokens[t] : t \in { u \in DOMAIN tokens :
        \E i \in boundedIndex(words, u) :
          \A v \in DOMAIN tokens : \A j \in boundedIndex(words, v) : i <= j } }

\* None when either cannot be told.  Go ranges over the tokens in any order, which
\* would show if two of different values could begin at one place.
InferOSArch(f) ==
    (firstToken(Words[f], OsTokens) \X firstToken(Words[f], ArchTokens)) \cup
    (IF firstToken(Words[f], OsTokens) = {} \/ firstToken(Words[f], ArchTokens) = {}
     THEN {None} ELSE {})

\* ParseChecksums: by base name, the last line of a name counts.
ParseChecksums(lines) ==
    [ f \in Files |->
        LET of == { i \in DOMAIN lines : lines[i].file = f }
        IN  IF of = {} THEN None
            ELSE lines[CHOOSE i \in of : \A j \in of : j <= i].sha ]

---------------------------------------------------------------------------
(* publish *)

ArtifactOf(f, osArch, sha) ==
    [key |-> [slot |-> [version |-> run.version, osArch |-> osArch], file |-> f], sha |-> sha]

Fail ==
    /\ pc' = "failed"
    /\ UNCHANGED <<run, files, sums, next, staged, sent, objects>>

\* uploadAndIndex: a dry run only tells what it would do.
Upload == pc' = IF run.dryRun THEN "told" ELSE "upload"

\* publishSingle: the file, under the os and arch of the command line.
PublishSingle ==
    /\ pc = "begin"
    /\ run.mode = "file"
    /\ LET f == run.entries[1]
       IN  \/ /\ content[f] = None
              /\ Fail
           \/ /\ content[f] # None
              /\ staged' = <<ArtifactOf(f, run.osArch, content[f])>>
              /\ Upload
              /\ UNCHANGED <<run, files, sums, next, sent, objects>>

\* publishDist: checksums.txt, if there is to be one, then the names in the directory.
\* Either may turn out not to be there; a line that does not parse is an error always.
ReadChecksums ==
    /\ pc = "begin"
    /\ run.mode = "dist"
    /\ \/ Fail
       \/ /\ run.lines # None => Malformed \notin { run.lines[i] : i \in DOMAIN run.lines }
          /\ sums' = IF run.lines = None THEN None ELSE ParseChecksums(run.lines)
          /\ pc' = "stage"
          /\ UNCHANGED <<run, files, next, staged, sent, objects>>

Skips(f, osArch) == f \notin Archives \/ osArch = None

\* Variant: a file that checksums.txt does not list is let through.
RefusesListed(f) ==
    \/ content[f] = None
    \/ sums # None /\ sums[f] \notin {None, content[f]}

\* It is gone, or not what checksums.txt says, or not listed there.
Refuses(f) == content[f] = None \/ (sums # None /\ sums[f] # content[f])

\* Variant: a file that is skipped is looked at again.
StageNextStuck ==
    /\ pc = "stage"
    /\ next <= Len(run.entries)
    /\ \E f \in {run.entries[next]}, osArch \in InferOSArch(run.entries[next]) :
         \/ /\ Skips(f, osArch)
            /\ UNCHANGED vars
         \/ /\ ~Skips(f, osArch)
            /\ Refuses(f)
            /\ Fail
         \/ /\ ~Skips(f, osArch)
            /\ ~Refuses(f)
            /\ staged' = Append(staged, ArtifactOf(f, osArch, content[f]))
            /\ next' = next + 1
            /\ UNCHANGED <<run, files, sums, sent, objects, pc>>

\* Variant: a digest that is listed is taken for the file's.
StageNextTrusting ==
    /\ pc = "stage"
    /\ next <= Len(run.entries)
    /\ \E f \in {run.entries[next]}, osArch \in InferOSArch(run.entries[next]) :
         /\ staged' = IF Skips(f, osArch) THEN staged
                      ELSE Append(staged, ArtifactOf(f, osArch,
                             IF sums = None \/ sums[f] = None THEN content[f] ELSE sums[f]))
         /\ next' = next + 1
    /\ UNCHANGED <<run, files, sums, sent, objects, pc>>

\* One entry of the directory: an archive whose os and arch can be told is hashed,
\* held against checksums.txt, and staged.  The first that is refused ends it all.
StageNext ==
    /\ pc = "stage"
    /\ next <= Len(run.entries)
    /\ \E f \in {run.entries[next]}, osArch \in InferOSArch(run.entries[next]) :
         \/ /\ Skips(f, osArch)
            /\ next' = next + 1
            /\ UNCHANGED <<run, files, sums, staged, sent, objects, pc>>
         \/ /\ ~Skips(f, osArch)
            /\ Refuses(f)
            /\ Fail
         \/ /\ ~Skips(f, osArch)
            /\ ~Refuses(f)
            /\ staged' = Append(staged, ArtifactOf(f, osArch, content[f]))
            /\ next' = next + 1
            /\ UNCHANGED <<run, files, sums, sent, objects, pc>>

\* Variant: no archive is no error.
AllStagedEmpty ==
    /\ pc = "stage"
    /\ next > Len(run.entries)
    /\ Upload
    /\ UNCHANGED <<run, files, sums, next, staged, sent, objects>>

\* No archive at all is an error.
AllStaged ==
    /\ pc = "stage"
    /\ next > Len(run.entries)
    /\ \/ /\ staged = << >>
          /\ Fail
       \/ /\ staged # << >>
          /\ Upload
          /\ UNCHANGED <<run, files, sums, next, staged, sent, objects>>

\* The next staged file is opened once more and uploaded as it is by then.
UploadNext ==
    /\ pc = "upload"
    /\ LET art == staged[sent + 1]
       IN  \/ /\ content[art.key.file] = None
              /\ Fail
           \/ /\ content[art.key.file] # None
              /\ objects' = [objects EXCEPT ![art.key] = content[art.key.file]]
              /\ sent' = sent + 1
              /\ pc' = IF sent + 1 = Len(staged) THEN "index" ELSE "upload"
              /\ UNCHANGED <<run, files, sums, next, staged>>

\* st.PutArtifact fails.
UploadFails == pc = "upload" /\ Fail

---------------------------------------------------------------------------
\* The build rewrites or deletes a file.
Change(f) ==
    /\ pc \notin Final
    /\ changes < MaxChanges
    /\ changes' = changes + 1
    /\ \E c \in (Digests \cup {None}) \ {content[f]} : content' = [content EXCEPT ![f] = c]
    /\ stale' = IF \E i \in DOMAIN staged : staged[i].key.file = f THEN stale \cup {f} ELSE stale
    /\ UNCHANGED <<run, sums, next, staged, sent, objects, pc>>

Done == pc \in Final /\ UNCHANGED vars

Step == PublishSingle \/ ReadChecksums \/ StageNext \/ AllStaged \/ UploadNext \/ UploadFails

Next == Step \/ (\E f \in Files : Change(f)) \/ Done

\* The process runs.
Spec == Init /\ [][Next]_vars /\ WF_vars(Step)

---------------------------------------------------------------------------
(* Properties *)

Entries == { run.entries[i] : i \in DOMAIN run.entries }

\* What is handed on satisfies what Registry assumes of a publish: it is not
\* empty, and all of it is of one version.
TypeOK ==
    /\ content \in [Files -> Digests \cup {None}]
    /\ changes \in 0..MaxChanges
    /\ stale \subseteq Files
    /\ sums \in [Files -> Digests \cup {None}] \cup {None}
    /\ next \in 1 .. Len(run.entries) + 1
    /\ staged \in Seq(Artifact)
    /\ sent \in 0..Len(staged)
    /\ objects \in [Key -> Digests \cup {None}]
    /\ pc \in {"begin", "stage", "upload"} \cup Final
    /\ \A i \in DOMAIN staged : staged[i].key.slot.version = run.version
    /\ pc = "upload" => sent < Len(staged)
    /\ pc \in {"index", "told"} => staged # << >>

\* publish.go:128-134: with a checksums.txt nothing is uploaded before every archive
\* of the directory has passed, and what is uploaded has the digest listed for it
\* unless the file changed after it was hashed.
UploadsAreListed ==
    run.lines # None =>
      \A k \in Key : objects[k] # None =>
        /\ k.file \in stale \/ \E i \in DOMAIN run.lines : /\ run.lines[i].file = k.file
                                                          /\ run.lines[i].sha = objects[k]
        /\ \A f \in Entries \cap Archives :
             None \in InferOSArch(f) \/ \E i \in DOMAIN staged : staged[i].key.file = f

\* publish.go:174-191: what goes into the index describes what was uploaded, unless
\* the file changed in between.
IndexedAsUploaded ==
    pc = "index" =>
      \A i \in DOMAIN staged :
        objects[staged[i].key] = staged[i].sha \/ staged[i].key.file \in stale

NamesItsOwn(f) == ToolWords[f] \cap { t[1] : t \in Tokens } = {}

\* dist.go:54-57: an archive with a goreleaser-style name is published under the os
\* and arch it names, whatever the spelling, if its tool has no such word in its
\* name.
PublishedAsNamed ==
    /\ run.mode = "dist"
    /\ pc \in {"upload", "index", "told"}
    => \A f \in Entries \cap Archives :
         Named[f] # None /\ NamesItsOwn(f) =>
           \E i \in DOMAIN staged :
             staged[i].key.file = f /\ staged[i].key.slot.osArch = Named[f]

\* publish comes to an end, whatever is in the directory and becomes of it.
Ends == <>(pc \in Final)

---------------------------------------------------------------------------
(* What the documentation says and the code does not do *)

\* dist.go:55-57: tokens are bounded "so short aliases like "mac" or "win" cannot
\* match inside a tool name or version" -- but a tool's name has delimiters, too.
ToolNameIgnored ==
    \A i \in DOMAIN staged :
      run.mode = "dist" /\ Named[staged[i].key.file] # None
        => staged[i].key.slot.osArch = Named[staged[i].key.file]
=============================================================================
