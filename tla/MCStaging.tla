----------------------------- MODULE MCStaging -----------------------------
(***************************************************************************)
(* A small instance of Staging: a directory of up to four files, among      *)
(* them a source archive, checksums.txt itself, and a tool whose name       *)
(* begins like an os.                                                      *)
(***************************************************************************)
EXTENDS Staging, TLC

CONSTANTS mac, winget, source, text, gitwin, v, old, new

MCOsTokens ==
    (<<"darwin">> :> "darwin") @@ (<<"macos">> :> "darwin") @@ (<<"mac">> :> "darwin")
      @@ (<<"linux">> :> "linux") @@ (<<"windows">> :> "windows") @@ (<<"win">> :> "windows")

MCArchTokens ==
    (<<"amd64">> :> "amd64") @@ (<<"x86", "64">> :> "amd64") @@ (<<"x8664">> :> "amd64")
      @@ (<<"arm64">> :> "arm64") @@ (<<"aarch64">> :> "arm64")

MCOsArches == {"darwin", "linux", "windows"} \X {"amd64", "arm64"}

MCWords ==
    mac    :> <<"tool", "1", "0", "macos", "arm64", "tar", "gz">> @@
    winget :> <<"winget", "linux", "x86", "64", "zip">> @@
    source :> <<"tool", "1", "0", "source", "tar", "gz">> @@
    text   :> <<"checksums", "txt">> @@
    gitwin :> <<"git", "win", "linux", "amd64", "zip">>

MCNamed ==
    mac    :> <<"darwin", "arm64">> @@ winget :> <<"linux", "amd64">> @@
    gitwin :> <<"linux", "amd64">> @@ source :> None @@ text :> None

MCToolWords ==
    mac :> {"tool", "1", "0"} @@ winget :> {"winget"} @@ source :> {"tool", "1", "0"} @@
    gitwin :> {"git", "win"} @@ text :> {}

Holding(present) == [f \in Files |-> IF f \in present THEN new ELSE None]

Dist(entries, lines, dry) ==
    [ mode |-> "dist", version |-> v, entries |-> entries, lines |-> lines, dryRun |-> dry,
      content |-> Holding({ entries[i] : i \in DOMAIN entries }) ]

File(f, osArch) ==
    [ mode |-> "file", version |-> v, entries |-> <<f>>, osArch |-> osArch, lines |-> None,
      dryRun |-> FALSE, content |-> Holding({f}) ]

Sum(f, sha) == [file |-> f, sha |-> sha]

\* All listed; one not; one listed twice, rightly at last and rightly at first; a
\* line that does not parse; no checksums.txt.
Sums ==
    { <<Sum(mac, new), Sum(winget, new), Sum(source, old)>>, <<Sum(mac, new)>>,
      <<Sum(winget, old), Sum(mac, new), Sum(winget, new)>>,
      <<Sum(winget, new), Sum(mac, new), Sum(winget, old)>>,
      <<Sum(mac, new), Malformed>>, None }

MCRuns ==
    { Dist(<<mac, source, text, winget>>, s, dry) : s \in Sums, dry \in BOOLEAN }
      \cup { Dist(<<source, text>>, None, FALSE), File(mac, <<"linux", "arm64">>) }

GitWin == { Dist(<<gitwin>>, None, FALSE) }
=============================================================================
