SPECIFICATION Spec
CONSTANTS
    mac = mac
    winget = winget
    source = source
    text = text
    gitwin = gitwin
    v = v
    old = old
    new = new
    None = None
    Malformed = Malformed
    Versions = {v}
    OsArches <- MCOsArches
    Files = {mac, winget, source, text, gitwin}
    Digests = {old, new}
    Archives = {mac, winget, source, gitwin}
    OsTokens <- MCOsTokens
    ArchTokens <- MCArchTokens
    Words <- MCWords
    Named <- MCNamed
    ToolWords <- MCToolWords
    Runs <- GitWin
    MaxChanges = 2
INVARIANT ToolNameIgnored
