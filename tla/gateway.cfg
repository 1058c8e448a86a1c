\* Nine paths in the vault, five of them Markdown; two changes by the host and
\* one failing system call.
SPECIFICATION Spec
CONSTANTS
    McpPaths = {"/mcp/", "/mcp/x"}
    ApiPaths = {"/api/v1/health", "/api/v1/health/", "/api/v1/search"}
    OtherPaths = {"/mcp", "/mcpx", "/"}
    Order <- MCOrder
    Root = "root"
    Parent <- MCParent
    Above <- MCAbove
    Hidden <- MCHidden
    Markdown <- MCMarkdown
    Renderable <- MCRenderable
    Fold <- MCFold
    MaxNoteBytes = 3
    MaxBlockChars = 3
    MaxLinks = 2
    HostEntries <- MCHostEntries
    MaxDepth = 2
    MaxNodes = 8
    MaxChars = 6
    MaxHostOps = 2
    MaxFaults = 1
    Converted <- Metadata
    Expected <- Whole
    None = None
    Starts <- MCStarts
INVARIANTS AccessLineTellsTheStatus TokenGuardsTheTools ReadIsFaithful LinksAreVerified SummaryFitsTheVault
CHECK_DEADLOCK FALSE
