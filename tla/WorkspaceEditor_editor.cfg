\* Two files, posts in flight, and a post that fails, early or late, or a reload.
SPECIFICATION FairEditorSpec
CONSTANTS
    py = py
    js = js
    x = x
    y = y
    open = open
    Paths = {py, js}
    Starter <- Starters
    First = py
    Texts <- FewTexts
    OpenLines = {open}
    MaxPatch = 4
    MaxInputs = 4
    MaxLosses = 1
INVARIANTS OriginsTrue RunsShown
PROPERTIES EditorIsLogged
CHECK_DEADLOCK FALSE
