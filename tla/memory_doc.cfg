SPECIFICATION Spec
CONSTANTS
    lesson = lesson
    old = old
    rewritten = rewritten
    other = other
    Callers = {m1, m2}
    Worktrees = {}
    Drafts = {lesson, old}
    Id <- IdOf
    Title <- TitleOf
    Active <- ActiveOf
    Limit = 1
    NoOne = NoOne
    NoDraft = NoDraft
SYMMETRY Symmetry

PROPERTIES RejectedIsNotMerged
