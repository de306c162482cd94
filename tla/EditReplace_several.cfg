\* Old texts of up to three lines, files of up to four; one word may be indented.
SPECIFICATION Spec
CONSTANTS
    Words = {A, B}
    NoWord = NoWord
    Indented = {A}
    MaxLines = 4
    NotFound = NotFound
    Multiple = Multiple
INVARIANT SeveralFail
CHECK_DEADLOCK FALSE
