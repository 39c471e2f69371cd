CONSTANTS
    NPage = 5
    FirstFree = 1
    MaxRequest = 2
    MaxRef = 0
    TopStaysFree = FALSE
SPECIFICATION Spec
INVARIANTS ListedAreFree
