CONSTANTS
    file = file
    dir = dir
    i1 = i1
    i2 = i2
    i3 = i3
    p = p
    q = q
    Torn = Torn
    Files <- MCFiles
    Dirs <- MCDirs
    Inode <- MCInode
    Proc <- MCProc
    SyncFails = FALSE
SPECIFICATION Spec
INVARIANT AlwaysWhole WriterSafe DoneIsKept
PROPERTY FileIsAtomic DirIsAtomic
