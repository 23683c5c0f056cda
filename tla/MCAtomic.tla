------------------------------ MODULE MCAtomic ------------------------------
(* An instance of AtomicFiles: a file and a directory, two processes.          *)
EXTENDS AtomicFiles

CONSTANTS file, dir, i1, i2, i3, p, q

MCFiles == {file}
MCDirs == {dir}
MCInode == {i1, i2, i3}
MCProc == {p, q}
=============================================================================
