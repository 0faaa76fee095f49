----------------------------- MODULE MCFileJournal -----------------------------
(* Small instances of FileJournal; its .cfg files say how many writers, and   *)
(* where a write may stop.                                                    *)
EXTENDS FileJournal
=============================================================================
