------------------------------ MODULE SoundFiles -----------------------------
(***************************************************************************)
(* Sound files of both kinds: those ecasound reads and writes itself, and  *)
(* those it leaves to a library.  They share no state.                     *)
(***************************************************************************)
EXTENDS AudioFile, LibraryFile

FilesSpec == AfSpec /\ LfSpec

(* Sound files hold what was written to them, and are read as they are,    *)
(* by ecasound itself or by a library.                                     *)
FilesSound == FilesExact /\ LibraryExact
=============================================================================
