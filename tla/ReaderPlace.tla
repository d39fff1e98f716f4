----------------------------- MODULE ReaderPlace -----------------------------
(***************************************************************************)
(* Where the reader is in an area, which moving in it (Reader) and marking *)
(* in it (Marks) have in common: AA->lastread() and AA->bookmark.          *)
(***************************************************************************)

VARIABLES lastread,    \* position of the message on screen in AA->Msgn
          bookmark     \* a message number, 0 if none
=============================================================================
