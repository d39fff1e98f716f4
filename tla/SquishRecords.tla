---------------------------- MODULE SquishRecords ----------------------------
(***************************************************************************)
(* goldlib/gmb3/gmosqsh.h: the records of a Squish .sqd file, one for the  *)
(* base and one in front of each frame, and wide->recycle.  Sizes and      *)
(* offsets are counted in units of which a frame's own header takes        *)
(* FrmSize and the base record BaseSize.                                   *)
(***************************************************************************)
EXTENDS Integers

CONSTANTS FrmSize, BaseSize

ASSUME SizeAssumption == FrmSize \in Nat \ {0} /\ BaseSize \in Nat \ {0}

SQFRAME_NULL == 0

\* wide->recycle.
SQUISHRECYCLE_NO      == 0
SQUISHRECYCLE_YES     == 1
SQUISHRECYCLE_MSGAPI1 == 2
SQUISHRECYCLE_MSGAPI2 == 3
=============================================================================
