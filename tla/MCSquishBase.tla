---------------------------- MODULE MCSquishBase ----------------------------
EXTENDS SquishBase, TLC

CONSTANTS golded, other

One     == {golded}
Two     == {golded, other}
AllRecycles == {SQUISHRECYCLE_NO, SQUISHRECYCLE_YES, SQUISHRECYCLE_MSGAPI1,
                SQUISHRECYCLE_MSGAPI2}

=============================================================================
