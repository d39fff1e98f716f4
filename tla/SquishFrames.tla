---------------------------- MODULE SquishFrames ----------------------------
(***************************************************************************)
(* goldlib/gmb3/gmosqsh4.cpp: the frames of a Squish .sqd file.  The file  *)
(* is a base record and then frames, one after the other up to endframe.   *)
(* A frame holds a message or is free; the frames of the messages are      *)
(* chained by next and prev in the order of their numbers, and so are, in  *)
(* any order, the free ones.                                               *)
(*                                                                         *)
(* The operators work on a view of the base: the frames on file and one    *)
(* program's copies of the rest.                                           *)
(*                                                                         *)
(*   frm    offset -> frame: what a read of a frame at that offset finds;  *)
(*   base   the program's copy of the base record;                         *)
(*   idx    its copy of the index, one [offset, msgno] per message;        *)
(*   msgn   Area::Msgn, the message numbers as last scanned.               *)
(*                                                                         *)
(* The code's relative numbers count from 0 here from 1.  The hash in the  *)
(* index and the highwater mark are left out.                              *)
(***************************************************************************)
EXTENDS SquishRecords, Sequences, SequencesExt

\* A message: its number, and the program that posted it.
NoMsg == [msgno |-> 0, by |-> "nobody"]

\* init_frm.  hdr and txt are the messages whose header and whose text are
\* stored in the frame.
init_frm == [type |-> "normal", next |-> SQFRAME_NULL, prev |-> SQFRAME_NULL,
             length |-> 0, totsize |-> 0, hdr |-> NoMsg, txt |-> NoMsg]

\* A read where no frame begins finds some other bytes; what is done to such
\* a frame is not followed up.
read_frm(frm, at) == IF at \in DOMAIN frm THEN frm[at] ELSE init_frm

\* write_frm writes a frame's own header only; writing a message into the
\* frame also wipes out any old frame that began under its text.
write_frm(frm, at, fr) ==
    [o \in DOMAIN frm \cup {at} |-> IF o = at THEN fr ELSE frm[o]]

WriteMessage(frm, at, fr) ==
    LET under == (at + 1)..(at + FrmSize + fr.totsize - 1)
    IN  [o \in (DOMAIN frm \cup {at}) \ under |-> IF o = at THEN fr ELSE frm[o]]

upd_frm_next(frm, at, next) ==
    IF at = SQFRAME_NULL THEN frm ELSE [frm EXCEPT ![at].next = next]

upd_frm_prev(frm, at, prev) ==
    IF at = SQFRAME_NULL THEN frm ELSE [frm EXCEPT ![at].prev = prev]

-----------------------------------------------------------------------------
\* The frame fr at offset at becomes the last of the free ones.
add_to_free_chain(v, at, fr) ==
    LET last  == v.base.lastfreeframe
        empty == v.base.firstfreeframe = SQFRAME_NULL \/ last = SQFRAME_NULL
        frm   == IF empty THEN v.frm ELSE upd_frm_next(v.frm, last, at)
    IN  [v EXCEPT
            !.base.firstfreeframe = IF empty THEN at ELSE @,
            !.base.lastfreeframe  = at,
            !.frm = write_frm(frm, at, [fr EXCEPT
                        !.type = "free", !.next = SQFRAME_NULL,
                        !.prev = IF empty THEN SQFRAME_NULL ELSE last])]

\* Mutant: lastframe goes on naming a frame that was deleted.
Unchain_KeepsLast(v, at) ==
    LET del == read_frm(v.frm, at)
    IN  add_to_free_chain(
            [v EXCEPT
               !.frm = upd_frm_prev(upd_frm_next(@, del.prev, del.next),
                                    del.next, del.prev),
               !.base.firstframe = IF @ = at THEN del.next ELSE @],
            at, del)

\* delete_msg: the frames before and after the one at offset `at' are chained
\* together, and it becomes a free one.
Unchain(v, at) ==
    LET del == read_frm(v.frm, at)
    IN  add_to_free_chain(
            [v EXCEPT
               !.frm = upd_frm_prev(upd_frm_next(@, del.prev, del.next),
                                    del.next, del.prev),
               !.base.firstframe = IF @ = at THEN del.next ELSE @,
               !.base.lastframe  = IF @ = at THEN del.prev ELSE @],
            at, del)

\* Mutant: totalmsgs goes on counting the message.
delete_msg_KeepsCount(v, reln) ==
    [Unchain(v, v.idx[reln].offset) EXCEPT
        !.msgn = IF reln \in DOMAIN @ THEN RemoveAt(@, reln) ELSE @,
        !.idx = RemoveAt(@, reln)]

\* Then the message leaves Msgn, the index and the counts.
delete_msg(v, reln) ==
    [Unchain(v, v.idx[reln].offset) EXCEPT
        !.msgn = IF reln \in DOMAIN @ THEN RemoveAt(@, reln) ELSE @,
        !.idx = RemoveAt(@, reln),
        !.base.highestmsg = @ - 1,
        !.base.totalmsgs  = @ - 1]

-----------------------------------------------------------------------------
\* Looking for room for a message of size totsize.  A span is a frame and as
\* many of the frames after it as were merged into it, last being the offset
\* of the last of them; a frame is merged that lies behind the span and is
\* the next in the free chain as well, until there is room.
Span(frm, at, totsize, merging) ==
    LET grow[s \in [at : Nat, length : Nat, next : Nat, last : Nat]] ==
            IF /\ merging
               /\ s.length < totsize
               /\ s.next = s.at + s.length + FrmSize
            THEN grow[[at     |-> s.at,
                       length |-> s.length + read_frm(frm, s.next).length + FrmSize,
                       next   |-> read_frm(frm, s.next).next,
                       last   |-> s.next]]
            ELSE s
        fr == read_frm(frm, at)
    IN  grow[[at |-> at, length |-> fr.length, next |-> fr.next, last |-> at]]

\* The first span of the free chain with room; at the end of the chain, none.
FindSpan(frm, first, totsize, merging) ==
    LET try[at \in Nat] ==
            LET s == Span(frm, at, totsize, merging)
            IN  IF at = SQFRAME_NULL
                THEN [at |-> SQFRAME_NULL, length |-> 0,
                      next |-> SQFRAME_NULL, last |-> SQFRAME_NULL]
                ELSE IF s.length >= totsize THEN s ELSE try[s.next]
    IN  try[first]

\* excess_frm: what is left of a span beyond totsize becomes a free frame of
\* its own, if it can hold a frame's header at least.
excess_frm(v, s, totsize) ==
    LET excess == s.length - totsize
        at     == s.at + totsize + FrmSize
        fr     == [init_frm EXCEPT !.type = "free", !.next = s.next,
                                   !.prev = s.at, !.length = excess - FrmSize]
    IN  IF excess < FrmSize
        THEN [v |-> v, s |-> s]
        ELSE [v |-> [v EXCEPT
                       !.base.lastfreeframe = IF @ = s.last THEN at ELSE @,
                       !.frm = upd_frm_prev(write_frm(@, at, fr), s.next, at)],
              s |-> [s EXCEPT !.next = at, !.length = totsize]]

\* The frame at the start of a span leaves the free chain: the view after it,
\* and the frame and its offset.  last is the last of the frames merged.
TakeSpan(v, s, last, fr) ==
    [v  |-> [v EXCEPT
               !.base.firstfreeframe = IF @ = s.at THEN fr.next ELSE @,
               !.base.lastfreeframe  = IF @ \in {s.at, last} THEN fr.prev ELSE @,
               !.frm = upd_frm_prev(upd_frm_next(@, fr.prev, fr.next),
                                    fr.next, fr.prev)],
     at |-> s.at,
     fr |-> fr]

SplitAndTake(x, last) ==
    TakeSpan(x.v, x.s, last, [read_frm(x.v.frm, x.s.at) EXCEPT
                                 !.next = x.s.next, !.length = x.s.length])

\* The frame a message is written to: the first span with room, or a new
\* frame at endframe.
TakeFound(v, s, totsize, recycle) ==
    IF s.at = SQFRAME_NULL
    THEN [v |-> v, at |-> v.base.endframe, fr |-> init_frm]
    ELSE SplitAndTake(IF recycle = SQUISHRECYCLE_YES
                      THEN excess_frm(v, s, totsize) ELSE [v |-> v, s |-> s],
                      s.last)

\* Mutant: free frames are not used again.
TakeFrame_AtEnd(v, totsize, recycle) ==
    [v |-> v, at |-> v.base.endframe, fr |-> init_frm]

TakeFrame(v, totsize, recycle) ==
    TakeFound(v, FindSpan(v.frm, v.base.firstfreeframe, totsize,
                     recycle \in {SQUISHRECYCLE_YES, SQUISHRECYCLE_MSGAPI1}),
              totsize, recycle)

\* Mutant: room for the message, but not for its frame's header.
Lengthen_MessageOnly(base, at, totsize) ==
    [base EXCEPT !.endframe = IF at = @ THEN @ + totsize ELSE @]

\* A frame at endframe gets its length from the message, and the file grows.
Lengthen(base, at, totsize) ==
    [base EXCEPT !.endframe = IF at = @ THEN @ + FrmSize + totsize ELSE @]

FrameFor(base, at, fr, totsize, msg) ==
    [fr EXCEPT !.length  = IF at = base.endframe THEN totsize ELSE @,
               !.totsize = totsize, !.type = "normal",
               !.hdr = msg, !.txt = msg]

\* save_message of a new message, in the frame fr at offset `at': it is linked
\* behind the last one, and the message gets the number nextmsgno and the last
\* entry of the index and of Msgn.
SaveNew(v, at, fr, msg, totsize) ==
    [v EXCEPT
        !.frm  = WriteMessage(upd_frm_next(@, v.base.lastframe, at), at,
                     [FrameFor(v.base, at, fr, totsize, msg) EXCEPT
                         !.prev = v.base.lastframe, !.next = SQFRAME_NULL]),
        !.base = [Lengthen(v.base, at, totsize) EXCEPT
                     !.firstframe = IF @ = SQFRAME_NULL THEN at ELSE @,
                     !.lastframe  = at,
                     !.highestmsg = @ + 1,
                     !.totalmsgs  = @ + 1,
                     !.nextmsgno  = @ + 1],
        !.idx  = Append(@, [offset |-> at, msgno |-> msg.msgno]),
        !.msgn = Append(@, msg.msgno)]

SetEntry(idx, reln, at, msgno) ==
    IF reln \in DOMAIN idx
    THEN [idx EXCEPT ![reln] = [offset |-> at, msgno |-> msgno]] ELSE idx

\* A rewritten message that still fits stays in its frame ...
SaveInPlace(v, reln, at, msg, totsize) ==
    [v EXCEPT
        !.frm = WriteMessage(@, at, [read_frm(@, at) EXCEPT
                    !.totsize = totsize, !.type = "normal",
                    !.hdr = msg, !.txt = msg]),
        !.idx = SetEntry(@, reln, at, msg.msgno)]

\* ... else it moves to the frame fr at offset `at', in the place that its old
\* frame, oldfr at offset old, had in the chain; the old one becomes free.
SaveMoved(v, reln, old, oldfr, at, fr, msg, totsize) ==
    LET freed == add_to_free_chain(v, old, oldfr)
    IN  [freed EXCEPT
            !.frm  = WriteMessage(
                         upd_frm_prev(upd_frm_next(@, oldfr.prev, at), oldfr.next, at),
                         at,
                         [FrameFor(v.base, at, fr, totsize, msg) EXCEPT
                             !.prev = oldfr.prev, !.next = oldfr.next]),
            !.base = [Lengthen(freed.base, at, totsize) EXCEPT
                         !.firstframe = IF @ = old THEN at ELSE @,
                         !.lastframe  = IF @ = old THEN at ELSE @],
            !.idx  = SetEntry(@, reln, at, msg.msgno)]

\* Saving a header alone overwrites the one in the frame.
SaveHeader(v, at, msg) == [v EXCEPT !.frm[at].hdr = msg]
=============================================================================
