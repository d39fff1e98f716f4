-------------------------------- MODULE Reader --------------------------------
(***************************************************************************)
(* golded3/geread.cpp, gemrks.cpp, gecmfd.cpp and Area of gmarea.cpp: the  *)
(* reader in one area, from opening it to leaving it, with the position it *)
(* keeps (lastread), the marks, the personal mail found by a scan, and the *)
(* deleting and moving of messages.                                        *)
(*                                                                         *)
(* Messages are their numbers, which rise and are not used twice; base is  *)
(* what is in the message base and Msgn what the reader has of it.  Other  *)
(* programs post at any time, and delete while the area is closed.         *)
(* Deleted messages are gone at once (Squish, *.MSG, JAM with              *)
(* JAMHARDDELETE).  Links, twits and the recycle bin are left out.         *)
(***************************************************************************)
EXTENDS ReaderPlace, Integers, FiniteSetsExt

CONSTANTS Personal,      \* the messages addressed to the user
          DispPmFirst,   \* CFG->disppmfirst
          DispAutoNext,  \* CFG->switches.get(dispautonext)
          Posted,        \* the messages there are at first
          MaxMsg         \* bound on the message numbers

ASSUME MessageAssumption == /\ MaxMsg \in Nat /\ Posted \in 0..MaxMsg
                            /\ Personal \subseteq 1..MaxMsg
ASSUME OptionAssumption  == DispPmFirst \in BOOLEAN /\ DispAutoNext \in BOOLEAN

VARIABLES base, last,      \* the message base, and its highest number so far
          saved,           \* the lastread on file, a message number
          received,        \* the personal messages marked as received
          Msgn, PMrk, Mark,
          lastreadentry,   \* a message number, 0 if none
          isreadpm, isreadmark,
          msgno,           \* reader_msg->msgno: the message on screen
          direction,       \* reader_direction
          pc,              \* closed, load, read, or in DelMsgs or CmfMsgs
          job,             \* the marked messages these still have to do
          agreed,          \* what the user has agreed to lose
          passed           \* what the user was shown, or jumped over

stored == <<base, last, saved, received>>
place  == <<lastread, lastreadentry, bookmark, isreadpm, isreadmark, direction>>
vars   == <<stored, Msgn, PMrk, Mark, place, msgno, pc, job, agreed, passed>>

NoJob  == [kind |-> "none", left |-> {}, done |-> 0]
Count  == Cardinality(Msgn)

\* GTag::ToReln and GTag::CvtReln, on the set of numbers of an array.
ToReln(tag, m)  == IF m \in tag THEN Cardinality({k \in tag : k <= m}) ELSE 0
CvtReln(tag, r) == IF \E m \in tag : ToReln(tag, m) = r
                   THEN CHOOSE m \in tag : ToReln(tag, m) = r ELSE 0

Init ==
    /\ base = 1..Posted /\ last = Posted
    /\ saved \in 0..Posted
    /\ passed = 1..saved
    /\ received = {}
    /\ Msgn = {} /\ PMrk = {} /\ Mark = {}
    /\ lastread = 0 /\ lastreadentry = 0 /\ bookmark = 0
    /\ isreadpm = FALSE /\ isreadmark = FALSE
    /\ msgno = 0 /\ direction = "next"
    /\ pc = "closed" /\ job = NoJob /\ agreed = {}
-----------------------------------------------------------------------------
\* Other programs.
Post ==
    /\ last < MaxMsg
    /\ last' = last + 1
    /\ base' = base \cup {last'}
    /\ UNCHANGED <<saved, received, Msgn, PMrk, Mark, place, msgno, pc, job,
                   agreed, passed>>

Purge(m) ==
    /\ pc = "closed" /\ m \in base
    /\ base' = base \ {m}
    /\ UNCHANGED <<last, saved, received, Msgn, PMrk, Mark, place, msgno, pc,
                   job, agreed, passed>>
-----------------------------------------------------------------------------
\* raw_scan: the message of the lastread, or else the one before it; and
\* the first message from the lastread on.
ScanLastread      == Cardinality({m \in base : m <= saved})
ScanLastreadEntry == LET from == {m \in base : m >= saved}
                     IN  IF from = {} THEN 0 ELSE Min(from)

\* The personal mail scan of a closed area: what is new, and not received.
ScanPM ==
    /\ pc = "closed"
    /\ Msgn' = base
    /\ PMrk' = {m \in base \cap Personal : m > saved /\ m \notin received}
    /\ lastread' = ScanLastread
    /\ lastreadentry' = ScanLastreadEntry
    /\ UNCHANGED <<stored, Mark, bookmark, isreadpm, isreadmark, msgno,
                   direction, pc, job, agreed, passed>>

\* NextMarkedmsg: the next of the tags from message m, or the last one where
\* there is none; found unless m is the last of the tags itself.
NextMarked(tag, m, dir) ==
    LET beyond == {t \in tag : IF dir = "next" THEN t > m ELSE t < m}
        end    == IF dir = "next" THEN Max(tag) ELSE Min(tag)
        to     == CASE beyond = {} -> end
                    [] beyond # {} /\ dir = "next" -> Min(beyond)
                    [] OTHER -> Max(beyond)
    IN  IF tag = {} THEN [to |-> 0, found |-> FALSE] ELSE [to |-> to, found |-> m # end]

\* Opening an area: the first personal message, if there is any and the user
\* wants it first, or else the message after the lastread.
Open ==
    /\ pc = "closed"
    /\ Msgn' = base
    /\ lastreadentry' = ScanLastreadEntry
    /\ direction' = "next"
    /\ isreadmark' = FALSE
    /\ IF DispPmFirst /\ PMrk # {}
       THEN /\ isreadpm' = TRUE
            /\ bookmark' = CvtReln(base, ScanLastread)
            /\ lastread' = ToReln(base, NextMarked(PMrk, 0, "next").to)
       ELSE /\ isreadpm' = FALSE
            /\ lastread' = IF (DispAutoNext \/ ScanLastread = 0)
                              /\ ScanLastread < Cardinality(base)
                           THEN ScanLastread + 1 ELSE ScanLastread
            /\ bookmark' = CvtReln(base, lastread')
    /\ pc' = "load"
    /\ UNCHANGED <<stored, PMrk, Mark, msgno, job, agreed, passed>>

\* Mutant: a position before the first message is left as it is.
LoadMessage_NoFirst ==
    /\ pc = "load"
    /\ msgno' = CvtReln(Msgn, lastread)
    /\ lastread' = ToReln(Msgn, msgno')
    /\ received' = received \cup ({msgno'} \cap Personal)
    /\ passed' = passed \cup ({msgno'} \cap Msgn)
    /\ agreed' = {}
    /\ pc' = "read"
    /\ UNCHANGED <<base, last, saved, Msgn, PMrk, Mark, lastreadentry, bookmark,
                   isreadpm, isreadmark, direction, job>>

\* The main loop puts the message at lastread on screen, and marks it as
\* received.
LoadMessage ==
    /\ pc = "load"
    /\ msgno' = CvtReln(Msgn, IF Msgn # {} /\ lastread = 0 THEN 1 ELSE lastread)
    /\ lastread' = ToReln(Msgn, msgno')
    /\ received' = received \cup ({msgno'} \cap Personal)
    /\ passed' = passed \cup ({msgno'} \cap Msgn)
    /\ agreed' = {}
    /\ pc' = "read"
    /\ UNCHANGED <<base, last, saved, Msgn, PMrk, Mark, lastreadentry, bookmark,
                   isreadpm, isreadmark, direction, job>>
-----------------------------------------------------------------------------
\* Going somewhere on purpose passes over the messages before it, but not in
\* personal mail, from which one comes back.
JumpedOver(reln) == IF isreadpm THEN {} ELSE {m \in Msgn : ToReln(Msgn, m) <= reln}

GoTo(reln) ==
    /\ lastread' = reln
    /\ pc' = "load"

\* Area::Close, and save_lastread in the message base.
Closing(reln) ==
    LET at == IF isreadpm THEN ToReln(Msgn, lastreadentry) ELSE reln
    IN  /\ saved' = CvtReln(Msgn, at)
        /\ lastread' = at
        /\ isreadpm' = FALSE /\ isreadmark' = FALSE
        /\ PMrk' = {}
        /\ msgno' = 0
        /\ pc' = "closed"

\* Mutant: in personal mail the lastread is not put back.
Close_WhereItIs ==
    /\ pc = "read"
    /\ saved' = CvtReln(Msgn, lastread)
    /\ isreadpm' = FALSE /\ isreadmark' = FALSE
    /\ PMrk' = {}
    /\ msgno' = 0
    /\ pc' = "closed"
    /\ UNCHANGED <<base, last, received, Msgn, Mark, lastread, lastreadentry,
                   bookmark, direction, job, agreed, passed>>

Close ==
    /\ pc = "read"
    /\ Closing(lastread)
    /\ UNCHANGED <<base, last, received, Msgn, Mark, lastreadentry, bookmark,
                   direction, job, agreed, passed>>

\* Mutant: goes on by one position more.
next_msg_Twice(dir) ==
    IF dir = "next" THEN IF lastread + 1 < Count THEN lastread + 2 ELSE 0
                    ELSE IF 1 < lastread THEN lastread - 1 ELSE 0

\* next_msg: the position to go on to, or 0.
next_msg(dir) ==
    IF dir = "next" THEN IF lastread < Count THEN lastread + 1 ELSE 0
                    ELSE IF 1 < lastread THEN lastread - 1 ELSE 0

\* GotoNextMsg and GotoPrevMsg, GoNextMsg: through the marks, the personal mail
\* or all messages ...
GoNextMsg(dir) ==
    LET tag == IF isreadpm THEN PMrk ELSE Mark
    IN  /\ pc = "read"
        /\ direction' = dir
        /\ IF isreadpm \/ isreadmark
           THEN /\ NextMarked(tag, msgno, dir).found
                /\ GoTo(ToReln(Msgn, NextMarked(tag, msgno, dir).to))
                /\ passed' = passed \cup JumpedOver(lastread')
           ELSE /\ next_msg(dir) # 0
                /\ GoTo(next_msg(dir))
                /\ UNCHANGED passed
        /\ UNCHANGED <<stored, Msgn, PMrk, Mark, lastreadentry, bookmark,
                       isreadpm, isreadmark, msgno, job, agreed>>

\* ... and from the last of them to another area, if the user wants to.  Back
\* from the first message, nothing is left read.
GoNextArea(dir) ==
    LET tag    == IF isreadpm THEN PMrk ELSE Mark
        marked == isreadpm \/ isreadmark
    IN  /\ pc = "read"
        /\ direction' = dir
        /\ marked  => ~NextMarked(tag, msgno, dir).found
        /\ ~marked => next_msg(dir) = 0
        /\ Closing(CASE marked /\ tag # {} ->
                          ToReln(Msgn, NextMarked(tag, msgno, dir).to)
                     [] ~marked /\ dir = "prev" /\ ToReln(Msgn, msgno) = 1 -> 0
                     [] OTHER -> lastread)
        /\ UNCHANGED <<base, last, received, Msgn, Mark, lastreadentry,
                       bookmark, job, agreed, passed>>

\* If not, it stays where it is, but for the direction.
StayHere(dir) ==
    LET tag    == IF isreadpm THEN PMrk ELSE Mark
        marked == isreadpm \/ isreadmark
    IN  /\ pc = "read"
        /\ marked  => ~NextMarked(tag, msgno, dir).found
        /\ ~marked => next_msg(dir) = 0
        /\ direction' = dir
        /\ UNCHANGED <<stored, Msgn, PMrk, Mark, lastread, lastreadentry, bookmark,
                       isreadpm, isreadmark, msgno, pc, job, agreed, passed>>

\* GotoFirstMsg and GotoLastMsg.  With no tags left, they take the number
\* from memory that is not theirs.  GotoFirstMsg looks the first personal
\* message up in PMrk itself, where it comes first.
GotoEnd(dir) ==
    LET tag == IF isreadpm THEN PMrk ELSE Mark
        end == IF dir = "next" THEN Min(tag) ELSE Max(tag)
    IN  /\ pc = "read"
        /\ direction' = dir
        /\ \/ /\ ~isreadpm /\ ~isreadmark
              /\ GoTo(IF dir = "prev" THEN Count ELSE IF Msgn = {} THEN 0 ELSE 1)
           \/ /\ isreadpm \/ isreadmark
              /\ tag = {}
              /\ \E reln \in 0..Count : GoTo(reln)
           \/ /\ isreadpm \/ isreadmark
              /\ tag # {}
              /\ GoTo(IF isreadpm /\ dir = "next" THEN 1 ELSE ToReln(Msgn, end))
        /\ passed' = passed \cup JumpedOver(lastread')
        /\ UNCHANGED <<stored, Msgn, PMrk, Mark, lastreadentry, bookmark,
                       isreadpm, isreadmark, msgno, job, agreed>>

\* By number, from a list, or along a link.
GotoMsgno(reln) ==
    /\ pc = "read" /\ reln \in 1..Count
    /\ GoTo(reln)
    /\ passed' = passed \cup JumpedOver(reln)
    /\ UNCHANGED <<stored, Msgn, PMrk, Mark, lastreadentry, bookmark, isreadpm,
                   isreadmark, msgno, direction, job, agreed>>

GotoBookMark ==
    /\ pc = "read" /\ bookmark # 0
    /\ GoTo(ToReln(Msgn, bookmark))
    /\ bookmark' = msgno
    /\ passed' = passed \cup JumpedOver(lastread')
    /\ UNCHANGED <<stored, Msgn, PMrk, Mark, lastreadentry, isreadpm,
                   isreadmark, msgno, direction, job, agreed>>

\* ToggleMarkRead: whoever stops reading personal mail stays where it is.
ToggleMarkRead ==
    LET tag == IF PMrk # {} THEN PMrk ELSE Mark
        on  == IF PMrk # {} THEN ~isreadpm ELSE Mark # {} /\ ~isreadmark
    IN  /\ pc = "read"
        /\ PMrk # {} \/ Mark # {} \/ isreadmark
        /\ isreadpm'   = IF PMrk # {} THEN on ELSE isreadpm
        /\ isreadmark' = IF PMrk # {} THEN isreadmark ELSE on
        /\ GoTo(IF on /\ msgno \notin tag /\ (isreadpm' => PMrk # {})
                THEN ToReln(Msgn, NextMarked(tag, msgno, direction).to)
                ELSE lastread)
        /\ passed' = IF isreadpm' THEN passed
                     ELSE passed \cup {m \in Msgn : ToReln(Msgn, m) <= lastread'}
        /\ UNCHANGED <<stored, Msgn, PMrk, Mark, lastreadentry, bookmark, msgno,
                       direction, job, agreed>>

ToggleMark ==
    /\ pc = "read" /\ msgno # 0
    /\ Mark' = IF msgno \in Mark THEN Mark \ {msgno} ELSE Mark \cup {msgno}
    /\ UNCHANGED <<stored, Msgn, PMrk, place, msgno, pc, job, agreed, passed>>
-----------------------------------------------------------------------------
\* Mutants: the position is not looked up again; the message stays listed.
DeleteMsg_KeepsPosition(m, dir) ==
    /\ base' = base \ {m}
    /\ Msgn' = Msgn \ {m}
    /\ lastread' = IF lastread > Cardinality(Msgn') THEN Cardinality(Msgn')
                   ELSE lastread

DeleteMsg_StaysListed(m, dir) ==
    /\ base' = base \ {m}
    /\ UNCHANGED <<Msgn, lastread>>

\* Area::DeleteMsg: if the lastread is at the message, it moves to the next
\* one, or the previous one, first; its position is looked up again after.
DeleteMsg(m, dir) ==
    LET to == CASE dir = "next" /\ lastread < Count -> lastread + 1
                [] dir = "prev" /\ lastread > 1     -> lastread - 1
                [] dir = "next" /\ lastread = Count -> lastread - 1
                [] dir = "prev" /\ lastread <= 1    ->
                       IF lastread < Count THEN lastread + 1 ELSE 0
        lread == CvtReln(Msgn, IF CvtReln(Msgn, lastread) = m THEN to ELSE lastread)
    IN  /\ base' = base \ {m}
        /\ Msgn' = Msgn \ {m}
        /\ lastread' = ToReln(Msgn', lread)

\* DelMsgs, or CmfMsgs for moving, on the message on screen.  DelMsgs takes it
\* out of the marks first; if others are marked, the question what to delete
\* has been asked already.
DoCurrent(kind) ==
    /\ pc = "read" /\ Msgn # {}
    /\ agreed' = {msgno}
    /\ DeleteMsg(msgno, IF kind = "delete" THEN direction ELSE "prev")
    /\ IF kind = "delete"
       THEN Mark' = Mark \ {msgno} /\ PMrk' = PMrk \ {msgno}
       ELSE PMrk' = PMrk \ {CvtReln(Msgn', lastread')} /\ UNCHANGED Mark
    /\ pc' = "load"
    /\ UNCHANGED <<last, saved, received, lastreadentry, bookmark, isreadpm,
                   isreadmark, direction, msgno, job, passed>>

\* Asked, the user does not want it deleted after all.
DoNotDelete ==
    /\ pc = "read" /\ Mark \ {msgno} = {}
    /\ Mark' = Mark \ {msgno} /\ PMrk' = PMrk \ {msgno}
    /\ pc' = "load"
    /\ UNCHANGED <<stored, Msgn, place, msgno, job, agreed, passed>>

\* On the marked messages, one after the other.
DoMarked(kind) ==
    /\ pc = "read" /\ Msgn # {} /\ Mark # {}
    /\ agreed' = Mark
    /\ job' = [kind |-> kind, left |-> Mark, done |-> 0]
    /\ pc' = "job"
    /\ UNCHANGED <<stored, Msgn, PMrk, Mark, place, msgno, passed>>

\* The next one is passed over if it is not there any more, or if the user,
\* asked about it, wants it kept.
JobKeep ==
    /\ pc = "job" /\ job.left # {}
    /\ LET m == Min(job.left)
       IN  /\ job' = [job EXCEPT !.left = @ \ {m}, !.done = @ + 1]
           /\ msgno' = IF m \in Msgn THEN m ELSE msgno
           /\ agreed' = agreed \ {m}
    /\ UNCHANGED <<stored, Msgn, PMrk, Mark, place, pc, passed>>

\* Deleted, its number in reader_msg is that of the lastread.
JobDelete ==
    /\ pc = "job" /\ job.left # {}
    /\ LET m == Min(job.left)
       IN  /\ m \in Msgn
           /\ DeleteMsg(m, IF job.kind = "delete" THEN direction ELSE "prev")
           /\ job' = [job EXCEPT !.left = @ \ {m}, !.done = @ + 1]
    /\ msgno' = CvtReln(Msgn', lastread')
    /\ PMrk' = PMrk \ {msgno'}
    /\ UNCHANGED <<last, saved, received, Mark, lastreadentry, bookmark,
                   isreadpm, isreadmark, direction, pc, agreed, passed>>

JobDone ==
    /\ pc = "job" /\ job.left = {}
    /\ Mark' = {}
    /\ isreadmark' = IF job.kind = "delete" THEN FALSE ELSE isreadmark
    /\ job' = NoJob
    /\ pc' = "load"
    /\ UNCHANGED <<stored, Msgn, PMrk, lastread, lastreadentry, bookmark,
                   isreadpm, direction, msgno, agreed, passed>>

\* The user presses Esc.  Moving forgets the marks all the same.
JobEscape ==
    /\ pc = "job" /\ job.left # {}
    /\ job.kind = "move" \/ job.done > 0
    /\ Mark' = IF job.kind = "move" THEN {} ELSE Mark
    /\ job' = NoJob
    /\ agreed' = {}
    /\ pc' = "load"
    /\ UNCHANGED <<stored, Msgn, PMrk, place, msgno, passed>>

\* Before the first message is deleted, n is still 0, and DelMsgs goes on as
\* if the message on screen was to be deleted, asking if none is marked.
JobEscapeFirst ==
    /\ pc = "job" /\ job.kind = "delete" /\ job.done = 0
    /\ Mark' = Mark \ {msgno} /\ PMrk' = PMrk \ {msgno}
    /\ \/ /\ agreed' = IF Mark' = {} THEN {msgno} ELSE {}
          /\ DeleteMsg(msgno, direction)
       \/ /\ Mark' = {}
          /\ UNCHANGED <<base, Msgn, lastread, agreed>>
    /\ job' = NoJob
    /\ pc' = "load"
    /\ UNCHANGED <<last, saved, received, lastreadentry, bookmark, isreadpm,
                   isreadmark, direction, msgno, passed>>

Next ==
    \/ Post \/ \E m \in base : Purge(m)
    \/ ScanPM \/ Open \/ LoadMessage \/ Close
    \/ \E dir \in {"next", "prev"} :
          GoNextMsg(dir) \/ GoNextArea(dir) \/ StayHere(dir) \/ GotoEnd(dir)
    \/ \E reln \in 1..Count : GotoMsgno(reln)
    \/ GotoBookMark \/ ToggleMarkRead \/ ToggleMark
    \/ \E kind \in {"delete", "move"} : DoCurrent(kind) \/ DoMarked(kind)
    \/ DoNotDelete \/ JobKeep \/ JobDelete \/ JobDone \/ JobEscape
    \/ JobEscapeFirst

Spec == Init /\ [][Next]_vars
-----------------------------------------------------------------------------
\* What the reader lists is in the base, and its position is in the list.
TypeOK ==
    /\ last \in 0..MaxMsg /\ base \subseteq 1..last /\ saved \in 0..last
    /\ received \subseteq Personal /\ passed \subseteq 1..last
    /\ Mark \subseteq 1..last /\ PMrk \subseteq Personal
    /\ pc \in {"closed", "load", "read", "job"}
    /\ pc # "closed" => Msgn \subseteq base
    /\ lastread \in 0..MaxMsg /\ lastreadentry \in 0..last
    /\ bookmark \in 0..last /\ msgno \in 0..last
    /\ isreadpm \in BOOLEAN /\ isreadmark \in BOOLEAN
    /\ direction \in {"next", "prev"}
    /\ job \in [kind : {"none", "delete", "move"}, left : SUBSET Mark, done : 0..MaxMsg]
    /\ agreed \subseteq 1..last

\* The message on screen, which a command is about, is the one at lastread,
\* which is saved when the area is left; there is none only in an empty area.
At == CvtReln(Msgn, lastread)
OnScreen ==
    pc = "read" => /\ msgno = At
                   /\ msgno = 0 => Msgn = {}

\* Deleting or moving messages, marked ones in bulk too, leaves the reader at
\* the message it was at, or at a neighbour of it if that one went.
PlaceKept ==
    [][pc # "closed" /\ Msgn' # Msgn =>
        \/ At' = At
        \/ /\ At \notin Msgn'
           /\ \A m \in Msgn' : (m > At' => m > At) /\ (m < At' => m < At)]_vars

\* No message is left behind as read that the user has neither seen nor jumped
\* over: not by deleting on the way, not by what others post and delete.
NothingSkipped ==
    [][pc # "closed" /\ ~isreadpm =>
        \A m \in base : saved < m /\ m <= saved' => m \in passed]_vars

\* "GoldED remembers the original lastread and sets it back where it was"
\* (manuals/gold_usr.txt) after personal mail, as long as the message of the
\* original lastread is there.
PmRestored ==
    [][pc = "read" /\ pc' = "closed" /\ isreadpm /\ saved \in base =>
        saved' = saved]_vars

\* "READdeletemsg  Delete current/marked message(s). Ask first."
\* (manuals/gold_ref.txt): the reader deletes nothing the user has not agreed
\* to lose.
AskedFirst == [][pc # "closed" => base \ base' \subseteq agreed']_vars
=============================================================================
