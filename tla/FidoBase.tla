------------------------------ MODULE FidoBase ------------------------------
(***************************************************************************)
(* goldlib/gmb3/gmofido*.cpp: an area of *.MSG files, one message to a     *)
(* file named after its number, with a file of lastread pointers, one for  *)
(* each user; and, of golded3, Area::DeleteMsg (gecmfd.cpp) and the part   *)
(* of MakeMsg (gepost.cpp) that links a reply to its original.  Nothing is *)
(* locked: lock and unlock are empty.                                      *)
(*                                                                         *)
(* A program knows the numbers it found when it opened the area, and makes *)
(* up the number of a new message from them.  Reading or writing a header, *)
(* looking for a free number, creating and removing a file are steps of    *)
(* their own.  Texts, attributes and the highwater mark (the replyto field *)
(* of 1.MSG in echo areas) are left out.                                   *)
(***************************************************************************)
EXTENDS Listing, SequencesExt

CONSTANTS Users,       \* who has a lastread pointer in the area
          Running,     \* those who run a program that may open it
          Calls,       \* the calls the programs make
          IsNet,       \* whether it is a netmail area
          FirstNos,    \* the messages there are at first
          MaxMsgno,    \* bound on the message numbers
          MaxPosts     \* bound on the messages posted

Modes == {"post", "reply", "hdr", "del", "renumber", "suspend"}
ASSUME UserAssumption    == Running \subseteq Users /\ Calls \subseteq Modes
ASSUME OptionAssumption  == IsNet \in BOOLEAN
ASSUME NumberAssumption  == /\ MaxMsgno \in Nat /\ MaxPosts \in Nat
                            /\ FirstNos \subseteq 1..MaxMsgno

VARIABLES dir,         \* dir[n] is the file n.MSG, or NoFile
          lastreads,   \* the lastread file: a message number for each user
          Msgn,        \* the numbers a program has, in order
          lastread,    \* the position it is at, 0 before the first
          msg,         \* the message it has loaded
          pc, op,      \* where it is in a call, and the call's locals
          answers,     \* of each message ever posted, the one it answers
          unread,      \* the messages a user has not been at or past
          renumbered   \* the area has been renumbered

history == <<answers, unread, renumbered>>
vars    == <<dir, lastreads, Msgn, lastread, msg, pc, op, history>>

\* A message: which one it is, and its header's replyto and reply1st.
Message(id, to, first) == [id |-> id, to |-> to, first |-> first]
NoFile == Message(0, 0, 0)
NoMsg  == [no |-> 0, hdr |-> NoFile]
NoOp   == [no |-> 0, to |-> 0, down |-> NoMsg, up |-> NoMsg, lread |-> 0,
           lr |-> [u \in Users |-> 0]]

Files == {n \in DOMAIN dir : dir[n] # NoFile}

\* GTag::CvtReln and ToReln, on an ascending list.
CvtReln(list, r) == IF r \in DOMAIN list THEN list[r] ELSE 0
ToReln(list, n)  == IF \E i \in DOMAIN list : list[i] = n
                    THEN CHOOSE i \in DOMAIN list : list[i] = n ELSE 0

\* The identity of the n-th of the messages there are at first.
First(n) == Cardinality({m \in FirstNos : m <= n})

Init ==
    /\ dir = [n \in 1..MaxMsgno |-> IF n \in FirstNos THEN Message(First(n), 0, 0)
                                                     ELSE NoFile]
    /\ lastreads \in [Users -> {0} \cup FirstNos]
    /\ Msgn = [u \in Running |-> <<>>]
    /\ lastread = [u \in Running |-> 0]
    /\ msg = [u \in Running |-> NoMsg]
    /\ pc = [u \in Users |-> "closed"]
    /\ op = [u \in Running |-> NoOp]
    /\ answers = [i \in 1..Cardinality(FirstNos) |-> 0]
    /\ unread = [u \in Users |-> {First(n) : n \in {m \in FirstNos : m > lastreads[u]}}]
    /\ renumbered = FALSE

-----------------------------------------------------------------------------
\* raw_scan: the messages up to the lastread number, present or not.
ScanLastread(numbers, lr) == Cardinality({n \in numbers : n <= lr})

Scan(u, lr) ==
    /\ Msgn' = [Msgn EXCEPT ![u] = InOrder(Files)]
    /\ lastread' = [lastread EXCEPT ![u] = ScanLastread(Files, lr)]

Open(u) ==
    /\ pc[u] = "closed"
    /\ Scan(u, lastreads[u])
    /\ pc' = [pc EXCEPT ![u] = "idle"]
    /\ UNCHANGED <<dir, lastreads, msg, op, history>>

SaveLastread(u) == lastreads' = [lastreads EXCEPT ![u] = CvtReln(Msgn[u], lastread[u])]

Close(u) ==
    /\ pc[u] = "idle"
    /\ SaveLastread(u)
    /\ Msgn' = [Msgn EXCEPT ![u] = <<>>]
    /\ lastread' = [lastread EXCEPT ![u] = 0]
    /\ msg' = [msg EXCEPT ![u] = NoMsg]
    /\ pc' = [pc EXCEPT ![u] = "closed"]
    /\ UNCHANGED <<dir, op, history>>

Suspend(u) ==
    /\ pc[u] = "idle" /\ "suspend" \in Calls
    /\ SaveLastread(u)
    /\ UNCHANGED <<dir, Msgn, lastread, msg, pc, op, history>>

\* The user has been at a position of the list.
Pass(u, list, r) ==
    unread' = [unread EXCEPT ![u] = @ \ {dir[list[i]].id : i \in 1..r}]

\* load_message, and the lastread that follows what is read.
Read(u) ==
    /\ pc[u] = "idle"
    /\ \E r \in DOMAIN Msgn[u] :
        LET n == Msgn[u][r]
        IN  /\ lastread' = [lastread EXCEPT ![u] = r]
            /\ msg' = [msg EXCEPT ![u] =
                        IF n \in Files THEN [no |-> n, hdr |-> dir[n]] ELSE NoMsg]
            /\ Pass(u, Msgn[u], r)
    /\ UNCHANGED <<dir, lastreads, Msgn, pc, op, answers, renumbered>>

-----------------------------------------------------------------------------
\* The least number from n on without a file.
FreeFrom(n) == CHOOSE m \in n..(MaxMsgno + 1) :
                    m \notin Files /\ (n..(m - 1)) \subseteq Files

\* Mutant: the first number without a file.
NewNumber_Lowest(list) == FreeFrom(IF IsNet THEN 1 ELSE 2)

\* save_message: the first number behind the list without a file, but not 1
\* unless in netmail (1.MSG has the highwater mark).
NewNumber(list) ==
    LET n == FreeFrom(CvtReln(list, Len(list)) + 1)
    IN  IF n = 1 /\ ~IsNet THEN FreeFrom(2) ELSE n

\* A new message, which may answer the one loaded.
Post(u, mode) ==
    /\ pc[u] = "idle" /\ mode \in Calls
    /\ mode = "reply" => msg[u].no # 0
    /\ Len(answers) < MaxPosts
    /\ NewNumber(Msgn[u]) \in DOMAIN dir
    /\ op' = [op EXCEPT ![u].no = NewNumber(Msgn[u]),
                        ![u].to = IF mode = "reply" THEN msg[u].no ELSE 0]
    /\ pc' = [pc EXCEPT ![u] = "create"]
    /\ UNCHANGED <<dir, lastreads, Msgn, lastread, msg, history>>

\* The file is opened or created, truncated, and written.
Create(u) ==
    /\ pc[u] = "create"
    /\ dir' = [dir EXCEPT ![op[u].no] = Message(Len(answers) + 1, op[u].to, 0)]
    /\ Msgn' = [Msgn EXCEPT ![u] = Append(@, op[u].no)]
    /\ answers' = Append(answers, IF op[u].to = 0 THEN 0 ELSE msg[u].hdr.id)
    /\ unread' = [v \in Users |-> unread[v] \cup {Len(answers) + 1}]
    /\ pc' = [pc EXCEPT ![u] =
                IF ToReln(Msgn[u], op[u].to) # 0 THEN "original" ELSE "idle"]
    /\ UNCHANGED <<lastreads, lastread, msg, op, renumbered>>

\* The header of the original is loaded again ...
LoadOriginal(u) ==
    /\ pc[u] = "original"
    /\ op' = [op EXCEPT ![u].up = [no |-> op[u].to, hdr |-> dir[op[u].to]]]
    /\ pc' = [pc EXCEPT ![u] = IF op[u].to \in Files THEN "link" ELSE "idle"]
    /\ UNCHANGED <<dir, lastreads, Msgn, lastread, msg, history>>

\* ... and saved with the reply linked to it, in place of an earlier one.
LinkOriginal(u) ==
    /\ pc[u] = "link"
    /\ dir' = [dir EXCEPT ![op[u].up.no] = [op[u].up.hdr EXCEPT !.first = op[u].no]]
    /\ pc' = [pc EXCEPT ![u] = "idle"]
    /\ UNCHANGED <<lastreads, Msgn, lastread, msg, op, history>>

\* Saving the header of the loaded message creates the file if it is gone.
SaveHdr(u) ==
    /\ pc[u] = "idle" /\ "hdr" \in Calls /\ msg[u].no # 0
    /\ dir' = [dir EXCEPT ![msg[u].no] = msg[u].hdr]
    /\ UNCHANGED <<lastreads, Msgn, lastread, msg, pc, op, history>>

-----------------------------------------------------------------------------
\* Area::DeleteMsg.  A position on the message deleted goes to a neighbour.
Neighbour(u, forward) ==
    LET l == lastread[u]
    IN  CASE forward /\ l < Len(Msgn[u])            -> l + 1
          [] forward /\ l = Len(Msgn[u])            -> l - 1
          [] ~forward /\ l > 1                      -> l - 1
          [] ~forward /\ l = 1 /\ Len(Msgn[u]) > 1  -> 2
          [] OTHER                                  -> 0

\* A linked message is loaded if it is in the list and there.
Linked(u, n) == IF ToReln(Msgn[u], n) # 0 /\ n \in Files
                THEN [no |-> n, hdr |-> dir[n]] ELSE NoMsg

\* Mutant: only the original's link is mended.
Splice_DownOnly(u) ==
    LET m      == msg[u]
        listed(n) == IF ToReln(Msgn[u], n) # 0 THEN n ELSE 0
        down   == Linked(u, m.hdr.to)
        backed == down.no # 0 /\ down.hdr.first = m.no
    IN  [down |-> IF backed
                  THEN [down EXCEPT !.hdr.first = listed(m.hdr.first)] ELSE NoMsg,
         up   |-> NoMsg]
\* The original and the first reply of the message deleted are linked to each
\* other, each only if it is linked to that message.
Splice(u) ==
    LET m      == msg[u]
        listed(n) == IF ToReln(Msgn[u], n) # 0 THEN n ELSE 0
        down   == Linked(u, m.hdr.to)
        up     == Linked(u, m.hdr.first)
        backed == down.no # 0 /\ down.hdr.first = m.no
    IN  [down |-> IF backed
                  THEN [down EXCEPT !.hdr.first = listed(m.hdr.first)] ELSE NoMsg,
         up   |-> IF up.no # 0 /\ up.hdr.to = m.no
                  THEN [up EXCEPT !.hdr.to = IF backed THEN down.no ELSE 0] ELSE NoMsg]

Delete(u) ==
    /\ pc[u] = "idle" /\ "del" \in Calls /\ msg[u].no # 0
    /\ \E forward \in BOOLEAN :
        lastread' = [lastread EXCEPT ![u] =
            IF CvtReln(Msgn[u], @) = msg[u].no THEN Neighbour(u, forward) ELSE @]
    /\ op' = [op EXCEPT ![u].lread = CvtReln(Msgn[u], lastread'[u]),
                        ![u].down = Splice(u).down, ![u].up = Splice(u).up]
    /\ pc' = [pc EXCEPT ![u] = "splice"]
    /\ UNCHANGED <<dir, lastreads, Msgn, msg, history>>

SaveSplice(u) ==
    /\ pc[u] = "splice"
    /\ dir' = [n \in DOMAIN dir |->
                IF n = op[u].up.no THEN op[u].up.hdr
                ELSE IF n = op[u].down.no THEN op[u].down.hdr ELSE dir[n]]
    /\ pc' = [pc EXCEPT ![u] = "remove"]
    /\ UNCHANGED <<lastreads, Msgn, lastread, msg, op, history>>

RemoveFile(u) ==
    /\ pc[u] = "remove"
    /\ dir' = [dir EXCEPT ![msg[u].no] = NoFile]
    /\ pc' = [pc EXCEPT ![u] = "lastreads"]
    /\ UNCHANGED <<lastreads, Msgn, lastread, msg, op, history>>

\* del_msg goes on to read the whole lastread file ...
ReadLastreads(u) ==
    /\ pc[u] = "lastreads"
    /\ op' = [op EXCEPT ![u].lr = lastreads]
    /\ pc' = [pc EXCEPT ![u] = "adjust"]
    /\ UNCHANGED <<dir, lastreads, Msgn, lastread, msg, history>>

\* Mutant: pointers at the deleted message stay.
Adjusted_NotPrev(u, lr) ==
    LET rest == {n \in Range(Msgn[u]) : n # msg[u].no}
        max  == IF rest = {} THEN 0 ELSE Last(InOrder(rest))
    IN  IF lr > msg[u].no /\ lr > max THEN max ELSE lr

\* ... a pointer at the deleted message goes to the one before it in the list,
\* one beyond the last of the list to the last, before the file is written.
Adjusted(u, lr) ==
    LET rest == {n \in Range(Msgn[u]) : n # msg[u].no}
        top(numbers) == IF numbers = {} THEN 0 ELSE Last(InOrder(numbers))
        new  == IF lr = msg[u].no THEN top({n \in rest : n < lr}) ELSE lr
    IN  IF new > top(rest) THEN top(rest) ELSE new

\* A list without a number (GTag::Del).
Without(list, n) == Chosen(list, {i \in DOMAIN list : list[i] # n})

\* The message removed, the reader shows the one at its position.
AdjustLastreads(u) ==
    /\ pc[u] = "adjust"
    /\ lastreads' = IF \E v \in Users : Adjusted(u, op[u].lr[v]) # op[u].lr[v]
                    THEN [v \in Users |-> Adjusted(u, op[u].lr[v])] ELSE lastreads
    /\ Msgn' = [Msgn EXCEPT ![u] = Without(@, msg[u].no)]
    /\ lastread' = [lastread EXCEPT ![u] = ToReln(Msgn'[u], op[u].lread)]
    /\ msg' = [msg EXCEPT ![u] = NoMsg]
    /\ Pass(u, Msgn'[u], lastread'[u])
    /\ op' = [op EXCEPT ![u] = NoOp]
    /\ pc' = [pc EXCEPT ![u] = "idle"]
    /\ UNCHANGED <<dir, answers, renumbered>>

-----------------------------------------------------------------------------
\* renumber: the numbers become 1, 2, 3 and so on, from 2 in an echo area that
\* has no 1.MSG.  In an empty one the code reads a list that is not there.
Renumber(u) ==
    /\ pc[u] = "idle" /\ "renumber" \in Calls
    /\ IsNet \/ Files # {}
    /\ SaveLastread(u)
    /\ Scan(u, CvtReln(Msgn[u], lastread[u]))
    /\ op' = [op EXCEPT ![u].no = 1,
                        ![u].to = IF IsNet \/ Msgn'[u][1] = 1 THEN 1 ELSE 2]
    /\ msg' = [msg EXCEPT ![u] = NoMsg]
    /\ renumbered' = TRUE
    /\ pc' = [pc EXCEPT ![u] = "renumber"]
    /\ UNCHANGED <<dir, answers, unread>>

\* Mutant: renames from the last to the first.
RenumberMsg_Down(u) ==
    /\ pc[u] = "renumber" /\ op[u].no <= Len(Msgn[u])
    /\ LET i   == Len(Msgn[u]) + 1 - op[u].no
           old == Msgn[u][i]
           new == i + op[u].to - 1
       IN  dir' = IF new = old \/ old \notin Files THEN dir
                  ELSE [dir EXCEPT ![old] = NoFile, ![new] = dir[old]]
    /\ op' = [op EXCEPT ![u].no = @ + 1]
    /\ UNCHANGED <<lastreads, Msgn, lastread, msg, pc, history>>

\* A message that gets another number is renamed, over whatever has that name,
\* its links turned into positions.
RenumberMsg(u) ==
    /\ pc[u] = "renumber" /\ op[u].no <= Len(Msgn[u])
    /\ LET old == Msgn[u][op[u].no]
           new == op[u].no + op[u].to - 1
           m   == dir[old]
       IN  dir' = IF new = old \/ old \notin Files THEN dir
                  ELSE [dir EXCEPT ![old] = NoFile,
                                   ![new] = Message(m.id, ToReln(Msgn[u], m.to),
                                                    ToReln(Msgn[u], m.first))]
    /\ op' = [op EXCEPT ![u].no = @ + 1]
    /\ UNCHANGED <<lastreads, Msgn, lastread, msg, pc, history>>

RenumberIndex(u) ==
    /\ pc[u] = "renumber" /\ op[u].no > Len(Msgn[u])
    /\ Msgn' = [Msgn EXCEPT ![u] = [i \in DOMAIN @ |-> i + op[u].to - 1]]
    /\ op' = [op EXCEPT ![u] = NoOp]
    /\ pc' = [pc EXCEPT ![u] = "idle"]
    /\ UNCHANGED <<dir, lastreads, lastread, msg, history>>

Step(u) ==
    \/ Open(u) \/ Close(u) \/ Suspend(u) \/ Read(u)
    \/ (\E mode \in {"post", "reply"} : Post(u, mode))
    \/ Create(u) \/ LoadOriginal(u) \/ LinkOriginal(u) \/ SaveHdr(u)
    \/ Delete(u) \/ SaveSplice(u) \/ RemoveFile(u)
    \/ ReadLastreads(u) \/ AdjustLastreads(u)
    \/ Renumber(u) \/ RenumberMsg(u) \/ RenumberIndex(u)

Next == \E u \in Running : Step(u)

Spec == Init /\ [][Next]_vars
-----------------------------------------------------------------------------
Messages == [id : Nat, to : Nat, first : Nat]
Loaded   == [no : Nat, hdr : Messages]

TypeOK ==
    /\ dir \in [1..MaxMsgno -> Messages]
    /\ lastreads \in [Users -> 0..MaxMsgno]
    /\ \A u \in Running : Msgn[u] \in Seq(1..MaxMsgno) /\ lastread[u] \in 0..Len(Msgn[u])
    /\ msg \in [Running -> Loaded]
    /\ op \in [Running -> [no : Nat, to : Nat, down : Loaded, up : Loaded,
                           lread : 0..MaxMsgno, lr : [Users -> 0..MaxMsgno]]]
    /\ answers \in Seq(Nat)
    /\ unread \in [Users -> SUBSET DOMAIN answers]

\* What a user will not be shown when he next opens the area, though he has
\* not read it.
Hidden(u) == {dir[n].id : n \in {m \in Files : m <= lastreads[u]}} \cap unread[u]

\* One program alone never hides a message from its user, whatever it posts,
\* deletes and renumbers between closing the area and opening it; nor from
\* the other users, whose pointers del_msg corrects ("Update lastread pointers
\* for all users in the lastread file", gmofido4.cpp), until it renumbers.
NothingHidden ==
    \A u \in Users : pc[u] = "closed" /\ (renumbered => u \in Running) => Hidden(u) = {}

\* While nobody is changing links, a message is linked to a reply that is there
\* and is linked to it.
AtRest == \A u \in Users : pc[u] \in {"closed", "idle"}
LinkedBack ==
    AtRest => \A n \in Files : dir[n].first # 0 =>
        dir[n].first \in Files /\ dir[dir[n].first].to = n

\* The messages a message answers, directly or through others.
Ancestors(id) ==
    LET up[i \in 0..Len(answers)] ==
            IF i = 0 THEN {} ELSE {answers[i]} \cup up[answers[i]]
    IN  up[id] \ {0}

\* What a reply is linked to is a message of its own thread, or none any more,
\* though numbers are given again.
LinkedUp ==
    AtRest => \A n \in Files : dir[n].to \in Files =>
        dir[dir[n].to].id \in Ancestors(dir[n].id)

LinksKept == ~renumbered => LinkedBack /\ LinkedUp

\* renumber "Update[s] the replylinks" (gmofido5.cpp): they lead where they
\* led before.
LinksFollow == LinkedBack

\* For one program alone the files are a list of messages: a new one goes to
\* the end, and renumbering changes nothing in it.
List == INSTANCE MsgList WITH
            list   <- [i \in 1..Cardinality(Files) |->
                        [msgno |-> dir[InOrder(Files)[i]].id, by |-> "anyone"]],
            last   <- Len(answers),
            Author <- {"anyone"}
ListImplemented == List!Spec
=============================================================================
