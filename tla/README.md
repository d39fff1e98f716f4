# GoldED+: models and proofs

GoldED+ is an editor for FidoNet mail. It keeps messages in *message bases* of
several formats, files that mail tossers, BBS programs and further copies of
GoldED+ read and write at the same time. This directory models the parts of it
in which several steps, several programs or several pieces of state have to
agree. The modules are translated from the C++ sources (paths below are
relative to `src/`); TLC checks them on small instances, and TLAPS proves the
central properties for every instance: of the JAM, Squish, *.MSG and Hudson drivers, alone and (but for *.MSG)
shared, of the reader and its marks, and of the scans and moves between areas.

| file | contents |
|---|---|
| `GTag`, `Marks`, `MarkSet`, `MCMarks` | arrays of message numbers and the marking commands |
| `ReaderPlace` | the position and the bookmark, which `Reader` and `Marks` have in common |
| `JamBase`, `JamBaseProofs` | the JAM driver, and theorems about it |
| `SquishRecords`, `SquishFrames`, `SquishBase`, `MCSquishBase`, `SquishBaseProofs` | the Squish driver, and theorems about it |
| `HudsBase`, `HudsBaseProofs` | the Hudson and GoldBase driver, and theorems about it |
| `FidoBase`, `MCFidoBase`, `FidoBaseProofs` | the *.MSG driver, with the reply links and lastread pointers above it, used by one program, and theorems about it |
| `Listing` | a set of numbers in order: the list a driver makes of a base, for `HudsBase` and `FidoBase`, the order of areas, for `Areas`, and of marks, for `GTag` and `Marks` |
| `MsgList` | what a message base promises |
| `MCDrivers`, `MCDriversProofs` | a base of each kind, used by one program or shared by two, and theorems about what the two runs check |
| `Reader`, `ReaderProofs` | position, marks, personal mail, deleting and moving in the reader, and theorems about them and about `Marks` |
| `Counting` | lemmas on sets of numbers, ranks, rising lists, loops and recursions for the proofs |
| `Areas`, `MCAreas`, `AreasProofs` | the list of areas, scans, semaphores, the two areas of a move, and theorems about them |
| `PROJECT.json` | components, runs, mutants, source lines of every definition, findings, hazards, theorems |

To check a module: `tlc -config Drivers.cfg MCDrivers`. To check the
proofs: `tlapm JamBaseProofs.tla`, and so on for `HudsBaseProofs`, `SquishBaseProofs`,
`FidoBaseProofs`, `ReaderProofs`, `AreasProofs`, `MCDriversProofs` and `Counting`.

## 1. The system

### Components

| component | state | operations | hard because |
|---|---|---|---|
| message numbers, `goldlib/gall/gutltag` | cells, live length, fake count | add, delete, find, resize, sort, drop doubles | bisection at the boundaries; cells behind the live part keep old numbers |
| marks, `golded3/gemrks` | `Mark`, bookmark | mark one, all, new, old, range, text, thread; toggle; unmark | order and uniqueness restored only by each command's last two calls |
| reader, `golded3/geread`, `geread2`, `gmarea` | position, entry position, bookmark, modes, direction, marks, personal mail, message on screen | open, close, next, previous, first, last, jump, toggle | a position is an index, what is saved is a number, and both survive changes of the list |
| delete, copy, move, `golded3/gecmfd` | the above, questions asked | on the current or the marked messages | a loop over marks, with questions, Esc, and the list shrinking under it |
| JAM driver, `goldlib/gmb3/gmojamm*` | `.jhr` `.jdx` `.jdt` `.jlr`, a lock, copies in memory | open, load, save (new, header, text), delete, timesread, close, suspend | shared by programs; a message is written by four writes; loads take no lock |
| Squish driver, `gmosqsh*` | `.sqd` `.sqi` `.sql`, a lock, copies of base record and index | the same, and limits | a frame allocator in a file: split, merge, two linked chains; lock given up before the last writes |
| *.MSG driver, `gmofido*` | one file a message, a lastread file for all users | the same, renumber | numbers found by listing a directory, and given again; no lock |
| Hudson, GoldBase driver, `gmohuds*` | headers, index, msginfo, lastread, two scanning files for mailers | the same, personal mail of all boards | one base for all areas, in-memory copies of the index, five files written one by one |
| Ezycom, PCBoard, WildCat, AdeptXBBS, Synchronet drivers | per-area base files | the same | as above |
| area list, `gmarea`, `gcarea`, `gearea`, `gealst` | areas in their order, current area, original area, counts | choose, sort, next, previous, destination of a move | sorted, and renumbered, under those who remember a place in it; two areas open at once |
| scan and semaphores, `gescan`, `geutil` | files that ask for something | check when idle, scan, remove | touched by others at any time |
| header and text conversion, `gelmsg`, `geline`, `gehdre` | a message in memory | load, save, translate, wrap | data |
| editor, `geedit*` | lines, cursor, undo stack | edit, undo | long sequences must be undone exactly |
| writing and posting, `gepost`, `gedoit`, `getpls` | one new message | quote, template, address, save | text |
| lists and search, `gemlst`, `gesrch` | a list on screen | move, choose | screen |
| QWK and SOUP, `geqwks`, `gesoup` | packets, an area's lock | import, export | formats around driver calls |
| nodelists, `goldlib/gall/gftnnl*`, `genode`, `goldnode` | sorted index files | look up, browse, compile | boundaries of a sorted index |
| user databases, `gusr*`, `geusrbse` | records | find, add, change | - |
| configuration, `gccfgg*`, `goldlib/gcfg` | settings | parse | formats of forty programs |
| windows, keys, video, `goldlib/gcui` | screen | draw, read a key | input and output |
| strings, charsets, CRC, `goldlib/gall` | none | convert | data |
| `rddt`, vendored libraries, data files | - | - | out of scope |

### How they interact

`golded3` calls a driver through `gmo_area` (`goldlib/gmb3/gmoarea.h`):
`open`, `load_hdr`, `load_msg`, `lock`, `save_hdr`, `save_msg`, `del_msg`,
`unlock`, `close`. The driver fills `Area::Msgn`, the numbers of the messages
in order, once when an area is opened, and `Area::PMrk` in a personal mail
scan. Everything above addresses a message by its number, and finds its position
with `GTag::ToReln`. There are no threads: concurrency is other *programs* on the
same files. Writers are kept apart by a lock on the first byte of one file
(`goldlib/gall/gfilport.cpp`, `fcntl`), which the operating system drops when
a program ends. A call that needs the lock takes it itself, unless the caller has
taken it for a whole loop of calls (`Area::Lock`, when marked messages are
deleted or moved); a second program waits, retrying (`PopupLocked`). Loading takes
no lock. `update_timesread` of Squish and Hudson unlocks in every case
(`gmosqsh4.cpp:772`), but its callers, which show a message, mark a thread as read or catch up in an area (`geread.cpp:539`, `gemrks.cpp:269`,
`299` and `313`, `gearea.cpp:635`), do not lock the area: `CallHeld` is the calls that are made when it is.

### What makes each correct

- *Message numbers and marks*: the array stays sorted without doubles and
  is, to its users, a set; each menu item does to the set what it says.
- *Reader*: the message on screen is the one at the position; deleting moves
  it only to a neighbour; what is saved as read was seen or jumped over;
  personal mail puts it back; nothing is deleted that nobody agreed to lose.
- *Drivers*: the lock excludes and is released; what one program writes is not
  undone by a stale copy of another's; no message takes the place of another;
  every message is found, whole and readable; chains and counts are those of the
  messages; limits are kept. Together they are a list of messages.
- *Areas and semaphores*: what is asked for is done, also by the next start of a program that
  was killed; the area meant is the one scanned; no scan while an area is open; a message that
  is moved is in one of the two areas at every step.
- *Editor*: undo leads back. *Nodelist*: what is in the index is found.

`PROJECT.json` lists the hazards behind these, each at its line, with the
properties that would catch it.

## 2. Modules and their correspondence to the code

**GTag** is the class of `gutltag.cpp` as operators on a record of cells (`tag`),
live length (`tags`) and fake count (`count`). Cells behind the live
part and cells never written are kept, because `MarkMsgs_Toggle` reads them.
`Bisect` is the loop of `ToReln` with its two different upper bounds. Loading and
saving the raw cells is left out.

**Marks** has one action per item of the marking menu, plus the marking of the
message on screen, the bookmark and moving. `item` is the one just used and `sought` the
messages with the text of a search, which goes either way and may be broken off. The thread walk
(`recursive_mark`) is a recursive function on the links. An access outside an
array sets `crashed` and ends the behaviour. Position and bookmark (**ReaderPlace**) are variables of `Reader` too; `ToggleOneMark` is
`ToggleMark` of the code, and `MarkMsgs`, its menu, the next-state relation. `Added` is the loops that call `Mark.Add` for one
number after another. **MarkSet** is the abstract
specification, marks as a set: for each item, by its name, what it promises. All marks all messages;
new and old mark exactly those behind and in front of the current one; a range, those between bookmark
and current one; a search, those with the text as far as it got; toggling, those that were not; a thread,
the least set closed under the links, which does not follow the code's recursion.
`ImplementsMarkSet` is the refinement, with the set of
the live cells as mapping and `item` as it is, so no item can pass for another. **MCMarks** gives four messages in one thread.

**JamBase**: `jhr`, `jdx`, `jdt`, `info` are the files (`.jhr` is the fixed
record and the headers; an offset is abstracted to the header's place in the
order of writing). Each read or write of a file is a step. Per program, `pc`
is the place in the driver, `hdrinfo` its copy of the fixed record, `msg` the
header it has loaded, `op` the locals of `save_message`; `islocked` tells that
the lock was taken by `Area::Lock`. Saving is
`Acquire`, `Refresh`, `Build` (number, slot, the old header replaced or moved),
`WriteHeader`, `WriteIndex`, `WriteInfo`, `WriteText`, `Finish`, `Unlock`.
`Crash` kills a program anywhere. A header keeps its message
number, the DELETED attribute, the announced and the stored length of its
subfields, and which text it points to. Left out: the lastread file, the
highwater mark, `modcounter`, contents.

**SquishRecords** has the sizes and modes that a module using the driver sets, **SquishFrames** is the frame allocator, pure operators on a view of frames, base
record and index: `add_to_free_chain`, `delete_msg`, the search for a free
frame with merging of adjacent ones (`FindSpan`, `Span`), `excess_frm`,
and the writing of a new, an unmoved and a moved message. Offsets are real
offsets, with sizes in units; the four values of `SQUISHRECYCLE` differ as in the code.
**SquishBase** has the programs, the lock, the copies they make when they
open or lock, the limit, and `unlock`, which lets go of the lock first and writes the
base record and then the index after. What a call does to frames is one step,
because it happens under the lock; `Crash` is possible at every other point.
**MsgList** is what a message base promises to one program alone: a list in
which posting appends a higher number and dropping removes one.
`ListImplemented` is the refinement; the list is the texts in index order.

**FidoBase** has `dir`, the files `n.MSG`; `lastreads`, the file with a number
for each user; and for each program its list `Msgn`, position, loaded message and
locals. There is no lock: looking for a free number (`Post`) and creating the file
(`Create`) are two steps, and so are loading and saving a header. `Delete`,
`SaveSplice`, `RemoveFile`, `ReadLastreads`, `AdjustLastreads` are
`Area::DeleteMsg` and `del_msg`; `LoadOriginal`, `LinkOriginal` the end of
`MakeMsg`. `Renumber`, `RenumberMsg` (once for each file) and `RenumberIndex`
are `renumber`. History: which message each one answers, and what each user has
not been at or past. One program runs; the other users are pointers in the file.
`InOrder` of **Listing** is the list `raw_scan` sorts (`Chosen` what remains of a list in `GTag::Del`):
it takes the k-th of a set of numbers by counting those below it, so that lists can be reasoned about.

**HudsBase** has the files `hdr`, `idx`, `info`, `lastrecs`, and the scanning
files `lists` in each of the three directories the code names; the byte of
msginfo that is locked (`holder`); and for each program `data`, its copies of
index, msginfo and lastread record, which `Refresh` renews inside the lock and
`Open` and `OpenScan` without it. `Save` locks, refreshes and finds
the place; `WriteHdr`, `WriteIdx`, `WriteInfo` and `Finish` write one
file each. A header found to be missing ends the program (`IndexErrorExit`).
The numbers of a board are in the order of the index, at most as many as msginfo
counts (`RawScan`). All boards share files, which is why `save_lastread` of one
writes the pointers of all.

**MCDrivers** has a variable `kind`, as an area has one driver, chosen from the
configuration, and `Programs` on a base of that kind: one alone on JAM, Squish, Squish with a limit,
Hudson or *.MSG; or two on Squish, Hudson or JAM, with fewer calls (`For`). **MCFidoBase** is *.MSG with one
program and other users' pointers.

**Reader** has one area and one user. `base` is what is in the area, `Msgn` what
the reader lists, `lastread` an index in it, `saved` the number on file.
`Open`, `LoadMessage` (the main loop), the moves, jumps and toggles of
`geread2.cpp`, `Close`; `DeleteMsg` with its search for the new position;
`DelMsgs` and `CmfMsgs` on the current message or, in steps (`JobDelete`,
`JobKeep`, `JobDone`, `JobEscape`), on the marked ones. Other programs post at any
time, and delete only while the area is closed. `passed` and `agreed` are history: what
the user was shown or jumped over, and what he agreed to lose.
Twits and soft deletion are left out; the second area of a move is in `Areas`.

**Areas** has the messages of each area (`mail`), those up to the lastread
pointer on file, and what the program knows: `counted`, the order of the list
(`idx`), `AA`, `CurrArea`, `OrigArea`, and the areas that are open. `pc` tells
where it is: a scan takes a step for each area (`ScanArea`), so other
programs bring mail (`Toss`) and touch semaphores (`Touch`) in between,
and Esc (`ScanEscape`) or a kill can end it. The semaphores are checked in the
code's order, at the start and when no key is pressed (`Tick`). Every scan sorts the list
(`BeginScan`), which is shown by `NewArea` or `CmfMsgs`; the latter while
the original area is open, so that scans are refused. `CopyMsg` and `DeleteMsg` are
the two halves of a move. What the code then does is undefined when it indexes
with an area that is none or reads data of a closed one: `crashed`. An import at the start does so when
no area is the current one yet (`ImportCrash`). `owed` is history: the
messages each request asked to be counted, forgiven where Esc cut a scan short or
the code has dropped the request.

## 3. Runs

| run | instance | shows |
|---|---|---|
| `marks` | every area of 1 to 4 messages, with gaps | `MarksOrdered`; each item does what `MarkSet` promises of it, as long as toggling starts from a clean array |
| `marks_toggle` | the same, toggling with any cell after the last mark, if the marks are messages of the area | finding 1 |
| `jam_crash` | two programs on a JAM base, one killed and restarted at will; 1 message and 2 headers, a base just created | the inductive invariant of the proofs, types, lock and index; the lock is always released |
| `drivers` | one program on each kind of base: JAM, blank, up to 3 messages and 4 headers; Squish in all recycling modes; Squish with a limit of 3 and 4 messages at the start; Hudson with a netmail and an echo board; *.MSG with two users | each format stays sound, is a list of messages (not JAM), and hides none |
| `shared` | two programs on Squish (one killed at will), Hudson, JAM | a program has the lock exactly while it is in a call that takes it or has locked the area (Squish with `update_timesread` and `Area::Lock`, up to the unlock in front of base record and index; Hudson while it saves or deletes; JAM with `Area::Lock`); Hudson's inductive invariant and counts; texts, headers and counts of JAM |
| `squish_texts`, `squish_headers` | two programs | findings 2 and 3 |
| `fido_links` | one program, one message and two more | finding 5 |
| `reader` | 3 messages and one more, two of them personal | place kept, nothing skipped, lastread restored, message on screen is the one at the position |
| `reader_escape` | the same | finding 4 |
| `areas` | two areas, one of them netmail and scanned at the start, one message, up to two semaphores at once of four kinds | requests are met, the right area is scanned, the bar stays, moving loses nothing, semaphores are seen |
| `areas_scan` | the same, one semaphore, five kinds | finding 6 |

**Why these bounds.** *Marks*: four messages are the fewest with a reply
of a reply beside another reply, and gaps at both ends and in the middle; the text is in all but
one of them, so a search marks some and passes one;
granularity 2 (10 in the code) makes arrays grow and shrink. *JAM*: for
two programs one more message or a header that is moved is enough for each to work
on what the other has just changed; with `MaxHdr = 4` for one program a header moves more than once.
Two programs are all a lock can tell apart: it has one holder. `MaxActive` bounds a counter
that may drift after kills. *Squish*: `MaxEnd = 12` holds five
of the smallest frames; free frames of two sizes, adjacent and not, appear, and
size 3 fits exactly what merging two frames of size 1 and a header
gives. *Limit*: the base starts above its limit, the protected message and
two others are left. *Hudson*: three headers let the highest be deleted and
its number be given again beside a message of the other board. *.MSG*: the
first message is 3.MSG, so there is room below and above, renumbering renames, and a reply of
a reply fits in five numbers. *Reader*: four messages are the fewest with a first, a last and two
between, of which one is personal, unread or deleted. *Areas*: two areas can change
places, and be original and destination; with one message one area has new mail
and the other none; two semaphores follow each other, and each can be
touched again. Bounds cut actions off by guards
(`MaxMsg`, `MaxHdr`, `MaxActive`, `MaxNumber`, `MaxEnd`, `MaxMsgno`, `MaxPosts`,
`Posted`, `MaxMail`, `MaxSems`), never states.

**Deadlock** is checked everywhere but in the runs of the marks and of the areas, where a
behaviour may end in `crashed`, or with the program left.

**Fairness.** `FairSpec` of `JamBase`, for `LockReleased`: weak fairness of a
program's steps inside the driver, since it computes and does not wait there, and
strong fairness of `AreaUnlock`, since the loops under `Area::Lock` go over finitely
many marked messages and then unlock. Nothing is assumed of opening, calling or
waiting for the lock, and no program is assumed to be killed or not. So
a program may wait for ever, as `PopupLocked` promises no more.
`FairSpec` of `Areas`, for `SemaphoreSeen`: weak fairness of scans and of checks, which
go over finitely many areas and files, and strong fairness of `Tick`: somebody who keeps coming
back to the list leaves the keys alone for `IDLETIME` at some time. Nothing is
assumed of keys, mail, semaphores or kills.

## 4. Findings

1. *Toggle all marks* compares with the cell behind the last mark
   (`gemrks.cpp:126`): after marking all and unmarking the last message, it skips
   that message.
2. Squish `unlock` lets go of the lock before it writes the base record and the
   index (`gmosqsh4.cpp:82`): two programs that post put their messages into the
   same frame.
3. Squish `save_message` checks the number in the fresh index, but uses the position in the
   old list (`gmosqsh4.cpp:415`): after another program's deletion, a header is
   written over that of another message.
4. Esc at the question about the first marked message (`gecmfd.cpp:277`): the
   message on screen is deleted, without having been marked or asked about.

5. Renumbering *.MSG (`gmofido5.cpp:111`) updates the links only of messages whose own
   number changes, and to positions in the list, not to the new numbers.
6. The list of areas calls `SetActiveAreaNo` after a scan that was refused because an area is
   open (`gearea.cpp:907`): the next scan runs with the area open, and the reader comes
   back to an area that is not.

Met while modelling, and left as hazards or comments:

- JAM: `activemsgs` drifts with two programs
  and is lost when two open a blank base (`gmojamm4.cpp:322`, `gmojamm2.cpp:204`).
- Reader: after deleting or moving, the wrong message is taken from
  the personal mail (`gecmfd.cpp:263`, `724`); leaving personal mail, the lastread is
  lost when its message was deleted (`gmarea.cpp:396`). Toggling Sent with marks
  present and the current message chosen toggles it once for each mark (`gecmfd.cpp:421`).
  Marking a thread marks replies that are not in the area (`gemrks.cpp:263`).
- *.MSG: two programs that look for a number at the same time get the same one, and the
  second overwrites the first one's message (`gmofido4.cpp:93`).
- Hudson: `update_netecho` reads from HUDSONSYSPATH, writes to HUDSONPATH and removes in the
  working directory (`gmohuds4.cpp:37`, `99`, `105`; `manuals/gold_ref.txt:2914` has one
  place for all); a lastread pointer whose message is gone makes the personal mail scan pass over
  the one behind it (`gmohuds2.cpp:651`); `get_hdr_idx` compares one entry past the index
  (`gmohuds3.cpp:44`).
- Semaphores are removed after the scan they ask for, where the manual says before
  (`gescan.cpp:432`, `manuals/gold_ref.txt:4382`): one touched again meanwhile is lost; and
  they are removed when the scan was refused.
- QWK: an import of a packet with no messages leaves no current area (`geqwks.cpp:128`); one at the
  start, when nothing has been scanned, asks a null pointer whether the area is open (`geqwks.cpp:198`, `344`);
  CONTROL.DAT is removed before the messages are imported, so a kill in between loses them.

## 5. Proofs

Each theorem is about the whole specification and rests on the named assumptions of its module and
on what its statement assumes, no more. All have the same form: an inductive invariant that
holds at the start, that every action keeps, and that implies the property. TLC was
used first to look for states that break a candidate.

### JAM (`JamBaseProofs`)

For any set of programs, any of which may be killed
anywhere, for blank and existing bases, both kinds of deletion, any set of
calls and any bounds (`ProcAssumption`, `OptionAssumption`, `BoundAssumption`
and `CallAssumption`):

| theorem | property | besides |
|---|---|---|
| `Invariance` | `IInv`, the inductive invariant | |
| `TypeCorrect` | `TypeOK` | |
| `Exclusion` | `MutualExclusion` | |
| `IndexCorrect` | `IndexNumbers`: under each index entry is a header of that message, for readers without a lock and after kills | |
| `HeadersStay` | `HeadersKept`: no header is put over that of another message | |
| `CountsKept` | `HdrinfoFresh`: a writer works on the counts on file | the base has its header record |
| `TextsOwned` | `TextOwned`: no two messages have one text | nobody is killed |
| `CountsExact` | `ActiveMsgs`: the count is that of the messages not deleted | one program, not killed (`Alone`) |
| `SubfieldsKept` | `SubfieldsStored`, `NoWildWrite` | one program, not killed |

*The invariant.* `MutualExclusion` is not inductive: a program is inside because
it holds the lock, so `LockInv` ties `pc` and `islocked` to `holder`.
`IndexNumbers` depends on what `WriteIndex` is about to write, so
`LocalInv` says what each program carries between two steps: the slot it will
write is new or already belongs to its message, and its number is in the index or the next
one. That stays true while others write because headers and index only
grow and a header's number never changes (`StepGrows`), and what depends on
their lengths is carried only inside the lock (`OthersStep`).
`HdrinfoFresh`
needs in addition that no program is between finding a base blank and writing its
record, which `open_area` does without the lock: the theorem is for bases that are
not blank.

*Texts.* `TextInv` says that the text of every header, on file and in memory, is there
and that message's, or about to be written for it by the holder of the lock. A header another program
loaded long ago keeps that, because a text is never taken away and new text goes to the
end. A program killed between header and text breaks it: the next text is put where the
dead one's should be.

*Why one program.* With two, `activemsgs` drifts, subfields are lost, and a header can be written through
the index entry of a message deleted for good, since what is loaded without the lock is written back with it.
For one, `AloneInv` says that what it has in memory is what is on file.

### Hudson (`HudsBaseProofs`)

For any set of programs and boards and any messages at the
start, from `BaseAssumption` (nobody is `NoProc`, the first messages are on boards):

| theorem | states | besides |
|---|---|---|
| `HudsonInvariance` | `IInv`, which the run `shared` checks as `HudsonInv` | |
| `HudsonExclusion` | `MutualExclusion`: a program has the lock exactly while it is inside a save, a deletion or an `Area::Lock` | |
| `HudsonIndexSound` | `IndexSound`: while nobody saves, headers and index match entry by entry, and the numbers that are there ascend to the highest of msginfo | |
| `HudsonFindsPersonal` | `FindsPersonal`: the scan for personal mail lists what is addressed to the user behind his pointers | |
| `HudsonScanningFiles` | `ScanningFiles`: they name what is unsent | one directory for the three settings |
| `HudsonCountsSound` | `CountsSound`: msginfo counts the messages of each board | one board, any programs |
| `HudsonListKept` | `CountsSound`, `ListKept`: no list is cut short by a count that is too low | one program, any boards |
| `HudsonNothingHidden` | `NothingHidden`: no message that was not shown lies at the lastread pointer or below | one program, any boards |
| `HudsonIsList` | `ListImplemented`: the messages of all boards are a list in the order posted (the Hudson part of `AreLists`) | one program, any boards |

*The invariant.* `IndexSound` says nothing of the time between the four writes of a save,
so `LocalInv` says, for each of them, how far header, index and msginfo have come: after the header,
all entries but one are `Paired`; after the index, the files match but for a
higher highest number; and that the copies are `Fresh` until msginfo is
written, which is why the lock has to be obtained before the refresh. As only one program saves
(`MutualExclusion`), the others' parts are empty. `Typed` is what of the types the
arithmetic needs. That a lower highest number still bounds the index
(`NewHigh`) is where the order of the numbers is needed.

*Counts.* `CountInv` adds what msginfo will count once it is written. It needs that the
program deletes or saves a message of its own board. With several programs and several boards that fails:
the highest number, deleted by one program, is given again to a message of another board, and a
program that still has the old header in memory saves or deletes it by its number. So there
are two theorems: for one board, where the entry is of that board in any case, and for one
program, whose header in memory is that of the entry (`ListInv`).

*One program.* `View` states what each step does to files, copies and list, field by field, once for
all (`ViewStep`); `ListInv` and `HidInv` are proved from it. `ListInv`: the list has, in order,
what the index has of the board; and the message in memory is in it. `HidInv`: what is at the position
or below was shown, and what is at the pointer or below while the area is closed. A new number is higher
than all of the index, so that it is above all pointers to messages that are there, though
not above all numbers ever given. For `HudsonIsList`, `IdInv` says that the index has the place of every header,
by which `MsgList` knows a message: its list is the places of what is there, ascending (`AsList`), and a step leaves these places, adds one
behind all, or removes one.

### *.MSG (`FidoBaseProofs`)

For one program and any other users with pointers in the file, any numbers
(`NumberAssumption`, `UserAssumption`, `AloneAssumption`):

| theorem | property |
|---|---|
| `FidoTypeCorrect` | `TypeOK` |
| `DriverNobodyMisses` (half of it) | `NothingHidden`: nobody misses a message |
| `FidoIsList` | `ListImplemented`: the files are a list of messages in the order posted (the *.MSG part of `AreLists`) |
| `DriverFidoLinks` | `FidoLinksKept`: links lead to replies that are there and answer, and stay within a thread |

*The invariant.* `FidoInv` has four parts. `FidoList`: the list is the directory in order; but
`del_msg` removes the file first, so between then and the end of `Area::DeleteMsg` the list has one number more;
and while `renumber` renames, the files are those of the list, of which some have their new number
(`NumberNow`; the new number is at most the old, so no file is ever renamed over another).
`FidoLocals`: the header in memory, and those whose links are about to be written, are
of the messages in these files. `FidoSeen`: what lies up to the position, or the pointer while the area is closed,
was read. The other users' pointers are moved when a message is deleted (`AdjustLastreads`), and stay not above all listed
messages (`LowPointer`): therefore a new message, whose number is higher than all files, is above each pointer,
though numbers are given again. Renumbering moves no pointers, so for the other
users the invariant, and the property, end there.

*The refinement.* Each step leaves the files as they are, adds one behind them, removes one, or gives one another
name in the same place (`FilesStep`). So the messages in order of their numbers are always in the order
posted (`OrderInv`), and the list that `MsgList` sees changes by nothing, an `Append` or a `RemoveAt`
(`ListStep`); that a list from which one is taken is the ascending list of a set without it is shown in
`RemoveAtIs` and `RemoveAtRises`.

*The links.* `LinkInv` adds to `LinksKept` what holds while links change. `LinkFiles`: a message answers a lower number; this is why
a number given again, which is higher than all there are, is never taken for an original.
`LinkHere`: the header shown may have an older first reply than its file, when a reply to it was just posted, but
that one is there and answers it too, so saving the old header is harmless; and no step but deleting
changes what a message answers. `Mended`: what deleting is about to write. After that is written the message to be removed
is linked to nobody and by nobody, and what its first reply then answers is among that reply's ancestors by way of it.
Ancestors are a recursive function: that it exists follows by `Induction` on its domain (`UpExists`), and then that it is the one
chosen, grows with the sequence, and is transitive (`AncestorsFacts`, `AncestorsStay`).

### What the runs check of the drivers (`MCDriversProofs`)

The properties of the runs `drivers` and `shared` are those above under the kind of the base, of
programs that are instances of the drivers' modules:

| theorem | property |
|---|---|
| `DriverJamActive`, `DriverJamContents` | `JamActiveMsgs`, `JamContents` |
| `DriverHudsonIndex`, `DriverHudsonList`, `DriverHudsonScanning`, `DriverHudsonPersonal` | `HudsonIndex`, `HudsonList`, `HudsonScanning`, `HudsonPersonal` |
| `DriverNobodyMisses` | `NobodyMisses`, of *.MSG and Hudson |
| `DriverFidoLinks` | `FidoLinksKept`, of *.MSG |
| `DriversTyped` | `DriverTypes`, of *.MSG and Squish |
| `DriverSquishChains`, `DriverSquishTiled`, `DriverSquishFound` | `SquishChains`, `SquishTiled`, `SquishFound` |
| `DriverSquishStops`, `DriverSquishLimits` | `SquishStops`, `SquishLimits` |
| `DriversAreLists` | `AreLists`: the bases of *.MSG, Squish and Hudson are lists of messages |
| `SharedLocks` | `LocksHeld`: a program has the lock of a Squish, Hudson or JAM base exactly while it is in a call that takes it or has locked the area; kills only in Squish, `Area::Lock` not in Hudson, for which `Invariance` of `JamBase` (kills) and `HudsonExclusion` (any calls) go further |
| `SharedHudson`, `SharedHudsonCounts` | `HudsonInv`, `HudsonCounts` |
| `SharedJamTexts`, `SharedJamHeaders` | `JamTextOwned`, `JamHeaders` |
| `SharedJamCounts` | `JamCounts`, for a base that has its header record |

They add nothing to the drivers' theorems, which hold for every bound while `MCDrivers` fixes those of JAM, Squish and
Hudson, but that the properties of the runs are what is proved there; only for *.MSG the
constants are left open (`SquishChains` to `SquishLimits` are instances of the theorems on Squish). Those with `Driver` in their name are for one program (`Alone`), those with `Shared` for any `Programs`
(`SharedJamCounts` for several). `AloneInv` and `SharedInv` join the invariants of the drivers, each under its
kind; a step of one driver leaves `kind` alone.

### Reader (`ReaderProofs`)

For any messages, personal or not, and both options (`MessageAssumption`, `OptionAssumption`):

| theorem | property |
|---|---|
| `ReaderTypes` | `TypeOK` |
| `ReaderOnScreen` | `OnScreen`: the message on screen is the one at the position |
| `ReaderKeepsPlace` | `PlaceKept`: deleting and moving lead to a neighbour at most |
| `ReaderSkipsNothing` | `NothingSkipped`: what is saved as read was shown or jumped over |
| `ReaderRestoresPm` | `PmRestored`: leaving personal mail restores the lastread pointer |

*The invariant.* A position is only in the list if the loops over marks end in time: `JobInv` bounds what is left and
what is done together. `NewInv`: what is not in the list came after it was made, and is above it.
`PassedInv`: all between the pointer on file and the position was passed. `EntryInv` finds
the pointer of the entry again. Positions are ranks (`Rank`) in the set of listed numbers; that
taking one message from it moves the rank of the others by at most one, and of those below
not at all (`RankTaken`), is what `PlaceKept` rests on. `StepKinds` sorts the actions into
a few kinds, and the parts of the invariant are proved for these.

### Marks (`ReaderProofs`)

For any message numbers, any links between
them that lead up to smaller and down to larger ones, any texts, any granularity and any contents of fresh memory (`MsgnoAssumption`, `LinkAssumption`,
`GranularityAssumption`):

| theorem | property |
|---|---|
| `MarksTyped` | `MarksTypeOK`: the counts of the array agree and its marks are in its cells |
| `MarksKeptOrdered` | `MarksOrdered`: the marks are sorted, without doubles |
| `MarksImplement` | `ImplementsMarkSet`: each item of the menu, named in the step, does to the set of marks what `MarkSet` promises of it |

They are about `CleanSpec`, the specification of the run `marks`: toggling all marks is left out where it is known to fail
(finding 1), with a mark that is no message of the area, or with the number of one in the cell behind the last mark. All other commands
are free, whatever is in the cells.

*The invariant.* `Held`: the list being read rises, and the marks are numbers of messages in ascending order with a
cell behind the last, or there are no cells (`Good`). The cell matters: toggling reads it when its walk has passed every mark. For each operation on cells
a lemma says that it keeps `Good`, and what it does to the set of numbers in the cells.
*Bisecting* (`BisectSpot`): the loop of `ToReln` compares with two different bounds, and ends on the number, or next to where it belongs, on either
side; which side, `Add` finds out by comparing once more (`AddIs`). The proof is by `Induction` over the width of what is left, with
the cells on both sides known to be less and more (`Between`). *Moving and resizing*: `MoveIs`, `ResizeIs`. *Sorting* (`SortIs`): the places
taken by rank are each taken once. *Doubles* (`ElimIs`): of equal neighbours the first is kept.
*All at once* (`MergeIs`): what is written behind the marks, sorted and without doubles, gives the union, though only some of the cells were in order.
*Toggling* (`WalkStep`): while the list is walked, the cell compared with is that of the least mark not met yet, or the one behind the
last; so what is copied is what is not marked, and it fits the new array (`ToggleIs`). *The thread* (`ThreadIs`): up and down the
links the walk meets exactly what `MarkSet` defines by closed sets: `Lineage`, the messages gone back to, whose
least number is `Origin`, and `Answers`, all below it.

### Areas (`AreasProofs`)

For any areas, kinds of semaphores and messages, from
`AreaAssumption` (there is an area: without one the program ends when it has read its configuration,
`geinit.cpp:1388`) and `OrderAssumption` (AREASCANSORT is an order of all areas, each once):

| theorem | property |
|---|---|
| `NoneOverlooked` | `NothingOverlooked`: the list is shown and no semaphore is left, so all that one asked for is counted |
| `NoneLost` | `NothingLost`: no step, a kill in the middle of a move included, removes a message from all areas |
| `CurrentScanned` | `ScansCurrent`: the scan of the area under the bar counts that one |
| `BarStays` | `BarKept`: when it is over, the bar is on that area, wherever the sort has put it |
| `AreasTyped` | `TypeOK`: the list stays a permutation of the areas with the bar in it, and at most two areas are open |
| `AreasInvariance` | `IInv`, the inductive invariant |

*The invariant.* `NothingOverlooked` speaks of a moment when no file is left, so the invariant
says for every message that is owed who will still count it (`Accounted`): it is counted, a file
asks for it, or it is on the list of SCANTHIS that was read into memory and its area is still
ahead of the scan. The other semaphores are removed after their scan: `AheadOrKnown` says
what that scan has reached while the file is there, and that it does not count if it was cut
short or overtaken by another request (`again`). `ListRead` is the time between reading and
removing that list. `ScanPlace` ties the mode of a scan to the semaphore and fixes the order of the
list during it. For moves, `CopySaved` says that the message to delete is in the destination, and
that this is another area. Most actions only add to what is counted and leave
the program outside scans (`Rests`, `Quiet`, `UserQuiet`); the scan, the removal of files and
the two halves of a move have a proof of their own.

`TypeOK` is not inductive, and neither it nor `BarKept` follows from `IInv`. `TypeInv` adds `Filed`,
the bound on the messages of base and packet together (an import gives them the numbers that come next), and
`Shown`: `open` has at most one area, except while messages are moved, when it has `OrigArea` and `op.dest`
at most (a refused scan makes an area current that is not open, so no tighter bound is true); what a scan
remembers of the list (`currno`, `stecho`) was on it; and the list is an `OrderOf` all areas. For the
latter, `SortedIs` proves that areas with new mail and the others, each in order, make one list of all; such a list is
sorted by ranks (`InOrderRises` of `Counting`), as no step of a sort can be cited. In such a list `AreaIdToNo` finds every area
(`OrderPlaces`), which is what `BarStays` needs.

### Squish (`SquishBaseProofs`)

For any calls, limits, ways of recycling, sizes of messages and of the frames' headers, and any bounds, from `BaseAssumption` and
`SizeAssumption`. Shared by any programs, any of which may be killed:

| theorem | states | besides |
|---|---|---|
| `SquishLocked` | `LockHeld`: a program has byte 0 of the `.sqd` locked exactly while it is between `::lock` and `::unlock` | |
| `FramesLocked` | `FramesGuarded`: the frames change only while one program has the lock and no other is inside | |
| `SquishWithin` | `KeepsLimit`: a post leaves an area with a limit within it | a base that is there already |
| `SquishProtects` | `KeepsProtected`: what is deleted for it is none of the protected messages | the same, and nobody is killed |

Used by one program that is not killed (`Alone`):

| theorem | states | besides |
|---|---|---|
| `SquishTypes` | `TypeOK` | |
| `SquishChained` | `MessageChain`, `FreeChain`: frames are chained as in the index, and the free ones from first to last | |
| `SquishFills` | `Tiled`: the frames of the two chains fill the file, and none overlaps another | |
| `SquishFinds` | `IndexFound`, `Readable`: bisecting the index finds the numbers in it and no others, and a frame holds the message it is found for | |
| `SquishBounded` | `StopsGrowing`: with messages of one size and a limit the file stops growing | a new base has no limit |
| `SquishIsList` | `ListImplemented`: the base is a list of messages in the order posted (the Squish part of `AreLists`) | |

*The lock.* The base record and the index are left out of `FramesGuarded` with reason: they are written after the lock
is gone, which findings 2 and 3 rest on. `LockHeld` is inductive with the
domains of `pc` and `islocked`; each step either keeps the lock and stays on its side of it
(`Keeps`) or lets go (`LetsGo`).

*Sound bases.* `Sound` says, of a table of frames, a base record, an index and the free chain given as a sequence: each of the two is a
`Chain`, linked both ways from first to last; they share no frame; what hangs in the first is a message
with the number of its index entry, in the second free; the numbers rise and are below the next one; and the frames `Tile` the file: every
unit between the base record and the end is in exactly one of them. The free chain is not a variable of the driver,
it is what following the links gives, so the invariant says that there is one. What is proved of the allocator, operator by
operator: freeing a frame puts it behind the free chain (`add_to_free_chain`); deleting takes one
out of the messages' chain; a search over the free chain finds a stretch of frames that lie one behind the other in the file, and takes it out as a
whole, or leaves the rest as a frame of its own (`excess_frm`), or there is none and the file is made
longer. All of them exchange some elements of a chain (`Spliced`, `Relinked`), and some
frames for others that take up the same units (`Exchanged`); that chains and tilings stay what they are is shown once for these.
In the merging `Span` the free chain need not be in file order: frames that follow each
other in both are merged, and the proof covers the others.

*The invariant.* `SoundInv` says that there are a base record, an index and a free chain that are sound with the frames,
and ties them to files and copies at each place of the program (`Good`): outside the lock they are on file and, once opened,
in its copies; inside only in the copies, as `unlock` writes them last; at `place` a frame
has been taken and is in neither chain (`HasRoom`). `Grown` adds, for messages of one size, that all frames have one length, and that the file was only made longer
when there was no free frame and the limit allowed one more message. Each step leads to such a
base again and does to the list of messages one thing at most (`Result`): nothing, an
`Append` with the next number, or a `RemoveAt`. A message rewritten in its place or in another frame keeps number,
text and index entry, so that is nothing. The base at the start is sound as well, `Posted` frames
one behind the other.

*Loops.* `Span`, `FindSpan`, `find_msgn` and the reading of chains are recursive functions, of which nothing is known until it is shown that they exist.
`LoopExists` of `Counting` gives that for any function that follows a loop, ended or not. What they compute follows by `Induction`: on the part of the free chain
ahead, and on the width of what is bisected.

*Limits.* `LimInv` is much weaker than `SoundInv` and therefore holds for any programs and kills: the copies of a program have as many index
entries as they count messages, and room was made before a frame is taken. A program that deleted the protected messages'
frames for another is not excluded by it; the copies it works on are.

### Numbers and lists (`Counting`)

The provers cannot instantiate the library's induction over a predicate. `LeastNumber` takes it
from well-founded sets instead, and gives `Induction` over a set of numbers. From that
follow that the members of a finite set have the ranks from 1 to its cardinality, each one
once (so `Nth` is defined); that a list without doubles in ascending order is
determined by its set; and what appending to it or taking from it gives. `LoopExists`: a recursive function that
follows a loop and takes its value at the end exists, whether the loop ends from everywhere or not (the
least family of sets of values that is closed under the loop has at most one value at each point).
`RecursionExists` gives the same for a recursion that looks at what has a smaller rank, such as the walks along the links.

### Model-checked only

- Liveness (`LockReleased`, `SemaphoreSeen`): under fairness, which is beyond the provers.
- What the code does where a property fails: the runs that expect a violation (section 4), and so the marks after a toggle with
  an unclean array.

## 6. Assumptions and what is not modelled

- Sharing is on (`SHAREMODE`, `WideCanLock`): without it there is no lock and nothing
  is promised. Other programs run the same driver.
- A read or a write of one record is atomic; files do not lose completed writes.
- Squish: fewer messages are protected than the limit allows (`BaseAssumption`);
  else the code reads behind the index.
- Hudson: programs are not killed in the middle of a save (the checks at the next start are not
  modelled), HUDSONSYSPATH, HUDSONPATH and the working directory are one in the runs.
- Marks: a message replies to an older one, and is replied to by newer ones (`LinkAssumption`); on links in a
  circle `recursive_mark` does not end.
- *.MSG: one program at a time in the runs; renumbering is not interrupted.
- Not modelled, and why: within the drivers, texts, the lastread file of JAM and Squish, highwater marks, the low
  number and the total of msginfo, and two boards open in one program;
  Ezycom, PCBoard, WildCat, AdeptXBBS, Synchronet (seldom
  met, and the same calls); the editor's undo history and the nodelist lookup (sequential; not
  reached); configuration, screen, charsets, packet formats, user records, vendored code
  (formats, input and output, functions of bytes), which are most of the source. `PROJECT.json` has every component with its status.

## 7. What could follow

1. *Lastread files*: JAM `.jlr` slots and Squish `.sql` for several users (`gmojamm2.cpp:215`).
2. *Undo*: the editor's undo stack over a history of texts; *Nodelist*: lookup
   and browsing against a sorted sequence.
3. *Kills* in Hudson, with the checks of `_HudsWide::init` at the next start.
4. Theorems: the locks and lists of *.MSG shared by several programs, once they are modelled.
