----------------------------- MODULE MCDrivers -----------------------------
(***************************************************************************)
(* An area with a base of each kind in turn (the driver behind an area is  *)
(* chosen once, from the configuration: AreaList::NewArea and the          *)
(* classes of gmoarea.h), and one program that has it to itself, or        *)
(* several.  The variables of the other drivers are unused.                *)
(***************************************************************************)
EXTENDS MCFidoBase, SquishRecords

CONSTANTS Programs,      \* those that have the base
          NoProc, path

VARIABLES kind,                                          \* the driver
          holder, islocked, info, data,                  \* of several drivers
          jhr, jdx, jdt, wild, hdrinfo,                  \* JamBase
          frm, sqb, sqi, recycle,                        \* SquishBase
          hdr, idx, lastrecs, lists, seen, PMrk          \* HudsBase

jam    == <<jhr, jdx, jdt, wild, hdrinfo>>
squish == <<frm, sqb, sqi, recycle>>
huds   == <<hdr, idx, lastrecs, lists, seen, PMrk>>
fido   == <<dir, lastreads, Msgn, lastread, history>>
allvars == <<kind, pc, op, msg, holder, islocked, info, data, jam, squish, huds, fido>>

ASSUME ProgramAssumption == golded \in Programs /\ NoProc \notin Programs

\* One program alone makes more calls than several that share a base.
Alone     == Programs = {golded}
For(a, b) == IF Alone THEN a ELSE b

\* A new JAM base, or an existing one where deleted messages keep their text.
Jam == INSTANCE JamBaseProofs WITH
    Proc <- Programs, HardDelete <- Alone, Blank <- Alone,
    Calls <- For({"new", "hdr", "txt", "del", "timesread", "close", "suspend"},
                 {"new", "txt", "del"}),
    MayCrash <- {}, MaxMsg <- For(3, 2), MaxHdr <- For(4, 2), MaxActive <- For(4, 3)

\* A Squish base without a limit, and one with a limit of three messages.
Squish == INSTANCE SquishBaseProofs WITH
    Proc <- Programs, Blank <- FALSE, Posted <- 2,
    MaxMsgs <- 0, ProtMsgs <- 0, Recycles <- For(0..3, {1}), Sizes <- For({1, 3}, {1}),
    Calls <- For({"new", "hdr", "txt", "del", "timesread"}, {"hdr", "del", "timesread", "lock"}),
    MayCrash <- For({}, {golded}), MaxNumber <- For(5, 3), MaxEnd <- For(12, 6)
Limited == INSTANCE SquishBaseProofs WITH
    Proc <- {golded}, Blank <- FALSE, Posted <- 4,
    MaxMsgs <- 3, ProtMsgs <- 1, Recycles <- 0..3, Sizes <- {1},
    Calls <- {"new", "hdr", "txt", "del", "timesread", "lock"}, MayCrash <- {},
    MaxNumber <- 7, MaxEnd <- 20

\* A Hudson base with a netmail and an echo board, or with one local board and two
\* messages; all files are in one directory.
Hudson == INSTANCE HudsBaseProofs WITH
    Proc <- Programs, NetBoards <- For({1}, {}), EchoBoards <- For({2}, {}),
    LocalBoards <- For({}, {1}), FirstMsgs <- For(<<1>>, <<1, 1>>), Personal <- For({2}, {}),
    Path <- path, Syspath <- path, Cwd <- path, MaxHdr <- 3,
    Calls <- For({"new", "hdr", "del", "timesread", "lock", "suspend", "pm"},
                 {"new", "hdr", "del"})

NoJam    == jhr = 0 /\ jdx = 0 /\ jdt = 0 /\ wild = 0 /\ hdrinfo = 0
NoSquish == frm = 0 /\ sqb = 0 /\ sqi = 0 /\ recycle = 0
NoHuds   == hdr = 0 /\ idx = 0 /\ lastrecs = 0 /\ lists = 0 /\ seen = 0 /\ PMrk = 0
NoFido   == /\ dir = 0 /\ lastreads = 0 /\ Msgn = 0 /\ lastread = 0
            /\ answers = 0 /\ unread = 0 /\ renumbered = 0

DriverInit ==
    \/ /\ kind = "FIDO" /\ Alone /\ Init
       /\ NoJam /\ NoSquish /\ NoHuds /\ holder = 0 /\ islocked = 0 /\ info = 0 /\ data = 0
    \/ /\ kind = "JAM" /\ Jam!Init
       /\ NoFido /\ NoSquish /\ NoHuds /\ data = 0
    \/ /\ kind = "SQUISH" /\ Squish!Init
       /\ NoFido /\ NoJam /\ NoHuds /\ info = 0 /\ msg = 0
    \/ /\ kind = "LIMITED" /\ Alone /\ Limited!Init
       /\ NoFido /\ NoJam /\ NoHuds /\ info = 0 /\ msg = 0
    \/ /\ kind = "HUDSON" /\ Hudson!Init
       /\ NoFido /\ NoJam /\ NoSquish

DriverNext ==
    /\ UNCHANGED kind
    /\ \/ kind = "FIDO"    /\ Next
                           /\ UNCHANGED <<jam, squish, huds, holder, islocked, info, data>>
       \/ kind = "JAM"     /\ Jam!Next     /\ UNCHANGED <<fido, squish, huds, data>>
       \/ kind = "SQUISH"  /\ Squish!Next  /\ UNCHANGED <<fido, jam, huds, info, msg>>
       \/ kind = "LIMITED" /\ Limited!Next /\ UNCHANGED <<fido, jam, huds, info, msg>>
       \/ kind = "HUDSON"  /\ Hudson!Next  /\ UNCHANGED <<fido, jam, squish>>

DriverSpec == DriverInit /\ [][DriverNext]_allvars
-----------------------------------------------------------------------------
\* What the drivers' modules state of their own states, first for one program
\* alone.  Every variable of *.MSG and of Squish has its type.
DriverTypes == (kind = "FIDO" => TypeOK) /\ (kind = "SQUISH" => Squish!TypeOK)

\* *.MSG and Hudson: a message nobody has read is not taken for read, though
\* numbers move and are given again (del_msg of gmofido4.cpp, msginfo of
\* gmohuds4.cpp).
NobodyMisses == /\ kind = "FIDO"   => NothingHidden
                /\ kind = "HUDSON" => Hudson!NothingHidden

\* *.MSG, Squish and Hudson: whatever the files look like inside, they are a
\* list of messages, in the order posted.
AreLists ==
    /\ /\ kind = "FIDO" => List!Init
       /\ [][kind = "FIDO" => [List!Next]_(List!vars)]_allvars
    /\ /\ kind = "SQUISH" => Squish!List!Init
       /\ [][kind = "SQUISH" => [Squish!List!Next]_(Squish!List!vars)]_allvars
    /\ /\ kind = "HUDSON" => Hudson!List!Init
       /\ [][kind = "HUDSON" => [Hudson!List!Next]_(Hudson!List!vars)]_allvars

\* *.MSG: deleting keeps the chain of replies in one piece.
FidoLinksKept == kind = "FIDO" => LinksKept

\* JAM: as many messages are active as the header file says ...
JamActiveMsgs == kind = "JAM" => Jam!ActiveMsgs
\* ... and each header is stored with the subfields it counts, has a text of its
\* own, and is written where there is one (save_message, update_timesread).
JamContents   == kind = "JAM" => Jam!SubfieldsStored /\ Jam!TextOwned /\ Jam!NoWildWrite

\* Squish: the frames of messages are chained both ways, in the index's order,
\* and so are the free ones ...
SquishChains == kind = "SQUISH" => Squish!MessageChain /\ Squish!FreeChain
\* ... which together fill the file ...
SquishTiled  == kind = "SQUISH" => Squish!Tiled
\* ... and a position of the list leads to its message, which can be read.
SquishFound  == kind = "SQUISH" => Squish!IndexFound /\ Squish!Readable

\* Squish with a limit: the file stops growing ...
SquishStops  == kind = "LIMITED" => Limited!StopsGrowing
\* ... and a post leaves the area within its limit, but never deletes one of the
\* first, protected messages.
SquishLimits == [][kind = "LIMITED" => Limited!KeepsLimit /\ Limited!KeepsProtected]_allvars

\* Hudson: between calls headers and index match ...
HudsonIndex    == kind = "HUDSON" => Hudson!IndexSound
\* ... msginfo counts what there is, board by board, and the list is not cut
\* short by it ...
HudsonList     == kind = "HUDSON" => Hudson!CountsSound /\ Hudson!ListKept
\* ... the scanning files name what is unsent ...
HudsonScanning == kind = "HUDSON" => Hudson!ScanningFiles
\* ... and personal mail is found.
HudsonPersonal == [][kind = "HUDSON" => Hudson!FindsPersonal]_allvars

\* What they promise of a shared base: a program has the lock exactly while it is
\* in a call that takes it, or has locked the area.  So two are never in such
\* calls at once, and none goes on to have it.  Squish: with update_timesread and
\* Area::Lock, and one program killed anywhere; up to the unlock, which comes
\* before the base record and the index are written.  Hudson: while it saves or
\* deletes.  JAM: the same, and with Area::Lock ...
LocksHeld    == /\ kind = "SQUISH" => Squish!LockHeld
                /\ kind = "HUDSON" => Hudson!MutualExclusion
                /\ kind = "JAM"    => Jam!LockInv
\* ... Hudson: while one program writes, header, index and msginfo stay such
\* that between calls headers and index match ...
HudsonInv    == kind = "HUDSON" => Hudson!IInv
\* ... and msginfo counts what there is ...
HudsonCounts == kind = "HUDSON" => Hudson!CountsSound
\* ... JAM: no two messages share text ...
JamTextOwned == kind = "JAM" => Jam!TextOwned
\* ... a program inside the lock works on the counts on file ...
JamCounts    == kind = "JAM" => Jam!HdrinfoFresh
\* ... and no header takes the place of another message's.
JamHeaders   == [][kind = "JAM" => Jam!KeepsHeaders]_allvars
=============================================================================
