--------------------------- MODULE MCDriversProofs ---------------------------
(***************************************************************************)
(* Proofs about MCDrivers: what its runs check of one program alone with a *)
(* base, or of several that share it, by the steps of the drivers' own     *)
(* proofs.  What is said of several programs holds for any.                *)
(***************************************************************************)
EXTENDS MCDrivers, FidoBaseProofs

\* The inductive invariants of the driver in use: of any programs ...
SharedInv ==
    /\ kind = "SQUISH" => Squish!IInv
    /\ kind = "HUDSON" => Hudson!IInv /\ (~Alone => Hudson!CountInv)
    /\ kind = "JAM"    => Jam!IInv /\ Jam!TextInv /\ (~Alone => Jam!FreshInv)

\* ... and of one alone.
AloneHudson ==
    /\ Hudson!IInv /\ Hudson!CountInv /\ Hudson!ListInv /\ Hudson!HidInv
    /\ Hudson!ListsInv /\ Hudson!IdInv /\ DOMAIN PMrk = {golded}
AloneInv ==
    /\ kind = "HUDSON"  => AloneHudson
    /\ kind = "JAM"     => Jam!IInv /\ Jam!TextInv /\ Jam!AloneInv
    /\ kind = "FIDO"    => FidoInv /\ LinkInv /\ OrderInv
    /\ kind = "SQUISH"  => Squish!SoundInv
    /\ kind = "LIMITED" => Limited!SoundInv /\ Limited!LimInv

-----------------------------------------------------------------------------
\* JAM: the calls, and the other constants.
LEMMA JamCalls ==
    /\ For({"new", "hdr", "txt", "del", "timesread", "close", "suspend"},
           {"new", "txt", "del"}) \subseteq Jam!Modes
    /\ For(3, 2) \in Nat /\ For(4, 2) \in Nat /\ For(4, 3) \in Nat /\ Alone \in BOOLEAN
  BY DEF For, Alone, Jam!Modes

LEMMA JamInit == Jam!Init => /\ Jam!IInv /\ Jam!TextInv
                             /\ Alone => Jam!AloneInv
                             /\ ~Alone => Jam!FreshInv
  BY ProgramAssumption, JamCalls, Jam!InvInit, Jam!TextInit, Jam!AloneInit, Jam!FreshInit

LEMMA JamStep ==
    /\ Jam!IInv /\ [Jam!Next]_(Jam!vars) => Jam!IInv' /\ [Jam!KeepsHeaders]_(Jam!vars)
    /\ Jam!IInv /\ Jam!TextInv /\ [Jam!Next]_(Jam!vars) => Jam!TextInv'
    /\ Jam!IInv /\ Jam!FreshInv /\ [Jam!Next]_(Jam!vars) => Jam!FreshInv'
    /\ Alone => (Jam!IInv /\ Jam!AloneInv /\ [Jam!Next]_(Jam!vars) => Jam!AloneInv')
  <1> USE ProgramAssumption, JamCalls
  <1>1. Jam!IInv /\ [Jam!Next]_(Jam!vars) => Jam!IInv'
    BY Jam!InvStep
  <1>2. Jam!IInv /\ [Jam!Next]_(Jam!vars) => [Jam!KeepsHeaders]_(Jam!vars)
    BY Jam!HeadersNext
  <1>3. Jam!IInv /\ Jam!TextInv /\ [Jam!Next]_(Jam!vars) => Jam!TextInv'
    BY Jam!TextNext
  <1>4. Jam!IInv /\ Jam!FreshInv /\ [Jam!Next]_(Jam!vars) => Jam!FreshInv'
    BY Jam!FreshNext
  <1>5. ASSUME Alone
        PROVE  Jam!IInv /\ Jam!AloneInv /\ [Jam!Next]_(Jam!vars) => Jam!AloneInv'
    <2>1. Jam!Alone
      BY <1>5 DEF Alone, Jam!Alone
    <2> QED BY <2>1, Jam!AloneNext
  <1> QED BY <1>1, <1>2, <1>3, <1>4, <1>5

-----------------------------------------------------------------------------
\* Hudson: several programs have one board.
LEMMA HudsonAssumption == Hudson!BaseAssumption
  <1>1. /\ <<1>> \in Seq((({1} \cup {2}) \cup {}))
        /\ <<1, 1>> \in Seq((({} \cup {}) \cup {1}))
    OBVIOUS
  <1>2. CASE Alone
    BY <1>1, <1>2, ProgramAssumption DEF Hudson!BaseAssumption, Hudson!Boards, For
  <1>3. CASE ~Alone
    BY <1>1, <1>3, ProgramAssumption DEF Hudson!BaseAssumption, Hudson!Boards, For
  <1> QED BY <1>2, <1>3

LEMMA HudsonAlone == /\ Hudson!OneDir /\ (Alone => Hudson!OneProgram)
                     /\ ~Alone => Hudson!OneBoard
  BY DEF Hudson!OneProgram, Hudson!OneDir, Hudson!OneBoard, Hudson!Boards, Alone, For

LEMMA HudsonInit == Hudson!Init => /\ Hudson!IInv /\ Hudson!CountInv
                                   /\ Alone => AloneHudson
  <1> SUFFICES ASSUME Hudson!Init PROVE Hudson!IInv /\ Hudson!CountInv /\ (Alone => AloneHudson)
    OBVIOUS
  <1>1. Hudson!IInv /\ Hudson!CountInv /\ Hudson!ListInv /\ Hudson!ListsInv
    BY HudsonAssumption, Hudson!InvInit, Hudson!CountInit, Hudson!ListInit, Hudson!ListsInit
  <1>2. Hudson!HidInv
    BY HudsonAssumption, Hudson!HidInit DEF Hudson!HidInv
  <1>3. Alone => DOMAIN PMrk = {golded}
    BY DEF Hudson!Init, Alone
  <1>4. Hudson!IdInv
    BY HudsonAssumption, Hudson!IdInit
  <1> QED BY <1>1, <1>2, <1>3, <1>4 DEF AloneHudson

LEMMA HudsonStep ==
    ASSUME Hudson!IInv, [Hudson!Next]_(Hudson!hvars)
    PROVE  /\ Hudson!IInv'
           /\ ~Alone /\ Hudson!CountInv => Hudson!CountInv'
  <1>1. Hudson!IInv'
    BY HudsonAssumption, Hudson!InvStep
  <1>2. ASSUME ~Alone, Hudson!CountInv PROVE Hudson!CountInv'
    BY <1>2, HudsonAlone, Hudson!CountStep
  <1> QED BY <1>1, <1>2

LEMMA AloneHudsonStep ==
    ASSUME Alone, AloneHudson, [Hudson!Next]_(Hudson!hvars)
    PROVE  AloneHudson' /\ Hudson!FindsPersonal /\ [Hudson!List!Next]_(Hudson!List!vars)
  <1> USE HudsonAssumption, HudsonAlone
  <1>0. Programs = {golded}
    BY DEF Alone
  <1>1. /\ Hudson!IInv /\ Hudson!CountInv /\ Hudson!ListInv /\ Hudson!HidInv
        /\ Hudson!ListsInv /\ Hudson!IdInv /\ DOMAIN PMrk = Programs
    BY <1>0 DEF AloneHudson
  <1>2. Hudson!IInv'
    BY <1>1, Hudson!InvStep
  <1>3. Hudson!CountInv'
    BY <1>1, Hudson!CountNext, Hudson!ListOwns
  <1>4. Hudson!ListInv'
    BY <1>1, Hudson!ListStep
  <1>5. Hudson!HidInv'
    BY <1>1, Hudson!HidStep
  <1>6. Hudson!ListsInv'
    BY <1>1, Hudson!ListsStep
  <1>7. DOMAIN PMrk' = Programs /\ [Hudson!FindsPersonal]_(Hudson!hvars)
    BY <1>1, Hudson!PmStep
  <1>8. UNCHANGED Hudson!hvars => Hudson!FindsPersonal
    BY DEF Hudson!hvars, Hudson!FindsPersonal
  <1>9. Hudson!IdInv' /\ [Hudson!List!Next]_(Hudson!List!vars)
    BY <1>1, Hudson!HudsonListStep
  <1> QED BY <1>0, <1>2, <1>3, <1>4, <1>5, <1>6, <1>7, <1>8, <1>9 DEF AloneHudson

-----------------------------------------------------------------------------
\* Squish.
LEMMA SquishAssumption == Squish!BaseAssumption
  <1>1. /\ NoProc \notin Programs /\ For({}, {golded}) \subseteq Programs
        /\ For({"new", "hdr", "txt", "del", "timesread"}, {"hdr", "del", "timesread", "lock"})
              \subseteq Squish!AllCalls
        /\ For({1, 3}, {1}) \subseteq Nat \ {0} /\ For({1, 3}, {1}) # {}
    BY ProgramAssumption DEF For, Squish!AllCalls
  <1>2. For(0..3, {1}) \subseteq {Squish!SQUISHRECYCLE_NO, Squish!SQUISHRECYCLE_YES,
                     Squish!SQUISHRECYCLE_MSGAPI1, Squish!SQUISHRECYCLE_MSGAPI2}
    BY DEF For, Squish!SQUISHRECYCLE_NO, Squish!SQUISHRECYCLE_YES,
           Squish!SQUISHRECYCLE_MSGAPI1, Squish!SQUISHRECYCLE_MSGAPI2
  <1> QED BY <1>1, <1>2 DEF Squish!BaseAssumption

LEMMA SquishSteps ==
    /\ Squish!Init => Squish!IInv
    /\ Squish!IInv /\ [Squish!Next]_(Squish!vars) => Squish!IInv'
  <1>1. Squish!Init => Squish!IInv
    BY SizeAssumption, SquishAssumption, Squish!InvInit
  <1>2. Squish!IInv /\ [Squish!Next]_(Squish!vars) => Squish!IInv'
    BY SizeAssumption, Squish!InvStep
  <1> QED BY <1>1, <1>2

LEMMA LimitedAssumption == Limited!BaseAssumption
  <1>1. /\ NoProc \notin {golded} /\ {} \subseteq {golded} /\ {1} \subseteq Nat \ {0} /\ {1} # {}
        /\ {"new", "hdr", "txt", "del", "timesread", "lock"} \subseteq Limited!AllCalls
    BY ProgramAssumption DEF Limited!AllCalls
  <1>2. 0..3 \subseteq {Limited!SQUISHRECYCLE_NO, Limited!SQUISHRECYCLE_YES,
                     Limited!SQUISHRECYCLE_MSGAPI1, Limited!SQUISHRECYCLE_MSGAPI2}
    BY DEF Limited!SQUISHRECYCLE_NO, Limited!SQUISHRECYCLE_YES,
           Limited!SQUISHRECYCLE_MSGAPI1, Limited!SQUISHRECYCLE_MSGAPI2
  <1> QED BY <1>1, <1>2 DEF Limited!BaseAssumption

LEMMA SquishAlone == Limited!Alone /\ (Alone => Squish!Alone)
  <1>1. {golded} = {golded}
    OBVIOUS
  <1>2. Limited!Alone
    BY <1>1 DEF Limited!Alone
  <1>3. ASSUME Alone PROVE Squish!Alone
    <2>1. Programs = {golded} /\ For({}, {golded}) = {}
      BY <1>3 DEF Alone, For
    <2> QED BY <2>1 DEF Squish!Alone
  <1> QED BY <1>2, <1>3

LEMMA SquishInit ==
    /\ Squish!Init => Squish!SoundInv
    /\ Limited!Init => Limited!SoundInv /\ Limited!LimInv
  <1>1. Squish!Init => Squish!SoundInv
    BY SizeAssumption, SquishAssumption, Squish!InitSound
  <1>2. Limited!Init => Limited!SoundInv
    BY SizeAssumption, LimitedAssumption, Limited!InitSound
  <1>3. Limited!Init => Limited!LimInv
    BY SizeAssumption, LimitedAssumption, Limited!LimInit
  <1> QED BY <1>1, <1>2, <1>3

LEMMA AloneSquishStep ==
    ASSUME Alone, Squish!SoundInv, [Squish!Next]_(Squish!vars)
    PROVE  Squish!SoundInv' /\ [Squish!List!Next]_(Squish!List!vars)
  <1>1. Squish!SoundInv'
    BY SizeAssumption, SquishAssumption, SquishAlone, Squish!SoundNext
  <1>2. [Squish!List!Next]_(Squish!List!vars)
    BY SizeAssumption, SquishAssumption, SquishAlone, Squish!SquishListStep
  <1> QED BY <1>1, <1>2

LEMMA LimitedStep ==
    ASSUME Limited!SoundInv, Limited!LimInv, [Limited!Next]_(Limited!vars)
    PROVE  /\ Limited!SoundInv' /\ Limited!LimInv'
           /\ Limited!KeepsLimit /\ Limited!KeepsProtected
  <1>1. Limited!SoundInv'
    BY SizeAssumption, LimitedAssumption, SquishAlone, Limited!SoundNext
  <1>2. Limited!LimInv' /\ Limited!KeepsLimit /\ Limited!KeepsProtected
    BY SizeAssumption, LimitedAssumption, Limited!LimNext
  <1> QED BY <1>1, <1>2

-----------------------------------------------------------------------------
\* Nothing happens to the driver in use, if nothing happens at all.
LEMMA Stutters ==
    UNCHANGED allvars => UNCHANGED <<kind, Hudson!hvars, Jam!vars, Squish!vars, Limited!vars, vars>>
  BY DEF allvars, huds, jam, squish, fido, Hudson!hvars, Hudson!files, Jam!vars,
         Squish!vars, Squish!files, Limited!vars, Limited!files, vars

LEMMA DriverSteps ==
    ASSUME [DriverNext]_allvars
    PROVE  /\ UNCHANGED kind
           /\ kind = "HUDSON" => [Hudson!Next]_(Hudson!hvars)
           /\ kind = "JAM"    => [Jam!Next]_(Jam!vars)
           /\ kind = "SQUISH" => [Squish!Next]_(Squish!vars)
           /\ kind = "LIMITED" => [Limited!Next]_(Limited!vars)
           /\ kind = "FIDO"   => [Next]_vars
  BY Stutters DEF DriverNext

LEMMA DriverInits == DriverInit => SharedInv /\ (Alone => AloneInv)
  <1> SUFFICES ASSUME DriverInit PROVE SharedInv /\ (Alone => AloneInv)
    OBVIOUS
  <1>1. CASE kind = "JAM" /\ Jam!Init
    BY <1>1, JamInit DEF SharedInv, AloneInv
  <1>2. CASE kind = "HUDSON" /\ Hudson!Init
    BY <1>2, HudsonInit DEF SharedInv, AloneInv
  <1>3. CASE kind = "FIDO" /\ Init
    BY <1>3, FidoInit, LinkInit, OrderInit DEF SharedInv, AloneInv
  <1>4. CASE kind = "SQUISH" /\ Squish!Init
    BY <1>4, SquishSteps, SquishInit DEF SharedInv, AloneInv
  <1>5. CASE kind = "LIMITED" /\ Limited!Init
    BY <1>5, SquishInit DEF SharedInv, AloneInv
  <1> QED BY <1>1, <1>2, <1>3, <1>4, <1>5 DEF DriverInit

LEMMA SharedInvStep == SharedInv /\ [DriverNext]_allvars => SharedInv'
  <1> SUFFICES ASSUME SharedInv, [DriverNext]_allvars PROVE SharedInv'
    OBVIOUS
  <1>1. CASE kind = "SQUISH"
    BY <1>1, DriverSteps, SquishSteps DEF SharedInv
  <1>2. CASE kind = "HUDSON"
    BY <1>2, DriverSteps, HudsonStep DEF SharedInv
  <1>3. CASE kind = "JAM"
    BY <1>3, DriverSteps, JamStep DEF SharedInv
  <1>4. CASE kind \notin {"SQUISH", "HUDSON", "JAM"}
    BY <1>4, DriverSteps DEF SharedInv
  <1> QED BY <1>1, <1>2, <1>3, <1>4

LEMMA AloneInvStep == ASSUME Alone PROVE AloneInv /\ [DriverNext]_allvars => AloneInv'
  <1> SUFFICES ASSUME AloneInv, [DriverNext]_allvars PROVE AloneInv'
    OBVIOUS
  <1>1. CASE kind = "JAM"
    BY <1>1, DriverSteps, JamStep DEF AloneInv
  <1>2. CASE kind = "HUDSON"
    BY <1>2, DriverSteps, AloneHudsonStep DEF AloneInv
  <1>3. CASE kind = "FIDO"
    BY <1>3, DriverSteps, FidoListStep, LinkStep DEF AloneInv
  <1>4. CASE kind = "SQUISH"
    BY <1>4, DriverSteps, AloneSquishStep DEF AloneInv
  <1>5. CASE kind = "LIMITED"
    BY <1>5, DriverSteps, LimitedStep DEF AloneInv
  <1>6. CASE kind \notin {"JAM", "HUDSON", "FIDO", "SQUISH", "LIMITED"}
    BY <1>6, DriverSteps DEF AloneInv
  <1> QED BY <1>1, <1>2, <1>3, <1>4, <1>5, <1>6

LEMMA SharedInvariance == DriverSpec => []SharedInv
  <1>1. DriverInit => SharedInv
    BY DriverInits
  <1> QED BY <1>1, SharedInvStep, PTL DEF DriverSpec

LEMMA AloneInvariance == ASSUME Alone PROVE DriverSpec => []AloneInv
  <1>1. DriverInit => AloneInv
    BY DriverInits
  <1>2. AloneInv /\ [DriverNext]_allvars => AloneInv'
    BY AloneInvStep
  <1> QED BY <1>1, <1>2, PTL DEF DriverSpec

-----------------------------------------------------------------------------
\* Of the programs that share a base, one has the lock exactly while it is in a
\* call that takes it or has locked the area, whatever is called and, if it is a
\* Squish base, wherever one of them is killed.
THEOREM SharedLocks == DriverSpec => []LocksHeld
  <1>1. SharedInv => LocksHeld
    BY DEF SharedInv, LocksHeld, Squish!IInv, Hudson!IInv, Jam!IInv
  <1> QED BY <1>1, SharedInvariance, PTL

\* In a Hudson base headers and index match between calls, and while one program
\* writes them all it knows of them stays true.
THEOREM SharedHudson == DriverSpec => []HudsonInv
  <1>1. SharedInv => HudsonInv
    BY DEF SharedInv, HudsonInv
  <1> QED BY <1>1, SharedInvariance, PTL

\* Its msginfo counts the messages of the index, whether one program has the base
\* or several share a board of it.
THEOREM SharedHudsonCounts == DriverSpec => []HudsonCounts
  <1>1. ASSUME ~Alone PROVE SharedInv => HudsonCounts
    BY <1>1, Hudson!CountsFollow DEF SharedInv, HudsonCounts
  <1>2. ASSUME Alone PROVE AloneInv => HudsonCounts
    BY Hudson!CountsFollow DEF AloneInv, AloneHudson, HudsonCounts
  <1>3. CASE Alone
    BY <1>2, <1>3, AloneInvariance, PTL
  <1>4. CASE ~Alone
    BY <1>1, <1>4, SharedInvariance, PTL
  <1> QED BY <1>3, <1>4

\* In a JAM base two live messages never share a text, whatever the programs
\* rewrite and delete.
THEOREM SharedJamTexts == DriverSpec => []JamTextOwned
  <1>1. Jam!IInv /\ Jam!TextInv => Jam!TextOwned
    BY ProgramAssumption, JamCalls, Jam!TextDone
  <1>2. SharedInv => JamTextOwned
    BY <1>1 DEF SharedInv, JamTextOwned
  <1> QED BY <1>2, SharedInvariance, PTL

\* A program inside the lock of a JAM base that several share, and that is there
\* already, works on the counts on file.
THEOREM SharedJamCounts == ASSUME ~Alone PROVE DriverSpec => []JamCounts
  <1>1. SharedInv => JamCounts
    BY DEF SharedInv, JamCounts, Jam!FreshInv
  <1> QED BY <1>1, SharedInvariance, PTL

\* No header of a JAM base takes the place of another message's.
THEOREM SharedJamHeaders == DriverSpec => JamHeaders
  <1>1. SharedInv /\ [DriverNext]_allvars => [kind = "JAM" => Jam!KeepsHeaders]_allvars
    <2> SUFFICES ASSUME SharedInv, DriverNext, kind = "JAM" PROVE Jam!KeepsHeaders \/ UNCHANGED allvars
      OBVIOUS
    <2>1. Jam!Next /\ UNCHANGED <<kind, fido, squish, huds, data>>
      BY DEF DriverNext
    <2>2. [Jam!KeepsHeaders]_(Jam!vars)
      BY <2>1, JamStep DEF SharedInv
    <2>3. UNCHANGED Jam!vars => UNCHANGED allvars
      BY <2>1 DEF allvars, fido, squish, jam, huds, Jam!vars
    <2> QED BY <2>2, <2>3
  <1> QED BY <1>1, SharedInvariance, PTL DEF DriverSpec, JamHeaders

-----------------------------------------------------------------------------
\* *.MSG and Hudson: what lies at a lastread pointer or below has been read, so
\* that opening the area hides nothing from its user; nor from the other users
\* of *.MSG, until it is renumbered.
THEOREM DriverNobodyMisses == ASSUME Alone PROVE DriverSpec => []NobodyMisses
  <1>1. kind = "HUDSON" /\ AloneHudson => Hudson!NothingHidden
    BY DEF AloneHudson, Hudson!HidInv, Hudson!HidLocal, Hudson!SeenTo, Hudson!NothingHidden
  <1>2. AloneInv => NobodyMisses
    BY <1>1, FidoHides DEF AloneInv, NobodyMisses
  <1> QED BY <1>2, AloneInvariance, PTL

\* *.MSG, until it is renumbered: while nobody changes links, a message is linked
\* to a reply that is there and answers it, and what a message answers is of its
\* own thread, though messages between are deleted and numbers given again.
THEOREM DriverFidoLinks == ASSUME Alone PROVE DriverSpec => []FidoLinksKept
  <1>1. AloneInv => FidoLinksKept
    BY LinksFollowInv DEF AloneInv, FidoLinksKept
  <1> QED BY <1>1, AloneInvariance, PTL

\* JAM: while it is not writing, activemsgs is the number of the messages not
\* deleted.
THEOREM DriverJamActive == ASSUME Alone PROVE DriverSpec => []JamActiveMsgs
  <1>1. Jam!IInv /\ Jam!AloneInv => Jam!ActiveMsgs
    <2>1. Jam!Alone
      BY DEF Alone, Jam!Alone
    <2> QED BY <2>1, ProgramAssumption, JamCalls, Jam!AloneDone
  <1>2. AloneInv => JamActiveMsgs
    BY <1>1 DEF AloneInv, JamActiveMsgs
  <1> QED BY <1>2, AloneInvariance, PTL

\* JAM: every header has the subfields it announces and a text of its own, and
\* none is written through the index entry of a message deleted for good.
THEOREM DriverJamContents == ASSUME Alone PROVE DriverSpec => []JamContents
  <1>1. Jam!IInv /\ Jam!TextInv => Jam!TextOwned
    BY ProgramAssumption, JamCalls, Jam!TextDone
  <1>2. AloneInv => JamContents
    BY <1>1 DEF AloneInv, JamContents, Jam!AloneInv, Jam!NoWildWrite
  <1> QED BY <1>2, AloneInvariance, PTL

\* Hudson: between calls headers and index match.
THEOREM DriverHudsonIndex == DriverSpec => []HudsonIndex
  <1>1. SharedInv => HudsonIndex
    BY DEF SharedInv, HudsonIndex, Hudson!IInv
  <1> QED BY <1>1, SharedInvariance, PTL

\* Hudson: msginfo counts the messages of each board, and the list of the area
\* is that of its board.
THEOREM DriverHudsonList == ASSUME Alone PROVE DriverSpec => []HudsonList
  <1>1. AloneInv => HudsonList
    BY HudsonAlone, Hudson!CountsFollow, Hudson!ListFollows DEF AloneInv, AloneHudson, HudsonList
  <1> QED BY <1>1, AloneInvariance, PTL

\* Hudson: between calls the scanning files name all that is unsent, and nothing
\* that is deleted.
THEOREM DriverHudsonScanning == ASSUME Alone PROVE DriverSpec => []HudsonScanning
  <1>1. AloneInv => HudsonScanning
    BY HudsonAlone, Hudson!ListsFollow DEF AloneInv, AloneHudson, HudsonScanning
  <1> QED BY <1>1, AloneInvariance, PTL

\* Hudson: a scan for personal mail finds all that is behind the lastread pointers.
THEOREM DriverHudsonPersonal == ASSUME Alone PROVE DriverSpec => HudsonPersonal
  <1>1. AloneInv /\ [DriverNext]_allvars => [kind = "HUDSON" => Hudson!FindsPersonal]_allvars
    BY DriverSteps, AloneHudsonStep DEF AloneInv
  <1> QED BY <1>1, AloneInvariance, PTL DEF DriverSpec, HudsonPersonal

\* *.MSG and Squish, one program alone: every variable keeps its type, whatever
\* is posted, rewritten, deleted and renumbered.
THEOREM DriversTyped == ASSUME Alone PROVE DriverSpec => []DriverTypes
  <1>1. AloneInv /\ kind = "FIDO" => TypeOK
    BY DEF AloneInv, FidoInv, FidoTypes
  <1>2. AloneInv /\ kind = "SQUISH" => Squish!TypeOK
    BY SizeAssumption, SquishAlone, Squish!SoundTypes DEF AloneInv
  <1>3. AloneInv => DriverTypes
    BY <1>1, <1>2 DEF DriverTypes
  <1> QED BY <1>3, AloneInvariance, PTL

\* Squish: the frames of the messages are chained in the order of the index, and
\* the free ones to one another.
THEOREM DriverSquishChains == ASSUME Alone PROVE DriverSpec => []SquishChains
  <1>1. AloneInv => SquishChains
    BY SizeAssumption, Squish!SoundChains DEF AloneInv, SquishChains
  <1> QED BY <1>1, AloneInvariance, PTL

\* Squish: the frames of the two chains fill the file, and no two overlap.
THEOREM DriverSquishTiled == ASSUME Alone PROVE DriverSpec => []SquishTiled
  <1>1. AloneInv => SquishTiled
    BY SizeAssumption, Squish!SoundTiled DEF AloneInv, SquishTiled
  <1> QED BY <1>1, AloneInvariance, PTL

\* Squish: each message is found under its number, and can be read.
THEOREM DriverSquishFound == ASSUME Alone PROVE DriverSpec => []SquishFound
  <1>1. AloneInv => SquishFound
    BY SizeAssumption, Squish!SoundFound, Squish!SoundChains DEF AloneInv, SquishFound
  <1> QED BY <1>1, AloneInvariance, PTL

\* Squish with a limit: the file stops growing.
THEOREM DriverSquishStops == ASSUME Alone PROVE DriverSpec => []SquishStops
  <1>1. AloneInv => SquishStops
    BY SizeAssumption, LimitedAssumption, Limited!SoundStops DEF AloneInv, SquishStops
  <1> QED BY <1>1, AloneInvariance, PTL

\* Squish with a limit: a post leaves the area within it, and deletes none of the
\* first, protected messages.
THEOREM DriverSquishLimits == ASSUME Alone PROVE DriverSpec => SquishLimits
  <1>1. AloneInv /\ [DriverNext]_allvars
        => [kind = "LIMITED" => Limited!KeepsLimit /\ Limited!KeepsProtected]_allvars
    BY DriverSteps, LimitedStep DEF AloneInv
  <1> QED BY <1>1, AloneInvariance, PTL DEF DriverSpec, SquishLimits

\* *.MSG, Squish and Hudson: the base is a list of messages, whatever its files
\* look like inside; a new one goes to the end, and one is removed at a time.
THEOREM DriversAreLists == ASSUME Alone PROVE DriverSpec => AreLists
  <1>1. DriverInit => /\ kind = "FIDO" => List!Init
                      /\ kind = "SQUISH" => Squish!List!Init
                      /\ kind = "HUDSON" => Hudson!List!Init
    <2> SUFFICES ASSUME DriverInit
                 PROVE  /\ kind = "FIDO" => List!Init
                        /\ kind = "SQUISH" => Squish!List!Init
                        /\ kind = "HUDSON" => Hudson!List!Init
      OBVIOUS
    <2>1. ASSUME kind = "FIDO" PROVE List!Init
      BY <2>1, ListInit DEF DriverInit
    <2>2. ASSUME kind = "SQUISH" PROVE Squish!List!Init
      <3>1. Squish!Init
        BY <2>2 DEF DriverInit
      <3> QED BY <3>1, SizeAssumption, SquishAssumption, SquishAlone, Squish!ListInit
    <2>3. ASSUME kind = "HUDSON" PROVE Hudson!List!Init
      <3>1. AloneInv
        BY DriverInits
      <3>2. Hudson!IInv /\ Hudson!IdInv
        BY <2>3, <3>1 DEF AloneInv, AloneHudson
      <3> QED BY <3>2, Hudson!ListBegins
    <2> QED BY <2>1, <2>2, <2>3
  <1>2. AloneInv /\ [DriverNext]_allvars => [kind = "FIDO" => [List!Next]_(List!vars)]_allvars
    BY DriverSteps, FidoListStep DEF AloneInv
  <1>3. AloneInv /\ [DriverNext]_allvars
        => [kind = "SQUISH" => [Squish!List!Next]_(Squish!List!vars)]_allvars
    BY DriverSteps, AloneSquishStep DEF AloneInv
  <1>4. AloneInv /\ [DriverNext]_allvars
        => [kind = "HUDSON" => [Hudson!List!Next]_(Hudson!List!vars)]_allvars
    BY DriverSteps, AloneHudsonStep DEF AloneInv
  <1> QED BY <1>1, <1>2, <1>3, <1>4, AloneInvariance, PTL DEF DriverSpec, AreLists
=============================================================================
