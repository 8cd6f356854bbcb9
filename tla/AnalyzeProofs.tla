---------------------------- MODULE AnalyzeProofs ----------------------------
(***************************************************************************)
(* What holds of watcher.py with its files and of analyze.py beside it:    *)
(* the lemmas for every step of either program, from which MonitorsProofs  *)
(* derives the theorems about the programs that MCMonitors starts.         *)
(***************************************************************************)
EXTENDS Analyze, FiniteSetTheorems, SequenceTheorems, WellFoundedInduction, TLAPS

-----------------------------------------------------------------------------
(* The watcher's types.                                                    *)

LEMMA LevelType == ASSUME NEW bits PROVE LevelFor(bits) \in Levels
BY DEF LevelFor, Levels

\* The constants one by one.
LEMMA Numbers ==
    /\ Rpcs \subseteq Nat /\ MaxTotal \in Nat /\ MaxTroubles \in Nat
    /\ BitsOpen \in Nat /\ BitsApproaching \in Nat
    /\ \A bits \in Difficulties : bits \in Nat
BY WatcherAssumption DEF WatcherAssumption

Labels == {"off", "connect", "csv", "header", "sleep", "reconnect"} \cup Polling

\* The parts of the type invariant: the world, the numbers in memory, the rest.
WorldType ==
    /\ up \in [Rpcs -> BOOLEAN]
    /\ total \in 0..MaxTotal /\ troubles \in 0..MaxTroubles

NumberType ==
    /\ conn \in Rpcs \cup {0} /\ errors \in 0..3
    /\ lastTotal \in Int /\ first \in Int /\ counted \in Nat

NameType ==
    /\ pc \in Labels
    /\ level \in Levels \cup {"none"} /\ lastLevel \in Levels \cup {"none"}
    /\ lastRow \in Levels \cup {"none"}
    /\ csv \in {"absent", "no header", "header"}
    /\ state \in Levels \cup {"absent", "torn"}

FlagType == regressed \in BOOLEAN /\ shouted \in BOOLEAN /\ missed \in BOOLEAN

\* A poll that has been read has a level, or the state file would not.
LevelKnown == pc \in {"log", "row", "open state", "state"} => level \in Levels

WatcherTyped == TypeOK /\ LevelKnown

LEMMA TypeParts == TypeOK <=> WorldType /\ NumberType /\ NameType /\ FlagType
BY DEF TypeOK, WorldType, NumberType, NameType, FlagType, Labels

LEMMA WatcherTypedInit == ASSUME Init PROVE WatcherTyped
<1>1. WorldType
  BY Numbers DEF Init, WorldType
<1>4. FlagType
  BY DEF Init, FlagType
<1>2. NumberType
  BY Numbers DEF Init, NumberType
<1>3. NameType /\ LevelKnown
  BY DEF Init, NameType, LevelKnown, Labels
<1> QED BY <1>1, <1>2, <1>3, <1>4, TypeParts DEF WatcherTyped

\* The kinds of steps that the numbers see: the node, the errors and the totals
\* stay, or the process is gone, or it connects, counts an error, or reads.
LEMMA WorldTypeStep == ASSUME WorldType, Next PROVE WorldType'
<1> USE Numbers DEF WorldType
<1>1. CASE Flip
  BY <1>1 DEF Flip, Trouble
<1>2. CASE Mint
  BY <1>2 DEF Mint
<1>3. CASE UNCHANGED worldVars /\ (UNCHANGED troubles \/ Trouble)
  BY <1>3 DEF worldVars, Trouble
<1>4. CASE WatcherStep \/ Kill
  <2>1. UNCHANGED worldVars /\ (UNCHANGED troubles \/ Trouble)
    BY <1>4 DEF WatcherStep, Kill, Start, StartFails, OldCsv, NewCsv, Header, Restart, Read,
         Log, Row, OpenState, State, Fails, Reconnect, ReconnectFails, Sleep, FailsFor, worldVars
  <2> QED BY <2>1, <1>3
<1> QED BY <1>1, <1>2, <1>4 DEF Next

LEMMA NumberTypeStep == ASSUME TypeOK, Next PROVE NumberType'
<1> SUFFICES ASSUME WorldType, NumberType PROVE NumberType'
  BY TypeParts
<1> USE Numbers DEF NumberType
<1>1. CASE Start \/ Reconnect
  BY <1>1 DEF Start, Reconnect, Connected, memoryVars, WorldType
<1>2. CASE StartFails \/ Kill
  BY <1>2 DEF StartFails, Kill, Die
<1>3. CASE Read
  <2>1. PICK n \in Answers(conn), bits \in Difficulties :
            /\ counted' = Capped(counted + NewMints(n))
            /\ lastTotal' = n
            /\ first' = (IF first = -1 THEN n ELSE first)
    BY <1>3 DEF Read, RememberTotal
  <2>2. n \in Nat
    BY DEF Answers, WorldType
  <2>3. NewMints(n) \in Nat
    BY <2>2 DEF NewMints
  <2>4. counted' \in Nat
    BY <2>1, <2>3 DEF Capped
  <2>5. UNCHANGED <<conn, errors>>
    BY <1>3 DEF Read
  <2> QED BY <2>1, <2>2, <2>4, <2>5
<1>4. CASE Fails
  BY <1>4 DEF Fails, CountError, FailedMemory, memoryVars
<1>5. CASE State
  BY <1>5 DEF State
<1>6. CASE UNCHANGED <<conn, errors, lastTotal, first, counted>>
  BY <1>6
<1>7. CASE OldCsv \/ NewCsv \/ Header \/ Restart \/ Log \/ Row \/ OpenState
           \/ ReconnectFails \/ Sleep \/ Flip \/ Mint
  BY <1>7, <1>6 DEF OldCsv, NewCsv, Header, Restart, Log, Row, OpenState, ReconnectFails,
       Sleep, Flip, Mint, memoryVars
<1> QED BY <1>1, <1>2, <1>3, <1>4, <1>5, <1>7 DEF Next, WatcherStep

LEMMA FlagTypeStep == ASSUME FlagType, Next PROVE FlagType'
<1> USE DEF FlagType
<1>1. CASE Read
  BY <1>1 DEF Read, fileVars
<1>2. CASE Log \/ Row \/ State \/ Fails
  BY <1>2 DEF Log, Row, State, Fails, FailedMemory, memoryVars
<1>3. CASE StartFails \/ Kill
  BY <1>3 DEF StartFails, Kill, Die, fileVars
<1>4. CASE Start \/ OldCsv \/ NewCsv \/ Header \/ Restart \/ OpenState \/ Reconnect
           \/ ReconnectFails \/ Sleep \/ Flip \/ Mint
  BY <1>4 DEF Start, OldCsv, NewCsv, Header, Restart, OpenState, Reconnect, ReconnectFails,
       Sleep, Flip, Mint, memoryVars, fileVars
<1> QED BY <1>1, <1>2, <1>3, <1>4 DEF Next, WatcherStep

LEMMA NameTypeStep == ASSUME NameType, LevelKnown, Next PROVE NameType' /\ LevelKnown'
<1> USE DEF NameType, LevelKnown, Labels, Polling, Goto
<1>1. CASE Read
  <2>1. level' \in Levels
    BY <1>1, LevelType DEF Read
  <2> QED BY <1>1, <2>1 DEF Read, fileVars
<1>2. CASE State
  BY <1>2 DEF State, WriteLevel
<1>3. CASE Fails
  BY <1>3 DEF Fails, CountError, FailedMemory, memoryVars
<1>4. CASE StartFails \/ Kill
  BY <1>4 DEF StartFails, Kill, Die, fileVars
<1>5. CASE Start \/ OldCsv \/ NewCsv \/ Header \/ Restart
  BY <1>5 DEF Start, OldCsv, NewCsv, Header, Restart, memoryVars, fileVars
<1>6. CASE Log \/ Row \/ OpenState
  BY <1>6 DEF Log, Row, OpenState, memoryVars
<1>7. CASE Reconnect \/ ReconnectFails \/ Sleep \/ Flip \/ Mint
  BY <1>7 DEF Reconnect, ReconnectFails, Sleep, Flip, Mint, memoryVars, fileVars
<1> QED BY <1>1, <1>2, <1>3, <1>4, <1>5, <1>6, <1>7 DEF Next, WatcherStep

\* Every step of the watcher, of what kills it and of the chain keeps the types.
LEMMA WatcherTypedStep == ASSUME WatcherTyped, Next PROVE WatcherTyped'
<1>1. WorldType' /\ NumberType' /\ NameType' /\ FlagType' /\ LevelKnown'
  BY TypeParts, WorldTypeStep, NumberTypeStep, NameTypeStep, FlagTypeStep DEF WatcherTyped
<1> QED BY <1>1
        DEF WatcherTyped, TypeOK, WorldType, NumberType, NameType, FlagType, Labels

LEMMA WatcherStutters == ASSUME WatcherTyped, UNCHANGED vars PROVE WatcherTyped'
<1> USE DEF vars, worldVars, memoryVars, fileVars
<1>1. WorldType /\ NumberType /\ NameType /\ FlagType /\ LevelKnown
  BY TypeParts DEF WatcherTyped
<1>2. WorldType'
  BY <1>1 DEF WorldType
<1>3. NumberType' /\ FlagType'
  BY <1>1 DEF NumberType, FlagType
<1>4. NameType' /\ LevelKnown'
  BY <1>1 DEF NameType, LevelKnown
<1> QED BY <1>2, <1>3, <1>4
        DEF WatcherTyped, TypeOK, WorldType, NumberType, NameType, FlagType, Labels

-----------------------------------------------------------------------------
(* The announcements.  OpenWindowsAreAnnounced says nothing of the memory   *)
(* of the process, on which the next announcement depends.                  *)

\* The level in memory is OPEN only if the last row is, or a poll failed after
\* its row, or is about to end or to fail; and a poll writes no OPEN row before
\* the announcement is in the log.
AnnouncedInv ==
    /\ OpenWindowsAreAnnounced
    /\ lastLevel = "OPEN" => lastRow = "OPEN" \/ missed \/ RowUnfinished
    /\ pc = "row" /\ level = "OPEN" => shouted \/ missed
    /\ pc \in {"open state", "state"} => lastRow = level

LEMMA AnnouncedInit == ASSUME Init PROVE AnnouncedInv
BY DEF Init, AnnouncedInv, OpenWindowsAreAnnounced

LEMMA AnnouncedStep ==
    ASSUME FlagType, AnnouncedInv, Next
    PROVE  AnnouncedInv'
<1> USE DEF AnnouncedInv, OpenWindowsAreAnnounced, RowUnfinished, Goto
<1>1. CASE Read
  BY <1>1 DEF Read, fileVars
<1>2. CASE Log
  <2>1. /\ pc = "log" /\ pc' = "row"
        /\ shouted' = (shouted \/ Opens) /\ missed' = (missed /\ ~Opens)
        /\ UNCHANGED <<level, lastLevel, lastRow>>
    BY <1>2 DEF Log, memoryVars
  <2>2. CASE Opens
    BY <2>1, <2>2 DEF Opens
  <2>3. CASE ~Opens
    BY <2>1, <2>3 DEF Opens, FlagType
  <2> QED BY <2>2, <2>3
<1>3. CASE Row
  BY <1>3 DEF Row, memoryVars, FlagType
<1>4. CASE OpenState
  BY <1>4 DEF OpenState, memoryVars
<1>5. CASE State
  BY <1>5 DEF State, FlagType
<1>6. CASE Fails
  BY <1>6 DEF Fails, CountError, FailedMemory, memoryVars
<1>7. CASE StartFails \/ Kill
  BY <1>7 DEF StartFails, Kill, Die, fileVars
<1>8. CASE Start \/ OldCsv \/ NewCsv \/ Header \/ Restart \/ Reconnect \/ ReconnectFails
           \/ Sleep \/ Flip \/ Mint
  BY <1>8 DEF Start, OldCsv, NewCsv, Header, Restart, Reconnect, ReconnectFails, Sleep, Flip,
       Mint, memoryVars, fileVars
<1> QED BY <1>1, <1>2, <1>3, <1>4, <1>5, <1>6, <1>7, <1>8 DEF Next, WatcherStep

-----------------------------------------------------------------------------
(* The count of the mints.                                                 *)

\* What was counted lies between the first total this process read and the last,
\* as long as no total was below the one before it.
CountInv ==
    /\ lastTotal \in -1..total /\ first >= -1
    /\ first = -1 <=> lastTotal = -1
    /\ first = -1 => counted = 0
    /\ ~regressed /\ first # -1 => counted <= lastTotal - first

LEMMA CountInit == ASSUME Init PROVE CountInv
BY DEF Init, CountInv

LEMMA CountStep ==
    ASSUME WorldType, NumberType, CountInv, Next
    PROVE  CountInv'
<1> USE Numbers
<1>0. total \in Nat /\ total <= MaxTotal /\ first \in Int /\ lastTotal \in Int /\ counted \in Nat
  BY DEF WorldType, NumberType
<1>1. CASE Read
  <2>1. PICK n \in Answers(conn), bits \in Difficulties :
            /\ regressed' = (regressed \/ n < lastTotal)
            /\ counted' = Capped(counted + NewMints(n))
            /\ lastTotal' = n
            /\ first' = (IF first = -1 THEN n ELSE first)
    BY <1>1 DEF Read, RememberTotal
  <2>2. n \in 0..total
    BY <1>0 DEF Answers
  <2>3. total' = total
    BY <1>1 DEF Read, worldVars
  <2>4. CASE first = -1
    <3>1. counted = 0 /\ NewMints(n) = 0
      BY <2>4 DEF CountInv, NewMints
    <3>2. counted' = 0
      BY <2>1, <3>1 DEF Capped
    <3> QED BY <2>1, <2>2, <2>3, <2>4, <3>2, <1>0 DEF CountInv
  <2>5. CASE first # -1
    <3>1. lastTotal # -1
      BY <2>5 DEF CountInv
    <3>2. n >= lastTotal => NewMints(n) = n - lastTotal
      BY <3>1, <2>2, <1>0 DEF NewMints
    <3>3. n >= lastTotal => counted' <= counted + (n - lastTotal)
      BY <2>1, <3>2, <2>2, <1>0 DEF Capped
    <3>4. ~regressed' => ~regressed /\ ~(n < lastTotal)
      BY <2>1
    <3>5. first' = first /\ lastTotal' \in 0..total
      BY <2>1, <2>2, <2>5
    <3>6. ~regressed' => counted' <= lastTotal' - first'
      <4> SUFFICES ASSUME ~regressed' PROVE counted' <= lastTotal' - first'
        OBVIOUS
      <4>1. counted <= lastTotal - first /\ counted' <= counted + (n - lastTotal)
        BY <2>2, <2>5, <3>3, <3>4, <1>0 DEF CountInv
      <4>2. counted' \in Int /\ n \in Int /\ first' = first /\ lastTotal' = n
        BY <2>1, <2>2, <3>5, NumberTypeStep, <1>0 DEF Capped, NewMints
      <4> QED BY <4>1, <4>2, <1>0
    <3> QED BY <2>3, <2>5, <3>1, <3>5, <3>6, <1>0 DEF CountInv
  <2> QED BY <2>4, <2>5
<1>2. CASE Mint
  BY <1>0, <1>2 DEF CountInv, Mint, memoryVars
<1>3. CASE StartFails \/ Kill
  BY <1>0, <1>3 DEF CountInv, StartFails, Kill, Die, worldVars
<1>4. CASE UNCHANGED <<total, lastTotal, first, counted, regressed>>
  BY <1>4 DEF CountInv
<1>5. CASE Start \/ OldCsv \/ NewCsv \/ Header \/ Restart \/ Log \/ Row \/ OpenState \/ State
           \/ Fails \/ Reconnect \/ ReconnectFails \/ Sleep \/ Flip
  BY <1>4, <1>5 DEF Start, OldCsv, NewCsv, Header, Restart, Log, Row, OpenState, State,
       Fails, FailedMemory, Reconnect, ReconnectFails, Sleep, Flip, worldVars, memoryVars
<1> QED BY <1>1, <1>2, <1>3, <1>5 DEF Next, WatcherStep

\* The count is right in every state of the invariant.
LEMMA CountIsRight == ASSUME WorldType, NumberType, CountInv PROVE MintsCountedOnce
BY DEF WorldType, NumberType, CountInv, MintsCountedOnce

-----------------------------------------------------------------------------
(* The CSV and analyze.py's report.                                        *)

CsvRows == Seq([level : Levels, bits : Difficulties])

\* What the report counts as OPEN.
OpenRows == {i \in DOMAIN Readable : Readable[i].level = "OPEN"}

\* A set of numbers has a least one, which is what CHOOSE finds.
LEMMA LeastOf ==
    ASSUME NEW S, S \subseteq Nat, S # {}
    PROVE  \E b \in S : \A c \in S : b <= c
<1> DEFINE Below == {0..c : c \in S}
           R == StrictSubsetOrdering(Nat)
<1>1. IsWellFoundedOn(R, FiniteSubsetsOf(Nat))
  BY FS_StrictSubsetOrderingWellFounded
<1>2. Below \subseteq FiniteSubsetsOf(Nat) /\ Below # {}
  <2>1. \A c \in S : IsFiniteSet(0..c) /\ 0..c \in SUBSET Nat
    BY FS_Interval
  <2> QED BY <2>1 DEF FiniteSubsetsOf
<1>3. PICK s \in Below : \A t \in Below : ~(<<t, s>> \in R)
  <2> HIDE DEF Below, R
  <2> QED BY <1>1, <1>2, WFMin
<1>4. PICK b \in S : s = 0..b
  OBVIOUS
<1>5. ASSUME NEW c \in S, c < b PROVE FALSE
  <2>1. (0..c) \in Below /\ (0..c) \subseteq 0..b /\ 0..c # 0..b
    BY <1>5, b \in 0..b, b \notin 0..c
  <2>2. <<0..c, s>> \in R
    BY <2>1, <1>4 DEF StrictSubsetOrdering
  <2> QED BY <2>1, <2>2, <1>3
<1> QED BY <1>4, <1>5

\* The best bits of the report are those of a row, and no row has fewer.
LEMMA BestBitsAreLeast ==
    ASSUME rows \in CsvRows, csv = "header", rows # <<>>
    PROVE  /\ \E i \in DOMAIN rows : BestBits = rows[i].bits
           /\ \A i \in DOMAIN rows : BestBits <= rows[i].bits
<1> DEFINE bits == {rows[i].bits : i \in DOMAIN rows}
<1>1. \A i \in DOMAIN rows : rows[i].bits \in Nat
  <2>1. \A i \in DOMAIN rows : rows[i] \in [level : Levels, bits : Difficulties]
    <3>1. rows \in [1..Len(rows) -> [level : Levels, bits : Difficulties]]
      BY LenProperties DEF CsvRows
    <3> QED BY <3>1
  <2> QED BY <2>1, Numbers
<1>2. 1 \in DOMAIN rows
  BY DEF CsvRows
<1>3. bits \subseteq Nat /\ bits # {}
  BY <1>1, <1>2
<1>4. BestBits = CHOOSE b \in bits : \A c \in bits : b <= c
  BY DEF BestBits, Readable
<1>5. BestBits \in bits /\ \A c \in bits : BestBits <= c
  <2> HIDE DEF bits
  <2> QED BY <1>3, <1>4, LeastOf
<1> QED BY <1>5

\* The levels a report counts, of rows that have one each.
LEMMA CountsFit ==
    ASSUME rows \in CsvRows
    PROVE  /\ Len(Readable) \in Nat /\ Len(Readable) <= Len(rows)
           /\ CountOf("OPEN") \in Nat /\ CountOf("APPROACHING") \in Nat
           /\ CountOf("OPEN") + CountOf("APPROACHING") <= Len(Readable)
<1> DEFINE At(l) == {i \in DOMAIN Readable : Readable[i].level = l}
<1>1. Len(Readable) \in Nat /\ Len(Readable) <= Len(rows) /\ DOMAIN Readable = 1..Len(Readable)
  BY DEF Readable, CsvRows
<1>2. IsFiniteSet(1..Len(Readable)) /\ Cardinality(1..Len(Readable)) = Len(Readable)
  <2>1. \A n \in Nat : IsFiniteSet(1..n) /\ Cardinality(1..n) = n
    BY FS_Interval
  <2> QED BY <1>1, <2>1
<1>3. \A l : At(l) \subseteq 1..Len(Readable)
  BY <1>1
<1>4. \A l : IsFiniteSet(At(l)) /\ Cardinality(At(l)) \in Nat
  BY <1>2, <1>3, FS_Subset, FS_CardinalityType
<1>5. At("OPEN") \cap At("APPROACHING") = {}
  OBVIOUS
<1> HIDE DEF At
<1>6. /\ Cardinality(At("OPEN") \cup At("APPROACHING"))
            = Cardinality(At("OPEN")) + Cardinality(At("APPROACHING"))
      /\ Cardinality(At("OPEN") \cup At("APPROACHING")) <= Len(Readable)
  <2>1. Cardinality(At("OPEN") \cup At("APPROACHING"))
            = Cardinality(At("OPEN")) + Cardinality(At("APPROACHING"))
              - Cardinality(At("OPEN") \cap At("APPROACHING"))
    BY <1>4, FS_Union
  <2>2. At("OPEN") \cup At("APPROACHING") \subseteq 1..Len(Readable)
    BY <1>3
  <2>3. Cardinality(At("OPEN") \cap At("APPROACHING")) = 0
    BY <1>5, FS_EmptySet
  <2>4. Cardinality(At("OPEN") \cup At("APPROACHING")) <= Len(Readable)
    BY <1>2, <2>2, FS_Subset
  <2> QED BY <1>4, <2>1, <2>3, <2>4
<1>7. \A l : CountOf(l) = Cardinality(At(l))
  BY DEF CountOf, At
<1> QED BY <1>1, <1>4, <1>6, <1>7

\* Every row has the level that belongs to its bits.
RowsInv == \A i \in DOMAIN rows : LevelFor(rows[i].bits) = rows[i].level

\* The CSV is there before any row, and its header too, unless it was lost.
HeaderInv ==
    /\ csv = "absent" => pc \in {"off", "connect", "csv"} /\ rows = <<>>
    /\ pc = "header" => csv = "no header"
    /\ ~headerLost /\ csv = "no header" => pc = "header"
    /\ ~headerLost /\ csv # "header" => rows = <<>>

\* The latest report showed no more than the next one would.
ReportInv ==
    /\ report.samples \in Nat /\ report.open \in Nat
    /\ report.samples <= Len(Readable)
    /\ report.open <= CountOf("OPEN")

AnalyzeInv ==
    /\ WatcherTyped
    /\ AnalyzeTypeOK /\ RowsInv /\ HeaderInv /\ ReportInv

\* What a step of the watcher does to the rows.
LEMMA RowsStep ==
    ASSUME rows \in CsvRows, RowsInv, LevelKnown, WatcherActs
    PROVE  /\ rows' \in CsvRows /\ RowsInv'
           /\ \/ rows' = rows
              \/ /\ pc = "row" /\ Len(rows) < MaxRows
                 /\ Len(rows') = Len(rows) + 1 /\ rows' # <<>>
                 /\ \A i \in DOMAIN rows : i \in DOMAIN rows' /\ rows'[i] = rows[i]
<1>1. CASE ~Goto("row", "open state")
  BY <1>1 DEF WatcherActs, RowsInv
<1>2. CASE Goto("row", "open state")
  <2>1. PICK bits \in Difficulties : LevelFor(bits) = level /\ rows' = Append(rows, RowOf(bits))
    BY <1>2 DEF WatcherActs, AppendRow
  <2>2. RowOf(bits) \in [level : Levels, bits : Difficulties]
    BY <2>1, LevelType DEF RowOf
  <2>3. /\ rows' \in CsvRows /\ rows' # <<>>
        /\ Len(rows) \in Nat /\ Len(rows') = Len(rows) + 1
        /\ \A i \in 1..Len(rows) : rows'[i] = rows[i]
        /\ rows'[Len(rows) + 1] = RowOf(bits)
        /\ DOMAIN rows = 1..Len(rows) /\ DOMAIN rows' = 1..Len(rows')
    BY <2>1, <2>2, AppendProperties, LenProperties DEF CsvRows
  <2>4. LevelFor(RowOf(bits).bits) = RowOf(bits).level
    BY <2>1 DEF RowOf
  <2>5. RowsInv'
    <3> SUFFICES ASSUME NEW i \in 1..(Len(rows) + 1)
                 PROVE  LevelFor(rows'[i].bits) = rows'[i].level
      BY <2>3 DEF RowsInv, LevelFor
    <3>1. CASE i = Len(rows) + 1
      BY <3>1, <2>3, <2>4
    <3>2. CASE i # Len(rows) + 1
      BY <3>2, <2>3 DEF RowsInv
    <3> QED BY <3>1, <3>2
  <2>6. Len(rows) < MaxRows /\ pc = "row"
    BY <1>2 DEF WatcherActs, Goto
  <2> QED BY <2>3, <2>5, <2>6
<1> QED BY <1>1, <1>2

\* A CSV with a header keeps it.
LEMMA HeaderStays == ASSUME HeaderInv, csv = "header", Next PROVE csv' = "header"
<1>1. CASE NewCsv \/ Header
  BY <1>1 DEF NewCsv, Header, HeaderInv, Goto
<1>2. CASE ~(NewCsv \/ Header)
  BY <1>2 DEF Next, WatcherStep, Start, StartFails, OldCsv, Restart, Read, Log, Row, OpenState,
     State, Fails, Reconnect, ReconnectFails, Sleep, Kill, Flip, Mint, fileVars
<1> QED BY <1>1, <1>2

LEMMA HeaderStep ==
    ASSUME rows \in CsvRows, RowsInv, NameType, LevelKnown, HeaderInv, WatcherActs
    PROVE  HeaderInv'
<1> USE DEF HeaderInv, Goto
<1>0. Next /\ (~headerLost' => ~headerLost /\ ~(pc = "header" /\ pc' = "off"))
  BY DEF WatcherActs
<1>1. rows' = rows \/ pc = "row"
  BY RowsStep
<1>2. ASSUME csv' = csv, pc' # "header", pc = "header" => pc' = "off",
             csv = "absent" => pc' \in {"off", "connect", "csv"}
      PROVE  HeaderInv'
  <2>1. csv = "absent" => rows' = rows
    BY <1>1
  <2>2. ~headerLost /\ csv # "header" => rows' = rows
    BY <1>1 DEF NameType
  <2>3. ~headerLost' => csv # "no header"
    BY <1>0, <1>2
  <2> QED BY <1>0, <1>2, <2>1, <2>2, <2>3
<1>3. CASE NewCsv \/ Header
  BY <1>0, <1>1, <1>3 DEF NewCsv, Header
<1>4. CASE StartFails \/ Kill
  BY <1>2, <1>4 DEF StartFails, Kill, Die, fileVars
<1>5. CASE Start \/ OldCsv \/ Restart
  BY <1>2, <1>5 DEF Start, OldCsv, Restart, fileVars
<1>6. CASE Read \/ Log \/ Row \/ OpenState \/ State
  BY <1>2, <1>6 DEF Read, Log, Row, OpenState, State, fileVars
<1>7. CASE Fails \/ Reconnect \/ ReconnectFails \/ Sleep
  BY <1>2, <1>7 DEF Fails, Polling, CountError, Reconnect, ReconnectFails, Sleep, fileVars
<1>8. CASE Flip \/ Mint
  <2>1. pc' = pc /\ csv' = csv
    BY <1>8 DEF Flip, Mint, fileVars
  <2>2. ~Goto("row", "open state")
    BY <2>1
  <2>3. rows' = rows
    BY <2>2 DEF WatcherActs
  <2> QED BY <1>0, <2>1, <2>3
<1> QED BY <1>0, <1>3, <1>4, <1>5, <1>6, <1>7, <1>8 DEF Next, WatcherStep

\* CountsFit in the next state.
LEMMA CountsFitNext ==
    ASSUME rows' \in CsvRows
    PROVE  Len(Readable)' \in Nat /\ CountOf("OPEN")' \in Nat
<1> DEFINE Open(r) == {i \in DOMAIN r : r[i].level = "OPEN"}
<1>1. Readable' \in CsvRows
  BY DEF Readable, CsvRows
<1>2. Len(Readable') \in Nat /\ Open(Readable') \subseteq 1..Len(Readable')
  BY <1>1, LenProperties DEF CsvRows
<1>3. IsFiniteSet(Open(Readable'))
  BY <1>2, FS_Interval, FS_Subset
<1>4. Cardinality(Open(Readable')) \in Nat
  BY <1>3, FS_CardinalityType
<1> QED BY <1>2, <1>4 DEF CountOf

\* A later report of the same CSV, or of one that grew, shows no less.
LEMMA ReadableGrows ==
    ASSUME rows \in CsvRows, RowsInv, LevelKnown, HeaderInv, WatcherActs
    PROVE  /\ Len(Readable) <= Len(Readable')
           /\ CountOf("OPEN") <= CountOf("OPEN")'
<1> DEFINE Open(r) == {i \in DOMAIN r : r[i].level = "OPEN"}
<1>1. /\ rows' \in CsvRows
      /\ rows' = rows \/ Len(rows') = Len(rows) + 1
      /\ \A i \in DOMAIN rows : i \in DOMAIN rows' /\ rows'[i] = rows[i]
  BY RowsStep
<1>2. /\ Len(rows) \in Nat /\ Len(rows') \in Nat
      /\ DOMAIN rows = 1..Len(rows) /\ DOMAIN rows' = 1..Len(rows')
  BY <1>1, LenProperties DEF CsvRows
<1>3. \A n \in Nat : IsFiniteSet(1..n)
  BY FS_Interval
<1>4. CASE csv = "header"
  <2>1. Readable = rows /\ Readable' = rows'
    BY <1>4, HeaderStays DEF Readable, WatcherActs
  <2>2. Open(rows) \subseteq Open(rows') /\ Open(rows') \subseteq 1..Len(rows')
    BY <1>1, <1>2
  <2>3. IsFiniteSet(Open(rows'))
    BY <2>2, <1>2, <1>3, FS_Subset
  <2>4. Cardinality(Open(rows)) <= Cardinality(Open(rows'))
    BY <2>2, <2>3, FS_Subset
  <2>5. Len(Readable) <= Len(Readable')
    <3>1. CASE rows' = rows
      BY <2>1, <3>1, <1>2
    <3>2. CASE Len(rows') = Len(rows) + 1
      BY <2>1, <3>2, <1>2
    <3> QED BY <1>1, <3>1, <3>2
  <2>6. CountOf("OPEN") = Cardinality(Open(rows)) /\ CountOf("OPEN")' = Cardinality(Open(rows'))
    BY <2>1 DEF CountOf
  <2> QED BY <2>4, <2>5, <2>6
<1>5. CASE csv # "header"
  <2>1. Readable = <<>>
    BY <1>5 DEF Readable
  <2>2. Len(Readable) = 0 /\ CountOf("OPEN") = 0
    BY <2>1, FS_EmptySet DEF CountOf
  <2>3. Len(Readable)' \in Nat /\ CountOf("OPEN")' \in Nat
    BY <1>1, CountsFitNext
  <2> QED BY <2>2, <2>3
<1> QED BY <1>4, <1>5

\* What a run of analyze.py prints, in numbers.
LEMMA ReportStep ==
    ASSUME rows \in CsvRows, Analyze
    PROVE  /\ report'.samples = Len(Readable) /\ report'.open = CountOf("OPEN")
           /\ {report'.open, report'.approaching, report'.busy} \subseteq 0..report'.samples
           /\ report'.says \in {"no data yet", "no rows yet", "capturable", "close", "busy"}
<1>1. CASE Readable = <<>>
  <2>1. Len(Readable) = 0 /\ CountOf("OPEN") = 0
    BY <1>1, FS_EmptySet DEF CountOf
  <2>2. report' = NoReport \/ report' = [NoReport EXCEPT !.says = "no rows yet"]
    BY <1>1 DEF Analyze
  <2>3. /\ report'.samples = 0 /\ report'.open = 0 /\ report'.approaching = 0
        /\ report'.busy = 0 /\ report'.says \in {"no data yet", "no rows yet"}
    <3>1. CASE report' = NoReport
      BY <3>1 DEF NoReport
    <3>2. CASE report' = [NoReport EXCEPT !.says = "no rows yet"]
      BY <3>2 DEF NoReport
    <3> QED BY <2>2, <3>1, <3>2
  <2>4. \A n : n = 0 => 0 \in 0..n
    OBVIOUS
  <2>5. {report'.open, report'.approaching, report'.busy} \subseteq 0..report'.samples
    <3>1. 0 \in 0..report'.samples
      BY <2>3, <2>4
    <3> QED BY <2>3, <3>1
  <2> QED BY <2>1, <2>3, <2>5
<1>2. CASE Readable # <<>>
  <2>1. csv # "absent"
    BY <1>2 DEF Readable
  <2>2. report' = [samples |-> Len(Readable), open |-> CountOf("OPEN"),
               approaching |-> CountOf("APPROACHING"),
               busy |-> Len(Readable) - CountOf("OPEN") - CountOf("APPROACHING"),
               best |-> BestBits, says |-> Verdict]
    BY <1>2, <2>1 DEF Analyze
  <2>3. Verdict \in {"capturable", "close", "busy"}
    BY DEF Verdict
  <2>4. /\ report'.samples = Len(Readable) /\ report'.open = CountOf("OPEN")
        /\ report'.approaching = CountOf("APPROACHING")
        /\ report'.busy = Len(Readable) - CountOf("OPEN") - CountOf("APPROACHING")
        /\ report'.says = Verdict
    BY <2>2
  <2>5. /\ report'.open \in 0..report'.samples /\ report'.approaching \in 0..report'.samples
        /\ report'.busy \in 0..report'.samples
    BY <2>4, CountsFit
  <2> QED BY <2>3, <2>4, <2>5
<1> QED BY <1>1, <1>2

\* The invariant holds at the start ...
LEMMA AnalyzeInvInit == ASSUME MaxRows \in Nat, AnalyzeInit PROVE AnalyzeInv
<1>1. WatcherTyped
  BY WatcherTypedInit DEF AnalyzeInit
<1>2. rows \in CsvRows /\ Len(rows) = 0 /\ RowsInv
  BY EmptySeq DEF AnalyzeInit, CsvRows, RowsInv
<1>3. Len(Readable) = 0 /\ CountOf("OPEN") = 0
  BY FS_EmptySet DEF AnalyzeInit, Readable, CountOf
<1>4. report.samples = 0 /\ report.open = 0 /\ report.approaching = 0 /\ report.busy = 0
  BY DEF AnalyzeInit, NoReport
<1>5. /\ report.says \in {"no data yet", "no rows yet", "capturable", "close", "busy"}
      /\ headerLost \in BOOLEAN
  BY DEF AnalyzeInit, NoReport
<1>6. {report.open, report.approaching, report.busy} \subseteq 0..report.samples
  BY <1>4
<1>7. report.samples \in 0..MaxRows /\ Len(rows) <= MaxRows
  BY <1>2, <1>4
<1>8. AnalyzeTypeOK
  BY <1>2, <1>5, <1>6, <1>7 DEF AnalyzeTypeOK, CsvRows
<1>9. HeaderInv
  BY DEF AnalyzeInit, Init, HeaderInv
<1>10. ReportInv
  BY <1>3, <1>4 DEF ReportInv
<1> QED BY <1>1, <1>2, <1>8, <1>9, <1>10 DEF AnalyzeInv

\* ... a step that changes nothing keeps it, ...
LEMMA AnalyzeInvStutters == ASSUME AnalyzeInv, UNCHANGED analyzeVars PROVE AnalyzeInv'
<1> USE DEF analyzeVars, vars, worldVars, memoryVars, fileVars
<1>1. WatcherTyped /\ AnalyzeTypeOK /\ RowsInv /\ HeaderInv /\ ReportInv
  BY DEF AnalyzeInv
<1>2. WatcherTyped'
  BY <1>1, WatcherStutters
<1>3. AnalyzeTypeOK'
  BY <1>1 DEF AnalyzeTypeOK
<1>4. RowsInv' /\ HeaderInv'
  BY <1>1 DEF RowsInv, HeaderInv, LevelFor
<1>5. ReportInv'
  BY <1>1 DEF ReportInv, Readable, CountOf
<1> QED BY <1>2, <1>3, <1>4, <1>5 DEF AnalyzeInv

\* ... and so does every step of the watcher or of analyze.py.
LEMMA AnalyzeInvStep == ASSUME MaxRows \in Nat, AnalyzeInv, AnalyzeNext PROVE AnalyzeInv'
<1>0. /\ WatcherTyped /\ NameType /\ LevelKnown /\ AnalyzeTypeOK /\ RowsInv /\ HeaderInv
      /\ ReportInv /\ rows \in CsvRows /\ Len(rows) <= MaxRows /\ Len(rows) \in Nat
  <2>1. WatcherTyped /\ AnalyzeTypeOK /\ RowsInv /\ HeaderInv /\ ReportInv
    BY DEF AnalyzeInv
  <2>2. NameType /\ LevelKnown
    BY <2>1, TypeParts DEF WatcherTyped
  <2>3. rows \in CsvRows /\ Len(rows) <= MaxRows
    BY <2>1 DEF AnalyzeTypeOK, CsvRows
  <2> QED BY <2>1, <2>2, <2>3, LenProperties DEF CsvRows
<1>1. CASE WatcherActs
  <2>1. WatcherTyped'
    BY <1>0, <1>1, WatcherTypedStep DEF WatcherActs
  <2>2. rows' \in CsvRows /\ RowsInv' /\ Len(rows') <= MaxRows
    BY <1>0, <1>1, RowsStep
  <2>3. UNCHANGED report
    BY <1>1 DEF WatcherActs
  <2>4. headerLost' \in BOOLEAN
    BY <1>1 DEF WatcherActs
  <2>5. AnalyzeTypeOK'
    BY <1>0, <2>2, <2>3, <2>4 DEF AnalyzeTypeOK, CsvRows
  <2>6. HeaderInv'
    BY <1>0, <1>1, HeaderStep
  <2>7. ReportInv'
    <3>1. /\ Len(Readable) \in Nat /\ CountOf("OPEN") \in Nat
          /\ Len(Readable)' \in Nat /\ CountOf("OPEN")' \in Nat
          /\ Len(Readable) <= Len(Readable') /\ CountOf("OPEN") <= CountOf("OPEN")'
      BY <1>0, <1>1, <2>2, CountsFit, CountsFitNext, ReadableGrows
    <3> QED BY <1>0, <2>3, <3>1 DEF ReportInv
  <2> QED BY <2>1, <2>2, <2>5, <2>6, <2>7 DEF AnalyzeInv
<1>2. CASE Analyze
  <2>1. UNCHANGED <<vars, rows, headerLost>>
    BY <1>2 DEF Analyze
  <2>2. WatcherTyped' /\ RowsInv' /\ HeaderInv'
    <3> USE <2>1 DEF vars, worldVars, memoryVars, fileVars
    <3>1. WatcherTyped'
      BY <1>0, WatcherStutters
    <3>2. RowsInv'
      BY <1>0 DEF RowsInv, LevelFor
    <3>3. HeaderInv'
      BY <1>0 DEF HeaderInv
    <3> QED BY <3>1, <3>2, <3>3
  <2>3. /\ Len(Readable)' = Len(Readable) /\ CountOf("OPEN")' = CountOf("OPEN")
        /\ Len(Readable) \in 0..MaxRows /\ CountOf("OPEN") \in Nat
    BY <1>0, <2>1, CountsFit DEF Readable, CountOf, vars, fileVars
  <2>4. AnalyzeTypeOK'
    BY <1>0, <1>2, <2>1, <2>3, ReportStep DEF AnalyzeTypeOK, CsvRows
  <2>5. ReportInv'
    <3>1. report'.samples = Len(Readable) /\ report'.open = CountOf("OPEN")
      BY <1>0, <1>2, ReportStep
    <3> QED BY <2>3, <3>1 DEF ReportInv
  <2> QED BY <2>2, <2>4, <2>5 DEF AnalyzeInv
<1> QED BY <1>1, <1>2 DEF AnalyzeNext

\* No step takes a window out of the report.
LEMMA ReportGrows ==
    ASSUME AnalyzeInv, AnalyzeNext
    PROVE  report'.samples >= report.samples /\ report'.open >= report.open
<1>1. rows \in CsvRows /\ ReportInv
  BY DEF AnalyzeInv, AnalyzeTypeOK, CsvRows
<1>2. CASE WatcherActs
  <2>1. report' = report /\ report.samples \in Nat /\ report.open \in Nat
    BY <1>1, <1>2 DEF WatcherActs, ReportInv
  <2> QED BY <2>1
<1>3. CASE Analyze
  <2>1. report'.samples = Len(Readable) /\ report'.open = CountOf("OPEN")
    BY <1>1, <1>3, ReportStep
  <2> QED BY <1>1, <2>1, CountsFit DEF ReportInv
<1> QED BY <1>2, <1>3 DEF AnalyzeNext

\* A row that is OPEN has few bits, so the best bits are few as well.
LEMMA OpenRowCounts ==
    ASSUME AnalyzeInv, Analyze, ~headerLost, \E i \in DOMAIN rows : rows[i].level = "OPEN"
    PROVE  report'.open > 0 /\ report'.says = "capturable"
<1>1. rows \in CsvRows /\ RowsInv /\ HeaderInv
  BY DEF AnalyzeInv, AnalyzeTypeOK, CsvRows
<1>2. PICK i \in DOMAIN rows : rows[i].level = "OPEN"
  OBVIOUS
<1>3. rows # <<>> /\ csv = "header"
  <2>1. rows # <<>>
    BY <1>2
  <2> QED BY <1>1, <2>1 DEF HeaderInv
<1>4. Readable = rows
  BY <1>3 DEF Readable
<1>5. report'.open > 0
  <2>1. IsFiniteSet({j \in DOMAIN rows : rows[j].level = "OPEN"})
    <3>1. IsFiniteSet(DOMAIN rows)
      BY <1>1, LenProperties, FS_Interval DEF CsvRows
    <3> QED BY <3>1, FS_Subset
  <2>2. {j \in DOMAIN rows : rows[j].level = "OPEN"} # {}
    BY <1>2
  <2>3. CountOf("OPEN") > 0
    <3> DEFINE S == {j \in DOMAIN rows : rows[j].level = "OPEN"}
    <3> HIDE DEF S
    <3>1. IsFiniteSet(S) /\ S # {}
      BY <2>1, <2>2 DEF S
    <3>2. Cardinality(S) \in Nat /\ Cardinality(S) # 0
      BY <3>1, FS_EmptySet, FS_CardinalityType
    <3>3. CountOf("OPEN") = Cardinality(S)
      BY <1>4 DEF CountOf, S
    <3> QED BY <3>2, <3>3
  <2> QED BY <1>1, <2>3, ReportStep
<1>6. report'.says = Verdict
  BY <1>3, <1>4 DEF Analyze
<1>7. BestBits <= BitsOpen
  <2>1. rows[i].bits \in Nat /\ BestBits \in Nat
    <3>1. \A k \in DOMAIN rows : rows[k].bits \in Nat
      <4>1. rows \in [1..Len(rows) -> [level : Levels, bits : Difficulties]]
        BY <1>1, LenProperties DEF CsvRows
      <4> QED BY <4>1, Numbers
    <3> QED BY <1>1, <1>2, <1>3, <3>1, BestBitsAreLeast
  <2>2. rows[i].bits <= BitsOpen
    BY <1>1, <1>2 DEF RowsInv, LevelFor
  <2>3. BestBits <= rows[i].bits
    BY <1>1, <1>2, <1>3, BestBitsAreLeast
  <2> QED BY <2>1, <2>2, <2>3, Numbers
<1> QED BY <1>5, <1>6, <1>7 DEF Verdict
=============================================================================
