--------------------------- MODULE StorageProofs ---------------------------
(***************************************************************************)
(* Proofs about NvStorage, for every number of pages, record length,       *)
(* interval, set of payloads and earlier contents of the flash, and about  *)
(* UsbScript, where the USB interrupt uses the same flash service, for     *)
(* every script and every host that keeps to the protocol.                 *)
(*                                                                         *)
(* The inductive invariant IInv of the storage alone is proved in two      *)
(* halves, PhaseInv with the types and FlashInv; every property is then a  *)
(* consequence of it.  With the interrupt it is UsbInv.                    *)
(***************************************************************************)
EXTENDS UsbScript, TLAPS, WellFoundedInduction

-----------------------------------------------------------------------------
(* The records on a flash.                                                 *)

Flash == [Page -> [Word -> Cell]]

(* A non-empty set of naturals has a smallest element: what Init needs to  *)
(* know that a best page exists. *)
LEMMA Minimum ==
  ASSUME NEW S, S \subseteq Nat, S # {}
  PROVE  \E x \in S : \A y \in S : x <= y
<1> DEFINE R == OpToRel(<, Nat)
<1>1. PICK x \in S : \A y \in S : ~ (<<y, x>> \in R)
  <2> HIDE DEF R
  <2>1. IsWellFoundedOn(R, Nat)
    BY NatLessThanWellFounded DEF R
  <2> QED  BY <2>1, WFMin
<1>2. \A y \in S : ~ (y < x)
  BY <1>1 DEF OpToRel
<1> QED  BY <1>2

(* The arithmetic of the sizes. *)
LEMMA Sizes ==
  /\ NPages \in Nat /\ NPages >= 3
  /\ 0 \in Page /\ 1 \in Page
  /\ 0 \in Word /\ 0 \in RecWord
  /\ RecWord \subseteq Word
  /\ RecLen \in Nat /\ RecLen >= 1
BY FlashAssumption, NvAssumption DEF Page, Word, RecWord, kErasePageCount

(* The round robin goes to another page, also when it skips page 0. *)
LEMMA RoundRobin ==
  ASSUME NEW p \in Page
  PROVE  /\ (p + 1) % NPages \in Page
         /\ p # 0 => (p + 1) % NPages # p
         /\ p = 1 => (p + 1) % NPages # 0
<1>1. CASE p = NPages - 1
  BY <1>1, Sizes DEF Page
<1>2. CASE p # NPages - 1
  <2>1. p + 1 \in 0 .. (NPages - 1)
    BY <1>2, Sizes DEF Page
  <2>2. (p + 1) % NPages = p + 1
    BY <2>1, Sizes
  <2> QED  BY <2>1, <2>2, Sizes DEF Page
<1> QED  BY <1>1, <1>2

(* A record newer than every other is the one the boot scan picks. *)
LEMMA NewestIsBest ==
  ASSUME NEW f, NEW p, Newest(f, p)
  PROVE  /\ BestPage(f) = p
         /\ ValidPages(f) # {}
         /\ RecordAt(f, p) \in Rec
         /\ Recovered(f) = RecordAt(f, p).val
         /\ p \in NvPage
<1>1. \A q \in ValidPages(f) : RecordAt(f, q) \in Rec
  BY DEF ValidPages, RecordAt
<1>2. \A r, s \in Rec : ~ (Newer(r, s) /\ Newer(s, r))
  BY DEF Newer, Rec
<1> DEFINE Best(x) == \A q \in ValidPages(f) \ {x} :
                         \/ Newer(RecordAt(f, x), RecordAt(f, q))
                         \/ ~ Newer(RecordAt(f, q), RecordAt(f, x)) /\ x < q
<1>3. p \in ValidPages(f) /\ Best(p)
  BY DEF Newest
<1>4. \A x \in ValidPages(f) : Best(x) => x = p
  BY <1>1, <1>2 DEF Newest
<1>5. BestPage(f) = p
  BY <1>3, <1>4 DEF BestPage
<1> QED  BY <1>1, <1>3, <1>5 DEF Recovered, ValidPages

LEMMA BestIsNewest ==
  ASSUME NEW f, \E p \in NvPage : Newest(f, p)
  PROVE  Newest(f, BestPage(f))
BY NewestIsBest

(* A change of page a that writes no record there can only take page a out *)
(* of the valid pages. *)
LEMMA NoRecordWritten ==
  ASSUME NEW f, NEW g, NEW a \in Page,
         \A p \in Page \ {a} : g[p] = f[p],
         \A w \in Word : g[a][w] = f[a][w] \/ g[a][w] \notin Rec
  PROVE  /\ ValidPages(g) \subseteq ValidPages(f)
         /\ ValidPages(f) \ {a} \subseteq ValidPages(g)
         /\ \A p \in ValidPages(g) : RecordAt(g, p) = RecordAt(f, p)
<1>1. \A p \in NvPage \ {a} : g[p] = f[p]
  BY DEF NvPage
<1>2. a \in ValidPages(g) => a \in ValidPages(f) /\ g[a][0] = f[a][0]
  BY Sizes DEF ValidPages
<1>3. ValidPages(g) \subseteq ValidPages(f)
  BY <1>1, <1>2 DEF ValidPages
<1>4. ValidPages(f) \ {a} \subseteq ValidPages(g)
  BY <1>1 DEF ValidPages
<1>5. \A p \in ValidPages(g) : g[p][0] = f[p][0]
  BY <1>1, <1>2 DEF ValidPages
<1> QED  BY <1>3, <1>4, <1>5 DEF RecordAt

(* If page a did not hold the newest record, no change of it that writes   *)
(* no record changes which record is the newest. *)
LEMMA NewestKept ==
  ASSUME NEW f, NEW g, NEW a \in Page,
         \A p \in Page \ {a} : g[p] = f[p],
         \A w \in Word : g[a][w] = f[a][w] \/ g[a][w] \notin Rec,
         Distinct(f),
         ValidPages(f) # {} => \E p \in NvPage : Newest(f, p),
         ~ Newest(f, a)
  PROVE  /\ Distinct(g)
         /\ ValidPages(g) # {} => \E p \in NvPage : Newest(g, p)
         /\ \A p \in NvPage : Newest(g, p) <=> Newest(f, p)
         /\ Recovered(g) = Recovered(f)
<1>1. /\ ValidPages(g) \subseteq ValidPages(f)
      /\ ValidPages(f) \ {a} \subseteq ValidPages(g)
      /\ \A p \in ValidPages(g) : RecordAt(g, p) = RecordAt(f, p)
  BY NoRecordWritten
<1>2. Distinct(g)
  BY <1>1 DEF Distinct
<1>3. \A p : Newest(f, p) => Newest(g, p)
  BY <1>1 DEF Newest
<1>4. CASE ValidPages(f) = {}
  <2>1. ValidPages(g) = {}
    BY <1>1, <1>4
  <2> QED  BY <1>2, <1>4, <2>1 DEF Newest, Recovered
<1>5. CASE ValidPages(f) # {}
  <2>1. PICK b \in NvPage : Newest(f, b)
    BY <1>5
  <2>2. Newest(g, b)
    BY <1>3, <2>1
  <2>3. \A p \in NvPage : Newest(g, p) => p = b
    BY <2>2, NewestIsBest
  <2>4. RecordAt(g, b) = RecordAt(f, b)
    BY <1>1, <2>2 DEF Newest
  <2>5. Recovered(g) = Recovered(f)
    BY <2>1, <2>2, <2>4, NewestIsBest
  <2> QED  BY <1>2, <1>3, <2>1, <2>2, <2>3, <2>5
<1> QED  BY <1>4, <1>5

(* What a boot takes from a flash with a newest record, or none. *)
LEMMA BootFacts ==
  ASSUME NEW f,
         ValidPages(f) # {} => \E p \in NvPage : Newest(f, p)
  PROVE  /\ Recovered(f) \in Val
         /\ BootContent(f) \in [gen : Nat \ {0}, val : Val]
         /\ BootContent(f).val = Recovered(f)
         /\ BootDirty(f) \in BOOLEAN
         /\ BootNextPage(f) \in Page
         /\ ~ Newest(f, IF BootNextPage(f) = 0 THEN 1 ELSE BootNextPage(f))
         /\ \A p \in ValidPages(f) :
              Newer([schema |-> 1, gen |-> BootContent(f).gen, short |-> FALSE,
                     val |-> BootContent(f).val], RecordAt(f, p))
<1>1. CASE ValidPages(f) = {}
  BY <1>1, Sizes, NvAssumption
    DEF Recovered, BootContent, BootDirty, BootNextPage, Newest
<1>2. CASE ValidPages(f) # {}
  <2> DEFINE b == BestPage(f)
             r == RecordAt(f, b)
  <2>1. Newest(f, b) /\ r \in Rec /\ b \in NvPage /\ Recovered(f) = r.val
    BY <1>2, NewestIsBest, BestIsNewest
  <2>2. /\ BootContent(f) = [gen |-> IF r.schema = 0 THEN 2 ELSE r.gen + 1,
                             val |-> Recovered(f)]
        /\ BootDirty(f) = (r.schema = 0 \/ r.short)
        /\ BootNextPage(f) = (b + 1) % NPages
    BY <1>2 DEF BootContent, BootDirty, BootNextPage
  <2>3. \A p \in NvPage : Newest(f, p) => p = b
    BY <2>1, NewestIsBest
  <2> HIDE DEF b, r
  <2>4. /\ r.schema \in {0, 1} /\ r.gen \in Nat \ {0} /\ r.val \in Val /\ r.short \in BOOLEAN
    BY <2>1 DEF Rec
  <2>5. /\ BootContent(f) \in [gen : Nat \ {0}, val : Val]
        /\ BootContent(f).val = Recovered(f)
    BY <2>1, <2>2, <2>4
  <2>6. BootNextPage(f) \in Page /\ BootNextPage(f) # b /\ (BootNextPage(f) = 0 => b # 1)
    BY <2>1, <2>2, RoundRobin DEF NvPage
  <2>7. \A p \in ValidPages(f) :
          Newer([schema |-> 1, gen |-> BootContent(f).gen, short |-> FALSE,
                 val |-> BootContent(f).val], RecordAt(f, p))
    <3> SUFFICES ASSUME NEW p \in ValidPages(f)
                 PROVE  Newer([schema |-> 1, gen |-> BootContent(f).gen, short |-> FALSE,
                               val |-> BootContent(f).val], RecordAt(f, p))
      OBVIOUS
    <3> DEFINE s == RecordAt(f, p)
    <3>1. s \in Rec /\ (p = b \/ Newer(r, s))
      BY <2>1 DEF ValidPages, RecordAt, Newest, b, r
    <3>2. s = r \/ Newer(r, s)
      BY <3>1 DEF b, r
    <3> HIDE DEF s
    <3>3. s.schema = 0 \/ (s.schema = 1 /\ r.schema = 1 /\ s.gen <= r.gen)
      BY <2>1, <2>4, <3>1, <3>2 DEF Newer, Rec
    <3>4. s.gen \in Nat
      BY <3>1 DEF Rec
    <3> QED  BY <2>2, <2>4, <3>3, <3>4 DEF Newer, s
  <2>8. ~ Newest(f, IF BootNextPage(f) = 0 THEN 1 ELSE BootNextPage(f))
    BY <2>3, <2>6, Sizes DEF NvPage
  <2> QED  BY <2>1, <2>2, <2>4, <2>5, <2>6, <2>7, <2>8
<1> QED  BY <1>1, <1>2

-----------------------------------------------------------------------------
(* The invariant holds initially: a badge boots with any mixture of blank  *)
(* pages and whole records of different versions. *)
LEMMA InitInv == Init => IInv
<1> SUFFICES ASSUME Init PROVE IInv
  OBVIOUS
<1> USE FlashAssumption, NvAssumption
<1>1. flash \in Flash
  BY DEF Init, PageImages, Flash, Cell
<1>2. \A p \in ValidPages(flash) : RecordAt(flash, p) \in OldRecords
  BY Sizes DEF Init, PageImages, ValidPages, RecordAt, NvPage, Rec
<1>3. ValidPages(flash) # {} => \E p \in NvPage : Newest(flash, p)
  <2> SUFFICES ASSUME ValidPages(flash) # {}
               PROVE  \E p \in NvPage : Newest(flash, p)
    OBVIOUS
  <2> DEFINE Age(r) == IF r.schema = 1 THEN MaxGen - r.gen ELSE 2 * MaxGen + 1 - r.gen
             Ages == {Age(RecordAt(flash, p)) : p \in ValidPages(flash)}
  <2>1. \A r \in OldRecords : r \in Rec /\ r.gen \in Nat /\ r.gen <= MaxGen /\ r.schema \in {0, 1}
    BY DEF Rec
  <2>2. \A r \in OldRecords : Age(r) \in Nat
    BY <2>1
  <2>3. \A r, s \in OldRecords : Newer(r, s) => Age(r) < Age(s)
    BY <2>1 DEF Newer
  <2> HIDE DEF Age
  <2>4. Ages \subseteq Nat /\ Ages # {}
    BY <1>2, <2>2
  <2>5. PICK b \in ValidPages(flash) :
               \A p \in ValidPages(flash) :
                 Age(RecordAt(flash, b)) <= Age(RecordAt(flash, p))
    <3> HIDE DEF Ages
    <3>1. PICK x \in Ages : \A y \in Ages : x <= y
      BY <2>4, Minimum
    <3> QED  BY <3>1 DEF Ages
  <2>6. \A p \in ValidPages(flash) : ~ Newer(RecordAt(flash, p), RecordAt(flash, b))
    BY <1>2, <2>2, <2>3, <2>5
  <2>7. Newest(flash, b)
    BY <2>6 DEF Newest, Init, Distinct
  <2> QED  BY <2>7 DEF Newest, ValidPages
<1>4. /\ Recovered(flash) \in Val
      /\ content \in [gen : Nat \ {0}, val : Val]
      /\ content.val = Recovered(flash)
      /\ dirty \in BOOLEAN
      /\ nextPage \in Page
      /\ ~ Newest(flash, NextTarget)
      /\ \A p \in ValidPages(flash) : Newer(Snapshot, RecordAt(flash, p))
  BY <1>1, <1>3, BootFacts DEF Init, Boot, NextTarget, Snapshot
<1>5. TypeOK
  <2>1. StoreTypeOK
    BY <1>1, NvAssumption DEF StoreTypeOK, Init, Boot, ZeroRecord, Rec, Flash
  <2>2. ServiceTypeOK
    <3>1. /\ fs \in FlashState
          /\ addr \in Page
          /\ data \in {"nv", "script"}
          /\ proc \in {"none", "erase", "hung"}
      BY Sizes DEF Init, Boot, FlashReset, FlashState
    <3>2. /\ dataLen \in Nat /\ progId \in Nat /\ pending \in Nat /\ burst \in Nat
          /\ eraseId \in 0 .. kErasePageCount
          /\ waitCnt \in 0 .. EraseTimeout
          /\ blockers \in 0 .. MaxBlockers
      BY DEF Init, Boot, FlashReset, kErasePageCount
    <3>3. eraseOnly \in BOOLEAN /\ suspended \in BOOLEAN
      BY DEF Init, Boot, FlashReset
    <3> QED  BY <3>1, <3>2, <3>3 DEF ServiceTypeOK
  <2>3. NvTypeOK
    <3>1. dirty \in BOOLEAN /\ force \in BOOLEAN
      BY <1>4 DEF Init, Boot
    <3>2. /\ cycles \in 0 .. WarmUp /\ since \in 0 .. MinInterval
          /\ done \in {"none", "waiting", "called"}
      BY DEF Init, Boot
    <3> QED  BY <1>4, <3>1, <3>2 DEF NvTypeOK
  <2> QED  BY <2>1, <2>2, <2>3 DEF TypeOK
<1>6. PhaseInv
  BY DEF PhaseInv, Erasing, Init, Boot, FlashReset
<1>7. FlashInv
  <2>1. ScriptPageReserved
    BY NvAssumption DEF ScriptPageReserved, Init
  <2>2. Ranked
    BY <1>3, <1>4 DEF Ranked, Init, Boot, FlashReset
  <2>3. Spared
    BY <1>4 DEF Spared, Erasing, Init, Boot, FlashReset
  <2>4. Written
    BY <1>4 DEF Written, Init, Boot, FlashReset
  <2> QED  BY <2>1, <2>2, <2>3, <2>4 DEF FlashInv
<1> QED  BY <1>5, <1>6, <1>7 DEF IInv

-----------------------------------------------------------------------------
(* Types are preserved, group by group. *)
LEMMA StoreTypeStep == IInv /\ [Next]_vars => StoreTypeOK'
<1> SUFFICES ASSUME IInv, [Next]_vars PROVE StoreTypeOK'
  OBVIOUS
<1> USE DEF IInv, TypeOK, StoreTypeOK, Cell
<1>1. CASE UNCHANGED vars
  BY <1>1 DEF vars, flashVars
<1>2. CASE FlashNext /\ UNCHANGED <<nvVars, resets>>
  <2> USE <1>2
  <2>1. CASE Unlock \/ ErasesDone \/ TrySuspend \/ PollErase \/ Resume \/ PollProgram
    BY <2>1 DEF Unlock, ErasesDone, TrySuspend, PollErase, Resume, PollProgram
  <2>2. CASE StartErase
    BY <2>2 DEF StartErase
  <2>3. CASE StartProgram
    BY <2>3 DEF StartProgram
  <2>4. CASE ProgramWord
    BY <2>4 DEF ProgramWord, ServiceTypeOK
  <2>5. CASE EraseEnds \/ EraseHangs
    BY <2>5 DEF EraseEnds, EraseHangs, SetErased
  <2>6. CASE IncBlocker \/ DecBlocker
    BY <2>6 DEF IncBlocker, DecBlocker
  <2> QED  BY <1>2, <2>1, <2>2, <2>3, <2>4, <2>5, <2>6 DEF FlashNext, FlashRoutine
<1>3. CASE NvRoutine
  <2>1. Snapshot \in Rec
    BY DEF Snapshot, Rec, NvTypeOK
  <2> QED  BY <1>3, <2>1 DEF NvRoutine
<1>4. CASE NvCheck \/ NvAddr \/ NvStart \/ NvFinish
  BY <1>4 DEF NvCheck, NvAddr, NvStart, NvFinish
<1>5. CASE ForceFlush \/ \E v \in Val : AppWrite(v)
  BY <1>5 DEF ForceFlush, AppWrite, flashVars
<1>6. CASE Reset
  BY <1>6, NvAssumption DEF Reset, ZeroRecord, Rec
<1> QED  BY <1>1, <1>2, <1>3, <1>4, <1>5, <1>6 DEF Next, NvNext

LEMMA ServiceTypeStep == IInv /\ [Next]_vars => ServiceTypeOK'
<1> SUFFICES ASSUME IInv, [Next]_vars PROVE ServiceTypeOK'
  OBVIOUS
<1> USE FlashAssumption DEF IInv, TypeOK, ServiceTypeOK, fsVars, suspenderVars
<1>1. CASE UNCHANGED vars
  BY <1>1 DEF vars, flashVars
<1>2. CASE FlashNext
  <2> USE DEF FlashState, kErasePageCount
  <2>1. CASE Unlock \/ ErasesDone
    BY <2>1 DEF Unlock, ErasesDone
  <2>2. CASE TrySuspend \/ Resume
    BY <2>2 DEF TrySuspend, Resume
  <2>3. CASE StartErase
    BY <2>3 DEF StartErase, PhaseInv
  <2>4. CASE PollErase
    BY <2>4 DEF PollErase
  <2>5. CASE StartProgram
    BY <2>5 DEF StartProgram, PhaseInv
  <2>6. CASE ProgramWord
    BY <2>6 DEF ProgramWord, PhaseInv
  <2>7. CASE PollProgram
    BY <2>7 DEF PollProgram
  <2>8. CASE EraseEnds \/ EraseHangs
    BY <2>8 DEF EraseEnds, EraseHangs
  <2>9. CASE IncBlocker \/ DecBlocker
    BY <2>9 DEF IncBlocker, DecBlocker
  <2> QED  BY <1>2, <2>1, <2>2, <2>3, <2>4, <2>5, <2>6, <2>7, <2>8, <2>9
             DEF FlashNext, FlashRoutine
<1>3. CASE NvRoutine \/ NvCheck \/ NvFinish
  BY <1>3 DEF NvRoutine, NvCheck, NvFinish
<1>4. CASE NvAddr
  BY <1>4 DEF NvAddr, ProgramPageAddr, NvTypeOK
<1>5. CASE NvStart
  <2>1. fs' \in FlashState /\ data' \in {"nv", "script"} /\ eraseOnly' \in BOOLEAN
    BY <1>5 DEF NvStart, ProgramPageStart, FlashState
  <2>2. dataLen' \in Nat /\ progId' \in Nat /\ eraseId' \in 0 .. kErasePageCount
    BY <1>5, Sizes DEF NvStart, ProgramPageStart, kErasePageCount
  <2> QED  BY <1>5, <2>1, <2>2 DEF NvStart
<1>6. CASE ForceFlush \/ \E v \in Val : AppWrite(v)
  BY <1>6 DEF ForceFlush, AppWrite, flashVars
<1>7. CASE Reset
  <2>1. /\ fs' \in FlashState
        /\ addr' \in Page
        /\ data' \in {"nv", "script"}
        /\ proc' \in {"none", "erase", "hung"}
    BY <1>7, Sizes DEF Reset, FlashState
  <2>2. /\ dataLen' \in Nat /\ progId' \in Nat /\ pending' \in Nat /\ burst' \in Nat
        /\ eraseId' \in 0 .. kErasePageCount
        /\ waitCnt' \in 0 .. EraseTimeout
        /\ blockers' \in 0 .. MaxBlockers
    BY <1>7 DEF Reset, kErasePageCount
  <2>3. eraseOnly' \in BOOLEAN /\ suspended' \in BOOLEAN
    BY <1>7 DEF Reset
  <2> QED  BY <2>1, <2>2, <2>3
<1> QED  BY <1>1, <1>2, <1>3, <1>4, <1>5, <1>6, <1>7 DEF Next, NvNext

LEMMA NvTypeStep == IInv /\ [Next]_vars => NvTypeOK'
<1> SUFFICES ASSUME IInv, [Next]_vars PROVE NvTypeOK'
  OBVIOUS
<1> USE NvAssumption DEF IInv, TypeOK, NvTypeOK, nvVars
<1>1. CASE UNCHANGED vars
  BY <1>1 DEF vars
<1>2. CASE FlashNext /\ UNCHANGED <<nvVars, resets>>
  BY <1>2
<1>3. CASE NvRoutine
  <2>1. nextPage' \in Page
    BY <1>3, Sizes DEF NvRoutine, NextTarget
  <2>2. cycles' \in 0 .. WarmUp /\ since' \in 0 .. MinInterval
    BY <1>3 DEF NvRoutine
  <2>3. done' \in {"none", "waiting", "called"}
    BY <1>3 DEF NvRoutine
  <2>4. dirty' \in BOOLEAN /\ force' \in BOOLEAN
    BY <1>3 DEF NvRoutine
  <2> QED  BY <1>3, <2>1, <2>2, <2>3, <2>4 DEF NvRoutine
<1>4. CASE NvCheck
  BY <1>4 DEF NvCheck
<1>5. CASE NvAddr \/ NvStart
  BY <1>5 DEF NvAddr, NvStart
<1>6. CASE NvFinish
  <2>1. nextPage' \in Page
    BY <1>6, RoundRobin DEF NvFinish
  <2>2. content' \in [gen : Nat \ {0}, val : Val]
    BY <1>6 DEF NvFinish
  <2>3. dirty' \in BOOLEAN /\ force' \in BOOLEAN
    BY <1>6 DEF NvFinish
  <2>4. cycles' \in 0 .. WarmUp /\ since' \in 0 .. MinInterval
    BY <1>6 DEF NvFinish
  <2>5. done' \in {"none", "waiting", "called"}
    BY <1>6 DEF NvFinish
  <2> QED  BY <2>1, <2>2, <2>3, <2>4, <2>5
<1>7. CASE ForceFlush \/ \E v \in Val : AppWrite(v)
  BY <1>7 DEF ForceFlush, AppWrite
<1>8. CASE Reset
  <2>1. /\ BootContent(flash) \in [gen : Nat \ {0}, val : Val]
        /\ BootDirty(flash) \in BOOLEAN
        /\ BootNextPage(flash) \in Page
    BY BootFacts DEF Flash, FlashInv, Ranked, StoreTypeOK
  <2>2. dirty' \in BOOLEAN /\ force' \in BOOLEAN
    BY <1>8, <2>1 DEF Reset
  <2>3. /\ cycles' \in 0 .. WarmUp /\ since' \in 0 .. MinInterval
        /\ done' \in {"none", "waiting", "called"}
    BY <1>8 DEF Reset
  <2> QED  BY <1>8, <2>1, <2>2, <2>3 DEF Reset
<1> QED  BY <1>1, <1>2, <1>3, <1>4, <1>5, <1>6, <1>7, <1>8 DEF Next, NvNext

LEMMA TypeStep == IInv /\ [Next]_vars => TypeOK'
BY StoreTypeStep, ServiceTypeStep, NvTypeStep DEF TypeOK

-----------------------------------------------------------------------------
(* The phases of a flush stay in step with the main thread. *)
LEMMA PhaseStep == IInv /\ [Next]_vars => PhaseInv'
<1> SUFFICES ASSUME IInv, [Next]_vars PROVE PhaseInv'
  OBVIOUS
<1> USE DEF IInv, TypeOK, PhaseInv, Erasing, NextTarget, Snapshot
<1>1. CASE UNCHANGED vars
  BY <1>1 DEF vars, flashVars, fsVars, suspenderVars, nvVars
<1>2. CASE FlashNext /\ UNCHANGED <<nvVars, resets>>
  <2> USE <1>2, FlashAssumption DEF nvVars, fsVars, suspenderVars, kErasePageCount
  <2>1. CASE Unlock
    BY <2>1 DEF Unlock
  <2>2. CASE ErasesDone
    BY <2>2 DEF ErasesDone
  <2>3. CASE TrySuspend
    BY <2>3 DEF TrySuspend, ServiceTypeOK
  <2>4. CASE StartErase
    BY <2>4 DEF StartErase
  <2>5. CASE PollErase
    BY <2>5 DEF PollErase
  <2>6. CASE Resume
    BY <2>6 DEF Resume
  <2>7. CASE StartProgram
    BY <2>7 DEF StartProgram, ServiceTypeOK
  <2>8. CASE ProgramWord
    BY <2>8 DEF ProgramWord, ServiceTypeOK
  <2>9. CASE PollProgram
    BY <2>9 DEF PollProgram
  <2>10. CASE EraseEnds
    BY <2>10 DEF EraseEnds
  <2>11. CASE EraseHangs
    BY <2>11 DEF EraseHangs
  <2>12. CASE IncBlocker \/ DecBlocker
    BY <2>12 DEF IncBlocker, DecBlocker
  <2> QED  BY <2>1, <2>2, <2>3, <2>4, <2>5, <2>6, <2>7, <2>8, <2>9, <2>10,
              <2>11, <2>12 DEF FlashNext, FlashRoutine
<1>3. CASE NvRoutine
  <2>1. /\ mpc = "idle"
        /\ UNCHANGED <<fs, addr, data, dataLen, eraseId, progId, pending, eraseOnly,
                       burst, proc, suspended, content, dirty>>
    BY <1>3 DEF NvRoutine, fsVars, suspenderVars
  <2>2. CASE fs = "IDLE" /\ mpc' = "check" /\ nextPage' # 0 /\ mem'["nv"] = Snapshot
    BY <2>1, <2>2
  <2>3. CASE UNCHANGED <<mem, nextPage, mpc>>
    BY <2>1, <2>3
  <2>4. mem' = [mem EXCEPT !["nv"] = Snapshot] => mem'["nv"] = Snapshot
    BY DEF StoreTypeOK
  <2> QED  BY <1>3, <2>2, <2>3, <2>4 DEF NvRoutine, IsBusy
<1>4. CASE NvCheck
  BY <1>4 DEF NvCheck, IsBusy, fsVars, suspenderVars
<1>5. CASE NvAddr
  BY <1>5 DEF NvAddr, ProgramPageAddr, suspenderVars, nvVars
<1>6. CASE NvStart
  BY <1>6, Sizes DEF NvStart, ProgramPageStart, suspenderVars, nvVars
<1>7. CASE NvFinish
  BY <1>7, RoundRobin DEF NvFinish, NvTypeOK, fsVars, suspenderVars
<1>8. CASE ForceFlush \/ \E v \in Val : AppWrite(v)
  BY <1>8 DEF ForceFlush, AppWrite, flashVars, fsVars, suspenderVars, NvTypeOK
<1>9. CASE Reset
  BY <1>9 DEF Reset
<1> QED  BY <1>1, <1>2, <1>3, <1>4, <1>5, <1>6, <1>7, <1>8, <1>9 DEF Next, NvNext

-----------------------------------------------------------------------------
(* Erasing the victim loses nothing, whatever the cells become before the  *)
(* controller is done. *)
LEMMA EraseKeeps ==
  ASSUME IInv, TypeOK', PhaseInv',
         fs \in Erasing, fs' \in Erasing,
         \A p \in Page \ {addr} : flash'[p] = flash[p],
         \A w \in Word : flash'[addr][w] = flash[addr][w]
                           \/ flash'[addr][w] \in {Erased, Garbage},
         UNCHANGED <<mem, content, nextPage, addr>>
  PROVE  FlashInv' /\ Recovered(flash') = Recovered(flash)
<1> USE DEF IInv, FlashInv
<1>1. flash \in Flash /\ flash' \in Flash /\ addr \in NvPage
  BY DEF TypeOK, StoreTypeOK, ServiceTypeOK, PhaseInv, Flash, NvPage, Erasing
<1>2. \A w \in Word : flash'[addr][w] = flash[addr][w] \/ flash'[addr][w] \notin Rec
  BY NvAssumption
<1>3. addr \in Page /\ ~ Newest(flash, addr)
  BY <1>1 DEF Spared, NvPage
<1>4. /\ Distinct(flash')
      /\ ValidPages(flash') # {} => \E p \in NvPage : Newest(flash', p)
      /\ \A p \in NvPage : Newest(flash', p) <=> Newest(flash, p)
      /\ Recovered(flash') = Recovered(flash)
  BY <1>1, <1>2, <1>3, NewestKept DEF Ranked
<1>5. /\ ValidPages(flash') \subseteq ValidPages(flash)
      /\ \A p \in ValidPages(flash') : RecordAt(flash', p) = RecordAt(flash, p)
  BY <1>1, <1>2, <1>3, NoRecordWritten
<1>6. ScriptPageReserved'
  <2>1. 0 \in Page \ {addr}
    BY <1>1, Sizes DEF NvPage
  <2> QED  BY <2>1 DEF ScriptPageReserved
<1>7. Ranked'
  <2>1. \A p \in ValidPages(flash') : Newer(Snapshot', RecordAt(flash', p))
    BY <1>5 DEF Ranked, Snapshot
  <2>2. \A q \in ValidPages(flash') \ {addr'} : Newer(mem'["nv"], RecordAt(flash', q))
    BY <1>5 DEF Ranked, Erasing
  <2> QED  BY <1>4, <2>1, <2>2 DEF Ranked
<1>8. Spared'
  BY <1>1, <1>3, <1>4 DEF Spared, Erasing
<1>9. Written'
  BY DEF Written, Erasing
<1> QED  BY <1>4, <1>6, <1>7, <1>8, <1>9

(* Programming a word leaves the page without a record, or completes the   *)
(* snapshot there, which then is the newest record. *)
LEMMA ProgramKeeps ==
  ASSUME IInv, TypeOK', PhaseInv', ProgramWord, UNCHANGED nvVars
  PROVE  /\ FlashInv'
         /\ \/ Recovered(flash') = Recovered(flash)
            \/ Recovered(flash') = mem["nv"].val
<1> USE DEF IInv, FlashInv
<1> DEFINE m == mem["nv"]
<1>1. /\ fs = "PROGRAM_WAIT" /\ fs' = fs /\ mem' = mem /\ addr' = addr
      /\ content' = content /\ data = "nv" /\ nextPage' = nextPage
  BY DEF ProgramWord, PhaseInv, nvVars
<1>2. /\ flash \in Flash /\ flash' \in Flash /\ addr \in NvPage /\ m \in Rec
      /\ progId \in RecWord /\ progId \in Word /\ progId \in Nat
      /\ progId' = progId + 1 /\ pending \in Nat
  BY Sizes DEF TypeOK, StoreTypeOK, ServiceTypeOK, PhaseInv, Flash, NvPage, RecWord,
               ProgramWord
<1>3. CASE flash[addr][progId] # Erased
  <2>1. flash' = flash /\ pending' # 0
    BY <1>2, <1>3 DEF ProgramWord
  <2>2. ScriptPageReserved' /\ Ranked'
    BY <1>1, <2>1 DEF ScriptPageReserved, Ranked, Snapshot
  <2>3. Spared' /\ Written'
    BY <1>1, <2>1 DEF Spared, Written, Erasing
  <2> QED  BY <2>1, <2>2, <2>3
<1>4. CASE flash[addr][progId] = Erased
  <2>1. /\ flash' = [flash EXCEPT ![addr][progId] = m]
        /\ pending' = pending
    BY <1>1, <1>4 DEF ProgramWord
  <2>2. /\ \A p \in Page \ {addr} : flash'[p] = flash[p]
        /\ flash'[addr][progId] = m
        /\ \A w \in Word \ {progId} : flash'[addr][w] = flash[addr][w]
    BY <1>2, <2>1 DEF Flash, NvPage
  <2>3. addr \notin ValidPages(flash)
    BY <1>2, <1>4, NvAssumption DEF ValidPages
  <2>4. /\ ValidPages(flash') \ {addr} = ValidPages(flash)
        /\ \A p \in ValidPages(flash) : RecordAt(flash', p) = RecordAt(flash, p)
    BY <2>2, <2>3 DEF ValidPages, RecordAt, NvPage
  <2>5. \A q \in ValidPages(flash) : Newer(m, RecordAt(flash, q))
    BY <1>1, <2>3 DEF Ranked
  <2>6. Newer(Snapshot, m)
    BY <1>1 DEF Snapshot, Newer, PhaseInv, ProgramWord
  <2>7. ScriptPageReserved'
    BY <1>2, <2>2, Sizes DEF ScriptPageReserved, NvPage
  <2>8. Spared'
    BY <1>1 DEF Spared, Erasing
  <2>9. Written'
    <3>1. ASSUME pending = 0
          PROVE  \A w \in 0 .. progId : flash'[addr][w] = m
      <4>1. \A w \in 0 .. (progId - 1) : flash[addr][w] = m
        BY <1>1, <3>1 DEF Written
      <4>2. \A w \in 0 .. progId : w \in Word
        BY <1>2, FlashAssumption DEF Word, kErasePageCount
      <4> QED  BY <1>2, <2>2, <4>1, <4>2
    <3> QED  BY <1>1, <1>2, <2>1, <3>1 DEF Written
  <2>10. CASE addr \in ValidPages(flash')
    <3>1. RecordAt(flash', addr) = m
      BY <1>2, <2>2, <2>10 DEF ValidPages, RecordAt
    <3>2. Newest(flash', addr)
      BY <2>4, <2>5, <2>10, <3>1 DEF Newest
    <3>3. Distinct(flash')
      BY <2>4, <2>5, <3>1 DEF Distinct, Ranked
    <3>4. \A p \in ValidPages(flash') : Newer(Snapshot', RecordAt(flash', p))
      BY <1>1, <2>4, <2>6, <3>1 DEF Ranked, Snapshot
    <3>5. Ranked'
      BY <1>1, <1>2, <2>4, <2>5, <3>2, <3>3, <3>4 DEF Ranked
    <3>6. Recovered(flash') = m.val
      BY <1>2, <3>1, <3>2, NewestIsBest
    <3> QED  BY <2>7, <2>8, <2>9, <3>5, <3>6
  <2>11. CASE addr \notin ValidPages(flash')
    <3>1. ValidPages(flash') = ValidPages(flash)
      BY <2>4, <2>11
    <3>2. \A p : Newest(flash', p) <=> Newest(flash, p)
      BY <2>4, <3>1 DEF Newest
    <3>3. Ranked'
      BY <1>1, <2>4, <2>5, <3>1, <3>2 DEF Ranked, Distinct, Snapshot
    <3>4. Recovered(flash') = Recovered(flash)
      <4>1. CASE ValidPages(flash) = {}
        BY <3>1, <4>1 DEF Recovered
      <4>2. CASE ValidPages(flash) # {}
        <5>1. PICK b \in NvPage : Newest(flash, b)
          BY <4>2 DEF Ranked
        <5> QED  BY <1>2, <2>4, <3>2, <5>1, NewestIsBest DEF Newest
      <4> QED  BY <4>1, <4>2
    <3> QED  BY <2>7, <2>8, <2>9, <3>3, <3>4
  <2> QED  BY <2>10, <2>11
<1> QED  BY <1>3, <1>4

(* When the last word is programmed without an error the snapshot is the   *)
(* newest record, in a page the next flush does not take. *)
LEMMA CompletionKeeps ==
  ASSUME IInv, TypeOK', PhaseInv', PollProgram, UNCHANGED nvVars
  PROVE  FlashInv'
<1> USE DEF IInv, FlashInv
<1> DEFINE m == mem["nv"]
<1>1. /\ fs = "PROGRAM_WAIT" /\ pending = 0 /\ pending' = 0 /\ mpc = "idle"
      /\ UNCHANGED <<flash, mem, addr, content, nextPage, progId, dirty, mpc>>
  BY DEF PollProgram, nvVars
<1>2. ScriptPageReserved'
  BY <1>1 DEF ScriptPageReserved
<1>3. Ranked'
  BY <1>1 DEF Ranked, Snapshot
<1>4. CASE fs' # "IDLE"
  BY <1>1, <1>2, <1>3, <1>4 DEF Spared, Written, Erasing, PollProgram
<1>5. CASE fs' = "IDLE"
  <2>1. /\ progId = RecLen /\ flash \in Flash /\ addr \in NvPage /\ m \in Rec
    BY <1>1, <1>5, Sizes DEF PollProgram, PhaseInv, TypeOK, ServiceTypeOK, StoreTypeOK,
                             Flash, NvPage
  <2>2. \A w \in RecWord : flash[addr][w] = m
    BY <1>1, <2>1 DEF Written, RecWord
  <2>3. addr \in ValidPages(flash) /\ RecordAt(flash, addr) = m
    BY <2>1, <2>2, Sizes DEF ValidPages, RecordAt
  <2>4. Newest(flash, addr)
    BY <1>1, <2>3 DEF Newest, Ranked
  <2>5. /\ \A p : Newest(flash, p) => p = addr
        /\ Recovered(flash) = m.val
    BY <2>1, <2>3, <2>4, NewestIsBest
  <2>6. NextTarget # addr /\ (dirty \/ m.val = content.val)
    BY <1>1 DEF PhaseInv
  <2>7. Spared'
    BY <1>1, <1>5, <2>5, <2>6 DEF Spared, NextTarget, Erasing
  <2>8. Written'
    BY <1>1, <1>5, <2>5, <2>6 DEF Written
  <2> QED  BY <1>2, <1>3, <2>7, <2>8
<1> QED  BY <1>4, <1>5

(* What is on the flash stays ranked, spared and as written. *)
LEMMA FlashStep == IInv /\ [Next]_vars => FlashInv'
<1> SUFFICES ASSUME IInv, [Next]_vars PROVE FlashInv'
  OBVIOUS
<1> USE DEF IInv
<1>1. TypeOK' /\ PhaseInv'
  BY TypeStep, PhaseStep
<1> DEFINE Same == FlashInv /\ UNCHANGED <<flash, content>>
<1>2. Same => ScriptPageReserved' /\ (UNCHANGED <<fs, mem, addr>> => Ranked')
  BY DEF FlashInv, ScriptPageReserved, Ranked, Snapshot
<1>3. Same /\ UNCHANGED <<fs, addr, nextPage>> => Spared'
  BY DEF FlashInv, Spared, NextTarget
<1>4. Same /\ UNCHANGED <<fs, mem, addr, progId, pending, dirty, mpc>> => Written'
  BY DEF FlashInv, Written
<1>5. CASE UNCHANGED vars
  BY <1>2, <1>3, <1>4, <1>5 DEF vars, flashVars, fsVars, nvVars, FlashInv
<1>6. CASE FlashNext /\ UNCHANGED <<nvVars, resets>>
  <2> USE <1>6 DEF nvVars
  <2>1. CASE Unlock \/ TrySuspend \/ PollErase \/ Resume
    BY <2>1, <1>2 DEF Unlock, TrySuspend, PollErase, Resume, FlashInv, Ranked, Spared,
                      Written, Snapshot, Erasing
  <2>2. CASE ErasesDone
    <3>1. /\ fs = "SUSPEND_WAIT" /\ fs' = "PROGRAM" /\ progId' = 0
          /\ UNCHANGED <<flash, mem, addr, content, nextPage>>
      BY <2>2 DEF ErasesDone, PhaseInv, Erasing
    <3>2. 0 .. (progId' - 1) = {}
      BY <3>1
    <3> QED  BY <1>2, <3>1, <3>2 DEF FlashInv, Ranked, Spared, Written, Snapshot, Erasing
  <2>3. CASE StartErase
    <3>1. /\ \A p \in Page \ {addr} : flash'[p] = flash[p]
          /\ \A w \in Word : flash'[addr][w] = flash[addr][w]
                               \/ flash'[addr][w] \in {Erased, Garbage}
      BY <2>3 DEF StartErase, TypeOK, StoreTypeOK, ServiceTypeOK
    <3> QED  BY <1>1, <2>3, <3>1, EraseKeeps DEF StartErase, Erasing
  <2>4. CASE EraseEnds \/ EraseHangs
    <3>1. /\ \A p \in Page \ {addr} : flash'[p] = flash[p]
          /\ \A w \in Word : flash'[addr][w] = flash[addr][w]
                               \/ flash'[addr][w] \in {Erased, Garbage}
      BY <2>4 DEF EraseEnds, EraseHangs, SetErased, TypeOK, StoreTypeOK, ServiceTypeOK
    <3>2. /\ fs \in Erasing /\ fs' \in Erasing
          /\ UNCHANGED <<mem, content, nextPage, addr>>
      BY <2>4 DEF EraseEnds, EraseHangs, PhaseInv, Erasing, fsVars
    <3> QED  BY <1>1, <3>1, <3>2, EraseKeeps
  <2>5. CASE StartProgram
    BY <2>5, <1>2 DEF StartProgram, PhaseInv, FlashInv, Ranked, Spared, Written, Snapshot, Erasing
  <2>6. CASE ProgramWord
    BY <1>1, <2>6, ProgramKeeps
  <2>7. CASE PollProgram
    BY <1>1, <2>7, CompletionKeeps
  <2>8. CASE IncBlocker \/ DecBlocker
    BY <1>2, <1>3, <1>4, <2>8 DEF IncBlocker, DecBlocker, fsVars, FlashInv
  <2> QED  BY <2>1, <2>2, <2>3, <2>4, <2>5, <2>6, <2>7, <2>8 DEF FlashNext, FlashRoutine
<1>7. CASE NvRoutine
  <2>1. Same /\ UNCHANGED <<fs, addr, progId, pending, dirty>> /\ mpc = "idle"
    BY <1>7 DEF NvRoutine, fsVars
  <2>2. UNCHANGED <<mem, nextPage, mpc>> \/ (fs = "IDLE" /\ NextTarget' = NextTarget)
    BY <1>7 DEF NvRoutine, NextTarget, IsBusy
  <2>3. mpc' = "idle" => mpc = "idle"
    BY <2>1
  <2> QED  BY <1>2, <1>3, <1>4, <2>1, <2>2
             DEF FlashInv, Ranked, Spared, Written, Snapshot, Erasing
<1>8. CASE NvCheck
  BY <1>2, <1>3, <1>8 DEF NvCheck, PhaseInv, FlashInv, Written, IsBusy, fsVars
<1>9. CASE NvAddr
  BY <1>2, <1>9 DEF NvAddr, ProgramPageAddr, PhaseInv, FlashInv, Ranked, Spared, Written,
                    NextTarget, Snapshot, Erasing, nvVars
<1>10. CASE NvStart
  BY <1>2, <1>10 DEF NvStart, ProgramPageStart, PhaseInv, FlashInv, Ranked, Spared, Written,
                    NextTarget, Snapshot, Erasing, nvVars
<1>11. CASE NvFinish
  <2>1. /\ fs = "UNLOCK" /\ UNCHANGED <<flash, mem, fs, addr>>
        /\ content' = [content EXCEPT !.gen = @ + 1]
        /\ content.gen \in Nat /\ mem["nv"] = Snapshot
    BY <1>11 DEF NvFinish, fsVars, PhaseInv, TypeOK, NvTypeOK
  <2>2. \A r \in Rec : Newer(Snapshot, r) => Newer(Snapshot', r)
    BY <2>1 DEF Snapshot, Newer, Rec, TypeOK, NvTypeOK
  <2>3. \A p \in ValidPages(flash) : RecordAt(flash, p) \in Rec
    BY DEF ValidPages, RecordAt
  <2>4. Ranked'
    BY <2>1, <2>2, <2>3 DEF Ranked, FlashInv
  <2>5. ScriptPageReserved' /\ Spared' /\ Written'
    BY <2>1 DEF FlashInv, ScriptPageReserved, Spared, Written, Erasing
  <2> QED  BY <2>4, <2>5 DEF FlashInv
<1>12. CASE ForceFlush
  BY <1>2, <1>3, <1>4, <1>12 DEF ForceFlush, flashVars, fsVars, FlashInv
<1>13. ASSUME NEW v \in Val, AppWrite(v) PROVE FlashInv'
  <2>1. /\ UNCHANGED <<flash, mem, fs, addr, nextPage, progId, pending>>
        /\ content'.gen = content.gen /\ dirty'
    BY <1>13 DEF AppWrite, flashVars, fsVars, TypeOK, NvTypeOK
  <2>2. \A r : Newer(Snapshot, r) => Newer(Snapshot', r)
    BY <2>1 DEF Snapshot, Newer
  <2> QED  BY <2>1, <2>2 DEF FlashInv, ScriptPageReserved, Ranked, Spared, Written, NextTarget
<1>14. CASE Reset
  <2>1. /\ content'.val = Recovered(flash)
        /\ ~ Newest(flash, NextTarget')
        /\ \A p \in ValidPages(flash) : Newer(Snapshot', RecordAt(flash, p))
    BY <1>14, BootFacts DEF Reset, FlashInv, Ranked, TypeOK, StoreTypeOK, Flash,
                            NextTarget, Snapshot
  <2>2. flash' = flash /\ fs' = "IDLE" /\ mpc' = "idle"
    BY <1>14 DEF Reset
  <2> QED  BY <2>1, <2>2 DEF FlashInv, ScriptPageReserved, Ranked, Spared, Written, Erasing
<1> QED  BY <1>5, <1>6, <1>7, <1>8, <1>9, <1>10, <1>11, <1>12, <1>13, <1>14
           DEF Next, NvNext

-----------------------------------------------------------------------------
(* The inductive invariant holds in every reachable state: the records on  *)
(* the flash stay ranked, and no step of a flush, of a boot or of the      *)
(* controller touches the newest one. *)
THEOREM Invariance == Spec => []IInv
<1>1. Init => IInv
  BY InitInv
<1>2. IInv /\ [Next]_vars => IInv'
  BY TypeStep, PhaseStep, FlashStep DEF IInv
<1> QED  BY <1>1, <1>2, PTL DEF Spec

(* Every variable of FlashService.cc and NvStorage.cc keeps its type. *)
THEOREM TypeCorrect == Spec => []TypeOK
<1>1. IInv => TypeOK
  BY DEF IInv
<1> QED  BY <1>1, Invariance, PTL

(* No flush writes a record to page 0, which belongs to the script. *)
THEOREM ScriptPageIsReserved == Spec => []ScriptPageReserved
<1>1. IInv => ScriptPageReserved
  BY DEF IInv, FlashInv
<1> QED  BY <1>1, Invariance, PTL

(* No two records on the flash tie, and the next flush's generation is     *)
(* above them all, through migrations and resets in the middle of a flush. *)
THEOREM GenerationsRise == Spec => []GenerationAboveFlash
<1>1. IInv => GenerationAboveFlash
  BY DEF IInv, FlashInv, Ranked, GenerationAboveFlash
<1> QED  BY <1>1, Invariance, PTL

(* Storage that is clean and idle is on the flash, though the dirty mark   *)
(* is cleared when the programming only starts. *)
THEOREM CleanIsDurable == Spec => []CleanMeansDurable
<1>1. IInv => CleanMeansDurable
  BY DEF IInv, FlashInv, Written, CleanMeansDurable, IsBusy
<1> QED  BY <1>1, Invariance, PTL

(* The controller erases only while suspended, and suspension follows the  *)
(* states of the service, also when an end-of-erase interrupt is lost. *)
THEOREM ErasesAreSuspended == Spec => []SuspendedForErase
<1>1. IInv => SuspendedForErase
  BY DEF IInv, PhaseInv, SuspendedForErase
<1> QED  BY <1>1, Invariance, PTL

-----------------------------------------------------------------------------
(* The storage implements DurableStore.                                    *)

durableVars == <<Recovered(flash), content.val, mem["nv"].val>>

LEMMA InitRefines == Init => Durable!Init
<1> SUFFICES ASSUME Init PROVE Durable!Init
  OBVIOUS
<1>1. flash \in Flash /\ (ValidPages(flash) # {} => \E p \in NvPage : Newest(flash, p))
  BY InitInv DEF IInv, TypeOK, StoreTypeOK, FlashInv, Ranked, Flash
<1>2. Recovered(flash) \in Val /\ content.val = Recovered(flash)
  BY <1>1, BootFacts DEF Init, Boot
<1>3. mem["nv"].val \in Val
  BY InitInv DEF IInv, TypeOK, StoreTypeOK, Rec
<1> QED  BY <1>2, <1>3 DEF Durable!Init

LEMMA StepRefines ==
  IInv /\ IInv' /\ [Next]_vars =>
    [Durable!Next]_<<Recovered(flash), content.val, mem["nv"].val>>
<1> SUFFICES ASSUME IInv, IInv', [Next]_vars
             PROVE  Durable!Next \/ UNCHANGED durableVars
  BY DEF durableVars
<1> USE DEF durableVars
<1>1. UNCHANGED <<flash, content, mem>> => UNCHANGED durableVars
  OBVIOUS
<1>2. CASE UNCHANGED vars
  BY <1>2 DEF vars, flashVars, nvVars
<1>3. CASE FlashNext /\ UNCHANGED <<nvVars, resets>>
  <2> USE <1>3 DEF nvVars
  <2>1. CASE \/ Unlock \/ ErasesDone \/ TrySuspend \/ PollErase \/ Resume
             \/ StartProgram \/ PollProgram \/ IncBlocker \/ DecBlocker
    BY <1>1, <2>1 DEF Unlock, ErasesDone, TrySuspend, PollErase, Resume, StartProgram,
                      PollProgram, IncBlocker, DecBlocker
  <2>2. CASE StartErase \/ EraseEnds \/ EraseHangs
    <3>1. /\ \A p \in Page \ {addr} : flash'[p] = flash[p]
          /\ \A w \in Word : flash'[addr][w] = flash[addr][w]
                               \/ flash'[addr][w] \in {Erased, Garbage}
      BY <2>2 DEF StartErase, EraseEnds, EraseHangs, SetErased, IInv, TypeOK, StoreTypeOK,
                  ServiceTypeOK
    <3>2. /\ fs \in Erasing /\ fs' \in Erasing
          /\ UNCHANGED <<mem, content, nextPage, addr>>
      BY <2>2 DEF StartErase, EraseEnds, EraseHangs, IInv, PhaseInv, Erasing, fsVars
    <3>3. Recovered(flash') = Recovered(flash)
      BY <3>1, <3>2, EraseKeeps DEF IInv
    <3> QED  BY <3>2, <3>3
  <2>3. CASE ProgramWord
    <3>1. Recovered(flash') = Recovered(flash) \/ Recovered(flash') = mem["nv"].val
      BY <2>3, ProgramKeeps DEF IInv
    <3>2. UNCHANGED <<mem, content>>
      BY <2>3 DEF ProgramWord
    <3> QED  BY <3>1, <3>2 DEF Durable!Next, Durable!Commit
  <2> QED  BY <2>1, <2>2, <2>3 DEF FlashNext, FlashRoutine
<1>4. CASE NvRoutine
  <2>1. /\ UNCHANGED <<flash, content>>
        /\ mem' = [mem EXCEPT !["nv"] = Snapshot] \/ UNCHANGED mem
    BY <1>4 DEF NvRoutine
  <2>2. CASE mem' = [mem EXCEPT !["nv"] = Snapshot]
    <3>1. mem'["nv"].val = content.val
      BY <2>2 DEF IInv, TypeOK, StoreTypeOK, Snapshot
    <3> QED  BY <2>1, <3>1 DEF Durable!Next, Durable!Stage
  <2> QED  BY <2>1, <2>2
<1>5. CASE NvCheck \/ NvAddr \/ NvStart \/ ForceFlush
  BY <1>5 DEF NvCheck, NvAddr, NvStart, ForceFlush, flashVars, nvVars
<1>6. CASE NvFinish
  <2>1. content'.val = content.val
    BY <1>6 DEF NvFinish, IInv, TypeOK, NvTypeOK
  <2> QED  BY <1>6, <2>1 DEF NvFinish
<1>7. ASSUME NEW v \in Val, AppWrite(v)
      PROVE  Durable!Next \/ UNCHANGED durableVars
  <2>1. content'.val \in Val /\ UNCHANGED <<flash, mem>>
    BY <1>7 DEF AppWrite, flashVars, IInv, TypeOK, NvTypeOK
  <2> QED  BY <2>1 DEF Durable!Next, Durable!Write
<1>8. CASE Reset
  <2>1. flash' = flash /\ content'.val = Recovered(flash)
    BY <1>8, BootFacts DEF Reset, IInv, FlashInv, Ranked, TypeOK, StoreTypeOK, Flash
  <2>2. mem'["nv"].val \in Val
    BY DEF IInv, TypeOK, StoreTypeOK, Rec
  <2> QED  BY <2>1, <2>2 DEF Durable!Next, Durable!Reset
<1> QED  BY <1>2, <1>3, <1>4, <1>5, <1>6, <1>7, <1>8 DEF Next, NvNext

(* The badge's storage keeps the promise of DurableStore: what a reset     *)
(* brings back is always the last value whose save completed or the one    *)
(* being saved. *)
THEOREM StorageIsDurable == Spec => DurableSpec
<1>1. Init => Durable!Init
  BY InitRefines
<1>2. IInv /\ IInv' /\ [Next]_vars =>
        [Durable!Next]_<<Recovered(flash), content.val, mem["nv"].val>>
  BY StepRefines
<1> QED  BY <1>1, <1>2, Invariance, PTL DEF Spec, DurableSpec, Durable!Spec

-----------------------------------------------------------------------------
(* Programming meets erased cells.  The invariant follows the two erases:  *)
(* the controller pages below the one being erased are erased already, and *)
(* while words are programmed the rest of the page still is.               *)

ErasedBelow == IF proc = "erase" THEN eraseId - 1 ELSE eraseId

ErasedInv ==
  /\ proc # "hung"
  /\ fs = "UNLOCK" => eraseId = 0
  /\ fs \in {"SUSPEND_WAIT", "ERASE", "ERASE_WAIT", "RESUME_WAIT"} =>
       \A w \in Word : w \div EraseUnit < ErasedBelow => flash[addr][w] = Erased
  /\ fs \in {"PROGRAM", "PROGRAM_WAIT"} =>
       \A w \in Word : w >= progId => flash[addr][w] = Erased
  /\ pending = 0

(* A word is in the first or the second controller page of its page. *)
LEMMA TwoPages ==
  ASSUME NEW w \in Word
  PROVE  w \div EraseUnit \in 0 .. (kErasePageCount - 1)
<1>1. EraseUnit \in Nat /\ EraseUnit > 0 /\ w \in Nat /\ w < 2 * EraseUnit
  BY FlashAssumption DEF Word, kErasePageCount
<1>2. w \div EraseUnit \in Int /\ w \div EraseUnit >= 0 /\ w \div EraseUnit < 2
  <2> DEFINE q == w \div EraseUnit
  <2> DEFINE r == w % EraseUnit
  <2>1. q \in Int /\ r \in 0 .. (EraseUnit - 1) /\ w = EraseUnit * q + r
    BY <1>1
  <2> HIDE DEF q, r
  <2>2. q >= 0
    <3> SUFFICES ASSUME q <= -1 PROVE FALSE
      BY <2>1
    <3>1. EraseUnit * q <= EraseUnit * (-1)
      BY <1>1, <2>1
    <3> QED  BY <1>1, <2>1, <3>1
  <2>3. q < 2
    <3> SUFFICES ASSUME q >= 2 PROVE FALSE
      BY <2>1
    <3>1. EraseUnit * q >= EraseUnit * 2
      BY <1>1, <2>1
    <3> QED  BY <1>1, <2>1, <3>1
  <2> QED  BY <2>1, <2>2, <2>3 DEF q
<1> QED  BY <1>2 DEF kErasePageCount

(* Every step keeps it, when no interrupt is lost. *)
LEMMA ErasedStep ==
  ASSUME EraseMayHang = FALSE, IInv, IInv', ErasedInv, [Next]_vars
  PROVE  ErasedInv'
<1> USE DEF ErasedInv
<1>1. /\ TypeOK /\ TypeOK' /\ PhaseInv /\ PhaseInv'
  BY DEF IInv
<1>2. /\ flash \in Flash /\ flash' \in Flash /\ addr \in Page /\ eraseId \in 0 .. 2
      /\ progId \in Nat /\ pending \in Nat
  BY <1>1 DEF TypeOK, StoreTypeOK, ServiceTypeOK, Flash, kErasePageCount
<1>3. CASE UNCHANGED <<flash, fs, addr, eraseId, progId, proc, pending>>
  BY <1>3 DEF ErasedBelow
<1>4. CASE Unlock
  <2>1. eraseId = 0 /\ proc # "erase" /\ fs' = "SUSPEND_WAIT"
    BY <1>1, <1>4 DEF Unlock, PhaseInv
  <2>2. UNCHANGED <<flash, addr, eraseId, proc, pending>>
    BY <1>4 DEF Unlock
  <2>3. ErasedBelow' = 0
    BY <2>1, <2>2 DEF ErasedBelow
  <2>4. \A w \in Word : ~ (w \div EraseUnit < ErasedBelow')
    BY <2>3, TwoPages DEF kErasePageCount
  <2> QED  BY <2>1, <2>2, <2>4
<1>5. CASE ErasesDone
  <2>1. proc # "erase" /\ progId = 0
    BY <1>1, <1>5 DEF ErasesDone, PhaseInv, Erasing
  <2>2. \A w \in Word : flash[addr][w] = Erased
    BY <1>5, <2>1, TwoPages DEF ErasesDone, ErasedBelow, kErasePageCount
  <2> QED  BY <1>5, <2>1, <2>2 DEF ErasesDone
<1>6. CASE TrySuspend
  BY <1>6 DEF TrySuspend, ErasedBelow
<1>7. CASE StartErase
  <2>1. proc = "none" /\ proc' = "erase" /\ fs = "ERASE" /\ fs' = "ERASE_WAIT"
    BY <1>1, <1>7 DEF StartErase, PhaseInv, TypeOK, ServiceTypeOK
  <2>2. /\ flash' = [flash EXCEPT ![addr] =
                      [w \in Word |-> IF w \in EraseWords(eraseId)
                                        THEN Garbage ELSE flash[addr][w]]]
        /\ eraseId' = eraseId + 1 /\ UNCHANGED <<addr, progId, pending>>
    BY <1>7, <2>1 DEF StartErase
  <2>3. \A w \in Word : w \div EraseUnit < eraseId => flash'[addr][w] = flash[addr][w]
    BY <1>2, <2>2, TwoPages DEF Flash, EraseWords
  <2>4. \A w \in Word : w \div EraseUnit < ErasedBelow' => flash'[addr'][w] = Erased
    BY <1>2, <2>1, <2>2, <2>3 DEF ErasedBelow
  <2> QED  BY <2>1, <2>2, <2>4
<1>8. CASE PollErase
  BY <1>8 DEF PollErase, ErasedBelow
<1>9. CASE Resume
  BY <1>9 DEF Resume, ErasedBelow
<1>10. CASE StartProgram
  BY <1>10 DEF StartProgram
<1>11. CASE ProgramWord
  <2>1. /\ fs = "PROGRAM_WAIT" /\ fs' = fs /\ addr' = addr /\ progId \in Word
        /\ progId' = progId + 1
    BY <1>1, <1>2, <1>11, Sizes DEF ProgramWord, PhaseInv, TypeOK, ServiceTypeOK, RecWord
  <2>2. flash[addr][progId] = Erased
    BY <1>2, <2>1
  <2>3. flash' = [flash EXCEPT ![addr][progId] = mem[data]] /\ pending' = pending
    BY <1>11, <2>2 DEF ProgramWord
  <2>4. \A w \in Word : w >= progId' => w # progId /\ w >= progId
    BY <1>2, <2>1 DEF Word
  <2>5. \A w \in Word : w >= progId' => flash'[addr][w] = Erased
    BY <1>2, <2>1, <2>3, <2>4 DEF Flash
  <2> QED  BY <1>11, <2>1, <2>3, <2>5 DEF ProgramWord
<1>12. CASE PollProgram
  BY <1>12 DEF PollProgram
<1>13. CASE EraseEnds
  <2>1. /\ proc = "erase" /\ proc' = "none" /\ fs = "ERASE_WAIT" /\ fs' = "RESUME_WAIT"
    BY <1>1, <1>13 DEF EraseEnds, PhaseInv
  <2>2. /\ flash' = [flash EXCEPT ![addr] =
                      [w \in Word |-> IF w \in EraseWords(eraseId - 1)
                                        THEN Erased ELSE flash[addr][w]]]
        /\ UNCHANGED <<eraseId, addr, progId, pending>>
    BY <1>13 DEF EraseEnds, SetErased
  <2>3. \A w \in Word : w \div EraseUnit < eraseId =>
          w \div EraseUnit < eraseId - 1 \/ w \in EraseWords(eraseId - 1)
    BY <1>2, TwoPages DEF EraseWords, kErasePageCount
  <2>4. \A w \in Word : w \div EraseUnit < eraseId => flash'[addr][w] = Erased
    BY <1>2, <2>1, <2>2, <2>3 DEF ErasedBelow, Flash
  <2> QED  BY <2>1, <2>2, <2>4 DEF ErasedBelow
<1>14. CASE EraseHangs
  BY <1>14 DEF EraseHangs
<1>15. CASE NvAddr
  BY <1>1, <1>15 DEF NvAddr, PhaseInv
<1>16. CASE NvStart
  BY <1>16 DEF NvStart, ProgramPageStart
<1>17. CASE Reset
  BY <1>17 DEF Reset
<1>18. CASE NvRoutine \/ NvCheck \/ NvFinish \/ (\E v \in Val : AppWrite(v)) \/ ForceFlush
  BY <1>3, <1>18 DEF NvRoutine, NvCheck, NvFinish, AppWrite, ForceFlush, fsVars, flashVars
<1>19. CASE IncBlocker \/ DecBlocker \/ UNCHANGED vars
  BY <1>3, <1>19 DEF IncBlocker, DecBlocker, fsVars, flashVars, vars
<1> QED
  BY <1>4, <1>5, <1>6, <1>7, <1>8, <1>9, <1>10, <1>11, <1>12, <1>13, <1>14, <1>15,
     <1>16, <1>17, <1>18, <1>19 DEF Next, NvNext, FlashNext, FlashRoutine

(* Words are programmed only where the page is erased, when no interrupt   *)
(* that ends an erase is lost: every programming run of FS_PROGRAM comes   *)
(* after both erases of its page have ended. *)
THEOREM OnlyErasedIsProgrammed ==
  EraseMayHang = FALSE /\ Spec => []ProgramsErasedCells
<1> SUFFICES ASSUME EraseMayHang = FALSE
             PROVE  Spec => []ProgramsErasedCells
  OBVIOUS
<1>1. Init => ErasedInv
  BY DEF Init, Boot, FlashReset, ErasedInv
<1>2. IInv /\ IInv' /\ ErasedInv /\ [Next]_vars => ErasedInv'
  BY ErasedStep
<1>3. ErasedInv => ProgramsErasedCells
  BY DEF ErasedInv, ProgramsErasedCells
<1> QED  BY <1>1, <1>2, <1>3, Invariance, PTL DEF Spec

-----------------------------------------------------------------------------
(* The storage beside the USB interrupt.  These proofs rest on the         *)
(* assumption that the clear command never comes between the two           *)
(* assignments of ProgramPage (EraseMayCutIn = FALSE); without it a record *)
(* may be programmed into page 0.                                          *)

-----------------------------------------------------------------------------
(* The types of UsbLogic.                                                  *)

(* The host's steps each send a report. *)
LEMMA HostSends ==
  ASSUME HostClear \/ HostStart \/ HostNext \/ HostName
  PROVE  \E len \in ScriptLens \cup {0}, c \in Chunks,
            cmd \in {"CLEAR", "WRITE", "DATA", "NAME", "PAD"} :
           OnDataRecv(cmd, len, c) /\ (cmd \in {"WRITE", "DATA"} => len \in ScriptLens)
<1>1. (CHOOSE c \in Chunks : TRUE) \in Chunks
  BY UsbAssumption
<1>2. CASE HostClear
  BY <1>1, <1>2 DEF HostClear
<1>3. CASE HostStart
  BY <1>3 DEF HostStart
<1>4. CASE HostNext
  BY <1>4 DEF HostNext
<1>5. CASE HostName
  <2> DEFINE cmd == CASE named = 0 -> "NAME"
                      [] named = NameReports - 1 -> "PAD"
                      [] OTHER -> "DATA"
  <2>1. PICK len \in ScriptLens, c \in Chunks : OnDataRecv(cmd, len, c)
    BY <1>5 DEF HostName
  <2>2. cmd \in {"NAME", "PAD", "DATA"}
    OBVIOUS
  <2> HIDE DEF cmd
  <2> QED  BY <2>1, <2>2
<1> QED  BY <1>2, <1>3, <1>4, <1>5

(* A script is counted once it begins, a name with its first report.       *)
UsbTypeInv == UsbTypeOK /\ (host = "clearing" => sessions < MaxSessions)

(* Every variable of UsbLogic keeps its type, and the index of the script  *)
(* stays within the script and two reports (UsbLogic.cc:156), whenever the *)
(* host's reports come. *)
THEOREM UsbTypesHold == UsbSpec => []UsbTypeOK
<1>1. UsbInit => UsbTypeInv
  <2> SUFFICES ASSUME UsbInit PROVE UsbTypeInv
    OBVIOUS
  <2>1. sent \in Seq(Chunks) /\ answers \in 0 .. MaxAnswers /\ sessions \in 0 .. MaxSessions
    BY UsbAssumption DEF UsbInit, UsbBoot
  <2>2. newData \in BOOLEAN /\ writing \in BOOLEAN
    BY DEF UsbInit, UsbBoot
  <2> QED  BY <2>1, <2>2 DEF UsbInit, UsbBoot, UsbTypeInv, UsbTypeOK, ReportBytes, NameLen,
                             NameReports
<1>2. UsbTypeInv /\ [UsbNext]_allVars => UsbTypeInv'
  <2> SUFFICES ASSUME UsbTypeInv, [UsbNext]_allVars PROVE UsbTypeInv'
    OBVIOUS
  <2> USE UsbAssumption DEF UsbTypeInv, UsbTypeOK, logicVars, hostVars, usbVars
  <2>1. CASE UNCHANGED usbVars
    BY <2>1
  <2>2. CASE UsbReset
    <3>1. sent' \in Seq(Chunks) /\ answers' \in 0 .. MaxAnswers /\ host' = "idle"
      BY <2>2 DEF UsbReset
    <3>2. newData' \in BOOLEAN /\ writing' \in BOOLEAN
      BY <2>2 DEF UsbReset
    <3> QED  BY <2>2, <3>1, <3>2 DEF UsbReset, NameLen, NameReports
  <2>3. CASE WriteRoutine
    <3>5. us' = "SET_NAME" <=> us = "SET_NAME"
      BY <2>3 DEF WriteRoutine, WriteErase, WriteErased, WriteChunk
    <3>1. UNCHANGED <<host, hostLen, sent, named, sessions, scriptLen, nameIndex>>
      BY <2>3 DEF WriteRoutine, WriteErase, WriteErased, WriteChunk
    <3> HIDE DEF hostVars
    <3>4. answers' \in 0 .. MaxAnswers
      <4>1. answers' = answers \/ Answer
        BY <2>3 DEF WriteRoutine, WriteErase, WriteErased, WriteChunk
      <4> QED  BY <4>1 DEF Answer
    <3>2. newData' \in BOOLEAN /\ writing' \in BOOLEAN
      BY <2>3 DEF WriteRoutine, WriteErase, WriteErased, WriteChunk
    <3>3. /\ us' \in {"IDLE", "ERASE", "WRITING", "WAIT_ERASE", "SET_NAME", "UNKNOWN"}
          /\ progIndex' \in Nat
          /\ us' = "WRITING" => progIndex' < scriptLen' + 2 * ReportBytes
      <4>1. CASE WriteErase \/ WriteErased
        BY <4>1 DEF WriteErase, WriteErased
      <4>2. CASE WriteChunk
        <5>1. scriptLen \in Nat /\ progIndex \in Nat
          OBVIOUS
        <5> HIDE DEF UsbTypeInv, UsbTypeOK
        <5>2. progIndex' = progIndex + ReportBytes /\ scriptLen' = scriptLen /\ us = "WRITING"
          BY <4>2 DEF WriteChunk
        <5>3. us' = "IDLE" \/ (us' = us /\ ~ (progIndex >= scriptLen + ReportBytes))
          BY <4>2 DEF WriteChunk
        <5> QED  BY <5>1, <5>2, <5>3 DEF ReportBytes
      <4> QED  BY <2>3, <4>1, <4>2 DEF WriteRoutine
    <3> QED  BY <3>1, <3>2, <3>3, <3>4, <3>5
  <2>4. CASE HostClear \/ HostStart \/ HostNext \/ HostName
    <3>1. /\ host' \in {"idle", "clearing", "writing"}
          /\ hostLen' \in ScriptLens \cup {0}
          /\ sessions' \in 0 .. MaxSessions /\ answers' \in 0 .. MaxAnswers
      <4>1. CASE HostClear
        BY <4>1 DEF HostClear
      <4>4. CASE HostName
        BY <4>4 DEF HostName
      <4>2. CASE HostStart
        <5>1. host' = "writing" /\ sessions' = sessions + 1 /\ hostLen' \in ScriptLens
          BY <4>2 DEF HostStart
        <5>2. sessions < MaxSessions
          BY <4>2 DEF HostStart
        <5>3. answers' \in 0 .. MaxAnswers
          BY <4>2 DEF HostStart, ReadAnswer
        <5> QED  BY <5>1, <5>2, <5>3
      <4>3. CASE HostNext
        BY <4>3 DEF HostNext, ReadAnswer
      <4> QED  BY <2>4, <4>1, <4>2, <4>3, <4>4
    <3>7. named' \in 0 .. NameReports - 1
      <4>1. named' = named \/ named' = (named + 1) % NameReports \/ named' = 0
        BY <2>4 DEF HostClear, HostStart, HostNext, HostName
      <4> QED  BY <4>1 DEF NameReports
    <3>6. host' = "clearing" => sessions' < MaxSessions
      BY <2>4 DEF HostClear, HostStart, HostNext, HostName
    <3>2. sent' \in Seq(Chunks)
      <4>1. CASE HostClear \/ HostName
        BY <4>1 DEF HostClear, HostName
      <4>2. CASE HostStart
        <5>1. PICK c \in Chunks : sent' = <<c>>
          BY <4>2 DEF HostStart
        <5> QED  BY <5>1
      <4>3. CASE HostNext
        <5>1. PICK c \in Chunks : sent' = Append(sent, c)
          BY <4>3 DEF HostNext
        <5> QED  BY <5>1
      <4> QED  BY <2>4, <4>1, <4>2, <4>3
    <3>3. PICK len \in ScriptLens \cup {0}, c \in Chunks,
               cmd \in {"CLEAR", "WRITE", "DATA", "NAME", "PAD"} :
             OnDataRecv(cmd, len, c) /\ (cmd \in {"WRITE", "DATA"} => len \in ScriptLens)
      BY <2>4, HostSends
    <3>4. newData' \in BOOLEAN /\ writing' \in BOOLEAN
      BY <3>3 DEF OnDataRecv, RecvErase, RecvStartWrite, RecvWriting, RecvName, RecvIgnored, RecvUnknown
    <3>8. /\ nameIndex' \in 0 .. NameLen - 2
          /\ us' = "SET_NAME" <=> nameIndex' > 0
      <4>1. CASE RecvName
        <5>1. NameCopied \in Nat /\ NameCopied > 0
          BY DEF NameCopied, NameLen, ReportBytes
        <5>2. CASE RecvNamePart
          BY <5>1, <5>2 DEF RecvNamePart, NameLen
        <5>3. CASE RecvNameEnd
          BY <5>3 DEF RecvNameEnd, NameLen
        <5> QED  BY <4>1, <5>2, <5>3 DEF RecvName
      <4>2. CASE ~ RecvName
        BY <3>3, <4>2 DEF OnDataRecv, RecvErase, RecvStartWrite, RecvWriting, RecvIgnored,
                          RecvUnknown
      <4> QED  BY <4>1, <4>2
    <3>5. /\ us' \in {"IDLE", "ERASE", "WRITING", "WAIT_ERASE", "SET_NAME", "UNKNOWN"}
          /\ scriptLen' \in ScriptLens \cup {0}
          /\ progIndex' \in Nat
          /\ us' = "WRITING" => progIndex' < scriptLen' + 2 * ReportBytes
      BY <3>3 DEF OnDataRecv, RecvErase, RecvStartWrite, RecvWriting, RecvName, RecvNamePart,
                  RecvNameEnd, RecvIgnored, RecvUnknown, ReportBytes
    <3> QED  BY <3>1, <3>2, <3>4, <3>5, <3>6, <3>7, <3>8
  <2> QED  BY <2>1, <2>2, <2>3, <2>4 DEF UsbNext, allVars
<1>3. UsbTypeInv => UsbTypeOK
  BY DEF UsbTypeInv
<1> QED  BY <1>1, <1>2, <1>3, PTL DEF UsbSpec

-----------------------------------------------------------------------------
(* The invariant of the storage with two clients.                          *)

Cells == Cell \cup Chunks

(* The types of what the storage and the service use; page 0 and the       *)
(* script's buffer hold reports.                                           *)
UsbTypes ==
  /\ flash \in [Page -> [Word -> Cells]]
  /\ mem \in [{"nv", "script"} -> Rec \cup Chunks] /\ mem["nv"] \in Rec
  /\ resets \in 0 .. MaxResets
  /\ mpc \in {"idle", "program", "check", "addr", "start", "finish"}
  /\ ServiceTypeOK
  /\ NvTypeOK
  /\ newData \in BOOLEAN /\ progIndex \in Nat

(* A request is the script's when it is for page 0 and else the storage's, *)
(* but for the moment in ProgramPage in which the address is set and the   *)
(* rest may be of an ErasePage that came before.                           *)
Script == fs # "IDLE" /\ addr = 0
Record == fs # "IDLE" /\ addr # 0 /\ mpc # "start"

(* How the main thread, which the USB interrupt finds anywhere, and the    *)
(* state of the service go together.                                       *)
UsbPhase ==
  /\ mpc \in {"check", "addr"} => fs = "IDLE" \/ (fs = "UNLOCK" /\ addr = 0)
  /\ mpc = "start" => fs \in {"IDLE", "UNLOCK"}
  /\ mpc = "finish" => fs = "UNLOCK"
  /\ mpc \in {"start", "finish"} => addr = nextPage
  /\ mpc \in {"check", "addr", "start", "finish"} =>
       nextPage # 0 /\ mem["nv"].schema = 1 /\ mem["nv"].gen = content.gen
  /\ mpc = "program" => fs = "PROGRAM_WAIT" /\ 1 <= burst /\ progId + burst <= dataLen
  /\ progId <= dataLen
  /\ fs = "ERASE" => eraseId < kErasePageCount
  /\ fs # "PROGRAM_WAIT" => pending = 0
  /\ proc = "erase" => fs = "ERASE_WAIT"
  /\ suspended <=> fs \in {"ERASE", "ERASE_WAIT", "RESUME_WAIT"}

(* No request is built from two. *)
Requests ==
  /\ Script /\ fs \in Erasing => eraseOnly
  /\ Script /\ fs \notin Erasing => data = "script"
  /\ data = "script" \/ newData => mem["script"] \in Chunks
  /\ Record => data = "nv" /\ ~ eraseOnly /\ dataLen = RecLen
  /\ Record /\ fs \in Erasing => progId = 0
  /\ Record /\ mpc # "finish" =>
       NextTarget # addr /\ mem["nv"].schema = 1 /\ mem["nv"].gen < content.gen

(* The records are ranked, the newest is spared and what is written comes  *)
(* from one snapshot: as in NvStorage, for the storage's requests.         *)
UsbRanked ==
  /\ Distinct(flash)
  /\ ValidPages(flash) # {} => \E p \in NvPage : Newest(flash, p)
  /\ \A p \in ValidPages(flash) : Newer(Snapshot, RecordAt(flash, p))
  /\ Record => \A q \in ValidPages(flash) \ {addr} : Newer(mem["nv"], RecordAt(flash, q))

UsbSpared ==
  /\ fs \in Erasing => ~ Newest(flash, addr)
  /\ ~ Record => ~ Newest(flash, NextTarget)

UsbWritten ==
  Record /\ fs \notin Erasing /\ pending = 0 =>
    \A w \in 0 .. (progId - 1) : flash[addr][w] = mem["nv"]

UsbFlash == ScriptPageReserved /\ UsbRanked /\ UsbSpared /\ UsbWritten

UsbInv == UsbTypes /\ UsbPhase /\ Requests /\ UsbFlash

-----------------------------------------------------------------------------
(* The steps.                                                              *)

nvUsbVars == <<vars, newData, progIndex>>

(* What a report of the host does to the badge. *)
Received ==
  \/ RecvErase
  \/ \E len \in ScriptLens, c \in Chunks : RecvStartWrite(len, c)
  \/ \E c \in Chunks : RecvWriting(c)
  \/ RecvName
  \/ UNCHANGED nvUsbVars

(* What a report of a name changes: the name in RAM, and that of the       *)
(* snapshot while it is being taken. *)
LEMMA NameFacts ==
  ASSUME UsbTypes, RecvName
  PROVE  /\ UNCHANGED <<flash, fsVars, proc, suspenderVars, mpc, nextPage, cycles, since,
                        resets, newData, progIndex>>
         /\ content' \in [gen : Nat \ {0}, val : Val]
         /\ content'.gen = content.gen /\ content'.val[1] = content.val[1]
         /\ mem' = mem \/ mpc = "check"
         /\ mem' \in [{"nv", "script"} -> Rec \cup Chunks] /\ mem'["nv"] \in Rec
         /\ mem'["script"] = mem["script"]
         /\ mem'["nv"].schema = mem["nv"].schema /\ mem'["nv"].gen = mem["nv"].gen
         /\ mem'["nv"].val[1] = mem["nv"].val[1]
         /\ dirty' \in BOOLEAN /\ force' \in BOOLEAN /\ done' \in {"none", "waiting", "called"}
<1> USE DEF UsbTypes, NvTypeOK
<1>1. UNCHANGED <<flash, fsVars, proc, suspenderVars, mpc, nextPage, cycles, since, resets,
                  newData, progIndex>>
  BY DEF RecvName
<1>2. /\ Val = Rests \X Names /\ Mixed \in Names /\ WholeNames \subseteq Names
  BY UsbAssumption DEF WholeNames
<1>3. PICK n \in Names : NameInPlace(n)
  BY <1>2 DEF RecvName, RecvNamePart, RecvNameEnd
<1>4. /\ content.val \in Rests \X Names /\ mem["nv"].val \in Rests \X Names
      /\ content \in [gen : Nat \ {0}, val : Val] /\ mem["nv"] \in Rec
  BY <1>2 DEF Rec
<1>5. /\ content' \in [gen : Nat \ {0}, val : Val]
      /\ content'.gen = content.gen /\ content'.val[1] = content.val[1]
  <2>1. content' = [content EXCEPT !.val = <<content.val[1], n>>]
    BY <1>3 DEF NameInPlace
  <2>2. <<content.val[1], n>> \in Val
    BY <1>2, <1>4
  <2> QED  BY <1>4, <2>1, <2>2
<1>6. CASE mem' = mem
  BY <1>1, <1>5, <1>6 DEF RecvName, RecvNamePart, RecvNameEnd
<1>7. CASE mem' # mem
  <2>1. PICK m \in Names : mem' = [mem EXCEPT !["nv"].val = <<mem["nv"].val[1], m>>]
    BY <1>2, <1>3, <1>7 DEF NameInPlace
  <2>2. <<mem["nv"].val[1], m>> \in Val
    BY <1>2, <1>4
  <2>3. mem'["nv"] = [mem["nv"] EXCEPT !.val = <<mem["nv"].val[1], m>>]
    BY <2>1
  <2>4. /\ mem'["nv"] \in Rec
        /\ mem'["nv"].schema = mem["nv"].schema /\ mem'["nv"].gen = mem["nv"].gen
        /\ mem'["nv"].val[1] = mem["nv"].val[1]
    BY <1>4, <2>2, <2>3 DEF Rec
  <2>5. mem'["script"] = mem["script"]
    BY <2>1
  <2>6. mem' \in [{"nv", "script"} -> Rec \cup Chunks]
    BY <2>1, <2>3, <2>4
  <2>7. mpc = "check"
    BY <1>3, <1>7 DEF NameInPlace
  <2>8. dirty' \in BOOLEAN /\ force' \in BOOLEAN /\ done' \in {"none", "waiting", "called"}
    BY DEF RecvName, RecvNamePart, RecvNameEnd
  <2> QED  BY <1>1, <1>5, <2>4, <2>5, <2>6, <2>7, <2>8
<1> QED  BY <1>6, <1>7

LEMMA HostSteps ==
  ASSUME HostClear \/ HostStart \/ HostNext \/ HostName
  PROVE  Received
<1>1. PICK len \in ScriptLens \cup {0}, c \in Chunks,
           cmd \in {"CLEAR", "WRITE", "DATA", "NAME", "PAD"} :
         OnDataRecv(cmd, len, c) /\ (cmd \in {"WRITE", "DATA"} => len \in ScriptLens)
  BY HostSends
<1>2. CASE RecvUnknown \/ RecvIgnored
  BY <1>2 DEF Received, RecvUnknown, RecvIgnored, nvUsbVars, logicVars
<1> QED  BY <1>1, <1>2 DEF Received, OnDataRecv

(* The steps of the badge, with the host left out. *)
BadgeStep ==
  \/ FlashNext /\ UNCHANGED <<nvVars, resets, newData, progIndex>>
  \/ NvNext /\ UNCHANGED <<newData, progIndex>>
  \/ UsbReset
  \/ WriteRoutine
  \/ Received

LEMMA BadgeSteps == [UsbNext]_allVars => BadgeStep
<1>1. UNCHANGED allVars => Received
  BY DEF allVars, usbVars, logicVars, Received, nvUsbVars
<1> QED  BY <1>1, HostSteps DEF UsbNext, BadgeStep, usbVars, logicVars

(* Types are preserved, group by group. *)
LEMMA UsbStoreStep ==
  ASSUME UsbInv, BadgeStep
  PROVE  /\ flash' \in [Page -> [Word -> Cells]]
         /\ mem' \in [{"nv", "script"} -> Rec \cup Chunks] /\ mem'["nv"] \in Rec
         /\ resets' \in 0 .. MaxResets
         /\ mpc' \in {"idle", "program", "check", "addr", "start", "finish"}
         /\ newData' \in BOOLEAN /\ progIndex' \in Nat
<1> USE DEF UsbInv, UsbTypes
<1>1. CASE FlashNext /\ UNCHANGED <<nvVars, resets, newData, progIndex>>
  <2>1. flash' \in [Page -> [Word -> Cells]]
    <3>1. CASE UNCHANGED flash
      BY <3>1
    <3>2. CASE StartErase \/ EraseEnds \/ EraseHangs
      BY <3>2 DEF StartErase, EraseEnds, EraseHangs, SetErased, Cells, Cell
    <3>3. CASE ProgramWord
      BY <3>3 DEF ProgramWord, ServiceTypeOK, Cells, Cell
    <3> QED  BY <1>1, <3>1, <3>2, <3>3
               DEF FlashNext, FlashRoutine, Unlock, ErasesDone, TrySuspend, PollErase, Resume,
                   StartProgram, PollProgram, IncBlocker, DecBlocker
  <2>2. /\ mem' = mem
        /\ mpc' \in {"idle", "program", "check", "addr", "start", "finish"}
    BY <1>1 DEF FlashNext, FlashRoutine, Unlock, ErasesDone, TrySuspend, StartErase, PollErase,
                Resume, StartProgram, ProgramWord, PollProgram, EraseEnds, EraseHangs,
                IncBlocker, DecBlocker
  <2> QED  BY <1>1, <2>1, <2>2
<1>2. CASE NvNext /\ UNCHANGED <<newData, progIndex>>
  <2>1. Snapshot \in Rec
    BY DEF Snapshot, Rec, NvTypeOK
  <2>2. flash' = flash /\ resets' = resets
    BY <1>2 DEF NvNext, NvRoutine, NvCheck, NvAddr, NvStart, NvFinish, AppWrite, ForceFlush,
                flashVars
  <2>3. mem' = mem \/ mem' = [mem EXCEPT !["nv"] = Snapshot]
    BY <1>2 DEF NvNext, NvRoutine, NvCheck, NvAddr, NvStart, NvFinish, AppWrite, ForceFlush,
                flashVars
  <2>4. mpc' \in {"idle", "program", "check", "addr", "start", "finish"}
    BY <1>2 DEF NvNext, NvRoutine, NvCheck, NvAddr, NvStart, NvFinish, AppWrite, ForceFlush,
                flashVars
  <2> QED  BY <1>2, <2>1, <2>2, <2>3, <2>4
<1>3. CASE UsbReset
  <2>1. ZeroRecord \in Rec
    BY NvAssumption DEF ZeroRecord, Rec
  <2>2. /\ flash' = flash /\ mem' = [c \in {"nv", "script"} |-> ZeroRecord]
        /\ mpc' = "idle" /\ newData' = FALSE /\ progIndex' = 0
    BY <1>3 DEF UsbReset, Reset
  <2>3. resets' \in 0 .. MaxResets
    BY <1>3, NvAssumption DEF UsbReset, Reset
  <2>4. newData' \in BOOLEAN
    BY <2>2
  <2> QED  BY <2>1, <2>2, <2>3, <2>4
<1>4. CASE WriteRoutine
  <2>1. newData' \in BOOLEAN
    BY <1>4 DEF WriteRoutine, WriteErase, WriteErased, WriteChunk
  <2>2. progIndex' \in Nat
    <3>1. progIndex' = progIndex \/ progIndex' = progIndex + ReportBytes
      BY <1>4 DEF WriteRoutine, WriteErase, WriteErased, WriteChunk
    <3> QED  BY <3>1 DEF ReportBytes
  <2> QED  BY <1>4, <2>1, <2>2 DEF WriteRoutine
<1>6. CASE RecvName
  BY <1>6, NameFacts
<1>5. CASE Received /\ ~ RecvName
  <2>1. flash' = flash /\ resets' = resets /\ mpc' = mpc
    BY <1>5 DEF Received, RecvErase, RecvStartWrite, RecvWriting, nvUsbVars, vars, flashVars
  <2>2. mem' = mem \/ \E c \in Chunks : mem' = [mem EXCEPT !["script"] = c]
    BY <1>5 DEF Received, RecvErase, RecvStartWrite, RecvWriting, nvUsbVars, vars, flashVars
  <2>3. newData' \in BOOLEAN
    BY <1>5 DEF Received, RecvErase, RecvStartWrite, RecvWriting, nvUsbVars, logicVars
  <2>4. progIndex' \in Nat
    BY <1>5 DEF Received, RecvErase, RecvStartWrite, RecvWriting, nvUsbVars, logicVars
  <2> QED  BY <2>1, <2>2, <2>3, <2>4
<1> QED  BY <1>1, <1>2, <1>3, <1>4, <1>5, <1>6 DEF BadgeStep

LEMMA UsbServiceStep ==
  ASSUME UsbInv, BadgeStep
  PROVE  ServiceTypeOK'
<1> USE FlashAssumption DEF UsbInv, UsbTypes, ServiceTypeOK, fsVars, suspenderVars
<1>1. CASE FlashNext
  <2> USE DEF FlashState, kErasePageCount
  <2>1. CASE Unlock \/ ErasesDone
    BY <2>1 DEF Unlock, ErasesDone
  <2>2. CASE TrySuspend \/ Resume
    BY <2>2 DEF TrySuspend, Resume
  <2>3. CASE StartErase
    BY <2>3 DEF StartErase, UsbPhase
  <2>4. CASE PollErase
    BY <2>4 DEF PollErase
  <2>5. CASE StartProgram
    BY <2>5 DEF StartProgram, UsbPhase
  <2>6. CASE ProgramWord
    BY <2>6 DEF ProgramWord, UsbPhase
  <2>7. CASE PollProgram
    BY <2>7 DEF PollProgram
  <2>8. CASE EraseEnds \/ EraseHangs
    BY <2>8 DEF EraseEnds, EraseHangs
  <2>9. CASE IncBlocker \/ DecBlocker
    BY <2>9 DEF IncBlocker, DecBlocker
  <2> QED  BY <1>1, <2>1, <2>2, <2>3, <2>4, <2>5, <2>6, <2>7, <2>8, <2>9
             DEF FlashNext, FlashRoutine
<1>2. CASE NvRoutine \/ NvCheck \/ NvFinish
  BY <1>2 DEF NvRoutine, NvCheck, NvFinish
<1>3. CASE NvAddr
  BY <1>3 DEF NvAddr, ProgramPageAddr, NvTypeOK
<1>4. CASE NvStart
  <2>1. fs' \in FlashState /\ data' \in {"nv", "script"} /\ eraseOnly' \in BOOLEAN
    BY <1>4 DEF NvStart, ProgramPageStart, FlashState
  <2>2. dataLen' \in Nat /\ progId' \in Nat /\ eraseId' \in 0 .. kErasePageCount
    BY <1>4, Sizes DEF NvStart, ProgramPageStart, kErasePageCount
  <2> QED  BY <1>4, <2>1, <2>2 DEF NvStart
<1>5. CASE ForceFlush \/ \E v \in Val : AppWrite(v)
  BY <1>5 DEF ForceFlush, AppWrite, flashVars
<1>6. CASE UsbReset
  <2>1. /\ fs' \in FlashState
        /\ addr' \in Page
        /\ data' \in {"nv", "script"}
        /\ proc' \in {"none", "erase", "hung"}
    BY <1>6, Sizes DEF UsbReset, Reset, FlashState
  <2>2. /\ dataLen' \in Nat /\ progId' \in Nat /\ pending' \in Nat /\ burst' \in Nat
        /\ eraseId' \in 0 .. kErasePageCount
        /\ waitCnt' \in 0 .. EraseTimeout
        /\ blockers' \in 0 .. MaxBlockers
    BY <1>6 DEF UsbReset, Reset, kErasePageCount
  <2>3. eraseOnly' \in BOOLEAN /\ suspended' \in BOOLEAN
    BY <1>6 DEF UsbReset, Reset
  <2> QED  BY <2>1, <2>2, <2>3
<1>7. CASE ErasePage(ScriptPage) /\ UNCHANGED <<proc, blockers, suspended>>
  <2>1. fs' \in FlashState /\ addr' \in Page /\ eraseOnly' \in BOOLEAN
    BY <1>7, Sizes DEF ErasePage, ScriptPage, FlashState
  <2> QED  BY <1>7, <2>1 DEF ErasePage, kErasePageCount
<1>8. CASE UNCHANGED <<fsVars, proc, blockers, suspended>>
  BY <1>8
<1>9. CASE WriteRoutine
  <2>1. CASE WriteChunk
    <3>1. progIndex \div ReportBytes \in Nat
      BY DEF ReportBytes
    <3>2. fs' \in FlashState /\ addr' \in Page /\ data' \in {"nv", "script"}
          /\ eraseOnly' \in BOOLEAN
      BY <2>1, Sizes DEF WriteChunk, ProgramOnly, IsBusy, ScriptPage, FlashState
    <3>3. progId' \in Nat /\ dataLen' \in Nat
      BY <2>1, <3>1 DEF WriteChunk, ProgramOnly, IsBusy
    <3>4. UNCHANGED <<eraseId, pending, waitCnt, burst>>
      BY <2>1 DEF WriteChunk, ProgramOnly, IsBusy
    <3> QED  BY <1>9, <3>2, <3>3, <3>4 DEF WriteRoutine
  <2> QED  BY <1>7, <1>8, <1>9, <2>1 DEF WriteRoutine, WriteErase, WriteErased
<1>10. CASE Received
  <2>1. CASE RecvName
    BY <1>8, <2>1 DEF RecvName
  <2> QED  BY <1>7, <1>8, <1>10, <2>1 DEF Received, RecvErase, RecvStartWrite, RecvWriting,
                                          nvUsbVars, vars, flashVars
<1> QED  BY <1>1, <1>2, <1>3, <1>4, <1>5, <1>6, <1>9, <1>10 DEF BadgeStep, NvNext

LEMMA UsbNvStep ==
  ASSUME UsbInv, BadgeStep
  PROVE  NvTypeOK'
<1> USE NvAssumption DEF UsbInv, UsbTypes, NvTypeOK, nvVars
<1>1. CASE UNCHANGED nvVars
  BY <1>1
<1>2. CASE NvRoutine
  <2>1. nextPage' \in Page
    BY <1>2, Sizes DEF NvRoutine, NextTarget
  <2>2. cycles' \in 0 .. WarmUp /\ since' \in 0 .. MinInterval
    BY <1>2 DEF NvRoutine
  <2>3. done' \in {"none", "waiting", "called"}
    BY <1>2 DEF NvRoutine
  <2>4. dirty' \in BOOLEAN /\ force' \in BOOLEAN
    BY <1>2 DEF NvRoutine
  <2> QED  BY <1>2, <2>1, <2>2, <2>3, <2>4 DEF NvRoutine
<1>3. CASE NvCheck
  BY <1>3 DEF NvCheck
<1>4. CASE NvAddr \/ NvStart
  BY <1>4 DEF NvAddr, NvStart
<1>5. CASE NvFinish
  <2>1. nextPage' \in Page
    BY <1>5, RoundRobin DEF NvFinish
  <2>2. content' \in [gen : Nat \ {0}, val : Val]
    BY <1>5 DEF NvFinish
  <2>3. dirty' \in BOOLEAN /\ force' \in BOOLEAN
    BY <1>5 DEF NvFinish
  <2>4. cycles' \in 0 .. WarmUp /\ since' \in 0 .. MinInterval
    BY <1>5 DEF NvFinish
  <2>5. done' \in {"none", "waiting", "called"}
    BY <1>5 DEF NvFinish
  <2> QED  BY <2>1, <2>2, <2>3, <2>4, <2>5
<1>6. CASE ForceFlush \/ \E v \in Val : AppWrite(v)
  BY <1>6 DEF ForceFlush, AppWrite
<1>7. CASE UsbReset
  <2>1. /\ BootContent(flash) \in [gen : Nat \ {0}, val : Val]
        /\ BootDirty(flash) \in BOOLEAN
        /\ BootNextPage(flash) \in Page
    BY BootFacts DEF UsbFlash, UsbRanked
  <2>2. dirty' \in BOOLEAN /\ force' \in BOOLEAN
    BY <1>7, <2>1 DEF UsbReset, Reset
  <2>3. /\ cycles' \in 0 .. WarmUp /\ since' \in 0 .. MinInterval
        /\ done' \in {"none", "waiting", "called"}
    BY <1>7 DEF UsbReset, Reset
  <2> QED  BY <1>7, <2>1, <2>2, <2>3 DEF UsbReset, Reset
<1>8. CASE WriteRoutine
  BY <1>8 DEF WriteRoutine
<1>9. CASE Received
  <2>1. CASE RecvName
    BY <2>1, NameFacts
  <2> QED  BY <1>9, <2>1 DEF Received, RecvErase, RecvStartWrite, RecvWriting, nvUsbVars, vars
<1> QED  BY <1>1, <1>2, <1>3, <1>4, <1>5, <1>6, <1>7, <1>8, <1>9 DEF BadgeStep, NvNext

LEMMA UsbTypesStep == UsbInv /\ BadgeStep => UsbTypes'
BY UsbStoreStep, UsbServiceStep, UsbNvStep DEF UsbTypes

(* The phases stay in step with the main thread and the USB interrupt. *)
LEMMA UsbPhaseStep ==
  ASSUME EraseMayCutIn = FALSE, UsbInv, UsbTypes', BadgeStep
  PROVE  UsbPhase'
<1> USE DEF UsbInv, UsbTypes, UsbPhase, NextTarget, Snapshot
<1>1. CASE FlashNext /\ UNCHANGED <<nvVars, resets, newData, progIndex>>
  <2> USE <1>1, FlashAssumption DEF nvVars, fsVars, suspenderVars, kErasePageCount
  <2>1. CASE Unlock
    BY <2>1 DEF Unlock
  <2>2. CASE ErasesDone
    BY <2>2 DEF ErasesDone
  <2>3. CASE TrySuspend
    BY <2>3 DEF TrySuspend, ServiceTypeOK
  <2>4. CASE StartErase
    BY <2>4 DEF StartErase
  <2>5. CASE PollErase
    BY <2>5 DEF PollErase
  <2>6. CASE Resume
    BY <2>6 DEF Resume
  <2>7. CASE StartProgram
    BY <2>7 DEF StartProgram, ServiceTypeOK
  <2>8. CASE ProgramWord
    BY <2>8 DEF ProgramWord, ServiceTypeOK
  <2>9. CASE PollProgram
    BY <2>9 DEF PollProgram
  <2>10. CASE EraseEnds
    BY <2>10 DEF EraseEnds
  <2>11. CASE EraseHangs
    BY <2>11 DEF EraseHangs
  <2>12. CASE IncBlocker \/ DecBlocker
    BY <2>12 DEF IncBlocker, DecBlocker
  <2> QED  BY <2>1, <2>2, <2>3, <2>4, <2>5, <2>6, <2>7, <2>8, <2>9, <2>10,
              <2>11, <2>12 DEF FlashNext, FlashRoutine
<1>2. CASE NvRoutine
  <2>1. /\ mpc = "idle"
        /\ UNCHANGED <<fs, addr, data, dataLen, eraseId, progId, pending, burst, proc,
                       suspended, content>>
    BY <1>2 DEF NvRoutine, fsVars, suspenderVars
  <2>2. CASE fs = "IDLE" /\ mpc' = "check" /\ nextPage' # 0 /\ mem'["nv"] = Snapshot
    BY <2>1, <2>2
  <2>3. CASE UNCHANGED <<mem, nextPage, mpc>>
    BY <2>1, <2>3
  <2>4. mem' = [mem EXCEPT !["nv"] = Snapshot] => mem'["nv"] = Snapshot
    OBVIOUS
  <2> QED  BY <1>2, <2>2, <2>3, <2>4 DEF NvRoutine, IsBusy
<1>3. CASE NvCheck
  BY <1>3 DEF NvCheck, IsBusy, fsVars, suspenderVars
<1>4. CASE NvAddr
  BY <1>4 DEF NvAddr, ProgramPageAddr, suspenderVars, nvVars
<1>5. CASE NvStart
  BY <1>5, Sizes DEF NvStart, ProgramPageStart, suspenderVars, nvVars
<1>6. CASE NvFinish
  BY <1>6 DEF NvFinish, fsVars, suspenderVars
<1>7. CASE ForceFlush \/ \E v \in Val : AppWrite(v)
  BY <1>7 DEF ForceFlush, AppWrite, flashVars, fsVars, suspenderVars
<1>8. CASE UsbReset
  BY <1>8 DEF UsbReset, Reset
<1>9. CASE WriteRoutine
  <2>1. /\ mpc = "idle" /\ UNCHANGED <<mem, proc, suspended, mpc, content, nextPage>>
    BY <1>9 DEF WriteRoutine, suspenderVars, nvVars
  <2>2. CASE UNCHANGED fsVars
    BY <2>1, <2>2 DEF fsVars
  <2>3. CASE fs = "IDLE" /\ ErasePage(ScriptPage)
    BY <2>1, <2>3 DEF ErasePage, IsBusy
  <2>4. CASE WriteChunk
    BY <2>1, <2>4 DEF WriteChunk, ProgramOnly, IsBusy, ServiceTypeOK
  <2> QED  BY <1>9, <2>2, <2>3, <2>4 DEF WriteRoutine, WriteErase, WriteErased, IsBusy
<1>10. CASE Received
  <2>1. CASE RecvErase
    BY <2>1 DEF RecvErase, ErasePage, ScriptPage, IsBusy, fsVars, suspenderVars, nvVars
  <2>2. CASE \E c \in Chunks : mem' = [mem EXCEPT !["script"] = c]
                               /\ UNCHANGED <<fsVars, proc, suspenderVars, mpc, nvVars>>
    BY <2>2 DEF fsVars, suspenderVars, nvVars
  <2>3. CASE RecvName
    <3>1. /\ UNCHANGED <<fs, addr, dataLen, eraseId, progId, pending, burst, proc, suspended,
                         mpc, nextPage>>
          /\ content'.gen = content.gen
          /\ mem'["nv"].schema = mem["nv"].schema /\ mem'["nv"].gen = mem["nv"].gen
      BY <2>3, NameFacts DEF fsVars, suspenderVars
    <3> QED  BY <3>1
  <2>4. CASE UNCHANGED nvUsbVars
    BY <2>4 DEF nvUsbVars, vars, flashVars, fsVars, suspenderVars, nvVars
  <2> QED  BY <1>10, <2>1, <2>2, <2>3, <2>4 DEF Received, RecvStartWrite, RecvWriting
<1> QED  BY <1>1, <1>2, <1>3, <1>4, <1>5, <1>6, <1>7, <1>8, <1>9, <1>10 DEF BadgeStep, NvNext

(* Each request is one client's, whatever the other does meanwhile. *)
LEMMA RequestsStep ==
  ASSUME UsbInv, UsbTypes', UsbPhase', BadgeStep
  PROVE  Requests'
<1> USE DEF UsbInv, UsbTypes, UsbPhase, Requests, Script, Record, Erasing, NextTarget
<1>1. CASE FlashNext /\ UNCHANGED <<nvVars, resets, newData, progIndex>>
  <2> USE <1>1 DEF nvVars, fsVars, suspenderVars
  <2>1. CASE Unlock
    BY <2>1 DEF Unlock
  <2>2. CASE ErasesDone
    BY <2>2 DEF ErasesDone
  <2>3. CASE TrySuspend
    BY <2>3 DEF TrySuspend
  <2>4. CASE StartErase
    BY <2>4 DEF StartErase
  <2>5. CASE PollErase
    BY <2>5 DEF PollErase
  <2>6. CASE Resume
    BY <2>6 DEF Resume
  <2>7. CASE StartProgram
    BY <2>7 DEF StartProgram
  <2>8. CASE ProgramWord
    BY <2>8 DEF ProgramWord
  <2>9. CASE PollProgram
    BY <2>9 DEF PollProgram
  <2>10. CASE EraseEnds
    BY <2>10 DEF EraseEnds
  <2>11. CASE EraseHangs
    BY <2>11 DEF EraseHangs
  <2>12. CASE IncBlocker \/ DecBlocker
    BY <2>12 DEF IncBlocker, DecBlocker
  <2> QED  BY <2>1, <2>2, <2>3, <2>4, <2>5, <2>6, <2>7, <2>8, <2>9, <2>10,
              <2>11, <2>12 DEF FlashNext, FlashRoutine
<1>2. CASE NvRoutine /\ UNCHANGED <<newData, progIndex>>
  <2>1. /\ mpc = "idle" /\ mem'["script"] = mem["script"]
        /\ UNCHANGED <<fs, addr, data, dataLen, progId, eraseOnly, content, newData>>
    BY <1>2 DEF NvRoutine, fsVars
  <2>2. CASE fs = "IDLE"
    BY <2>1, <2>2
  <2>3. CASE UNCHANGED <<mem, nextPage, mpc>>
    BY <2>1, <2>3
  <2> QED  BY <1>2, <2>2, <2>3 DEF NvRoutine, IsBusy
<1>3. CASE NvCheck /\ UNCHANGED <<newData, progIndex>>
  BY <1>3 DEF NvCheck, IsBusy, fsVars
<1>4. CASE NvAddr /\ UNCHANGED <<newData, progIndex>>
  BY <1>4 DEF NvAddr, ProgramPageAddr, nvVars
<1>5. CASE NvStart /\ UNCHANGED <<newData, progIndex>>
  BY <1>5, Sizes DEF NvStart, ProgramPageStart, nvVars
<1>6. CASE NvFinish /\ UNCHANGED <<newData, progIndex>>
  <2>1. /\ fs = "UNLOCK" /\ fs' = fs /\ addr = nextPage /\ addr' = addr /\ addr \in Page
        /\ addr # 0 /\ mpc = "finish" /\ mem' = mem
        /\ mem["nv"].schema = 1 /\ mem["nv"].gen = content.gen
        /\ UNCHANGED <<data, eraseOnly, dataLen, progId, newData>>
    BY <1>6 DEF NvFinish, fsVars, ServiceTypeOK
  <2>2. content'.gen = content.gen + 1 /\ content.gen \in Nat
    BY <1>6 DEF NvFinish, NvTypeOK
  <2>3. nextPage' = (addr + 1) % NPages
    BY <1>6, <2>1 DEF NvFinish
  <2>4. nextPage' # addr /\ (addr = 1 => nextPage' # 0)
    BY <2>1, <2>3, RoundRobin
  <2> QED  BY <2>1, <2>2, <2>4
<1>7. CASE (ForceFlush \/ \E v \in Val : AppWrite(v)) /\ UNCHANGED <<newData, progIndex>>
  BY <1>7 DEF ForceFlush, AppWrite, flashVars, fsVars, NvTypeOK
<1>8. CASE UsbReset
  BY <1>8 DEF UsbReset, Reset
<1>9. CASE WriteRoutine
  <2>1. /\ mpc = "idle" /\ UNCHANGED <<mem, mpc, content, nextPage>>
    BY <1>9 DEF WriteRoutine, nvVars
  <2>2. CASE UNCHANGED fsVars /\ newData' = newData
    BY <2>1, <2>2 DEF fsVars
  <2>3. CASE fs = "IDLE" /\ ErasePage(ScriptPage) /\ newData' = newData
    BY <2>1, <2>3 DEF ErasePage, IsBusy, ScriptPage
  <2>4. CASE WriteChunk
    BY <2>1, <2>4 DEF WriteChunk, ProgramOnly, IsBusy, ScriptPage
  <2> QED  BY <1>9, <2>2, <2>3, <2>4 DEF WriteRoutine, WriteErase, WriteErased, IsBusy
<1>10. CASE Received
  <2>1. CASE RecvErase
    BY <2>1 DEF RecvErase, ErasePage, ScriptPage, IsBusy, fsVars, nvVars
  <2>2. CASE \E c \in Chunks : mem' = [mem EXCEPT !["script"] = c]
                               /\ UNCHANGED <<fsVars, mpc, nvVars>>
    BY <2>2 DEF fsVars, nvVars
  <2>3. CASE RecvName
    <3>1. /\ UNCHANGED <<fs, addr, data, dataLen, progId, eraseOnly, mpc, nextPage, newData>>
          /\ content'.gen = content.gen /\ mem'["script"] = mem["script"]
          /\ mem'["nv"].schema = mem["nv"].schema /\ mem'["nv"].gen = mem["nv"].gen
      BY <2>3, NameFacts DEF fsVars
    <3> QED  BY <3>1
  <2>4. CASE UNCHANGED nvUsbVars
    BY <2>4 DEF nvUsbVars, vars, flashVars, fsVars, nvVars
  <2> QED  BY <1>10, <2>1, <2>2, <2>3, <2>4 DEF Received, RecvStartWrite, RecvWriting
<1> QED  BY <1>1, <1>2, <1>3, <1>4, <1>5, <1>6, <1>7, <1>8, <1>9, <1>10 DEF BadgeStep, NvNext

(* A change of the page a request is for that writes no record there:      *)
(* erasing the victim, or anything done to the script's page. *)
LEMMA RankedKeeps ==
  ASSUME UsbInv, fs \in Erasing \/ addr = 0,
         \A p \in Page \ {addr} : flash'[p] = flash[p],
         \A w \in Word : flash'[addr][w] = flash[addr][w] \/ flash'[addr][w] \notin Rec
  PROVE  /\ Distinct(flash')
         /\ ValidPages(flash') # {} => \E p \in NvPage : Newest(flash', p)
         /\ \A p \in NvPage : Newest(flash', p) <=> Newest(flash, p)
         /\ Recovered(flash') = Recovered(flash)
         /\ ValidPages(flash') \subseteq ValidPages(flash)
         /\ \A p \in ValidPages(flash') : RecordAt(flash', p) = RecordAt(flash, p)
         /\ ScriptPageReserved'
<1> USE DEF UsbInv, UsbFlash
<1>1. addr \in Page /\ ~ Newest(flash, addr)
  BY DEF UsbTypes, ServiceTypeOK, UsbSpared, Newest, ValidPages, NvPage
<1>2. /\ Distinct(flash)
      /\ ValidPages(flash) # {} => \E p \in NvPage : Newest(flash, p)
  BY DEF UsbRanked
<1>3. ScriptPageReserved'
  BY Sizes, <1>1 DEF ScriptPageReserved
<1> QED  BY <1>1, <1>2, <1>3, NewestKept, NoRecordWritten

(* Such a change keeps the invariant, in the state the request goes to.    *)
LEMMA UntouchedKeeps ==
  ASSUME UsbInv, fs \in Erasing \/ addr = 0,
         \A p \in Page \ {addr} : flash'[p] = flash[p],
         \A w \in Word : flash'[addr][w] = flash[addr][w] \/ flash'[addr][w] \notin Rec,
         UNCHANGED <<content, nextPage, addr, mem, mpc>>,
         (fs = "IDLE") = (fs' = "IDLE"),
         addr # 0 => fs' \in Erasing
  PROVE  UsbFlash'
<1>1. /\ Distinct(flash')
      /\ ValidPages(flash') # {} => \E p \in NvPage : Newest(flash', p)
      /\ \A p \in NvPage : Newest(flash', p) <=> Newest(flash, p)
      /\ ValidPages(flash') \subseteq ValidPages(flash)
      /\ \A p \in ValidPages(flash') : RecordAt(flash', p) = RecordAt(flash, p)
      /\ ScriptPageReserved'
  BY RankedKeeps
<1>2. Snapshot' = Snapshot /\ NextTarget' = NextTarget /\ (Record' <=> Record)
  BY DEF Snapshot, NextTarget, Record
<1>3. UsbRanked /\ UsbSpared
  BY DEF UsbInv, UsbFlash
<1>4. UsbRanked'
  BY <1>1, <1>2, <1>3 DEF UsbRanked
<1>5. \A p : Newest(flash', p) => p \in NvPage
  BY DEF Newest, ValidPages
<1>6. UsbSpared'
  <2>1. ASSUME ~ Record' PROVE ~ Newest(flash', NextTarget')
    BY <1>1, <1>2, <1>3, <1>5, <2>1 DEF UsbSpared
  <2>2. ~ Newest(flash', addr')
    <3>1. CASE addr = 0
      BY <1>5, <3>1 DEF NvPage
    <3>2. CASE addr # 0
      BY <1>1, <1>3, <1>5, <3>2 DEF UsbSpared
    <3> QED  BY <3>1, <3>2
  <2> QED  BY <2>1, <2>2 DEF UsbSpared
<1>7. UsbWritten'
  BY DEF UsbWritten, Record
<1> QED  BY <1>1, <1>4, <1>6, <1>7 DEF UsbFlash

(* Programming a word of the script writes no record; programming one of a *)
(* record leaves the page without a record, or completes the snapshot      *)
(* there, which then is the newest record.                                 *)
LEMMA UsbProgramKeeps ==
  ASSUME UsbInv, UsbTypes', ProgramWord, UNCHANGED nvVars
  PROVE  /\ UsbFlash'
         /\ \/ Recovered(flash') = Recovered(flash)
            \/ Recovered(flash') = mem["nv"].val
<1> USE DEF UsbInv, UsbFlash
<1> DEFINE m == mem["nv"]
<1>1. /\ fs = "PROGRAM_WAIT" /\ fs' = fs /\ mem' = mem /\ addr' = addr /\ mpc = "program"
      /\ content' = content /\ nextPage' = nextPage /\ mpc' \in {"idle", "program"}
      /\ fs \notin Erasing /\ fs # "IDLE" /\ addr \in Page
      /\ progId \in Nat /\ pending \in Nat /\ progId' = progId + 1
  BY DEF ProgramWord, UsbPhase, UsbTypes, ServiceTypeOK, nvVars, Erasing
<1>2. Snapshot' = Snapshot /\ NextTarget' = NextTarget /\ (Record' <=> Record)
      /\ (Record <=> addr # 0)
  BY <1>1 DEF Snapshot, NextTarget, Record
<1>3. CASE flash[addr][progId] # Erased
  <2>1. flash' = flash /\ pending' # 0
    BY <1>1, <1>3 DEF ProgramWord
  <2>2. ScriptPageReserved' /\ UsbRanked'
    BY <1>1, <1>2, <2>1 DEF ScriptPageReserved, UsbRanked
  <2>3. UsbSpared'
    BY <1>1, <1>2, <2>1 DEF UsbSpared
  <2>4. UsbWritten'
    BY <2>1 DEF UsbWritten
  <2> QED  BY <2>1, <2>2, <2>3, <2>4
<1>4. CASE flash[addr][progId] = Erased /\ addr = 0
  <2>1. mem[data] \notin Rec
    BY <1>1, <1>4, UsbAssumption DEF Requests, Script
  <2>2. flash' = [flash EXCEPT ![addr][progId] = mem[data]]
    BY <1>4 DEF ProgramWord
  <2>3. flash \in [Page -> [Word -> Cells]]
    BY DEF UsbTypes
  <2>4. /\ \A p \in Page \ {addr} : flash'[p] = flash[p]
        /\ \A w \in Word : flash'[addr][w] = flash[addr][w] \/ flash'[addr][w] = mem[data]
    BY <1>1, <2>2, <2>3
  <2>5. /\ Distinct(flash')
        /\ ValidPages(flash') # {} => \E p \in NvPage : Newest(flash', p)
        /\ \A p \in NvPage : Newest(flash', p) <=> Newest(flash, p)
        /\ Recovered(flash') = Recovered(flash)
        /\ ValidPages(flash') \subseteq ValidPages(flash)
        /\ \A p \in ValidPages(flash') : RecordAt(flash', p) = RecordAt(flash, p)
        /\ ScriptPageReserved'
    BY <1>4, <2>1, <2>4, RankedKeeps
  <2>6. UsbRanked'
    BY <1>2, <1>4, <2>5 DEF UsbRanked
  <2>7. \A p : Newest(flash', p) => p \in NvPage
    BY DEF Newest, ValidPages
  <2>8. UsbSpared'
    BY <1>1, <1>2, <1>4, <2>5, <2>7 DEF UsbSpared
  <2>9. UsbWritten'
    BY <1>2, <1>4 DEF UsbWritten
  <2> QED  BY <2>5, <2>6, <2>8, <2>9
<1>5. CASE flash[addr][progId] = Erased /\ addr # 0
  <2>1. /\ Record /\ data = "nv" /\ dataLen = RecLen /\ m.schema = 1 /\ m.gen < content.gen
    BY <1>1, <1>2, <1>5 DEF Requests
  <2>2. /\ flash \in [Page -> [Word -> Cells]] /\ addr \in NvPage /\ m \in Rec
        /\ progId \in RecWord /\ progId \in Word
    BY <1>1, <1>5, <2>1, Sizes DEF UsbTypes, UsbPhase, ServiceTypeOK, NvPage, RecWord
  <2>3. /\ flash' = [flash EXCEPT ![addr][progId] = m]
        /\ pending' = pending
    BY <1>1, <1>5, <2>1 DEF ProgramWord
  <2>4. /\ \A p \in Page \ {addr} : flash'[p] = flash[p]
        /\ flash'[addr][progId] = m
        /\ \A w \in Word \ {progId} : flash'[addr][w] = flash[addr][w]
    BY <2>2, <2>3 DEF NvPage
  <2>5. addr \notin ValidPages(flash)
    BY <2>2, <1>5, NvAssumption DEF ValidPages
  <2>6. /\ ValidPages(flash') \ {addr} = ValidPages(flash)
        /\ \A p \in ValidPages(flash) : RecordAt(flash', p) = RecordAt(flash, p)
    BY <2>4, <2>5 DEF ValidPages, RecordAt, NvPage
  <2>7. \A q \in ValidPages(flash) : Newer(m, RecordAt(flash, q))
    BY <2>1, <2>5 DEF UsbRanked
  <2>8. Newer(Snapshot, m)
    BY <2>1 DEF Snapshot, Newer
  <2>9. ScriptPageReserved'
    BY <2>2, <2>4, Sizes DEF ScriptPageReserved, NvPage
  <2>10. UsbSpared'
    BY <1>1, <1>2, <2>1 DEF UsbSpared
  <2>11. UsbWritten'
    <3>1. ASSUME pending = 0
          PROVE  \A w \in 0 .. progId : flash'[addr][w] = m
      <4>1. \A w \in 0 .. (progId - 1) : flash[addr][w] = m
        BY <1>1, <2>1, <3>1 DEF UsbWritten
      <4>2. \A w \in 0 .. progId : w \in Word
        BY <1>1, <2>2, FlashAssumption DEF Word, kErasePageCount
      <4> QED  BY <1>1, <2>2, <2>4, <4>1, <4>2
    <3> QED  BY <1>1, <2>3, <3>1 DEF UsbWritten
  <2>12. CASE addr \in ValidPages(flash')
    <3>1. RecordAt(flash', addr) = m
      BY <2>2, <2>4, <2>12 DEF ValidPages, RecordAt
    <3>2. Newest(flash', addr)
      BY <2>6, <2>7, <2>12, <3>1 DEF Newest
    <3>3. Distinct(flash')
      BY <2>6, <2>7, <3>1 DEF Distinct, UsbRanked
    <3>4. \A p \in ValidPages(flash') : Newer(Snapshot', RecordAt(flash', p))
      BY <1>2, <2>6, <2>8, <3>1 DEF UsbRanked
    <3>5. UsbRanked'
      BY <1>1, <2>2, <2>6, <2>7, <3>2, <3>3, <3>4 DEF UsbRanked
    <3>6. Recovered(flash') = m.val
      BY <3>1, <3>2, NewestIsBest
    <3> QED  BY <2>9, <2>10, <2>11, <3>5, <3>6
  <2>13. CASE addr \notin ValidPages(flash')
    <3>1. ValidPages(flash') = ValidPages(flash)
      BY <2>6, <2>13
    <3>2. \A p : Newest(flash', p) <=> Newest(flash, p)
      BY <2>6, <3>1 DEF Newest
    <3>3. UsbRanked'
      BY <1>1, <1>2, <2>6, <2>7, <3>1, <3>2 DEF UsbRanked, Distinct
    <3>4. Recovered(flash') = Recovered(flash)
      <4>1. CASE ValidPages(flash) = {}
        BY <3>1, <4>1 DEF Recovered
      <4>2. CASE ValidPages(flash) # {}
        <5>1. PICK b \in NvPage : Newest(flash, b)
          BY <4>2 DEF UsbRanked
        <5> QED  BY <2>6, <3>2, <5>1, NewestIsBest DEF Newest
      <4> QED  BY <4>1, <4>2
    <3> QED  BY <2>9, <2>10, <2>11, <3>3, <3>4
  <2> QED  BY <2>12, <2>13
<1> QED  BY <1>3, <1>4, <1>5

(* A record that is complete is the newest; the next flush takes another   *)
(* page.  A script that is complete changed nothing.                       *)
LEMMA UsbCompletionKeeps ==
  ASSUME UsbInv, PollProgram, UNCHANGED nvVars
  PROVE  UsbFlash'
<1> USE DEF UsbInv, UsbFlash
<1> DEFINE m == mem["nv"]
<1>1. /\ fs = "PROGRAM_WAIT" /\ pending = 0 /\ pending' = 0 /\ mpc = "idle"
      /\ fs' \in {"IDLE", "PROGRAM"} /\ fs \notin Erasing /\ fs' \notin Erasing
      /\ UNCHANGED <<flash, mem, addr, content, nextPage, progId, mpc>>
  BY DEF PollProgram, nvVars, Erasing
<1>2. ScriptPageReserved' /\ Snapshot' = Snapshot /\ NextTarget' = NextTarget
  BY <1>1 DEF ScriptPageReserved, Snapshot, NextTarget
<1>3. (Record' => Record) /\ (Record <=> addr # 0) /\ (fs' # "IDLE" => (Record' <=> Record))
  BY <1>1 DEF Record
<1>4. UsbRanked'
  BY <1>1, <1>2, <1>3 DEF UsbRanked
<1>5. UsbWritten'
  BY <1>1, <1>3 DEF UsbWritten
<1>6. UsbSpared'
  <2>1. CASE fs' # "IDLE" \/ addr = 0
    BY <1>1, <1>2, <1>3, <2>1 DEF UsbSpared
  <2>2. CASE fs' = "IDLE" /\ addr # 0
    <3>1. /\ Record /\ dataLen = RecLen /\ progId = RecLen /\ addr \in NvPage /\ m \in Rec
          /\ NextTarget # addr
      BY <1>1, <1>3, <2>2, Sizes DEF PollProgram, Requests, UsbPhase, UsbTypes, ServiceTypeOK,
                                     NvPage
    <3>2. \A w \in RecWord : flash[addr][w] = m
      BY <1>1, <3>1 DEF UsbWritten, RecWord
    <3>3. addr \in ValidPages(flash) /\ RecordAt(flash, addr) = m
      BY <3>1, <3>2, Sizes DEF ValidPages, RecordAt
    <3>4. Newest(flash, addr)
      BY <3>1, <3>3 DEF Newest, UsbRanked
    <3>5. \A p : Newest(flash, p) => p = addr
      BY <3>4, NewestIsBest
    <3> QED  BY <1>1, <1>2, <3>1, <3>5 DEF UsbSpared
  <2> QED  BY <2>1, <2>2
<1> QED  BY <1>2, <1>4, <1>5, <1>6

(* A step that leaves the flash alone keeps the records ranked when the    *)
(* next generation does not fall and no new request for a record begins,   *)
(* and keeps what is written when no word is counted. *)
LEMMA SameFlashKeeps ==
  ASSUME UsbInv, UNCHANGED flash
  PROVE  /\ ScriptPageReserved'
         /\ /\ \A r \in Rec : Newer(Snapshot, r) => Newer(Snapshot', r)
            /\ Record' => Record /\ addr' = addr /\ mem'["nv"] = mem["nv"]
            => UsbRanked'
         /\ /\ Record' => NextTarget' = NextTarget
            /\ ~ Record' => ~ Record /\ NextTarget' = NextTarget
            /\ fs' \in Erasing => fs \in Erasing /\ addr' = addr
            => UsbSpared'
         /\ /\ Record' /\ fs' \notin Erasing =>
                 /\ Record /\ fs \notin Erasing
                 /\ addr' = addr /\ mem'["nv"] = mem["nv"]
                 /\ UNCHANGED <<progId, pending>>
            => UsbWritten'
<1> USE DEF UsbInv, UsbFlash
<1>1. ScriptPageReserved'
  BY DEF ScriptPageReserved
<1>2. ASSUME \A r \in Rec : Newer(Snapshot, r) => Newer(Snapshot', r),
             Record' => Record /\ addr' = addr /\ mem'["nv"] = mem["nv"]
      PROVE  UsbRanked'
  <2>1. \A p \in ValidPages(flash) : RecordAt(flash, p) \in Rec
    BY DEF ValidPages, RecordAt
  <2> QED  BY <1>2, <2>1 DEF UsbRanked
<1>3. ASSUME Record' => NextTarget' = NextTarget,
             ~ Record' => ~ Record /\ NextTarget' = NextTarget,
             fs' \in Erasing => fs \in Erasing /\ addr' = addr
      PROVE  UsbSpared'
  BY <1>3 DEF UsbSpared
<1>4. ASSUME Record' /\ fs' \notin Erasing =>
               /\ Record /\ fs \notin Erasing
               /\ addr' = addr /\ mem'["nv"] = mem["nv"]
               /\ UNCHANGED <<progId, pending>>
      PROVE  UsbWritten'
  BY <1>4 DEF UsbWritten
<1> QED  BY <1>1, <1>2, <1>3, <1>4

(* What is on the flash stays ranked, spared and as written. *)
LEMMA UsbFlashStep ==
  ASSUME UsbInv, UsbTypes', UsbPhase', Requests', BadgeStep
  PROVE  UsbFlash'
<1> USE DEF UsbInv, UsbFlash
<1> DEFINE Same == UNCHANGED <<flash, mem, content, nextPage, mpc>>
           Quiet == UNCHANGED <<flash, fs, addr, progId, pending, nextPage>>
                      /\ mem'["nv"] = mem["nv"] /\ (Record' <=> Record)
<1>1. ScriptPageReserved /\ UsbRanked /\ UsbSpared /\ UsbWritten
  OBVIOUS
<1>2. ASSUME Quiet, content'.gen = content.gen PROVE UsbFlash'
  <2>1. NextTarget' = NextTarget /\ \A r \in Rec : Newer(Snapshot, r) => Newer(Snapshot', r)
    BY <1>2 DEF NextTarget, Snapshot, Newer
  <2> QED  BY <1>2, <2>1, SameFlashKeeps
<1>3. 0 \in Page /\ \A f : ~ Newest(f, 0)
  BY Sizes DEF Newest, ValidPages, NvPage
<1>4. flash \in [Page -> [Word -> Cells]] /\ addr \in Page /\ progId \in Nat
      /\ content.gen \in Nat
  BY DEF UsbTypes, ServiceTypeOK, NvTypeOK
<1>5. ASSUME FlashNext, UNCHANGED <<nvVars, resets, newData, progIndex>>
      PROVE  UsbFlash'
  <2> USE <1>5 DEF nvVars
  <2>1. CASE Unlock \/ TrySuspend \/ PollErase \/ Resume
    <3>1. /\ Same /\ UNCHANGED addr
          /\ fs \in Erasing /\ fs' \in Erasing /\ fs # "IDLE" /\ fs' # "IDLE"
      BY <2>1 DEF Unlock, TrySuspend, PollErase, Resume, Erasing
    <3> QED  BY <3>1, UntouchedKeeps
  <2>2. CASE ErasesDone
    <3>1. /\ fs = "SUSPEND_WAIT" /\ Same /\ UNCHANGED <<addr, progId, pending>>
          /\ fs' = IF eraseOnly THEN "IDLE" ELSE "PROGRAM"
          /\ fs \in Erasing /\ fs' \notin Erasing /\ mpc = "idle"
      BY <2>2 DEF ErasesDone, Erasing
    <3>2. /\ NextTarget' = NextTarget /\ Snapshot' = Snapshot
          /\ addr # 0 => Record /\ Record' /\ progId = 0
          /\ addr = 0 => ~ Record /\ ~ Record'
      BY <3>1 DEF NextTarget, Snapshot, Requests, Record
    <3>3. 0 .. (progId' - 1) = {} \/ ~ Record'
      BY <3>1, <3>2
    <3>4. UsbWritten'
      BY <3>3 DEF UsbWritten
    <3> QED  BY <3>1, <3>2, <3>4, SameFlashKeeps
  <2>3. CASE StartErase \/ EraseEnds \/ EraseHangs
    <3>1. /\ \A p \in Page \ {addr} : flash'[p] = flash[p]
          /\ \A w \in Word : flash'[addr][w] = flash[addr][w]
                               \/ flash'[addr][w] \in {Erased, Garbage}
      BY <1>4, <2>3 DEF StartErase, EraseEnds, EraseHangs, SetErased
    <3>2. /\ fs \in Erasing /\ fs' \in Erasing /\ fs # "IDLE" /\ fs' # "IDLE"
          /\ UNCHANGED <<mem, content, nextPage, addr, mpc>>
      BY <2>3 DEF StartErase, EraseEnds, EraseHangs, UsbPhase, Erasing, fsVars
    <3>3. \A w \in Word : flash'[addr][w] = flash[addr][w] \/ flash'[addr][w] \notin Rec
      BY <3>1, NvAssumption
    <3> QED  BY <3>1, <3>2, <3>3, UntouchedKeeps
  <2>4. CASE StartProgram
    <3>1. /\ UNCHANGED <<flash, mem, content, nextPage, addr, progId>>
          /\ fs = "PROGRAM" /\ fs' = "PROGRAM_WAIT" /\ pending = 0 /\ pending' = 0
          /\ mpc = "idle" /\ mpc' \in {"idle", "program"}
      BY <2>4 DEF StartProgram, UsbPhase
    <3>2. /\ NextTarget' = NextTarget /\ Snapshot' = Snapshot /\ (Record' <=> Record)
          /\ fs \notin Erasing /\ fs' \notin Erasing
      BY <3>1 DEF NextTarget, Snapshot, Record, Erasing
    <3> QED  BY <3>1, <3>2, SameFlashKeeps
  <2>5. CASE ProgramWord
    BY <2>5, UsbProgramKeeps
  <2>6. CASE PollProgram
    BY <2>6, UsbCompletionKeeps
  <2>7. CASE IncBlocker \/ DecBlocker
    <3>1. Quiet /\ content' = content
      BY <2>7 DEF IncBlocker, DecBlocker, fsVars, Record
    <3> QED  BY <3>1, <1>2
  <2> QED  BY <2>1, <2>2, <2>3, <2>4, <2>5, <2>6, <2>7 DEF FlashNext, FlashRoutine
<1>6. CASE NvRoutine
  <2>1. /\ UNCHANGED <<flash, content, fs, addr, progId, pending>> /\ mpc = "idle"
    BY <1>6 DEF NvRoutine, fsVars
  <2>2. CASE UNCHANGED <<mem, nextPage, mpc>>
    <3>1. Quiet
      BY <2>1, <2>2 DEF Record
    <3> QED  BY <2>1, <3>1, <1>2
  <2>3. CASE fs = "IDLE" /\ nextPage' = NextTarget
    <3>1. /\ NextTarget' = NextTarget /\ Snapshot' = Snapshot /\ ~ Record /\ ~ Record'
          /\ fs' \notin Erasing
      BY <2>1, <2>3 DEF NextTarget, Snapshot, Record, Erasing
    <3> QED  BY <2>1, <3>1, SameFlashKeeps
  <2> QED  BY <1>6, <2>2, <2>3 DEF NvRoutine, IsBusy
<1>7. CASE NvCheck
  <2>1. UNCHANGED <<flash, mem, content, fs, addr, progId, pending, nextPage>>
        /\ mpc = "check" /\ mpc' \in {"idle", "addr"}
    BY <1>7 DEF NvCheck, fsVars
  <2>2. ~ Record /\ ~ Record'
    BY <2>1 DEF Record, UsbPhase
  <2> QED  BY <2>1, <2>2, <1>2
<1>8. CASE NvAddr
  <2>1. /\ UNCHANGED <<flash, mem, content, fs, progId, pending, nextPage>>
        /\ mpc = "addr" /\ mpc' = "start" /\ addr' = nextPage /\ nextPage # 0
        /\ ~ Record /\ ~ Record'
    BY <1>8 DEF NvAddr, ProgramPageAddr, nvVars, UsbPhase, Record
  <2>2. NextTarget' = NextTarget /\ Snapshot' = Snapshot /\ addr' = NextTarget
    BY <2>1 DEF NextTarget, Snapshot
  <2>3. UsbSpared'
    BY <1>1, <2>1, <2>2 DEF UsbSpared
  <2> QED  BY <2>1, <2>2, <2>3, SameFlashKeeps
<1>9. CASE NvStart
  <2>1. /\ UNCHANGED <<flash, mem, content, addr, nextPage>>
        /\ mpc = "start" /\ addr = nextPage /\ nextPage # 0 /\ fs' = "UNLOCK"
        /\ mem["nv"].schema = 1 /\ mem["nv"].gen = content.gen
    BY <1>9 DEF NvStart, ProgramPageStart, nvVars, UsbPhase
  <2>2. NextTarget' = NextTarget /\ Snapshot' = Snapshot /\ addr = NextTarget /\ ~ Record
    BY <2>1 DEF NextTarget, Snapshot, Record
  <2>3. \A r \in Rec : Newer(Snapshot, r) => Newer(mem["nv"], r)
    BY <2>1 DEF Snapshot, Newer
  <2>4. \A p \in ValidPages(flash) : RecordAt(flash, p) \in Rec
    BY DEF ValidPages, RecordAt
  <2>5. UsbRanked'
    BY <1>1, <2>1, <2>2, <2>3, <2>4 DEF UsbRanked
  <2>6. UsbSpared'
    BY <1>1, <2>1, <2>2 DEF UsbSpared
  <2>7. fs' \in Erasing
    BY <2>1 DEF Erasing
  <2> QED  BY <2>1, <2>5, <2>6, <2>7, SameFlashKeeps
<1>10. CASE NvFinish
  <2>1. /\ UNCHANGED <<flash, mem, addr, fs, progId, pending>> /\ fs = "UNLOCK"
        /\ mpc = "finish" /\ mpc' = "idle" /\ addr # 0
        /\ content'.gen = content.gen + 1
    BY <1>10 DEF NvFinish, fsVars, UsbPhase, UsbTypes, NvTypeOK
  <2>2. Record /\ Record' /\ fs' \in Erasing
    BY <2>1 DEF Record, Erasing
  <2>3. \A r \in Rec : Newer(Snapshot, r) => Newer(Snapshot', r)
    BY <1>4, <2>1 DEF Snapshot, Newer, Rec
  <2>4. UsbSpared'
    BY <1>1, <2>1, <2>2 DEF UsbSpared
  <2> QED  BY <2>1, <2>2, <2>3, <2>4, SameFlashKeeps
<1>11. CASE ForceFlush \/ \E v \in Val : AppWrite(v)
  <2>1. Quiet /\ content'.gen = content.gen
    BY <1>11 DEF ForceFlush, AppWrite, flashVars, fsVars, Record, UsbTypes, NvTypeOK
  <2> QED  BY <2>1, <1>2
<1>12. CASE UsbReset
  <2>1. /\ ~ Newest(flash, NextTarget')
        /\ \A p \in ValidPages(flash) : Newer(Snapshot', RecordAt(flash, p))
    BY <1>12, BootFacts DEF UsbReset, Reset, UsbRanked, NextTarget, Snapshot
  <2>2. flash' = flash /\ fs' = "IDLE" /\ ~ Record' /\ fs' \notin Erasing
    BY <1>12 DEF UsbReset, Reset, Record, Erasing
  <2>3. UsbRanked' /\ UsbSpared' /\ UsbWritten'
    BY <1>1, <2>1, <2>2 DEF UsbRanked, UsbSpared, UsbWritten
  <2> QED  BY <2>2, <2>3, SameFlashKeeps
<1> DEFINE Begins == /\ Same /\ fs = "IDLE" /\ addr' = 0
<1>13. ASSUME Begins PROVE UsbFlash'
  <2>1. /\ NextTarget' = NextTarget /\ Snapshot' = Snapshot /\ ~ Record /\ ~ Record'
    BY <1>13 DEF NextTarget, Snapshot, Record
  <2>2. UsbSpared'
    BY <1>1, <1>3, <1>13, <2>1 DEF UsbSpared
  <2> QED  BY <1>13, <2>1, <2>2, SameFlashKeeps
<1>14. CASE WriteRoutine
  <2>1. Same
    BY <1>14 DEF WriteRoutine, nvVars
  <2>2. CASE UNCHANGED fsVars
    <3>1. Quiet
      BY <2>1, <2>2 DEF fsVars, Record
    <3> QED  BY <2>1, <3>1, <1>2
  <2>3. CASE fs = "IDLE" /\ (ErasePage(ScriptPage) \/ WriteChunk)
    BY <2>1, <2>3, <1>13 DEF ErasePage, WriteChunk, ProgramOnly, IsBusy, ScriptPage
  <2> QED  BY <1>14, <2>2, <2>3 DEF WriteRoutine, WriteErase, WriteErased, WriteChunk, IsBusy
<1>15. CASE Received
  <2>1. CASE RecvErase
    <3>1. Same /\ ErasePage(ScriptPage)
      BY <2>1 DEF RecvErase, nvVars
    <3>2. CASE IsBusy
      <4>1. Quiet /\ content' = content
        BY <3>1, <3>2 DEF ErasePage, fsVars, Record
      <4> QED  BY <4>1, <1>2
    <3>3. CASE ~ IsBusy
      BY <3>1, <3>3, <1>13 DEF ErasePage, IsBusy, ScriptPage
    <3> QED  BY <3>2, <3>3
  <2>2. CASE \E c \in Chunks : mem' = [mem EXCEPT !["script"] = c]
                               /\ UNCHANGED <<flash, fsVars, mpc, nvVars>>
    <3>1. mem'["nv"] = mem["nv"]
      BY <2>2 DEF UsbTypes
    <3>2. Quiet /\ content' = content
      BY <2>2, <3>1 DEF fsVars, nvVars, Record
    <3> QED  BY <3>2, <1>2
  <2>3. CASE RecvName
    <3>1. /\ UNCHANGED <<flash, fs, addr, progId, pending, nextPage, mpc>>
          /\ content'.gen = content.gen
          /\ mem' = mem \/ mpc = "check"
      BY <2>3, NameFacts DEF fsVars
    <3>2. NextTarget' = NextTarget /\ \A r \in Rec : Newer(Snapshot, r) => Newer(Snapshot', r)
      BY <3>1 DEF NextTarget, Snapshot, Newer
    <3>3. (Record' <=> Record) /\ (Record => mem' = mem)
      BY <3>1 DEF Record, UsbPhase
    <3> QED  BY <3>1, <3>2, <3>3, SameFlashKeeps
  <2>4. CASE UNCHANGED nvUsbVars
    <3>1. Quiet /\ content' = content
      BY <2>4 DEF nvUsbVars, vars, flashVars, fsVars, nvVars, Record
    <3> QED  BY <3>1, <1>2
  <2> QED  BY <1>15, <2>1, <2>2, <2>3, <2>4 DEF Received, RecvStartWrite, RecvWriting
<1> QED  BY <1>5, <1>6, <1>7, <1>8, <1>9, <1>10, <1>11, <1>12, <1>14, <1>15
           DEF BadgeStep, NvNext

(* The invariant holds initially. *)
LEMMA InitUsbInv == UsbInit => UsbInv
<1> SUFFICES ASSUME UsbInit PROVE UsbInv
  OBVIOUS
<1>1. IInv /\ Init
  BY InitInv DEF UsbInit
<1>2. /\ fs = "IDLE" /\ addr = 0 /\ data = "nv" /\ pending = 0 /\ eraseId = 0 /\ progId = 0
      /\ dataLen = 0 /\ proc = "none" /\ suspended = FALSE /\ mpc = "idle"
      /\ newData = FALSE /\ progIndex = 0
  BY DEF UsbInit, Init, Boot, FlashReset, UsbBoot
<1>3. UsbTypes
  <2>1. StoreTypeOK /\ ServiceTypeOK /\ NvTypeOK
    BY <1>1 DEF IInv, TypeOK
  <2>2. flash \in [Page -> [Word -> Cells]]
    BY <2>1 DEF StoreTypeOK, Cells
  <2>3. mem \in [{"nv", "script"} -> Rec \cup Chunks] /\ mem["nv"] \in Rec
    BY <2>1 DEF StoreTypeOK
  <2>4. newData \in BOOLEAN /\ progIndex \in Nat
    BY <1>2
  <2> QED  BY <2>1, <2>2, <2>3, <2>4 DEF UsbTypes, StoreTypeOK
<1>4. UsbPhase
  BY <1>2 DEF UsbPhase
<1>5. ~ Record /\ ~ Script /\ fs \notin Erasing
  BY <1>2 DEF Record, Script, Erasing
<1>6. Requests
  BY <1>2, <1>5 DEF Requests
<1>7. UsbFlash
  BY <1>1, <1>2, <1>5 DEF IInv, FlashInv, Ranked, Spared, UsbFlash, UsbRanked, UsbSpared, UsbWritten
<1> QED  BY <1>3, <1>4, <1>6, <1>7 DEF UsbInv

(* The two clients of the flash service keep their requests apart, and no  *)
(* request of either touches the newest record, when the clear command     *)
(* does not come between the two assignments of ProgramPage. *)
THEOREM UsbInvHolds == EraseMayCutIn = FALSE /\ UsbSpec => []UsbInv
<1> SUFFICES ASSUME EraseMayCutIn = FALSE
             PROVE  UsbSpec => []UsbInv
  OBVIOUS
<1>1. UsbInit => UsbInv
  BY InitUsbInv
<1>2. UsbInv /\ [UsbNext]_allVars => UsbInv'
  BY BadgeSteps, UsbTypesStep, UsbPhaseStep, RequestsStep, UsbFlashStep DEF UsbInv
<1> QED  BY <1>1, <1>2, PTL DEF UsbSpec

(* No record is written to page 0, though the USB interrupt uses the same  *)
(* service for the script (NvStorage.cc:212). *)
THEOREM ScriptPageIsKept == EraseMayCutIn = FALSE /\ UsbSpec => []ScriptPageReserved
<1> SUFFICES ASSUME EraseMayCutIn = FALSE
             PROVE  UsbSpec => []ScriptPageReserved
  OBVIOUS
<1>1. UsbInv => ScriptPageReserved
  BY DEF UsbInv, UsbFlash
<1> QED  BY <1>1, UsbInvHolds, PTL

(* The next flush's generation is above every record on the flash, with    *)
(* the host's scripts and names in between. *)
THEOREM GenerationsRiseWithUsb == EraseMayCutIn = FALSE /\ UsbSpec => []GenerationAboveFlash
<1> SUFFICES ASSUME EraseMayCutIn = FALSE
             PROVE  UsbSpec => []GenerationAboveFlash
  OBVIOUS
<1>1. UsbInv => GenerationAboveFlash
  BY DEF UsbInv, UsbFlash, UsbRanked, GenerationAboveFlash
<1> QED  BY <1>1, UsbInvHolds, PTL

(* The controller erases only while suspended, for the script as for the   *)
(* records. *)
THEOREM ScriptErasesAreSuspended == EraseMayCutIn = FALSE /\ UsbSpec => []SuspendedForErase
<1> SUFFICES ASSUME EraseMayCutIn = FALSE
             PROVE  UsbSpec => []SuspendedForErase
  OBVIOUS
<1>1. UsbInv => SuspendedForErase
  BY DEF UsbInv, UsbPhase, SuspendedForErase
<1> QED  BY <1>1, UsbInvHolds, PTL

-----------------------------------------------------------------------------
(* The storage implements DurableStore beside its second client, for all   *)
(* of the record but the name: between two reports of a name, what an      *)
(* application marks takes a part of the name along.                       *)

restVars == <<Recovered(flash)[1], content.val[1], mem["nv"].val[1]>>

LEMMA BadgeStepRefines ==
  ASSUME UsbInv, UsbInv', BadgeStep
  PROVE  [RestDurable!Next]_restVars
<1> SUFFICES RestDurable!Next \/ UNCHANGED restVars
  OBVIOUS
<1> USE DEF restVars
<1>1. UNCHANGED <<flash, content, mem>> => UNCHANGED restVars
  OBVIOUS
<1>2. UNCHANGED flash => Recovered(flash') = Recovered(flash)
  OBVIOUS
<1>3. /\ flash \in [Page -> [Word -> Cells]] /\ addr \in Page
      /\ mem \in [{"nv", "script"} -> Rec \cup Chunks]
      /\ content \in [gen : Nat \ {0}, val : Val]
      /\ content' \in [gen : Nat \ {0}, val : Val]
      /\ mem'["nv"].val[1] \in Rests /\ content'.val[1] \in Rests
  <2>1. \A v \in Val : v[1] \in Rests
    BY UsbAssumption
  <2> QED  BY <2>1 DEF UsbInv, UsbTypes, ServiceTypeOK, NvTypeOK, Rec
<1>4. CASE FlashNext /\ UNCHANGED <<nvVars, resets, newData, progIndex>>
  <2> USE <1>4 DEF nvVars
  <2>1. CASE \/ Unlock \/ ErasesDone \/ TrySuspend \/ PollErase \/ Resume
             \/ StartProgram \/ PollProgram \/ IncBlocker \/ DecBlocker
    BY <1>1, <2>1 DEF Unlock, ErasesDone, TrySuspend, PollErase, Resume, StartProgram,
                      PollProgram, IncBlocker, DecBlocker
  <2>2. CASE StartErase \/ EraseEnds \/ EraseHangs
    <3>1. /\ \A p \in Page \ {addr} : flash'[p] = flash[p]
          /\ \A w \in Word : flash'[addr][w] = flash[addr][w]
                               \/ flash'[addr][w] \in {Erased, Garbage}
      BY <1>3, <2>2 DEF StartErase, EraseEnds, EraseHangs, SetErased
    <3>2. fs \in Erasing /\ UNCHANGED <<mem, content>>
      BY <2>2 DEF StartErase, EraseEnds, EraseHangs, UsbInv, UsbPhase, Erasing
    <3>3. \A w \in Word : flash'[addr][w] = flash[addr][w] \/ flash'[addr][w] \notin Rec
      BY <3>1, NvAssumption
    <3>4. Recovered(flash') = Recovered(flash)
      BY <3>1, <3>2, <3>3, RankedKeeps
    <3> QED  BY <3>2, <3>4
  <2>3. CASE ProgramWord
    <3>1. Recovered(flash') = Recovered(flash) \/ Recovered(flash') = mem["nv"].val
      BY <2>3, UsbProgramKeeps DEF UsbInv
    <3>2. UNCHANGED <<mem, content>>
      BY <2>3 DEF ProgramWord
    <3> QED  BY <3>1, <3>2 DEF RestDurable!Next, RestDurable!Commit
  <2> QED  BY <2>1, <2>2, <2>3 DEF FlashNext, FlashRoutine
<1>5. CASE NvRoutine
  <2>1. /\ UNCHANGED <<flash, content>>
        /\ mem' = [mem EXCEPT !["nv"] = Snapshot] \/ UNCHANGED mem
    BY <1>5 DEF NvRoutine
  <2>2. CASE mem' = [mem EXCEPT !["nv"] = Snapshot]
    <3>1. mem'["nv"].val = content.val
      BY <1>3, <2>2 DEF Snapshot
    <3> QED  BY <2>1, <3>1 DEF RestDurable!Next, RestDurable!Stage
  <2> QED  BY <2>1, <2>2
<1>6. CASE NvCheck \/ NvAddr \/ NvStart \/ ForceFlush
  BY <1>6 DEF NvCheck, NvAddr, NvStart, ForceFlush, flashVars, nvVars
<1>7. CASE NvFinish
  <2>1. content'.val = content.val
    BY <1>3, <1>7 DEF NvFinish
  <2> QED  BY <1>7, <2>1 DEF NvFinish
<1>8. CASE \E v \in Val : AppWrite(v)
  <2>1. UNCHANGED <<flash, mem>>
    BY <1>8 DEF AppWrite, flashVars
  <2> QED  BY <1>3, <2>1 DEF RestDurable!Next, RestDurable!Write
<1>13. CASE RecvName
  <2>1. /\ flash' = flash /\ content'.val[1] = content.val[1]
        /\ mem'["nv"].val[1] = mem["nv"].val[1]
    BY <1>13, NameFacts DEF UsbInv
  <2> QED  BY <2>1
<1>9. CASE UsbReset
  <2>1. flash' = flash /\ content'.val = Recovered(flash)
    BY <1>9, BootFacts DEF UsbReset, Reset, UsbInv, UsbFlash, UsbRanked
  <2> QED  BY <1>3, <2>1 DEF RestDurable!Next, RestDurable!Reset
<1>10. CASE WriteRoutine
  BY <1>1, <1>10 DEF WriteRoutine, nvVars
<1>11. CASE RecvErase \/ UNCHANGED nvUsbVars
  BY <1>1, <1>11 DEF RecvErase, nvVars, nvUsbVars, vars, flashVars
<1>12. CASE \E c \in Chunks : mem' = [mem EXCEPT !["script"] = c]
                              /\ UNCHANGED <<flash, nvVars>>
  <2>1. mem'["nv"] = mem["nv"]
    BY <1>3, <1>12
  <2> QED  BY <1>12, <2>1 DEF nvVars
<1> QED  BY <1>4, <1>5, <1>6, <1>7, <1>8, <1>9, <1>10, <1>11, <1>12, <1>13
           DEF BadgeStep, NvNext, Received, RecvStartWrite, RecvWriting

(* While the host clears and writes its script and sets names, report by   *)
(* report and whatever the order, everything in the record but the name is *)
(* saved and recovered as DurableStore says, when the clear command does   *)
(* not come between the two assignments of ProgramPage. *)
THEOREM StorageIsDurableWithUsb == EraseMayCutIn = FALSE /\ UsbSpec => RestDurableSpec
<1> SUFFICES ASSUME EraseMayCutIn = FALSE
             PROVE  UsbSpec => RestDurableSpec
  OBVIOUS
<1>1. UsbInit => RestDurable!Init
  <2> SUFFICES ASSUME UsbInit PROVE RestDurable!Init
    OBVIOUS
  <2>1. Durable!Init
    BY InitRefines DEF UsbInit
  <2>2. /\ Recovered(flash) \in Val /\ mem["nv"].val \in Val
        /\ content.val = Recovered(flash)
    BY <2>1 DEF Durable!Init
  <2>3. \A v \in Val : v[1] \in Rests
    BY UsbAssumption
  <2> QED  BY <2>2, <2>3 DEF RestDurable!Init
<1>2. UsbInv /\ UsbInv' /\ [UsbNext]_allVars => [RestDurable!Next]_restVars
  BY BadgeSteps, BadgeStepRefines
<1>3. UsbInv /\ UsbInv' /\ [UsbNext]_allVars =>
        [RestDurable!Next]_<<Recovered(flash)[1], content.val[1], mem["nv"].val[1]>>
  BY <1>2 DEF restVars
<1> QED  BY <1>1, <1>3, UsbInvHolds, PTL DEF UsbSpec, RestDurableSpec, RestDurable!Spec
=============================================================================
