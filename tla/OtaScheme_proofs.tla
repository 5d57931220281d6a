-------------------------- MODULE OtaScheme_proofs --------------------------
(***************************************************************************)
(* The reformatting of the flash loses no image, for every layout of the   *)
(* slots, size of the image and of the sectors, wherever power fails.      *)
(*                                                                         *)
(* The argument: everything the procedure writes before the copy is        *)
(* complete lies in the big-OTA slot, so the layout below that slot stays  *)
(* one of three; the pages copied so far are those of the image; and the   *)
(* flags are cleared in an order that leaves a start-up flag on a complete *)
(* image, but for the one window named HalfCleared.                        *)
(***************************************************************************)
EXTENDS OtaScheme, TLAPS

\* The arithmetic of the slots.
LEMMA Slots ==
  /\ MainAddr \in Nat /\ SmallAddr \in Nat /\ BigAddr \in Nat
  /\ PagesPerSector \in Nat /\ Size \in Nat /\ Size > 0 /\ PagesPerSector > 0
  /\ 0 < MainAddr /\ MainAddr < SmallAddr /\ SmallAddr < BigAddr
  /\ SmallAddr + Size <= BigAddr
  /\ FlashSize = BigAddr + Size + PagesPerSector
  /\ Address = 0 .. FlashSize - 1 /\ Content = -5 .. Size - 1
BY FlashAssumption, ImageFits DEF FlashSize, Address, Content, Torn

-----------------------------------------------------------------------------
(* The layouts of the flash.                                               *)

Converted(f) ==   \* the bootloader and its image
  f[0] = Bootloader /\ CompleteIn(f, MainAddr) /\ ~ValidIn(f, SmallAddr)

Halfway(f) ==     \* its image, the bootloader being marked unused
  f[0] = Unused /\ CompleteIn(f, MainAddr) /\ ~ValidIn(f, SmallAddr)

SmallOta(f) ==    \* an image in the small-OTA slot
  ~ValidIn(f, 0) /\ ~ValidIn(f, MainAddr) /\ CompleteIn(f, SmallAddr)

BigOta(f) ==      \* an image where it should be
  /\ ~ValidIn(f, MainAddr) /\ ~ValidIn(f, SmallAddr)
  /\ CompleteIn(f, 0) \/ (~ValidIn(f, 0) /\ CompleteIn(f, BigAddr))

Source(f, a) ==
  \/ a = MainAddr /\ (Converted(f) \/ Halfway(f))
  \/ a = SmallAddr /\ SmallOta(f)

Layout(f) == Converted(f) \/ Halfway(f) \/ SmallOta(f) \/ BigOta(f)

\* The pages copied so far.
Copied(f, n) == \A k \in 0 .. n - 1 : f[BigAddr + k] = k

IInv ==
  /\ TypeOK
  /\ Layout(flash)
  /\ pc \in {"erase", "write", "clear", "clear_main"} =>
       Source(flash, from) /\ Copied(flash, i)
  /\ pc \in {"erase", "write"} => i < Size
  /\ pc \in {"clear", "clear_main"} => i = Size
  /\ pc = "clear_main" => from = MainAddr /\ Halfway(flash)

\* A layout is decided below the big-OTA slot, where copying writes nothing.
SameBelow(f, g) == \A a \in 0 .. BigAddr - 1 : g[a] = f[a]

LEMMA SourceStays ==
  ASSUME NEW f, NEW g, SameBelow(f, g), NEW a, Source(f, a)
  PROVE  Source(g, a) /\ Layout(g)
<1>1. /\ g[0] = f[0] /\ g[MainAddr] = f[MainAddr] /\ g[SmallAddr] = f[SmallAddr]
  BY Slots DEF SameBelow
<1>2. \A k \in 0 .. Size - 1 : g[MainAddr + k] = f[MainAddr + k]
  BY Slots DEF SameBelow
<1>3. \A k \in 0 .. Size - 1 : g[SmallAddr + k] = f[SmallAddr + k]
  BY Slots DEF SameBelow
<1> QED
  BY <1>1, <1>2, <1>3
     DEF Source, Layout, Converted, Halfway, SmallOta, CompleteIn, ValidIn

\* A complete image has a start-up flag.
LEMMA CompleteIsValid ==
  ASSUME NEW f, NEW a \in Nat, CompleteIn(f, a)
  PROVE  f[a] = 0 /\ ValidIn(f, a)
BY Slots DEF CompleteIn, ValidIn

-----------------------------------------------------------------------------
(* What the invariant promises.                                            *)

\* The image found by ensure_correct_ota_scheme is in a layout that it can move.
LEMMA WrongSlotIsSource ==
  ASSUME IInv, WrongSlot # None
  PROVE  Source(flash, WrongSlot) /\ WrongSlot \in {MainAddr, SmallAddr}
<1>1. Layout(flash)
  BY DEF IInv
<1>2. CASE Converted(flash) \/ Halfway(flash)
  BY <1>2, Slots, CompleteIsValid DEF Converted, Halfway, WrongSlot, Valid, Source
<1>3. CASE SmallOta(flash)
  BY <1>3, Slots, CompleteIsValid DEF SmallOta, WrongSlot, Valid, Source
<1>4. CASE BigOta(flash)
  BY <1>4 DEF BigOta, WrongSlot, Valid
<1> QED
  BY <1>1, <1>2, <1>3, <1>4 DEF Layout

LEMMA InvBoots == IInv => AlwaysBoots
<1> SUFFICES ASSUME IInv PROVE AlwaysBoots
  OBVIOUS
<1>1. Layout(flash) /\ Bootloader # 0 /\ MainAddr # None /\ SmallAddr # None
      /\ BigAddr # None /\ 0 # None
  BY Slots DEF IInv, Bootloader, None
<1>2. CASE Converted(flash)
  <2>1. RomSlot(flash) = 0
    BY <1>2 DEF Converted, RomSlot, ValidIn
  <2>2. BootSlot(flash) = MainAddr
    BY <1>2, <2>1 DEF Converted, BootSlot
  <2> QED
    BY <1>1, <1>2, <2>2 DEF Converted, AlwaysBoots, Boots
<1>3. CASE Halfway(flash)
  BY <1>3, Slots, CompleteIsValid DEF Halfway, AlwaysBoots, HalfCleared, Valid
<1>4. CASE SmallOta(flash)
  <2>1. ValidIn(flash, SmallAddr)
    BY <1>4, Slots, CompleteIsValid DEF SmallOta
  <2>2. BootSlot(flash) = SmallAddr
    BY <1>1, <1>4, <2>1, Slots DEF SmallOta, RomSlot, BootSlot
  <2> QED
    BY <1>1, <1>4, <2>2 DEF SmallOta, AlwaysBoots, Boots
<1>5. CASE BigOta(flash) /\ CompleteIn(flash, 0)
  <2>1. flash[0] = 0 /\ ValidIn(flash, 0)
    BY <1>5, CompleteIsValid
  <2>2. BootSlot(flash) = 0
    BY <1>1, <2>1 DEF RomSlot, BootSlot
  <2> QED
    BY <1>1, <1>5, <2>2 DEF AlwaysBoots, Boots
<1>6. CASE BigOta(flash) /\ ~ValidIn(flash, 0) /\ CompleteIn(flash, BigAddr)
  <2>1. ValidIn(flash, BigAddr) /\ ~ValidIn(flash, SmallAddr)
    BY <1>6, Slots, CompleteIsValid DEF BigOta
  <2>2. BootSlot(flash) = BigAddr
    BY <1>1, <1>6, <2>1, Slots DEF RomSlot, BootSlot
  <2> QED
    BY <1>1, <1>6, <2>2 DEF AlwaysBoots, Boots
<1> QED
  BY <1>1, <1>2, <1>3, <1>4, <1>5, <1>6 DEF Layout, BigOta

LEMMA InvKept == IInv => OldKeptUntilMoved
BY DEF IInv, OldKeptUntilMoved, Copied, Complete, CompleteIn

-----------------------------------------------------------------------------
(* The steps.                                                              *)

\* A restart needs no more than the layout.
LEMMA ResetInv ==
  ASSUME TypeOK, Layout(flash'), flash' \in [Address -> Content], pc' = "boot",
         running' = running, from' = from, i' \in 0 .. Size
  PROVE  IInv'
BY DEF IInv, TypeOK

LEMMA BootInv == IInv /\ Boot => IInv'
<1> SUFFICES ASSUME IInv, Boot PROVE IInv'
  OBVIOUS
<1>1. running' \in {None, 0, MainAddr, SmallAddr, BigAddr} /\ pc' \in {"ensure", "dead"}
  BY DEF Boot, BootSlot, RomSlot
<1> QED
  BY <1>1 DEF Boot, IInv, TypeOK

LEMMA StartMoveInv == IInv /\ StartMove => IInv'
<1> SUFFICES ASSUME IInv, StartMove PROVE IInv'
  OBVIOUS
<1>1. Source(flash, WrongSlot) /\ WrongSlot \in {MainAddr, SmallAddr}
  BY WrongSlotIsSource DEF StartMove
<1>2. /\ flash' = flash /\ running' = running /\ from' = WrongSlot /\ i' = 0
      /\ pc' \in {"erase", "boot"}
  BY DEF StartMove
<1>3. Copied(flash, 0)
  BY DEF Copied
<1>4. TypeOK'
  BY <1>1, <1>2, Slots DEF IInv, TypeOK
<1>5. Layout(flash') /\ Source(flash', from') /\ Copied(flash', i') /\ i' < Size
  BY <1>1, <1>2, <1>3, Slots DEF IInv
<1>6. pc' \notin {"clear", "clear_main"}
  BY <1>2
<1> QED
  BY <1>4, <1>5, <1>6 DEF IInv

LEMMA NothingToMoveInv == IInv /\ NothingToMove => IInv'
BY DEF IInv, TypeOK, NothingToMove

\* Erasing a sector touches nothing below it.
LEMMA EraseSectorInv == IInv /\ EraseSector => IInv'
<1> SUFFICES ASSUME IInv, EraseSector PROVE IInv'
  OBVIOUS
<1>1. /\ flash \in [Address -> Content] /\ i \in 0 .. Size - 1 /\ pc' = "write"
      /\ running' = running /\ from' = from /\ i' = i
      /\ Source(flash, from) /\ Copied(flash, i)
  BY Slots DEF IInv, TypeOK, EraseSector
<1>2. flash' \in [Address -> Content]
  BY <1>1, Slots DEF EraseSector, Erased
<1>3. \A a \in Address : a < BigAddr + i => flash'[a] = flash[a]
  BY <1>1, Slots DEF EraseSector, Sector
<1>4. SameBelow(flash, flash')
  BY <1>1, <1>3, Slots DEF SameBelow
<1>5. Source(flash', from) /\ Layout(flash')
  BY <1>1, <1>4, SourceStays
<1>6. Copied(flash', i)
  BY <1>1, <1>3, Slots DEF Copied
<1>7. TypeOK'
  BY <1>1, <1>2, Slots DEF IInv, TypeOK
<1>8. /\ Layout(flash') /\ Source(flash', from') /\ Copied(flash', i')
      /\ i' < Size /\ pc' \notin {"clear", "clear_main"}
  BY <1>1, <1>5, <1>6, Slots
<1> QED
  BY <1>7, <1>8 DEF IInv

\* A page that was not written well lies in the big-OTA slot.
LEMMA DamagedWriteInv ==
  ASSUME IInv, pc = "write", NEW d \in Content,
         flash' = [flash EXCEPT ![BigAddr + i] = d],
         pc' = "boot", UNCHANGED <<running, from, i>>
  PROVE  IInv'
<1>1. /\ flash \in [Address -> Content] /\ i \in 0 .. Size - 1 /\ Source(flash, from)
  BY Slots DEF IInv, TypeOK
<1>2. flash' \in [Address -> Content]
  BY <1>1
<1>3. SameBelow(flash, flash')
  BY <1>1, Slots DEF SameBelow
<1>4. Layout(flash')
  BY <1>1, <1>3, SourceStays
<1> QED
  BY <1>2, <1>4, ResetInv DEF IInv, TypeOK

\* The page written is the page of the image, for the source is complete.
LEMMA WritePageInv == IInv /\ WritePage => IInv'
<1> SUFFICES ASSUME IInv, WritePage PROVE IInv'
  OBVIOUS
<1>0. CASE ~(Programmed(flash[BigAddr + i], flash[from + i]) = flash[from + i])
  <2>1. /\ flash \in [Address -> Content] /\ BigAddr + i \in Address /\ Junk \in Content
    BY Slots DEF IInv, TypeOK, WritePage, Junk
  <2>2. /\ flash' = [flash EXCEPT ![BigAddr + i] = Junk]
        /\ pc = "write" /\ pc' = "boot" /\ UNCHANGED <<running, from, i>>
    BY <1>0, <2>1 DEF WritePage, Programmed, Reset
  <2> QED
    BY <2>1, <2>2, DamagedWriteInv
<1> SUFFICES ASSUME Programmed(flash[BigAddr + i], flash[from + i]) = flash[from + i]
             PROVE  IInv'
  BY <1>0
<1>1. /\ flash \in [Address -> Content] /\ i \in 0 .. Size - 1
      /\ running' = running /\ from' = from /\ i' = i + 1
      /\ Source(flash, from) /\ Copied(flash, i)
      /\ flash' = [flash EXCEPT ![BigAddr + i] = flash[from + i]]
      /\ pc' = IF i + 1 >= Size THEN "clear" ELSE "erase"
  <2>1. /\ flash \in [Address -> Content] /\ i \in 0 .. Size - 1 /\ BigAddr + i \in Address
        /\ Source(flash, from) /\ Copied(flash, i)
    BY Slots DEF IInv, TypeOK, WritePage
  <2>2. flash' = [flash EXCEPT ![BigAddr + i] = flash[from + i]]
    BY DEF WritePage
  <2>3. flash'[BigAddr + i] = flash[from + i]
    BY <2>1, <2>2
  <2> QED
    BY <2>1, <2>2, <2>3 DEF WritePage, Moved
<1>2. flash[from + i] = i
  BY <1>1 DEF Source, Converted, Halfway, SmallOta, CompleteIn
<1>3. BigAddr + i \in Address /\ i \in Content
  BY <1>1, Slots
<1>4. flash' \in [Address -> Content]
  BY <1>1, <1>2, <1>3
<1>5. SameBelow(flash, flash')
  BY <1>1, <1>3, Slots DEF SameBelow
<1>6. Source(flash', from) /\ Layout(flash')
  BY <1>1, <1>5, SourceStays
<1>7. Copied(flash', i + 1)
  <2> SUFFICES ASSUME NEW k \in 0 .. (i + 1) - 1 PROVE flash'[BigAddr + k] = k
    BY DEF Copied
  <2>1. CASE k = i
    BY <1>1, <1>2, <1>3, <2>1
  <2>2. CASE k # i
    <3>1. k \in 0 .. i - 1 /\ BigAddr + k # BigAddr + i /\ BigAddr + k \in Address
      BY <1>1, <2>2, Slots
    <3> QED
      BY <1>1, <3>1 DEF Copied
  <2> QED
    BY <2>1, <2>2
<1>8. i' \in 0 .. Size /\ (pc' = "erase" => i' < Size) /\ (pc' = "clear" => i' = Size)
      /\ pc' \in {"erase", "clear"}
  BY <1>1, Slots
<1> QED
  BY <1>1, <1>4, <1>6, <1>7, <1>8 DEF IInv, TypeOK

\* The flag of the bootloader goes: the layout is then halfway.
LEMMA ClearBootloaderInv == IInv /\ ClearBootloader => IInv'
<1> SUFFICES ASSUME IInv, ClearBootloader PROVE IInv'
  OBVIOUS
<1>1. /\ flash \in [Address -> Content] /\ i = Size /\ pc' = "clear_main"
      /\ running' = running /\ from' = from /\ i' = i /\ from = MainAddr
      /\ flash' = [flash EXCEPT ![0] = Unused]
      /\ Source(flash, MainAddr) /\ Copied(flash, Size)
  BY DEF IInv, TypeOK, ClearBootloader
<1>2. \A a \in Address : a # 0 => flash'[a] = flash[a]
  BY <1>1
<1>3. flash'[0] = Unused /\ flash' \in [Address -> Content]
  BY <1>1, Slots DEF Unused
<1>4. \A k \in 0 .. Size - 1 :
        flash'[MainAddr + k] = flash[MainAddr + k] /\ flash'[BigAddr + k] = flash[BigAddr + k]
  BY <1>2, Slots
<1>5. flash'[SmallAddr] = flash[SmallAddr]
  BY <1>2, Slots
<1>6. Halfway(flash')
  BY <1>1, <1>3, <1>4, <1>5, Slots
     DEF Halfway, Source, Converted, CompleteIn, ValidIn
<1>7. Copied(flash', Size)
  BY <1>1, <1>4 DEF Copied
<1> QED
  BY <1>1, <1>3, <1>6, <1>7 DEF IInv, TypeOK, Layout, Source

\* The flag of its image goes: the copy is where it should be.
LEMMA ClearMainInv == IInv /\ ClearMain => IInv'
<1> SUFFICES ASSUME IInv, ClearMain PROVE IInv'
  OBVIOUS
<1>1. /\ flash \in [Address -> Content] /\ i = Size /\ pc' = "boot"
      /\ running' = running /\ from' = from /\ i' = i
      /\ flash' = [flash EXCEPT ![MainAddr] = Unused]
      /\ Halfway(flash) /\ Copied(flash, Size)
  BY DEF IInv, TypeOK, ClearMain, Reset
<1>2. \A a \in Address : a # MainAddr => flash'[a] = flash[a]
  BY <1>1
<1>3. flash'[MainAddr] = Unused /\ flash' \in [Address -> Content]
  BY <1>1, Slots DEF Unused
<1>4. /\ flash'[SmallAddr] = flash[SmallAddr] /\ flash'[0] = flash[0]
      /\ \A k \in 0 .. Size - 1 : flash'[BigAddr + k] = flash[BigAddr + k]
  BY <1>2, Slots
<1>5. BigOta(flash')
  BY <1>1, <1>3, <1>4
     DEF BigOta, Halfway, Copied, CompleteIn, ValidIn, Unused, Bootloader, Torn
<1> QED
  BY <1>1, <1>3, <1>5, Slots, ResetInv DEF IInv, Layout

LEMMA ClearSmallInv == IInv /\ ClearSmall => IInv'
<1> SUFFICES ASSUME IInv, ClearSmall PROVE IInv'
  OBVIOUS
<1>1. /\ flash \in [Address -> Content] /\ i = Size /\ pc' = "boot"
      /\ running' = running /\ from' = from /\ i' = i
      /\ flash' = [flash EXCEPT ![SmallAddr] = Unused]
      /\ Source(flash, SmallAddr) /\ Copied(flash, Size)
  BY DEF IInv, TypeOK, ClearSmall, Reset
<1>2. SmallOta(flash)
  BY <1>1, Slots DEF Source
<1>3. \A a \in Address : a # SmallAddr => flash'[a] = flash[a]
  BY <1>1
<1>4. flash'[SmallAddr] = Unused /\ flash' \in [Address -> Content]
  BY <1>1, Slots DEF Unused
<1>5. /\ flash'[MainAddr] = flash[MainAddr] /\ flash'[0] = flash[0]
      /\ \A k \in 0 .. Size - 1 : flash'[BigAddr + k] = flash[BigAddr + k]
  BY <1>3, Slots
<1>6. BigOta(flash')
  BY <1>1, <1>2, <1>4, <1>5
     DEF BigOta, SmallOta, Copied, CompleteIn, ValidIn, Unused, Bootloader, Torn
<1> QED
  BY <1>1, <1>4, <1>6, Slots, ResetInv DEF IInv, Layout

LEMMA DamagedContent == \A v : Damaged(v) \subseteq Content
BY Slots DEF Damaged, Torn, Junk

LEMMA FaultInv == IInv /\ Fault => IInv'
<1> SUFFICES ASSUME IInv, Fault PROVE IInv'
  OBVIOUS
<1>1. CASE PowerLoss
  BY <1>1, ResetInv DEF PowerLoss, Reset, IInv, TypeOK
<1>2. CASE PowerLossInWrite
  BY <1>2, DamagedContent, DamagedWriteInv DEF PowerLossInWrite, Reset
<1>3. CASE WriteFails
  BY <1>3, DamagedContent, DamagedWriteInv DEF WriteFails, Reset
<1>4. CASE PowerLossInErase
  <2>1. PICK d \in Damaged(flash[BigAddr + i]) :
          flash' = [a \in Address |-> IF a = BigAddr + i THEN d
                                      ELSE IF a \in Sector(i) THEN Junk ELSE flash[a]]
    BY <1>4 DEF PowerLossInErase
  <2>2. /\ flash \in [Address -> Content] /\ i \in 0 .. Size - 1 /\ Source(flash, from)
        /\ pc' = "boot" /\ UNCHANGED <<running, from, i>>
    BY <1>4, Slots DEF IInv, TypeOK, PowerLossInErase, Reset
  <2>3. d \in Content /\ Junk \in Content
    BY DamagedContent, Slots DEF Junk
  <2>4. flash' \in [Address -> Content]
    BY <2>1, <2>2, <2>3
  <2>5. SameBelow(flash, flash')
    BY <2>1, <2>2, Slots DEF SameBelow, Sector
  <2>6. Layout(flash')
    BY <2>2, <2>5, SourceStays
  <2> QED
    BY <2>2, <2>4, <2>6, ResetInv DEF IInv, TypeOK
<1> QED
  BY <1>1, <1>2, <1>3, <1>4 DEF Fault

\* An image somewhere, and no start-up flag anywhere else.
LEMMA HoldingIs ==
  ASSUME NEW b \in 0 .. BigAddr
  PROVE  /\ Holding(b) \in [Address -> Content]
         /\ CompleteIn(Holding(b), b)
         /\ \A a \in Address : a # b => ~ValidIn(Holding(b), a)
<1>1. \A a \in Address : Holding(b)[a] = IF a >= b /\ a < b + Size THEN a - b ELSE Junk
  BY DEF Holding
<1>2. Holding(b) \in [Address -> Content]
  BY Slots DEF Holding, Junk
<1>3. ASSUME NEW k \in 0 .. Size - 1 PROVE Holding(b)[b + k] = k
  <2>1. b + k \in Address /\ b + k >= b /\ b + k < b + Size /\ (b + k) - b = k
    BY Slots
  <2> QED
    BY <1>1, <2>1
<1>4. ASSUME NEW a \in Address, a # b PROVE ~ValidIn(Holding(b), a)
  BY <1>1, <1>4, Slots DEF ValidIn, Junk, Bootloader, Torn
<1> QED
  BY <1>2, <1>3, <1>4 DEF CompleteIn

\* Setting the first pages of two other slots.
LEMMA BesideStaleIs ==
  ASSUME NEW b \in {MainAddr, SmallAddr}, NEW first \in Content, NEW stale \in Content
  PROVE  /\ BesideStale(b, first, stale) \in [Address -> Content]
         /\ BesideStale(b, first, stale)[0] = first
         /\ CompleteIn(BesideStale(b, first, stale), b)
         /\ b # MainAddr => ~ValidIn(BesideStale(b, first, stale), MainAddr)
         /\ b # SmallAddr => ~ValidIn(BesideStale(b, first, stale), SmallAddr)
<1> DEFINE h == Holding(b)
<1> DEFINE f == BesideStale(b, first, stale)
<1>1. /\ h \in [Address -> Content] /\ CompleteIn(h, b)
      /\ \A a \in Address : a # b => ~ValidIn(h, a)
  <2>1. b \in 0 .. BigAddr
    BY Slots
  <2> QED
    BY <2>1, HoldingIs
<1>2. f = [h EXCEPT ![0] = first, ![BigAddr] = stale]
  BY DEF BesideStale
<1> HIDE DEF h, f
<1>3. 0 \in Address /\ BigAddr \in Address /\ BigAddr # 0
  BY Slots
<1>4. f \in [Address -> Content] /\ f[0] = first
  BY <1>1, <1>2, <1>3
<1>5. \A a \in Address : a # 0 /\ a # BigAddr => f[a] = h[a]
  BY <1>1, <1>2
<1>6. ASSUME NEW k \in 0 .. Size - 1 PROVE f[b + k] = k
  <2>1. b + k \in Address /\ b + k # 0 /\ b + k # BigAddr
    BY Slots
  <2> QED
    BY <1>1, <1>5, <2>1 DEF CompleteIn
<1>7. ASSUME NEW a \in {MainAddr, SmallAddr}, a # b PROVE ~ValidIn(f, a)
  <2>1. a \in Address /\ a # 0 /\ a # BigAddr
    BY Slots
  <2> QED
    BY <1>1, <1>5, <1>7, <2>1 DEF ValidIn
<1> QED
  BY <1>4, <1>6, <1>7 DEF CompleteIn, f

\* Every flash that a device may come with has one of the layouts.
LEMMA InitInv == Init => IInv
<1> SUFFICES ASSUME Init PROVE IInv
  OBVIOUS
<1>1. {Erased, Unused, Bootloader, Torn} \subseteq Content /\ MainAddr # SmallAddr
  BY Slots DEF Erased, Unused, Bootloader, Torn
<1>2. flash \in [Address -> Content] /\ Layout(flash)
  <2>1. CASE \E b \in {0, BigAddr} : flash = Holding(b)
    <3>1. PICK b \in {0, BigAddr} : flash = Holding(b)
      BY <2>1
    <3>2. /\ flash \in [Address -> Content] /\ CompleteIn(flash, b)
          /\ \A a \in Address : a # b => ~ValidIn(flash, a)
      BY <3>1, HoldingIs, Slots
    <3>3. /\ 0 \in Address /\ MainAddr \in Address /\ SmallAddr \in Address
          /\ MainAddr # b /\ SmallAddr # b /\ (b = 0 \/ 0 # b)
      BY Slots
    <3> QED
      BY <3>2, <3>3 DEF Layout, BigOta
  <2>2. ASSUME NEW stale \in {Erased, Torn}, flash = BehindBootloader(stale)
        PROVE  flash \in [Address -> Content] /\ Layout(flash)
    <3>1. /\ flash \in [Address -> Content] /\ flash[0] = Bootloader
          /\ CompleteIn(flash, MainAddr) /\ ~ValidIn(flash, SmallAddr)
      <4>1. flash = BesideStale(MainAddr, Bootloader, stale)
        BY <2>2 DEF BehindBootloader
      <4>2. stale \in Content /\ Bootloader \in Content /\ MainAddr \in {MainAddr, SmallAddr}
        BY <1>1, <2>2
      <4> QED
        BY <1>1, <4>1, <4>2, BesideStaleIs
    <3> QED
      BY <3>1 DEF Layout, Converted
  <2>3. ASSUME NEW stale \in {Erased, Torn}, flash = InSmallSlot(stale)
        PROVE  flash \in [Address -> Content] /\ Layout(flash)
    <3>1. /\ flash \in [Address -> Content] /\ flash[0] = Unused
          /\ CompleteIn(flash, SmallAddr) /\ ~ValidIn(flash, MainAddr)
      <4>1. flash = BesideStale(SmallAddr, Unused, stale)
        BY <2>3 DEF InSmallSlot
      <4>2. stale \in Content /\ Unused \in Content /\ SmallAddr \in {MainAddr, SmallAddr}
        BY <1>1, <2>3
      <4> QED
        BY <1>1, <4>1, <4>2, BesideStaleIs
    <3>2. ~ValidIn(flash, 0)
      BY <3>1 DEF ValidIn, Unused, Bootloader, Torn
    <3> QED
      BY <3>1, <3>2 DEF Layout, SmallOta
  <2> QED
    BY <2>1, <2>2, <2>3 DEF Init
<1> QED
  BY <1>2, Slots DEF Init, IInv, TypeOK

LEMMA NextInv == IInv /\ [Next]_vars => IInv'
<1>1. IInv /\ UNCHANGED vars => IInv'
  BY DEF IInv, TypeOK, vars
<1> QED
  BY <1>1, BootInv, StartMoveInv, NothingToMoveInv, EraseSectorInv, WritePageInv,
     ClearBootloaderInv, ClearMainInv, ClearSmallInv, FaultInv DEF Next, Program

-----------------------------------------------------------------------------
(* The theorems.                                                           *)

\* The inductive invariant: the layout, the copied pages, the order of the flags.
THEOREM InvariantCorrect == Spec => []IInv
<1> QED
  BY InitInv, NextInv, PTL DEF Spec

\* The flash and the copy stay in range.
THEOREM TypeCorrect == Spec => []TypeOK
<1>1. IInv => TypeOK
  BY DEF IInv
<1> QED
  BY <1>1, InvariantCorrect, PTL

\* The old slots are marked unused only after the whole image has been copied.
THEOREM CopyCorrect == Spec => []OldKeptUntilMoved
<1> QED
  BY InvKept, InvariantCorrect, PTL

\* A power loss at any instant leaves a complete image to start from, but for the
\* window between the two flag writes of a conversion from the bootloader.
THEOREM BootCorrect == Spec => []AlwaysBoots
<1> QED
  BY InvBoots, InvariantCorrect, PTL
=============================================================================
