----------------------------- MODULE OtaScheme -----------------------------
(***************************************************************************)
(* Reformatting of the flash of a Telink device at start-up                *)
(* (src/telink/ota_reformating/ensure_ota_scheme.c).  A device converted   *)
(* from vendor firmware may have its image at MainAddr, behind a           *)
(* bootloader, or in the small-OTA slot; the image is then moved to the    *)
(* big-OTA slot and the old slots are marked unused.                       *)
(*                                                                         *)
(* The flash is an array of pages.  Power may fail before, after or in the *)
(* middle of every erasure and every page write, and a write may fail.     *)
(***************************************************************************)
EXTENDS Integers

CONSTANTS
  MainAddr,         \* BOOTLOADER_MODE_MAIN_ADDR, in pages
  SmallAddr,        \* SMALL_OTA_FLASH_ADDR
  BigAddr,          \* FLASH_ADDR_OF_OTA_IMAGE, that is BIG_OTA_FLASH_ADDR
  PagesPerSector,   \* the unit of erasure: 16 pages of 256 bytes
  Size,             \* the size of the image
  MaxFirmwareSize   \* MAX_FIRMWARE_SIZE

ASSUME FlashAssumption ==
  /\ {MainAddr, SmallAddr, BigAddr, PagesPerSector, Size, MaxFirmwareSize}
       \subseteq Nat \ {0}
  /\ MainAddr < SmallAddr /\ SmallAddr < BigAddr
  /\ BigAddr % PagesPerSector = 0
  /\ Size <= MaxFirmwareSize

\* The image does not reach into the slot it is moved to.  MAX_FIRMWARE_SIZE alone
\* does not ensure this.
ASSUME ImageFits == SmallAddr + Size <= BigAddr

\* The content of a page is the number of a page of the image, or one of these.
Erased == -1
Junk == -2
Bootloader == -3   \* the first page of the bootloader
Unused == -4       \* a first page whose start-up flag has been overwritten
Torn == -5         \* a first page of which little more than the flag was written
Content == Torn .. Size - 1

\* The last sector erased may extend past the image.
FlashSize == BigAddr + Size + PagesPerSector
Address == 0 .. FlashSize - 1
None == -1

VARIABLES
  flash,
  pc,        \* what the processor does: "boot", "ensure", "erase", "write",
             \* "clear", "clear_main", "run", or "dead"
  running,   \* the slot that the code being executed was started from
  from,      \* current_addr
  i          \* the page that move_flash_data is at

vars == <<flash, pc, running, from, i>>

-----------------------------------------------------------------------------

\* is_valid_image_at_address: only the start-up flag is looked at.
ValidIn(f, a) == f[a] \in {0, Bootloader, Torn}
Valid(a) == ValidIn(flash, a)

CompleteIn(f, a) == \A k \in 0 .. Size - 1 : f[a + k] = k
Complete(a) == CompleteIn(flash, a)

\* get_firmware_size reads the first page.
FirmwareSize(a) == IF flash[a] = 0 THEN Size ELSE 0

\* The ROM starts the first slot that has a start-up flag; the bootloader starts
\* the image at MainAddr.
RomSlot(f) ==
  CASE ValidIn(f, 0) -> 0
    [] ~ValidIn(f, 0) /\ ValidIn(f, SmallAddr) -> SmallAddr
    [] ~ValidIn(f, 0) /\ ~ValidIn(f, SmallAddr) /\ ValidIn(f, BigAddr) -> BigAddr
    [] OTHER -> None

BootSlot(f) ==
  IF RomSlot(f) = 0 /\ f[0] = Bootloader THEN MainAddr ELSE RomSlot(f)

Boots(f) == BootSlot(f) # None /\ CompleteIn(f, BootSlot(f))

Boot ==
  /\ pc = "boot"
  /\ running' = BootSlot(flash)
  /\ pc' = IF Boots(flash) THEN "ensure" ELSE "dead"
  /\ UNCHANGED <<flash, from, i>>

Reset == pc' = "boot"

-----------------------------------------------------------------------------
(* ensure_correct_ota_scheme.                                              *)

WrongSlot ==
  CASE Valid(MainAddr) -> MainAddr
    [] ~Valid(MainAddr) /\ Valid(SmallAddr) -> SmallAddr
    [] OTHER -> None

\* Mutant of StartMove: the old slot is marked unused first.
ClearFirst ==
  /\ pc = "ensure" /\ WrongSlot # None
  /\ from' = WrongSlot /\ i' = 0 /\ pc' = "clear"
  /\ UNCHANGED <<flash, running>>

\* An image of invalid size is not moved: the device restarts.
StartMove ==
  /\ pc = "ensure" /\ WrongSlot # None
  /\ from' = WrongSlot /\ i' = 0
  /\ pc' = IF FirmwareSize(WrongSlot) \in 1 .. MaxFirmwareSize THEN "erase" ELSE "boot"
  /\ UNCHANGED <<flash, running>>

\* "We booted either from 0x00000 or 0x40000, which is correct".
NothingToMove ==
  /\ pc = "ensure" /\ WrongSlot = None
  /\ pc' = "run"
  /\ UNCHANGED <<flash, running, from, i>>

Sector(k) == { a \in Address : a >= BigAddr + k /\ a < BigAddr + k + PagesPerSector }

EraseSector ==
  /\ pc = "erase"
  /\ flash' = IF i % PagesPerSector # 0 THEN flash
              ELSE [a \in Address |-> IF a \in Sector(i) THEN Erased ELSE flash[a]]
  /\ pc' = "write"
  /\ UNCHANGED <<running, from, i>>

\* The loop of move_flash_data ends.
Moved(n) == n >= Size

\* Writing clears bits only: a page that has not been erased ends up as neither.
Programmed(old, v) == IF old \in {Erased, v} THEN v ELSE Junk

\* The device restarts when the page read back differs from its source.
WritePage ==
  /\ pc = "write"
  /\ flash' = [flash EXCEPT ![BigAddr + i] = Programmed(flash[BigAddr + i], flash[from + i])]
  /\ IF flash'[BigAddr + i] = flash[from + i]
     THEN i' = i + 1 /\ pc' = IF Moved(i') THEN "clear" ELSE "erase"
     ELSE Reset /\ UNCHANGED i
  /\ UNCHANGED <<running, from>>

\* What a write that did not succeed may leave of a page.
Damaged(v) == IF v = 0 THEN {Torn, Junk} ELSE {Junk}

\* The verification finds the page different from its source.
WriteFails ==
  /\ pc = "write"
  /\ \E d \in Damaged(flash[from + i]) : flash' = [flash EXCEPT ![BigAddr + i] = d]
  /\ Reset
  /\ UNCHANGED <<running, from, i>>

\* A bootloader and the image it starts are marked unused one after the other.
ClearBootloader ==
  /\ pc = "clear" /\ from = MainAddr
  /\ flash' = [flash EXCEPT ![0] = Unused]
  /\ pc' = "clear_main"
  /\ UNCHANGED <<running, from, i>>

\* Mutant of ClearMain: the image keeps its flag.
ForgetMain ==
  /\ pc = "clear_main"
  /\ Reset
  /\ UNCHANGED <<flash, running, from, i>>

ClearMain ==
  /\ pc = "clear_main"
  /\ flash' = [flash EXCEPT ![MainAddr] = Unused]
  /\ Reset
  /\ UNCHANGED <<running, from, i>>

ClearSmall ==
  /\ pc = "clear" /\ from = SmallAddr
  /\ flash' = [flash EXCEPT ![SmallAddr] = Unused]
  /\ Reset
  /\ UNCHANGED <<running, from, i>>

-----------------------------------------------------------------------------
(* Power loss.                                                             *)

PowerLoss ==
  /\ pc # "dead"
  /\ Reset
  /\ UNCHANGED <<flash, running, from, i>>

PowerLossInWrite ==
  /\ pc = "write"
  /\ \E d \in Damaged(flash[from + i]) : flash' = [flash EXCEPT ![BigAddr + i] = d]
  /\ Reset
  /\ UNCHANGED <<running, from, i>>

PowerLossInErase ==
  /\ pc = "erase" /\ i % PagesPerSector = 0
  /\ \E d \in Damaged(flash[BigAddr + i]) :
       flash' = [a \in Address |-> IF a = BigAddr + i THEN d
                                   ELSE IF a \in Sector(i) THEN Junk ELSE flash[a]]
  /\ Reset
  /\ UNCHANGED <<running, from, i>>

\* A flash with an image at an address.
Holding(b) ==
  [a \in Address |-> IF a >= b /\ a < b + Size THEN a - b ELSE Junk]

\* Vendor firmware may have left an image of its own in the big-OTA slot.
BesideStale(b, first, stale) ==
  [Holding(b) EXCEPT ![0] = first, ![BigAddr] = stale]
BehindBootloader(stale) == BesideStale(MainAddr, Bootloader, stale)
InSmallSlot(stale) == BesideStale(SmallAddr, Unused, stale)

Init ==
  /\ \/ flash \in {Holding(0), Holding(BigAddr)}
     \/ \E stale \in {Erased, Torn} :
          flash \in {BehindBootloader(stale), InSmallSlot(stale)}
  /\ pc = "boot" /\ running = None /\ from = 0 /\ i = 0

Program ==
  \/ Boot \/ StartMove \/ NothingToMove \/ EraseSector \/ WritePage
  \/ ClearBootloader \/ ClearMain \/ ClearSmall

Fault == PowerLoss \/ PowerLossInWrite \/ PowerLossInErase \/ WriteFails

Next == Program \/ Fault

Spec == Init /\ [][Next]_vars
\* The processor runs while it has power.
FairSpec == Spec /\ WF_vars(Program)

-----------------------------------------------------------------------------
(* Properties.                                                             *)

\* The flash holds pages, the processor is somewhere in the procedure, and the copy
\* stays inside the image.
TypeOK ==
  /\ flash \in [Address -> Content]
  /\ pc \in {"boot", "ensure", "erase", "write", "clear", "clear_main", "run", "dead"}
  /\ running \in {None, 0, MainAddr, SmallAddr, BigAddr}
  /\ from \in {0, MainAddr, SmallAddr} /\ i \in 0 .. Size

\* The old slots are marked unused only after the whole image has been copied,
\* whatever failed before.
OldKeptUntilMoved == pc \in {"clear", "clear_main"} => Complete(BigAddr)

\* Between the two writes of a conversion from the bootloader, and after a power
\* loss between them, the bootloader is gone but its image is not.
HalfCleared == flash[0] = Unused /\ Valid(MainAddr)

\* Were power lost now, the device would start from a complete image; but for
\* HalfCleared, where it starts from the image that it then moves, in spite of "avoid
\* overwriting code that is being executed" (ensure_ota_scheme.c:17-18).
AlwaysBoots == Boots(flash) \/ HalfCleared

\* Once faults stop, the device ends up running from a big-OTA slot, from every layout and
\* every point at which faults left it; but for one that power failed twice, in HalfCleared
\* and again while the running image was overwritten, which is never started again.
Reformatted ==
  \/ []<><<~Program>>_vars
  \/ <>(pc = "dead" /\ HalfCleared)
  \/ <>[](pc = "run" /\ running \in {0, BigAddr} /\ Complete(running))
=============================================================================
