------------------------------- MODULE OtaBoot -------------------------------
(***************************************************************************)
(* The over-the-air update of one node as its flash memories see it: the    *)
(* bootloader (unwired/bootloader/bootloader.c), the firmware copy, the     *)
(* one-byte update flag kept in the user flash sector, the external SPI     *)
(* flash with the golden image and OTA slot 1, and the parts of the         *)
(* application that write any of them.  Power may fail, and the watchdog    *)
(* may reset the chip, between any two flash operations.                    *)
(*                                                                          *)
(* The chunk protocol that fills slot 1 is module OtaTransfer; here a       *)
(* transfer is any sequence of page writes, good or bad.                    *)
(***************************************************************************)
EXTENDS Integers, FiniteSets

CONSTANTS
  Image,        \* firmware images
  Factory,      \* the image the node is shipped with
  Uuid,         \* [Image -> value]: the metadata's firmware UUID
  ImagePages,   \* flash pages of an image area (25 in the code)
  UsedPages,    \* pages an image really fills (metadata.size)
  GoldenBase,   \* first external page of the golden image (0x19)
  SlotBase,     \* first external page of OTA slot 1 (0x32)
  SectorPages,  \* pages the chip's erase opcode 0xD8 clears (16: 64 KB)
  ClassC,       \* TRUE: CLASS_C node (mains), FALSE: CLASS_B (battery)
  SpiMayFail,   \* a probe may find the SPI flash absent
  RebootMayHang, \* watchdog_reboot() may leave the node where it is
  FlagCut,      \* power may fail inside a user flash sector update
  GiCommands,   \* CLEAN_GI may arrive (root-node.c does not send it)
  MaxOffset,    \* bound: the last page, counted from slot 1, that a transfer writes
  MaxCuts       \* bound: unplanned resets and power failures in a run

ASSUME ImageAssumption ==
  /\ Factory \in Image
  /\ DOMAIN Uuid = Image
  /\ Image \cap {"blank", "garbage"} = {}

ASSUME GeometryAssumption ==
  /\ ImagePages \in Nat \ {0}
  /\ UsedPages \in 1 .. ImagePages
  /\ GoldenBase \in Nat
  /\ SlotBase \in Nat
  /\ GoldenBase + ImagePages <= SlotBase
  /\ SectorPages \in Nat \ {0}

ASSUME SwitchAssumption ==
  /\ {ClassC, SpiMayFail, RebootMayHang, FlagCut, GiCommands} \subseteq BOOLEAN
  /\ MaxCuts \in Nat

\* A transfer may run one page past slot 1, no further.
ASSUME OffsetAssumption == MaxOffset \in 0 .. ImagePages

VARIABLES
  int,        \* internal flash: the current firmware's pages
  ext,        \* external flash pages
  flag,       \* the update flag byte in user flash, "blank" when erased
  pend,       \* buffered flag value between sector erase and program
  pc,         \* where the running code is
  ret,        \* where a user flash update returns to
  src, page,  \* source area and page of the copy loop
  boot_spi,   \* the external flash answered the bootloader's probe
  spi,        \* spi_status: it answered the application's own probe
  fw,         \* fw_update_process: stage, page being erased, write offset
  confirmed,  \* history: images that have joined the network once
  spoilt,     \* history: slot 1 was written while the flag named it
  cuts        \* resets that came from outside so far

vars == <<int, ext, flag, pend, pc, ret, src, page, boot_spi, spi, fw,
          confirmed, spoilt, cuts>>

(***************************************************************************)
(* Flash contents.  A page holds the page of some image that belongs at     *)
(* its place, or nothing ("blank", all 0xFF), or anything else ("garbage"). *)
(***************************************************************************)
Page    == 0 .. (ImagePages - 1)
Used    == 0 .. (UsedPages - 1)
ExtPage == 0 .. (SlotBase + ImagePages + SectorPages)
Content == Image \cup {"blank", "garbage"}

Flag == {"NON_UPDATE", "NEW_IMG_EXT", "NEW_IMG_INT_RST", "NEW_IMG_INT",
         "PING_OK", "ERROR_GI_LOADED"}

BootPc == {"reset", "read", "dispatch", "erase", "program"}
AppPc  == {"join", "normal", "need_reboot"}
Pc     == BootPc \cup AppPc
            \cup {"flag", "backup_erase", "backup_copy", "clean_erase",
                  "start", "asleep", "hung", "stuck"}

FwState == [st : {"idle", "erase", "store"}, page : Page, off : 0 .. (MaxOffset + 1)]
FwIdle  == [st |-> "idle", page |-> 0, off |-> 0]

\* An image is bootable when every page it fills belongs to that image: the
\* CRC over metadata.size bytes matches (CRC16 collisions are not modelled).
IsWhole(area, i) == \A k \in Used : area[k] = i
Whole(area)      == \E i \in Image : IsWhole(area, i)
ImageOf(area)    == CHOOSE i \in Image : IsWhole(area, i)

Golden == [k \in Page |-> ext[GoldenBase + k]]
Slot   == [k \in Page |-> ext[SlotBase + k]]

\* The chip erases the whole 64 KB sector that contains the addressed page.
SectorOf(p)         == p \div SectorPages
ext_flash_erase(p)  == [q \in ExtPage |->
                          IF SectorOf(q) = SectorOf(p) THEN "blank" ELSE ext[q]]

\* Programming only clears bits: what was written earlier shows through.
ext_flash_write(p, c) ==
  [ext EXCEPT ![p] = IF c = "blank" \/ @ = c THEN @
                     ELSE IF @ = "blank" THEN c ELSE "garbage"]

TypeOK ==
  /\ int \in [Page -> Content]
  /\ ext \in [ExtPage -> Content]
  /\ flag \in Flag \cup {"blank"}
  /\ pend \in Flag \cup {"blank"}
  /\ pc \in Pc
  /\ ret \in AppPc \cup {"reset", "jump"}
  /\ src \in {GoldenBase, SlotBase}
  /\ page \in Page
  /\ boot_spi \in BOOLEAN /\ spi \in BOOLEAN
  /\ fw \in FwState
  /\ confirmed \in SUBSET Image
  /\ spoilt \in {"no", "yes", "forgotten"}
  /\ cuts \in 0 .. MaxCuts

\* A node leaves the factory with firmware, an erased external flash and an
\* erased user flash sector.
Init ==
  /\ int = [k \in Page |-> Factory]
  /\ ext = [p \in ExtPage |-> "blank"]
  /\ flag = "blank"
  /\ pend = "blank"
  /\ pc = "reset"
  /\ ret = "reset"
  /\ src = GoldenBase
  /\ page = 0
  /\ boot_spi = TRUE
  /\ spi = FALSE
  /\ fw = FwIdle
  /\ confirmed = {Factory}
  /\ spoilt = "no"
  /\ cuts = 0

-----------------------------------------------------------------------------
(***************************************************************************)
(* user_flash_update_byte: read the sector into RAM, erase it, program it.  *)
(* Between the two flash operations the flag byte reads 0xFF.               *)
(***************************************************************************)
user_flash_erase(value, next) ==
  /\ flag' = "blank"
  /\ pend' = value
  /\ pc' = "flag"
  /\ ret' = next

\* jump_to_image: a torn image runs as undefined code until the next reset.
jump_to_image(area) == pc' = IF Whole(area) THEN "start" ELSE "hung"

UserFlashProgram ==
  /\ pc = "flag"
  /\ flag' = pend
  /\ pend' = "blank"
  /\ IF ret = "jump" THEN jump_to_image(int) ELSE pc' = ret
  /\ ret' = "reset"
  /\ UNCHANGED <<int, ext, src, page, boot_spi, spi, fw, confirmed, spoilt, cuts>>

\* A value that is no flag, such as blank, is replaced by NON_UPDATE.
read_fw_flag == IF flag \in Flag THEN flag ELSE "NON_UPDATE"

(***************************************************************************)
(* The bootloader's main().                                                 *)
(***************************************************************************)
\* What one probe of the external flash finds.
Probes == IF SpiMayFail THEN BOOLEAN ELSE {TRUE}

\* ext_flash_init() fails: jump to the main image, the flag is not looked at.
BootInit ==
  /\ pc = "reset"
  /\ \E found \in Probes :
       /\ boot_spi' = found
       /\ IF found THEN pc' = "read" ELSE jump_to_image(int)
  /\ spi' = FALSE
  /\ fw' = FwIdle
  /\ page' = 0
  /\ ret' = "reset"
  /\ src' = GoldenBase
  /\ UNCHANGED <<int, ext, flag, pend, confirmed, spoilt, cuts>>

\* verify_current_firmware reprograms the metadata's crc_shadow, which spoils
\* page 0 of an image whose CRC no longer matches.
verify_current_firmware == IF Whole(int) THEN int ELSE [int EXCEPT ![0] = "garbage"]

\* The flag is read and repaired, the images are verified.
BootRead ==
  /\ pc = "read"
  /\ flag' = read_fw_flag
  /\ int' = verify_current_firmware
  /\ pc' = "dispatch"
  /\ UNCHANGED <<ext, pend, ret, src, page, boot_spi, spi, fw, confirmed, spoilt, cuts>>

\* Mutant: PING_OK is not cleared before the reset.
BootPingOkKept ==
  /\ pc = "dispatch"
  /\ flag = "PING_OK"
  /\ pc' = "reset"
  /\ UNCHANGED <<int, ext, flag, pend, ret, src, page, boot_spi, spi, fw, confirmed, spoilt, cuts>>

BootPingOk ==
  /\ pc = "dispatch"
  /\ flag = "PING_OK"
  /\ user_flash_erase("NON_UPDATE", "reset")
  /\ UNCHANGED <<int, ext, src, page, boot_spi, spi, fw, confirmed, spoilt, cuts>>

BootMain ==
  /\ pc = "dispatch"
  /\ flag \in {"NON_UPDATE", "ERROR_GI_LOADED"}
  /\ jump_to_image(int)
  /\ UNCHANGED <<int, ext, flag, pend, ret, src, page, boot_spi, spi, fw, confirmed, spoilt, cuts>>

\* Mutant: the trial starts with the update already marked as finished.
BootTrialUnarmed ==
  /\ pc = "dispatch"
  /\ flag = "NEW_IMG_INT_RST"
  /\ user_flash_erase("NON_UPDATE", "jump")
  /\ UNCHANGED <<int, ext, src, page, boot_spi, spi, fw, confirmed, spoilt, cuts>>

BootTrial ==
  /\ pc = "dispatch"
  /\ flag = "NEW_IMG_INT_RST"
  /\ user_flash_erase("NEW_IMG_INT", "jump")
  /\ UNCHANGED <<int, ext, src, page, boot_spi, spi, fw, confirmed, spoilt, cuts>>

\* Mutant: the copy loop starts at page 1.
BootCopySkipsFirst ==
  /\ pc = "dispatch"
  /\ \/ flag = "NEW_IMG_INT" /\ src' = GoldenBase
     \/ flag = "NEW_IMG_EXT" /\ src' = SlotBase
  /\ page' = 1
  /\ pc' = "erase"
  /\ UNCHANGED <<int, ext, flag, pend, ret, boot_spi, spi, fw, confirmed, spoilt, cuts>>

\* update_firmware(0) or update_firmware(1): no check of the source image.
BootCopy ==
  /\ pc = "dispatch"
  /\ \/ flag = "NEW_IMG_INT" /\ src' = GoldenBase
     \/ flag = "NEW_IMG_EXT" /\ src' = SlotBase
  /\ page' = 0
  /\ pc' = "erase"
  /\ UNCHANGED <<int, ext, flag, pend, ret, boot_spi, spi, fw, confirmed, spoilt, cuts>>

PageErase ==
  /\ pc = "erase"
  /\ int' = [int EXCEPT ![page] = "blank"]
  /\ pc' = "program"
  /\ UNCHANGED <<ext, flag, pend, ret, src, page, boot_spi, spi, fw, confirmed, spoilt, cuts>>

\* The last page is followed by the flag update and a reset.
PageProgram ==
  /\ pc = "program"
  /\ int' = [int EXCEPT ![page] = ext[src + page]]
  /\ IF page < ImagePages - 1
       THEN /\ page' = page + 1
            /\ pc' = "erase"
            /\ UNCHANGED <<flag, pend, ret, spoilt>>
       ELSE /\ page' = 0
            /\ user_flash_erase(IF src = GoldenBase THEN "ERROR_GI_LOADED"
                                                    ELSE "NEW_IMG_INT_RST",
                                "reset")
            /\ spoilt' = IF src = GoldenBase THEN "no" ELSE spoilt
  /\ UNCHANGED <<ext, src, boot_spi, spi, fw, confirmed, cuts>>

Bootloader ==
  \/ BootInit \/ BootRead \/ BootPingOk \/ BootMain \/ BootTrial \/ BootCopy
  \/ PageErase \/ PageProgram

(***************************************************************************)
(* The application.  Contiki processes run to their next wait, so each      *)
(* action is one such run; only a reset can interrupt it.                   *)
(***************************************************************************)
\* dag_node_process starts with a probe of its own: spi_test() reads the
\* metadata of slot 1, whatever the bootloader found.
AppStart ==
  /\ pc = "start"
  /\ spi' \in Probes
  /\ pc' = "join"
  /\ UNCHANGED <<int, ext, flag, pend, ret, src, page, boot_spi, fw, confirmed, spoilt, cuts>>

\* Starts the watchdog and waits for it in a loop.  A comment beside one of its
\* calls says that the node does not reboot there (dag_node.c 997).
watchdog_reboot == pc' \in {"reset"} \cup (IF RebootMayHang THEN {"stuck"} ELSE {})

\* Mutant: the golden image is not looked at after the join.
JoinConfirmNoGolden ==
  /\ pc = "join"
  /\ confirmed' = confirmed \cup {ImageOf(int)}
  /\ page' = 0
  /\ IF flag = "NEW_IMG_INT"
       THEN user_flash_erase("PING_OK", "need_reboot") /\ spoilt' = "no"
       ELSE /\ flag' = read_fw_flag
            /\ pc' = "normal"
            /\ UNCHANGED <<pend, ret, spoilt>>
  /\ UNCHANGED <<int, ext, src, boot_spi, spi, fw, cuts>>

\* join_confirm_handler wakes dag_node_process, which checks the golden image
\* first and the update flag second.
JoinConfirm ==
  /\ pc = "join"
  /\ confirmed' = confirmed \cup {ImageOf(int)}
  /\ page' = 0
  /\ \/ /\ spi /\ ~Whole(Golden)
        /\ pc' = "backup_erase"
        /\ UNCHANGED <<flag, pend, ret, spoilt>>
     \/ /\ ~spi \/ Whole(Golden)
        /\ flag = "NEW_IMG_INT"
        /\ user_flash_erase("PING_OK", "need_reboot")
        /\ spoilt' = "no"
     \/ /\ ~spi \/ Whole(Golden)
        /\ flag # "NEW_IMG_INT"
        /\ flag' = read_fw_flag
        /\ pc' = "normal"
        /\ UNCHANGED <<pend, ret, spoilt>>
  /\ UNCHANGED <<int, ext, src, boot_spi, spi, fw, cuts>>

\* Mutant: a node without a root sleeps whatever its class.
RootNotFoundSleeps ==
  /\ pc = "join"
  /\ pc' = "asleep"
  /\ UNCHANGED <<int, ext, flag, pend, ret, src, page, boot_spi, spi, fw, confirmed, spoilt, cuts>>

\* Mutant: the golden image is repaired before the network is found.
RootNotFoundBackup ==
  /\ pc = "join"
  /\ pc' = IF spi /\ ~Whole(Golden) THEN "backup_erase" ELSE "reset"
  /\ page' = 0
  /\ UNCHANGED <<int, ext, flag, pend, ret, src, boot_spi, spi, fw, confirmed, spoilt, cuts>>

\* No root within ROOT_FIND_LIMIT_TIME: CLASS_C reboots, CLASS_B sleeps.
RootNotFound ==
  /\ pc = "join"
  /\ IF ClassC THEN watchdog_reboot ELSE pc' = "asleep"
  /\ UNCHANGED <<int, ext, flag, pend, ret, src, page, boot_spi, spi, fw, confirmed, spoilt, cuts>>

\* MODE_NEED_REBOOT: maintenance_process reboots five seconds later.
NeedReboot ==
  /\ pc = "need_reboot"
  /\ watchdog_reboot
  /\ UNCHANGED <<int, ext, flag, pend, ret, src, page, boot_spi, spi, fw, confirmed, spoilt, cuts>>

\* One page of external flash is erased, and the sector it is in.
erase_extflash_page(p) == ext' = ext_flash_erase(p)

\* Mutant: the erase loop runs over the last page.
GoldenEraseOverrun ==
  /\ pc \in {"backup_erase", "clean_erase"}
  /\ erase_extflash_page(GoldenBase + page)
  /\ IF page <= ImagePages - 1
       THEN page' = page + 1 /\ UNCHANGED pc
       ELSE page' = 0 /\ pc' = IF pc = "clean_erase" THEN ret ELSE "backup_copy"
  /\ UNCHANGED <<int, flag, pend, ret, src, boot_spi, spi, fw, confirmed, spoilt, cuts>>

\* erase_ota_image(0), from backup_golden_image or from CLEAN_GI.
GoldenErase ==
  /\ pc \in {"backup_erase", "clean_erase"}
  /\ erase_extflash_page(GoldenBase + page)
  /\ IF page < ImagePages - 1
       THEN page' = page + 1 /\ UNCHANGED pc
       ELSE page' = 0 /\ pc' = IF pc = "clean_erase" THEN ret ELSE "backup_copy"
  /\ UNCHANGED <<int, flag, pend, ret, src, boot_spi, spi, fw, confirmed, spoilt, cuts>>

\* The current firmware becomes the golden image; then watchdog_reboot().
BackupCopy ==
  /\ pc = "backup_copy"
  /\ ext' = ext_flash_write(GoldenBase + page, int[page])
  /\ IF page < ImagePages - 1
       THEN page' = page + 1 /\ UNCHANGED pc
       ELSE page' = 0 /\ watchdog_reboot
  /\ UNCHANGED <<int, flag, pend, ret, src, boot_spi, spi, fw, confirmed, spoilt, cuts>>

\* CLEAN_GI.  Without the chip erase_extflash_page fails for ever and the
\* watchdog ends the loop.  The branch of FLASH_GI after it is never taken:
\* both commands are 0x04 (ud_binary_protocol.h 182).
CleanGi ==
  /\ GiCommands
  /\ pc \in AppPc
  /\ pc' = IF spi THEN "clean_erase" ELSE "reset"
  /\ ret' = pc
  /\ page' = 0
  /\ UNCHANGED <<int, ext, flag, pend, src, boot_spi, spi, fw, confirmed, spoilt, cuts>>

\* The relay keeps its last state in the sector that holds the flag, and
\* saves it on every switch and twice at every start.
SaveRelayState ==
  /\ pc \in AppPc
  /\ user_flash_erase(flag, pc)
  /\ UNCHANGED <<int, ext, src, page, boot_spi, spi, fw, confirmed, spoilt, cuts>>

(***************************************************************************)
(* fw_update_process and the firmware packets' handlers.                    *)
(***************************************************************************)
\* NEW_FW rewinds the write offset; process_start does nothing if the
\* process already runs.
NewFw ==
  /\ pc \in AppPc
  /\ spi
  /\ fw' = IF fw.st = "idle" THEN [st |-> "erase", page |-> 0, off |-> 0]
                             ELSE [fw EXCEPT !.off = 0]
  /\ UNCHANGED <<int, ext, flag, pend, pc, ret, src, page, boot_spi, spi, confirmed, spoilt, cuts>>

\* History: the application runs beside a flag that names slot 1, because the
\* bootloader did not find the chip, and writes there.
SlotTouched == spoilt' = IF flag = "NEW_IMG_EXT" THEN "yes" ELSE spoilt

FwErase ==
  /\ pc \in AppPc
  /\ fw.st = "erase"
  /\ erase_extflash_page(SlotBase + fw.page)
  /\ fw' = IF fw.page < ImagePages - 1 THEN [fw EXCEPT !.page = @ + 1]
                                       ELSE [st |-> "store", page |-> 0, off |-> fw.off]
  /\ SlotTouched
  /\ UNCHANGED <<int, flag, pend, pc, ret, src, page, boot_spi, spi, confirmed, cuts>>

\* A firmware packet is written at the current offset whatever chunk it is
\* and whatever fw_update_process is doing.  The root serves joined nodes.
FirmwareData ==
  /\ pc \in {"normal", "need_reboot"}
  /\ spi
  /\ fw.off <= MaxOffset
  /\ \E c \in Image \cup {"garbage"} :
       ext' = ext_flash_write(SlotBase + fw.off, c)
  /\ fw' = [fw EXCEPT !.off = @ + 1]
  /\ SlotTouched
  /\ UNCHANGED <<int, flag, pend, pc, ret, src, page, boot_spi, spi, confirmed, cuts>>

\* Mutant: the slot's CRC is not looked at.
FwVerifyNoCrc ==
  /\ pc \in AppPc
  /\ fw.st = "store"
  /\ fw' = [fw EXCEPT !.st = "idle"]
  /\ user_flash_erase("NEW_IMG_EXT", "reset")
  /\ spoilt' = "no"
  /\ UNCHANGED <<int, ext, src, page, boot_spi, spi, confirmed, cuts>>

\* Mutant: the application goes on after it has set the flag.
FwVerifyNoReset ==
  /\ pc \in AppPc
  /\ fw.st = "store"
  /\ fw' = [fw EXCEPT !.st = "idle"]
  /\ IF Whole(Slot) /\ Uuid[ImageOf(Slot)] = Uuid[ImageOf(int)]
       THEN user_flash_erase("NEW_IMG_EXT", pc) /\ spoilt' = "no"
       ELSE UNCHANGED <<flag, pend, pc, ret, spoilt>>
  /\ UNCHANGED <<int, ext, src, page, boot_spi, spi, confirmed, cuts>>

\* All chunks requested: verify_ota_slot(1), compare UUIDs, set the flag.
FwVerify ==
  /\ pc \in AppPc
  /\ fw.st = "store"
  /\ fw' = [fw EXCEPT !.st = "idle"]
  /\ IF Whole(Slot) /\ Uuid[ImageOf(Slot)] = Uuid[ImageOf(int)]
       THEN user_flash_erase("NEW_IMG_EXT", "reset") /\ spoilt' = "no"
       ELSE UNCHANGED <<flag, pend, pc, ret, spoilt>>
  /\ UNCHANGED <<int, ext, src, page, boot_spi, spi, confirmed, cuts>>

\* Too many unanswered requests.
FwAbort ==
  /\ pc \in AppPc
  /\ fw.st = "store"
  /\ fw' = [fw EXCEPT !.st = "idle"]
  /\ UNCHANGED <<int, ext, flag, pend, pc, ret, src, page, boot_spi, spi, confirmed, spoilt, cuts>>

Application ==
  \/ AppStart \/ JoinConfirm \/ RootNotFound \/ NeedReboot \/ GoldenErase \/ BackupCopy
  \/ CleanGi \/ SaveRelayState
  \/ NewFw \/ FwErase \/ FirmwareData \/ FwVerify \/ FwAbort

(***************************************************************************)
(* Power failure, watchdog, the REBOOT command, the reset button.           *)
(***************************************************************************)
\* A cut in the flag's sector loses the flag that was to bring a node with a
\* spoilt slot back to its golden image.
Reset ==
  /\ pc # "reset"
  /\ pc = "flag" => FlagCut
  /\ cuts < MaxCuts
  /\ cuts' = cuts + 1
  /\ pc' = "reset"
  /\ pend' = "blank"
  /\ spoilt' = IF pc = "flag" /\ spoilt = "yes"
                 THEN IF Whole(int) THEN "no" ELSE "forgotten"
                 ELSE spoilt
  /\ UNCHANGED <<int, ext, flag, ret, src, page, boot_spi, spi, fw, confirmed>>

Next == Bootloader \/ UserFlashProgram \/ Application \/ Reset

Spec == Init /\ [][Next]_vars

(***************************************************************************)
(* The bootloader and the golden backup are straight-line code.  The root   *)
(* search ends one way or the other (a confirmation or its two-minute       *)
(* timer) and the five-second reboot timer fires, however often the event   *)
(* loop runs other handlers first: strong fairness, because those handlers  *)
(* leave and re-enter the waiting state.  Nothing forces a transfer, a      *)
(* relay command or a power failure to happen.                              *)
(***************************************************************************)
Fairness ==
  /\ WF_vars(Bootloader)
  /\ WF_vars(UserFlashProgram)
  /\ WF_vars(AppStart)
  /\ WF_vars(GoldenErase)
  /\ WF_vars(BackupCopy)
  /\ SF_vars(NeedReboot)
  /\ SF_vars(JoinConfirm \/ RootNotFound)

FairSpec == Spec /\ Fairness

-----------------------------------------------------------------------------
(***************************************************************************)
(* Properties.                                                              *)
(***************************************************************************)
\* Erasing slot 1 leaves the pages a golden image fills alone.  With the
\* real map (0x19, 0x32, 25 pages, 16-page sectors) this means images of at
\* most 23 pages.
SafeGeometry ==
  \A k \in Used, j \in Page : SectorOf(GoldenBase + k) # SectorOf(SlotBase + j)

UpdateFlags == {"NEW_IMG_EXT", "NEW_IMG_INT_RST", "NEW_IMG_INT"}

\* The flag, or the value that an update of its sector is about to program.
FlagToBe == IF pc = "flag" THEN pend ELSE read_fw_flag

\* Whatever is interrupted and whenever, an internal image that is torn can
\* be rebuilt: the flag sends the bootloader back to the copy, and the copy
\* has a whole image to read (bootloader.c main, update_firmware).  An
\* application that writes into slot 1 while the flag names it spoils that
\* source: the copy then installs what it finds, and the trial after it brings
\* the golden image back, unless the flag is forgotten on the way.
TornImageIsRecoverable ==
  \/ Whole(int)
  \/ flag = "NEW_IMG_EXT" /\ Whole(Slot)
  \/ flag = "NEW_IMG_INT" /\ Whole(Golden)
  \/ spoilt = "yes" /\ FlagToBe \in UpdateFlags /\ Whole(Golden)
  \/ spoilt = "forgotten"

\* The bootloader jumps into a torn image only on the path that never looks
\* at the flag, when the external flash does not answer (bootloader.c 106), or
\* when the application has spoilt the slot after such a start.
HungOnlyWithoutSpi == pc = "hung" => ~boot_spi \/ spoilt # "no"

\* A firmware that has never joined the network runs only while the flag
\* still provides for its trial; otherwise a bad update would be permanent
\* (bootloader.c 181: flash the golden image if the update is unconfirmed).
UnconfirmedOnTrial ==
  pc \in AppPc \cup {"asleep"} /\ ImageOf(int) \notin confirmed
    => flag \in UpdateFlags

\* What a rollback restores has worked before: a whole golden image is an
\* image that once joined the network (dag_node_process, backup_golden_image).
GoldenIsConfirmed == Whole(Golden) => ImageOf(Golden) \in confirmed

\* While the flag names an image area as the source of the next copy, no step
\* changes the pages of that area the image fills: never the golden image's,
\* and slot 1's only in an application that was started by a bootloader that
\* did not find the chip and so did not act on the flag (bootloader.c 106).
CopySourceIsStable ==
  [][ /\ flag = "NEW_IMG_EXT" /\ boot_spi => \A k \in Used : Slot'[k] = Slot[k]
      /\ flag = "NEW_IMG_INT" => \A k \in Used : Golden'[k] = Golden[k] ]_vars

\* Whenever the flag says an update is under way there is a golden image to
\* fall back to (ota-main.c 517: the golden image should never be erased).
GoldenBehindUpdate ==
  flag \in UpdateFlags => Whole(Golden)

\* A started update ends: the new firmware is confirmed, or the golden image
\* is restored, and the flag says so; the node does not stay between the two
\* (CLASS_C nodes, which reboot when they find no root), unless the golden
\* image itself was lost, or one of those reboots never comes: a comment beside
\* the one after the root search says that it does not (dag_node.c 997).
UpdateResolves ==
  \/ [](flag = "NEW_IMG_EXT" =>
           <>(flag \in {"NON_UPDATE", "ERROR_GI_LOADED"} \/ ~Whole(Golden)))
  \/ <>[](pc = "stuck")

\* However it was interrupted, a node that starts with a golden image ends up
\* running an application that looks for the network.
ResetReachesApp == pc = "reset" ~> pc \in AppPc \/ ~Whole(Golden)

(***************************************************************************)
(* The inductive invariant behind the safety properties, for nodes whose    *)
(* geometry is safe and whose root does not send CLEAN_GI.                   *)
(***************************************************************************)
Running(pcs) == pc \in pcs \/ (pc = "flag" /\ ret \in pcs)

\* The application, and nothing else, runs on a whole internal image.
AppIsWhole ==
  /\ Running(AppPc) => Whole(int)
  /\ pc \in {"start", "asleep", "backup_erase", "backup_copy", "clean_erase"} => Whole(int)
  /\ pc = "clean_erase" => ret \in AppPc

\* The flag and its buffered successor.
FlagInv ==
  /\ pc = "flag" => flag = "blank"
  /\ pc # "flag" => pend = "blank"
  /\ pc = "dispatch" => flag \in Flag
  /\ flag \notin {"NEW_IMG_EXT", "NEW_IMG_INT"} => Whole(int) \/ spoilt # "no"
  /\ spoilt = "yes" => FlagToBe \in UpdateFlags
  /\ flag \in UpdateFlags \/ pend \in UpdateFlags => Whole(Golden)
  /\ flag = "NEW_IMG_EXT" \/ pend = "NEW_IMG_EXT" => Whole(Slot) \/ spoilt = "yes"

\* The pages already copied equal their source, and the flag names it.
CopyInv ==
  pc \in {"erase", "program"} =>
    /\ \/ flag = "NEW_IMG_INT" /\ src = GoldenBase
       \/ flag = "NEW_IMG_EXT" /\ src = SlotBase
    /\ \A k \in Page : k < page => int[k] = ext[src + k]

\* An application started by a bootloader that read the flag never runs beside
\* a committed copy; with the external flash at hand it has a golden image once
\* joined, when no trial is open any more; it backs the golden image up only
\* while no update is under way.
AppInv ==
  /\ boot_spi /\ (Running(AppPc) \/ pc = "start" \/ (pc = "flag" /\ ret = "jump"))
       => flag # "NEW_IMG_EXT" /\ pend # "NEW_IMG_EXT"
  /\ Running({"normal", "need_reboot"}) => flag # "NEW_IMG_INT" /\ pend # "NEW_IMG_INT"
  /\ spi /\ Running({"normal", "need_reboot"}) => Whole(Golden)
  /\ pc \in {"backup_erase", "backup_copy"} => flag \notin UpdateFlags
  /\ pc # "clean_erase"
  /\ pc = "hung" => ~boot_spi \/ spoilt # "no"

\* A transfer needs the external flash; before the join it has only erased.
FwInv ==
  /\ ~spi => fw.st = "idle"
  /\ pc \in (BootPc \ {"reset"}) \cup {"start"} \/ (pc = "flag" /\ ret = "jump")
       => fw.st = "idle"
  /\ Running({"join"}) /\ fw.st # "idle" =>
       \A k \in Used : fw.st = "store" \/ k < fw.page => Slot[k] = "blank"

\* What every step preserves: all of the above.
RecoveryInv == AppIsWhole /\ FlagInv /\ CopyInv /\ AppInv /\ FwInv

\* What the implementation of OtaUpdate needs beside RecoveryInv: a backup starts
\* without a golden image and overwrites erased pages only.
BackupInv ==
  /\ pc = "backup_erase" =>
       ~Whole(Golden) /\ \A k \in Page : k < page => Golden[k] = "blank"
  /\ pc = "backup_copy" =>
       \A k \in Page : Golden[k] = IF k < page THEN int[k] ELSE "blank"

\* A node that forgot a spoilt update has no image and no flag to get one.
LostInv == spoilt = "forgotten" => ~Whole(int) /\ FlagToBe \notin UpdateFlags

(***************************************************************************)
(* The invariant behind UnconfirmedOnTrial and GoldenIsConfirmed, which     *)
(* needs neither assumption: every page of the golden image comes from an   *)
(* image that has joined, and so does every page of the internal one unless *)
(* the flag, or the value about to be written to it, provides for a trial.  *)
(***************************************************************************)
KnownPages(area) ==
  \A k \in Used : area[k] \in confirmed \cup {"blank", "garbage"}

TrialInv ==
  /\ CopyInv
  /\ KnownPages(Golden)
  /\ pc \in {"backup_erase", "backup_copy"} => KnownPages(int)
  /\ ~FlagCut => FlagToBe \in UpdateFlags \/ KnownPages(int)

-----------------------------------------------------------------------------
(***************************************************************************)
(* The abstract view of the same nodes: the flag counts as written when its *)
(* sector is erased, and an area holds an image when all of it is there.    *)
(***************************************************************************)
Stage == CASE FlagToBe = "NEW_IMG_EXT"     -> "install"
           [] FlagToBe = "NEW_IMG_INT_RST" -> "ready"
           [] FlagToBe = "NEW_IMG_INT"     -> "trial"
           [] OTHER                        -> "stable"

ImageIn(area) == IF Whole(area) THEN ImageOf(area) ELSE "blank"

Update == INSTANCE OtaUpdate WITH
  NoImage <- "blank",
  runs <- ImageIn(int),
  offered <- IF Stage = "install" THEN ImageIn(Slot) ELSE "blank",
  fallback <- ImageIn(Golden),
  stage <- Stage,
  spoilt <- spoilt # "no",
  failures <- cuts

\* Bootloader, flag, flash driver and application together implement the abstract
\* update, whatever is interrupted: the old image is given up only for a whole new
\* one, or for one that was spoilt after the node had decided to install it; never
\* without a golden image, which is never lost or replaced; the trial ends confirmed
\* or rolled back, and only a power failure inside an update of the flag's sector
\* makes the node forget it.
ImplementsUpdate == Update!Spec
=============================================================================
