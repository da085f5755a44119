---------------------------- MODULE OtaBootProofs ----------------------------
(***************************************************************************)
(* Theorems about OtaBoot for every number of images, every image size and  *)
(* every number of power failures.                                          *)
(*                                                                          *)
(* TypeCorrect needs one strengthening, AppIsWhole: the history variable    *)
(* records the image that runs, so the image that runs must be one.  The    *)
(* recovery theorems and the refinement of OtaUpdate rest on RecoveryInv,   *)
(* and on the two facts the code takes for granted: erasing slot 1 spares   *)
(* the golden image (SafeGeometry) and no command erases the golden image    *)
(* (~GiCommands).  The theorems about trials rest on TrialInv. *)
(***************************************************************************)
EXTENDS OtaBoot, TLAPS

USE OffsetAssumption DEF Page, Used, ExtPage, Content, Flag, BootPc, AppPc, Pc

\* A whole image is the page contents of some image (verify_ota_slot).
LEMMA ImageOfWhole ==
  ASSUME NEW area, Whole(area)
  PROVE  ImageOf(area) \in Image
BY DEF Whole, ImageOf, IsWhole

\* Both flash operations keep the external flash's type (ext-flash.c).
LEMMA ExtFlashType ==
  ASSUME TypeOK, NEW p \in ExtPage, NEW c \in Content
  PROVE  /\ ext_flash_erase(p) \in [ExtPage -> Content]
         /\ ext_flash_write(p, c) \in [ExtPage -> Content]
<1>1. ext_flash_erase(p) \in [ExtPage -> Content]
  BY DEF TypeOK, ext_flash_erase
<1>2. ext_flash_write(p, c) \in [ExtPage -> Content]
  BY DEF TypeOK, ext_flash_write
<1>q. QED
  BY <1>1, <1>2

\* The pages the code addresses exist.
LEMMA AddressTypes ==
  /\ \A k \in Page : GoldenBase + k \in ExtPage /\ SlotBase + k \in ExtPage
  /\ \A k \in 0 .. MaxOffset : SlotBase + k \in ExtPage
  /\ 0 \in Page /\ 0 \in Used
  /\ Used \subseteq Page
BY GeometryAssumption

-----------------------------------------------------------------------------
\* The type invariant is inductive once the running image is known to be one.
TypeInv == TypeOK /\ AppIsWhole

\* A node comes from the factory with the application whole.
LEMMA InitTypeInv == Init => TypeInv
<1>0. FwIdle \in FwState /\ 0 \in Page /\ 0 \in 0 .. MaxCuts
  BY GeometryAssumption, SwitchAssumption DEF FwState, FwIdle
<1>1. Init => TypeOK
  BY <1>0, ImageAssumption DEF Init, TypeOK
<1>2. Init => AppIsWhole
  BY DEF Init, AppIsWhole, Running
<1>q. QED
  BY <1>1, <1>2 DEF TypeInv

\* Every step of the bootloader, the application and the environment keeps
\* the types and lets only whole images run.
LEMMA NextTypeInv == TypeInv /\ [Next]_vars => TypeInv'
<1> SUFFICES ASSUME TypeInv, [Next]_vars PROVE TypeInv'
  OBVIOUS
<1> USE DEF TypeInv
<1> USE ImageAssumption, GeometryAssumption, SwitchAssumption
<1>fw. fw \in FwState /\ ImagePages \in Nat \ {0}
  BY DEF TypeOK
<1>1. CASE UserFlashProgram
  BY <1>1 DEF UserFlashProgram, jump_to_image, TypeOK, AppIsWhole, Running
<1>2. CASE BootInit
  <2>1. PICK found \in BOOLEAN :
          boot_spi' = found /\ spi' = FALSE /\ (IF found THEN pc' = "read" ELSE jump_to_image(int))
    BY <1>2 DEF BootInit, Probes
  <2>2. boot_spi' \in BOOLEAN /\ spi' \in BOOLEAN
    BY <2>1
  <2>3. pc' \in {"read", "hung"} \/ (pc' = "start" /\ Whole(int))
    BY <2>1 DEF jump_to_image
  <2>q. QED
    BY <1>2, <2>2, <2>3 DEF BootInit, TypeOK, AppIsWhole, Running, FwState, FwIdle
<1>3. CASE BootRead
  BY <1>3 DEF BootRead, read_fw_flag, verify_current_firmware, TypeOK, AppIsWhole, Running
<1>4. CASE BootPingOk
  BY <1>4 DEF BootPingOk, user_flash_erase, TypeOK, AppIsWhole, Running
<1>5. CASE BootMain
  BY <1>5 DEF BootMain, jump_to_image, TypeOK, AppIsWhole, Running
<1>6. CASE BootTrial
  BY <1>6 DEF BootTrial, user_flash_erase, TypeOK, AppIsWhole, Running
<1>7. CASE BootCopy
  BY <1>7 DEF BootCopy, TypeOK, AppIsWhole, Running
<1>8. CASE PageErase
  BY <1>8 DEF PageErase, TypeOK, AppIsWhole, Running
<1>9. CASE PageProgram
  <2>1. ext[src + page] \in Content
    BY AddressTypes DEF TypeOK
  <2>q. QED
    BY <1>9, <2>1 DEF PageProgram, user_flash_erase, TypeOK, AppIsWhole, Running
<1>10. CASE JoinConfirm
  <2>1. Whole(int)
    BY <1>10 DEF JoinConfirm, read_fw_flag, AppIsWhole, Running
  <2>2. ImageOf(int) \in Image
    BY <2>1, ImageOfWhole
  <2>q. QED
    BY <1>10, <2>1, <2>2 DEF JoinConfirm, read_fw_flag, user_flash_erase, TypeOK, AppIsWhole, Running
<1>10a. CASE AppStart
  <2>1. spi' \in BOOLEAN
    BY <1>10a DEF AppStart, Probes
  <2>q. QED
    BY <1>10a, <2>1 DEF AppStart, TypeOK, AppIsWhole, Running
<1>11. CASE RootNotFound
  BY <1>11 DEF RootNotFound, watchdog_reboot, TypeOK, AppIsWhole, Running
<1>12. CASE NeedReboot
  BY <1>12 DEF NeedReboot, watchdog_reboot, TypeOK, AppIsWhole, Running
<1>13. CASE GoldenErase
  <2>1. ext' \in [ExtPage -> Content]
    BY <1>13, AddressTypes DEF GoldenErase, erase_extflash_page, TypeOK, ext_flash_erase
  <2>2. TypeOK'
    BY <1>13, <2>1 DEF GoldenErase, erase_extflash_page, TypeOK, AppIsWhole
  <2>3. AppIsWhole'
    BY <1>13 DEF GoldenErase, erase_extflash_page, AppIsWhole, Running
  <2>q. QED
    BY <2>2, <2>3
<1>14. CASE BackupCopy
  <2>1. ext' \in [ExtPage -> Content]
    BY <1>14, AddressTypes, ExtFlashType DEF BackupCopy, TypeOK
  <2>q. QED
    BY <1>14, <2>1 DEF BackupCopy, watchdog_reboot, TypeOK, AppIsWhole, Running
<1>15. CASE CleanGi
  BY <1>15 DEF CleanGi, TypeOK, AppIsWhole, Running
<1>16. CASE SaveRelayState
  BY <1>16 DEF SaveRelayState, user_flash_erase, TypeOK, AppIsWhole, Running
<1>17. CASE NewFw
  <2>1. fw' \in FwState
    BY <1>17, <1>fw DEF NewFw, FwState
  <2>q. QED
    BY <1>17, <2>1 DEF NewFw, TypeOK, AppIsWhole, Running
<1>18. CASE FwErase
  <2>1. ext' \in [ExtPage -> Content]
    BY <1>18, AddressTypes DEF FwErase, erase_extflash_page, TypeOK, ext_flash_erase
  <2>2. fw' \in FwState
    BY <1>18, <1>fw DEF FwErase, erase_extflash_page, FwState
  <2>q. QED
    BY <1>18, <2>1, <2>2 DEF FwErase, SlotTouched, erase_extflash_page, TypeOK, AppIsWhole, Running
<1>19. CASE FirmwareData
  <2>0. PICK c \in Content : ext' = ext_flash_write(SlotBase + fw.off, c)
    BY <1>19 DEF FirmwareData
  <2>1. ext' \in [ExtPage -> Content]
    <3>1. SlotBase + fw.off \in ExtPage
      BY <1>19, <1>fw DEF FirmwareData, FwState
    <3>q. QED
      BY <2>0, <3>1, ExtFlashType
  <2>2. fw' \in FwState
    BY <1>19, <1>fw DEF FirmwareData, FwState
  <2>q. QED
    BY <1>19, <2>1, <2>2 DEF FirmwareData, SlotTouched, TypeOK, AppIsWhole, Running
<1>20. CASE FwVerify
  <2>1. fw' \in FwState
    BY <1>20, <1>fw DEF FwVerify, FwState
  <2>q. QED
    BY <1>20, <2>1 DEF FwVerify, user_flash_erase, TypeOK, AppIsWhole, Running
<1>21. CASE FwAbort
  <2>1. fw' \in FwState
    BY <1>21, <1>fw DEF FwAbort, FwState
  <2>q. QED
    BY <1>21, <2>1 DEF FwAbort, TypeOK, AppIsWhole, Running
<1>22. CASE Reset
  BY <1>22 DEF Reset, TypeOK, AppIsWhole, Running
<1>23. CASE UNCHANGED vars
  BY <1>23 DEF vars, TypeOK, AppIsWhole, Running
<1>q. QED
  BY <1>1, <1>2, <1>3, <1>4, <1>5, <1>6, <1>7, <1>8, <1>9, <1>10, <1>10a, <1>11, <1>12,
     <1>13, <1>14, <1>15, <1>16, <1>17, <1>18, <1>19, <1>20, <1>21, <1>22, <1>23
  DEF Next, Bootloader, Application

\* Every variable keeps its type: the copy and erase loops stay inside their
\* areas, and the running image is always an image.
THEOREM TypeCorrect == Spec => []TypeOK
<1>1. TypeInv => TypeOK
  BY DEF TypeInv
<1>q. QED
  BY InitTypeInv, NextTypeInv, <1>1, PTL DEF Spec

-----------------------------------------------------------------------------
(***************************************************************************)
(* Recovery from every interruption.                                        *)
(***************************************************************************)
\* Only the pages an image fills decide whether it is whole.
LEMMA WholeCongruent ==
  ASSUME NEW a, NEW b, \A k \in Used : a[k] = b[k], Whole(a)
  PROVE  Whole(b)
BY DEF Whole, IsWhole

\* An erased area holds no image.
LEMMA BlankIsNotWhole ==
  ASSUME NEW a, \A k \in Used : a[k] = "blank"
  PROVE  ~Whole(a)
BY ImageAssumption, AddressTypes DEF Whole, IsWhole

\* Steps that leave the external flash alone leave both images alone.
LEMMA ExtFrame ==
  ASSUME UNCHANGED ext
  PROVE  Golden' = Golden /\ Slot' = Slot
BY DEF Golden, Slot

\* Erasing a page of slot 1 spares the golden image and blanks that page.
LEMMA SlotErase ==
  ASSUME TypeOK, SafeGeometry, NEW p \in Page, ext' = ext_flash_erase(SlotBase + p)
  PROVE  /\ \A k \in Used : Golden'[k] = Golden[k]
         /\ Slot'[p] = "blank"
         /\ \A k \in Page : Slot[k] = "blank" => Slot'[k] = "blank"
<1>1. \A q \in ExtPage : ext'[q] = IF SectorOf(q) = SectorOf(SlotBase + p)
                                     THEN "blank" ELSE ext[q]
  BY DEF ext_flash_erase
<1>2. \A k \in Page : /\ Golden'[k] = ext'[GoldenBase + k]
                      /\ Golden[k] = ext[GoldenBase + k]
                      /\ Slot'[k] = ext'[SlotBase + k]
                      /\ Slot[k] = ext[SlotBase + k]
  BY DEF Golden, Slot
<1>3. \A k \in Used : SectorOf(GoldenBase + k) # SectorOf(SlotBase + p)
  BY DEF SafeGeometry
<1>q. QED
  BY <1>1, <1>2, <1>3, AddressTypes

\* Programming a page of slot 1, or the one after it, spares the golden image.
LEMMA SlotWrite ==
  ASSUME TypeOK, NEW o \in 0 .. MaxOffset, NEW c \in Content,
         ext' = ext_flash_write(SlotBase + o, c)
  PROVE  \A k \in Used : Golden'[k] = Golden[k]
<1>1. \A q \in ExtPage : q # SlotBase + o => ext'[q] = ext[q]
  BY DEF ext_flash_write, TypeOK
<1>2. \A k \in Page : GoldenBase + k # SlotBase + o
  BY GeometryAssumption
<1>q. QED
  BY <1>1, <1>2, AddressTypes DEF Golden

\* The factory state is recoverable: no update, no transfer, a whole image.
LEMMA InitRecoveryInv == Init => RecoveryInv
<1> SUFFICES ASSUME Init PROVE RecoveryInv
  OBVIOUS
<1>1. Whole(int)
  BY ImageAssumption, AddressTypes DEF Init, Whole, IsWhole
<1>q. QED
  BY <1>1 DEF Init, RecoveryInv, AppIsWhole, FlagInv, CopyInv, AppInv, FwInv,
              Running, UpdateFlags, FwIdle

\* Every step of the bootloader, of the application's handlers and processes
\* and every power failure preserves recoverability, when an erase of slot 1
\* cannot reach the golden image and the root does not send CLEAN_GI.
LEMMA NextRecoveryInv ==
  ASSUME SafeGeometry, ~GiCommands, TypeOK, RecoveryInv, [Next]_vars
  PROVE  RecoveryInv'
<1> USE DEF UpdateFlags, Running, FlagToBe, read_fw_flag
<1>0. AppIsWhole'
  BY NextTypeInv DEF TypeInv, RecoveryInv
<1> SUFFICES FlagInv' /\ CopyInv' /\ AppInv' /\ FwInv'
  BY <1>0 DEF RecoveryInv
<1>i. AppIsWhole /\ FlagInv /\ CopyInv /\ AppInv /\ FwInv
  BY DEF RecoveryInv
<1>1. CASE UserFlashProgram
  <2>1. UNCHANGED <<Golden, Slot>>
    BY <1>1, ExtFrame DEF UserFlashProgram
  <2>q. QED
    BY <1>1, <1>i, <2>1 DEF UserFlashProgram, jump_to_image, TypeOK,
       FlagInv, CopyInv, AppInv, FwInv, AppIsWhole
<1>2. CASE BootInit
  <2>1. UNCHANGED <<Golden, Slot>>
    BY <1>2, ExtFrame DEF BootInit
  <2>2. /\ spi' = FALSE
        /\ \/ boot_spi' = TRUE /\ pc' = "read"
           \/ boot_spi' = FALSE /\ pc' \in {"start", "hung"}
    BY <1>2 DEF BootInit, jump_to_image
  <2>q. QED
    BY <1>2, <1>i, <2>1, <2>2 DEF BootInit, TypeOK,
       FlagInv, CopyInv, AppInv, FwInv, FwIdle
<1>3. CASE BootRead
  <2>1. UNCHANGED <<Golden, Slot>>
    BY <1>3, ExtFrame DEF BootRead, verify_current_firmware
  <2>q. QED
    BY <1>3, <1>i, <2>1 DEF BootRead, verify_current_firmware, TypeOK, FlagInv, CopyInv, AppInv, FwInv
<1>4. CASE BootPingOk
  <2>1. UNCHANGED <<Golden, Slot>>
    BY <1>4, ExtFrame DEF BootPingOk
  <2>q. QED
    BY <1>4, <1>i, <2>1 DEF BootPingOk, user_flash_erase, TypeOK,
       FlagInv, CopyInv, AppInv, FwInv
<1>5. CASE BootMain
  <2>1. UNCHANGED <<Golden, Slot>>
    BY <1>5, ExtFrame DEF BootMain
  <2>q. QED
    BY <1>5, <1>i, <2>1 DEF BootMain, jump_to_image, TypeOK,
       FlagInv, CopyInv, AppInv, FwInv
<1>6. CASE BootTrial
  <2>1. UNCHANGED <<Golden, Slot>>
    BY <1>6, ExtFrame DEF BootTrial
  <2>q. QED
    BY <1>6, <1>i, <2>1 DEF BootTrial, user_flash_erase, TypeOK,
       FlagInv, CopyInv, AppInv, FwInv
<1>7. CASE BootCopy
  <2>1. UNCHANGED <<Golden, Slot>>
    BY <1>7, ExtFrame DEF BootCopy
  <2>q. QED
    BY <1>7, <1>i, <2>1 DEF BootCopy, TypeOK, FlagInv, CopyInv, AppInv, FwInv
<1>8. CASE PageErase
  <2>1. UNCHANGED <<Golden, Slot>>
    BY <1>8, ExtFrame DEF PageErase
  <2>q. QED
    BY <1>8, <1>i, <2>1 DEF PageErase, TypeOK, FlagInv, CopyInv, AppInv, FwInv
<1>9. CASE PageProgram
  <2>1. UNCHANGED <<Golden, Slot>>
    BY <1>9, ExtFrame DEF PageProgram
  <2>2. \A k \in Page : k <= page => int'[k] = ext[src + k]
    BY <1>9, <1>i DEF PageProgram, TypeOK, CopyInv
  <2>3. CASE page < ImagePages - 1
    BY <1>9, <1>i, <2>1, <2>2, <2>3 DEF PageProgram, TypeOK,
       FlagInv, CopyInv, AppInv, FwInv
  <2>4. CASE ~(page < ImagePages - 1)
    <3>1. \A k \in Page : int'[k] = ext[src + k]
      BY <2>2, <2>4, GeometryAssumption DEF TypeOK
    <3>2. Whole(int') \/ (spoilt = "yes" /\ src = SlotBase /\ flag = "NEW_IMG_EXT")
      <4>1. CASE src = GoldenBase /\ flag = "NEW_IMG_INT"
        <5>1. Whole(Golden) /\ \A k \in Used : Golden[k] = int'[k]
          BY <4>1, <3>1, <1>i, AddressTypes DEF FlagInv, Golden
        <5>q. QED
          BY <5>1, WholeCongruent
      <4>2. CASE src = SlotBase /\ flag = "NEW_IMG_EXT"
        <5>1. (Whole(Slot) \/ spoilt = "yes") /\ \A k \in Used : Slot[k] = int'[k]
          BY <4>2, <3>1, <1>i, AddressTypes DEF FlagInv, Slot
        <5>q. QED
          BY <4>2, <5>1, WholeCongruent
      <4>q. QED
        BY <1>9, <1>i, <4>1, <4>2 DEF PageProgram, CopyInv
    <3>3. Whole(Golden)
      BY <1>9, <1>i DEF PageProgram, CopyInv, FlagInv
    <3>4. SlotBase # GoldenBase
      BY GeometryAssumption
    <3>q. QED
      BY <1>9, <1>i, <2>1, <2>4, <3>2, <3>3, <3>4 DEF PageProgram, user_flash_erase, TypeOK,
         FlagInv, CopyInv, AppInv, FwInv
  <2>q. QED
    BY <2>3, <2>4
<1>10. CASE JoinConfirm
  <2>1. UNCHANGED <<Golden, Slot>>
    BY <1>10, ExtFrame DEF JoinConfirm
  <2>q. QED
    BY <1>10, <1>i, <2>1 DEF JoinConfirm, user_flash_erase, TypeOK,
       FlagInv, CopyInv, AppInv, FwInv, AppIsWhole
<1>10a. CASE AppStart
  <2>1. UNCHANGED <<Golden, Slot>>
    BY <1>10a, ExtFrame DEF AppStart
  <2>q. QED
    BY <1>10a, <1>i, <2>1 DEF AppStart, TypeOK, FlagInv, CopyInv, AppInv, FwInv
<1>11. CASE RootNotFound
  <2>1. UNCHANGED <<Golden, Slot>>
    BY <1>11, ExtFrame DEF RootNotFound
  <2>q. QED
    BY <1>11, <1>i, <2>1 DEF RootNotFound, watchdog_reboot, TypeOK, FlagInv, CopyInv, AppInv, FwInv
<1>12. CASE NeedReboot
  <2>1. UNCHANGED <<Golden, Slot>>
    BY <1>12, ExtFrame DEF NeedReboot
  <2>q. QED
    BY <1>12, <1>i, <2>1 DEF NeedReboot, watchdog_reboot, TypeOK, FlagInv, CopyInv, AppInv, FwInv
<1>13. CASE GoldenErase
  BY <1>13, <1>i DEF GoldenErase, erase_extflash_page, TypeOK, FlagInv, CopyInv, AppInv, FwInv
<1>14. CASE BackupCopy
  BY <1>14, <1>i DEF BackupCopy, watchdog_reboot, TypeOK, FlagInv, CopyInv, AppInv, FwInv
<1>15. CASE CleanGi
  BY <1>15 DEF CleanGi
<1>16. CASE SaveRelayState
  <2>1. UNCHANGED <<Golden, Slot>>
    BY <1>16, ExtFrame DEF SaveRelayState
  <2>q. QED
    BY <1>16, <1>i, <2>1 DEF SaveRelayState, user_flash_erase, TypeOK,
       FlagInv, CopyInv, AppInv, FwInv, AppIsWhole
<1>17. CASE NewFw
  <2>1. UNCHANGED <<Golden, Slot>>
    BY <1>17, ExtFrame DEF NewFw
  <2>2. fw'.page = IF fw.st = "idle" THEN 0 ELSE fw.page
    BY <1>17 DEF NewFw, TypeOK, FwState
  <2>3. fw'.st = IF fw.st = "idle" THEN "erase" ELSE fw.st
    BY <1>17 DEF NewFw, TypeOK, FwState
  <2>q. QED
    BY <1>17, <1>i, <2>1, <2>2, <2>3 DEF NewFw, TypeOK, FlagInv, CopyInv, AppInv, FwInv
<1>18. CASE FwErase
  <2>0. fw \in FwState /\ fw.page \in Page
    BY DEF TypeOK, FwState
  <2>1. /\ \A k \in Used : Golden'[k] = Golden[k]
        /\ Slot'[fw.page] = "blank"
        /\ \A k \in Page : Slot[k] = "blank" => Slot'[k] = "blank"
    BY <1>18, <2>0, SlotErase DEF FwErase, erase_extflash_page
  <2>2. Whole(Golden) => Whole(Golden')
    BY <2>1, WholeCongruent
  <2>3. spi /\ pend = "blank"
    BY <1>18, <1>i DEF FwErase, FwInv, FlagInv
  <2>3a. spoilt' = IF flag = "NEW_IMG_EXT" THEN "yes" ELSE spoilt
    BY <1>18, Zenon DEF FwErase, SlotTouched
  <2>4. FlagInv' /\ CopyInv' /\ AppInv'
    BY <1>18, <1>i, <2>2, <2>3, <2>3a DEF FwErase, TypeOK, FlagInv, CopyInv, AppInv
  <2>5. \/ fw'.st = "erase" /\ fw'.page = fw.page + 1
        \/ fw'.st = "store" /\ fw.page = ImagePages - 1
    BY <1>18, <2>0, GeometryAssumption DEF FwErase, erase_extflash_page, FwState
  <2>6. FwInv'
    BY <1>18, <1>i, <2>0, <2>1, <2>3, <2>5, GeometryAssumption DEF FwErase, erase_extflash_page, FwInv
  <2>q. QED
    BY <2>4, <2>6
<1>19. CASE FirmwareData
  <2>0. fw \in FwState
    BY DEF TypeOK
  <2>1. PICK c \in Content : ext' = ext_flash_write(SlotBase + fw.off, c)
    BY <1>19 DEF FirmwareData
  <2>2. fw.off \in 0 .. MaxOffset
    BY <1>19, <2>0 DEF FirmwareData, FwState
  <2>3. \A k \in Used : Golden'[k] = Golden[k]
    BY <2>1, <2>2, SlotWrite
  <2>4. Whole(Golden) => Whole(Golden')
    BY <2>3, WholeCongruent
  <2>5. pend = "blank"
    BY <1>19, <1>i DEF FirmwareData, FlagInv
  <2>5a. spoilt' = IF flag = "NEW_IMG_EXT" THEN "yes" ELSE spoilt
    BY <1>19, Zenon DEF FirmwareData, SlotTouched
  <2>6. fw'.st = fw.st /\ fw'.page = fw.page
    BY <1>19, <2>0 DEF FirmwareData, FwState
  <2>q. QED
    BY <1>19, <1>i, <2>4, <2>5, <2>5a, <2>6 DEF FirmwareData, TypeOK,
       FlagInv, CopyInv, AppInv, FwInv
<1>20. CASE FwVerify
  <2>1. UNCHANGED <<Golden, Slot>>
    BY <1>20, ExtFrame DEF FwVerify
  <2>2. fw'.st = "idle"
    BY <1>20 DEF FwVerify, TypeOK, FwState
  <2>3. spi
    BY <1>20, <1>i DEF FwVerify, FwInv
  <2>4. CASE Whole(Slot) /\ Uuid[ImageOf(Slot)] = Uuid[ImageOf(int)]
    <3>1. pc # "join"
      BY <1>20, <1>i, <2>4, BlankIsNotWhole DEF FwVerify, FwInv
    <3>2. Whole(Golden) /\ Whole(int)
      BY <1>20, <1>i, <2>3, <3>1 DEF FwVerify, AppInv, AppIsWhole
    <3>q. QED
      BY <1>20, <1>i, <2>1, <2>2, <2>4, <3>2 DEF FwVerify, user_flash_erase, TypeOK,
         FlagInv, CopyInv, AppInv, FwInv
  <2>5. CASE ~(Whole(Slot) /\ Uuid[ImageOf(Slot)] = Uuid[ImageOf(int)])
    BY <1>20, <1>i, <2>1, <2>2, <2>5 DEF FwVerify, TypeOK,
       FlagInv, CopyInv, AppInv, FwInv
  <2>q. QED
    BY <2>4, <2>5
<1>21. CASE FwAbort
  <2>1. UNCHANGED <<Golden, Slot>>
    BY <1>21, ExtFrame DEF FwAbort
  <2>2. fw'.st = "idle"
    BY <1>21 DEF FwAbort, TypeOK, FwState
  <2>q. QED
    BY <1>21, <1>i, <2>1, <2>2 DEF FwAbort, TypeOK, FlagInv, CopyInv, AppInv, FwInv
<1>22. CASE Reset
  <2>1. UNCHANGED <<Golden, Slot>>
    BY <1>22, ExtFrame DEF Reset
  <2>q. QED
    BY <1>22, <1>i, <2>1 DEF Reset, TypeOK, FlagInv, CopyInv, AppInv, FwInv
<1>23. CASE UNCHANGED vars
  <2>1. UNCHANGED <<Golden, Slot>>
    BY <1>23, ExtFrame DEF vars
  <2>q. QED
    BY <1>23, <1>i, <2>1 DEF vars, TypeOK, FlagInv, CopyInv, AppInv, FwInv
<1>q. QED
  BY <1>1, <1>2, <1>3, <1>4, <1>5, <1>6, <1>7, <1>8, <1>9, <1>10, <1>10a, <1>11, <1>12,
     <1>13, <1>14, <1>15, <1>16, <1>17, <1>18, <1>19, <1>20, <1>21, <1>22, <1>23
  DEF Next, Bootloader, Application

\* The inductive invariant holds throughout: what the flag promises about the
\* three image areas survives every interruption of bootloader and application.
THEOREM RecoveryInvariant ==
  ASSUME SafeGeometry, ~GiCommands
  PROVE  Spec => [](TypeInv /\ RecoveryInv)
<1>1. Init => TypeInv /\ RecoveryInv
  BY InitTypeInv, InitRecoveryInv
<1>2. TypeInv /\ RecoveryInv /\ [Next]_vars => (TypeInv /\ RecoveryInv)'
  BY NextTypeInv, NextRecoveryInv DEF TypeInv
<1>q. QED
  BY <1>1, <1>2, PTL DEF Spec

\* A torn internal image can always be rebuilt, wherever the interruption
\* came and however many there were, except after a cut in the flag's sector
\* while a slot spoilt beside its flag was being installed.
THEOREM Recoverable ==
  ASSUME SafeGeometry, ~GiCommands
  PROVE  Spec => []TornImageIsRecoverable
<1>1. TypeInv /\ RecoveryInv => TornImageIsRecoverable
  <2> SUFFICES ASSUME TypeOK, FlagInv PROVE TornImageIsRecoverable
    BY DEF TypeInv, RecoveryInv
  <2>1. spoilt \in {"no", "yes", "forgotten"}
    BY DEF TypeOK
  <2>2. CASE spoilt = "yes"
    BY <2>2 DEF FlagInv, TornImageIsRecoverable, UpdateFlags, FlagToBe, read_fw_flag
  <2>3. CASE spoilt = "no"
    BY <2>3 DEF FlagInv, TornImageIsRecoverable, UpdateFlags
  <2>q. QED
    BY <2>1, <2>2, <2>3 DEF TornImageIsRecoverable
<1>q. QED
  BY <1>1, RecoveryInvariant, PTL

\* The bootloader never jumps into a torn image when it can read the
\* external flash, unless the application has spoilt the slot it installed.
THEOREM NeverHungWithSpi ==
  ASSUME SafeGeometry, ~GiCommands
  PROVE  Spec => []HungOnlyWithoutSpi
<1>1. RecoveryInv => HungOnlyWithoutSpi
  BY DEF RecoveryInv, AppInv, HungOnlyWithoutSpi
<1>q. QED
  BY <1>1, RecoveryInvariant, PTL

\* An update under way has a golden image behind it.
THEOREM GoldenAlwaysBehind ==
  ASSUME SafeGeometry, ~GiCommands
  PROVE  Spec => []GoldenBehindUpdate
<1>1. RecoveryInv => GoldenBehindUpdate
  BY DEF RecoveryInv, FlagInv, GoldenBehindUpdate, UpdateFlags
<1>q. QED
  BY <1>1, RecoveryInvariant, PTL

\* No step changes the golden image while the flag names it as the source of a copy,
\* nor slot 1 while the bootloader acts on the flag or has acted on it.
THEOREM CopySourceStable ==
  ASSUME SafeGeometry, ~GiCommands
  PROVE  Spec => CopySourceIsStable
<1> DEFINE Stable ==
      /\ flag = "NEW_IMG_EXT" /\ boot_spi => \A k \in Used : Slot'[k] = Slot[k]
      /\ flag = "NEW_IMG_INT" => \A k \in Used : Golden'[k] = Golden[k]
<1>1. TypeInv /\ RecoveryInv /\ [Next]_vars => Stable
  <2> SUFFICES ASSUME TypeOK, RecoveryInv, [Next]_vars PROVE Stable
    BY DEF TypeInv
  <2>1. CASE UNCHANGED ext
    BY <2>1, ExtFrame
  <2>2. CASE GoldenErase
    BY <2>2 DEF GoldenErase, erase_extflash_page, RecoveryInv, AppInv, UpdateFlags
  <2>3. CASE BackupCopy
    BY <2>3 DEF BackupCopy, RecoveryInv, AppInv, UpdateFlags
  <2>4. CASE FwErase
    <3>1. boot_spi => flag # "NEW_IMG_EXT"
      BY <2>4 DEF FwErase, RecoveryInv, AppInv, Running
    <3>2. \A k \in Used : Golden'[k] = Golden[k]
      BY <2>4, SlotErase DEF FwErase, erase_extflash_page, TypeOK, FwState
    <3>q. QED
      BY <3>1, <3>2
  <2>5. CASE FirmwareData
    <3>1. boot_spi => flag # "NEW_IMG_EXT"
      BY <2>5 DEF FirmwareData, RecoveryInv, AppInv, Running
    <3>2. PICK c \in Content : ext' = ext_flash_write(SlotBase + fw.off, c)
      BY <2>5 DEF FirmwareData
    <3>3. fw.off \in 0 .. MaxOffset
      BY <2>5 DEF FirmwareData, TypeOK, FwState
    <3>4. \A k \in Used : Golden'[k] = Golden[k]
      BY <3>2, <3>3, SlotWrite
    <3>q. QED
      BY <3>1, <3>4
  <2>q. QED
    BY <2>1, <2>2, <2>3, <2>4, <2>5
    DEF Next, Bootloader, Application, vars, UserFlashProgram, BootInit, BootRead,
        BootPingOk, BootMain, BootTrial, BootCopy, PageErase, PageProgram,
        AppStart, JoinConfirm, RootNotFound, NeedReboot, CleanGi, SaveRelayState,
        NewFw, FwVerify, FwAbort, Reset
<1>q. QED
  BY <1>1, RecoveryInvariant, PTL DEF Spec, CopySourceIsStable

-----------------------------------------------------------------------------
(***************************************************************************)
(* Trials and the golden image, whatever the geometry and the commands.     *)
(***************************************************************************)
\* Every used page of a whole image is a page of that image.
LEMMA PagesOfWhole ==
  ASSUME NEW area, Whole(area)
  PROVE  \A k \in Used : area[k] = ImageOf(area)
BY DEF Whole, ImageOf, IsWhole

\* A whole image all of whose pages are known has joined the network.
LEMMA WholeAndKnown ==
  ASSUME TypeOK, NEW area, Whole(area), KnownPages(area)
  PROVE  ImageOf(area) \in confirmed
BY PagesOfWhole, ImageOfWhole, AddressTypes, ImageAssumption DEF KnownPages

\* Erasing or programming a page of external flash brings nothing into the
\* golden image but blank pages, garbage and what is programmed there.
LEMMA GoldenPages ==
  ASSUME TypeOK, NEW p \in ExtPage, NEW c \in Content, NEW k \in Page,
         ext' = ext_flash_erase(p) \/ ext' = ext_flash_write(p, c)
  PROVE  \/ Golden'[k] \in {Golden[k], "blank", "garbage"}
         \/ p = GoldenBase + k /\ Golden'[k] = c
<1>1. GoldenBase + k \in ExtPage
  BY AddressTypes
<1>2. Golden'[k] = ext'[GoldenBase + k] /\ Golden[k] = ext[GoldenBase + k]
  BY DEF Golden
<1>q. QED
  BY <1>1, <1>2 DEF ext_flash_erase, ext_flash_write, TypeOK

\* A node leaves the factory with the image that counts as confirmed.
LEMMA InitTrialInv == Init => TrialInv
BY AddressTypes DEF Init, TrialInv, CopyInv, KnownPages, Golden

\* Every step keeps unconfirmed pages out of the golden image, and lets the flag
\* end the trial only of an image that has joined.
LEMMA NextTrialInv ==
  ASSUME TypeInv, TrialInv, [Next]_vars
  PROVE  TrialInv'
<1> USE DEF UpdateFlags, FlagToBe, TypeInv
<1>i. TypeOK /\ AppIsWhole /\ CopyInv /\ KnownPages(Golden)
  BY DEF TrialInv
<1>j. /\ pc \in {"backup_erase", "backup_copy"} => KnownPages(int)
      /\ ~FlagCut => FlagToBe \in UpdateFlags \/ KnownPages(int)
  BY DEF TrialInv
<1>f. ASSUME UNCHANGED <<int, ext, confirmed>>
      PROVE  KnownPages(Golden)' /\ (KnownPages(int) <=> KnownPages(int)')
  BY <1>f, <1>i, ExtFrame DEF KnownPages
<1>1. CASE UserFlashProgram
  BY <1>1, <1>i, <1>j, <1>f DEF UserFlashProgram, jump_to_image, read_fw_flag,
     TrialInv, CopyInv, TypeOK
<1>2. CASE BootInit
  <2>1. pc' \in {"read", "start", "hung"}
    BY <1>2 DEF BootInit, jump_to_image
  <2>q. QED
    BY <1>2, <2>1, <1>i, <1>j, <1>f DEF BootInit, read_fw_flag, TrialInv, CopyInv
<1>3. CASE BootRead
  <2>1. KnownPages(Golden)'
    BY <1>3, <1>i, ExtFrame DEF BootRead, KnownPages
  <2>2. KnownPages(int) => KnownPages(int)'
    BY <1>3, <1>i, AddressTypes DEF BootRead, verify_current_firmware, KnownPages, TypeOK
  <2>q. QED
    BY <1>3, <1>i, <1>j, <2>1, <2>2 DEF BootRead, read_fw_flag, TrialInv, CopyInv
<1>4. CASE BootPingOk
  BY <1>4, <1>i, <1>j, <1>f DEF BootPingOk, user_flash_erase, read_fw_flag, TrialInv, CopyInv
<1>5. CASE BootMain
  BY <1>5, <1>i, <1>j, <1>f DEF BootMain, jump_to_image, read_fw_flag, TrialInv, CopyInv
<1>6. CASE BootTrial
  BY <1>6, <1>i, <1>j, <1>f DEF BootTrial, user_flash_erase, read_fw_flag, TrialInv, CopyInv
<1>7. CASE BootCopy
  BY <1>7, <1>i, <1>j, <1>f DEF BootCopy, read_fw_flag, TrialInv, CopyInv, TypeOK
<1>8. CASE PageErase
  <2>1. KnownPages(Golden)'
    BY <1>8, <1>i, ExtFrame DEF PageErase, KnownPages
  <2>2. CopyInv'
    BY <1>8, <1>i DEF PageErase, CopyInv, TypeOK
  <2>3. FlagToBe' \in UpdateFlags
    BY <1>8, <1>i DEF PageErase, CopyInv, read_fw_flag
  <2>q. QED
    BY <1>8, <2>1, <2>2, <2>3 DEF PageErase, TrialInv
<1>9. CASE PageProgram
  <2>1. KnownPages(Golden)'
    BY <1>9, <1>i, ExtFrame DEF PageProgram, KnownPages
  <2>2. \A k \in Page : k <= page => int'[k] = ext[src + k]
    BY <1>9, <1>i DEF PageProgram, TypeOK, CopyInv
  <2>3. CopyInv'
    BY <1>9, <1>i, <2>2 DEF PageProgram, user_flash_erase, TypeOK, CopyInv
  <2>4. CASE page < ImagePages - 1
    BY <1>9, <1>i, <2>1, <2>3, <2>4 DEF PageProgram, CopyInv, read_fw_flag, TrialInv
  <2>5. CASE ~(page < ImagePages - 1)
    <3>1. \A k \in Page : int'[k] = ext[src + k]
      BY <2>2, <2>5, <1>i, GeometryAssumption DEF TypeOK
    <3>2. src = GoldenBase => KnownPages(int)'
      BY <1>9, <3>1, <1>i, AddressTypes DEF PageProgram, KnownPages, Golden
    <3>3. src # GoldenBase => FlagToBe' \in UpdateFlags
      BY <1>9, <2>5 DEF PageProgram, user_flash_erase
    <3>q. QED
      BY <1>9, <2>1, <2>3, <2>5, <3>2, <3>3 DEF PageProgram, user_flash_erase, TrialInv
  <2>q. QED
    BY <2>4, <2>5
<1>10. CASE JoinConfirm
  <2>1. Whole(int)
    BY <1>10, <1>i DEF JoinConfirm, AppIsWhole, Running
  <2>2. UNCHANGED <<int, ext>> /\ confirmed' = confirmed \cup {ImageOf(int)}
    BY <1>10 DEF JoinConfirm
  <2>3. KnownPages(Golden)' /\ KnownPages(int)'
    BY <1>i, <2>1, <2>2, ExtFrame, PagesOfWhole DEF KnownPages
  <2>4. pc' \notin {"erase", "program"}
    BY <1>10 DEF JoinConfirm, user_flash_erase
  <2>q. QED
    BY <2>3, <2>4 DEF TrialInv, CopyInv
<1>11. CASE RootNotFound
  BY <1>11, <1>i, <1>j, <1>f DEF RootNotFound, watchdog_reboot, read_fw_flag, TrialInv, CopyInv
<1>12. CASE NeedReboot
  BY <1>12, <1>i, <1>j, <1>f DEF NeedReboot, watchdog_reboot, read_fw_flag, TrialInv, CopyInv
<1>13. CASE GoldenErase
  <2>1. \A k \in Used : Golden'[k] \in {Golden[k], "blank", "garbage"}
    <3>1. GoldenBase + page \in ExtPage /\ "blank" \in Content
      BY <1>i, AddressTypes DEF TypeOK
    <3>2. ext' = ext_flash_erase(GoldenBase + page)
      BY <1>13 DEF GoldenErase, erase_extflash_page
    <3>q. QED
      BY <1>i, <3>1, <3>2, GoldenPages, AddressTypes
  <2>2. KnownPages(Golden)' /\ (KnownPages(int) <=> KnownPages(int)')
    BY <1>13, <1>i, <2>1 DEF GoldenErase, KnownPages
  <2>3. pc' # "flag" /\ pc # "flag" /\ UNCHANGED flag /\ pc' \notin {"erase", "program"}
    BY <1>13, <1>i DEF GoldenErase, TypeOK, AppIsWhole
  <2>4. pc' \in {"backup_erase", "backup_copy"} => pc = "backup_erase"
    BY <1>13, <1>i DEF GoldenErase, AppIsWhole
  <2>q. QED
    BY <1>13, <1>j, <2>2, <2>3, <2>4 DEF read_fw_flag, TrialInv, CopyInv
<1>14. CASE BackupCopy
  <2>0. KnownPages(int) /\ int[page] \in Content /\ page \in Page
    BY <1>14, <1>i, <1>j DEF BackupCopy, TypeOK
  <2>1. \A k \in Used : \/ Golden'[k] \in {Golden[k], "blank", "garbage"}
                        \/ Golden'[k] = int[k]
    <3>1. GoldenBase + page \in ExtPage
      BY <2>0, AddressTypes
    <3>2. ext' = ext_flash_write(GoldenBase + page, int[page])
      BY <1>14 DEF BackupCopy
    <3>3. SUFFICES ASSUME NEW k \in Used
                   PROVE  \/ Golden'[k] \in {Golden[k], "blank", "garbage"}
                          \/ Golden'[k] = int[k]
      OBVIOUS
    <3>4. \/ Golden'[k] \in {Golden[k], "blank", "garbage"}
          \/ GoldenBase + page = GoldenBase + k /\ Golden'[k] = int[page]
      BY <1>i, <2>0, <3>1, <3>2, GoldenPages, AddressTypes
    <3>q. QED
      BY <2>0, <3>4, GeometryAssumption
  <2>2. KnownPages(Golden)' /\ KnownPages(int)'
    BY <1>14, <1>i, <2>0, <2>1 DEF BackupCopy, KnownPages
  <2>q. QED
    BY <1>14, <2>2 DEF BackupCopy, watchdog_reboot, TrialInv, CopyInv
<1>15. CASE CleanGi
  BY <1>15, <1>i, <1>j, <1>f DEF CleanGi, read_fw_flag, TrialInv, CopyInv
<1>16. CASE AppStart
  BY <1>16, <1>i, <1>j, <1>f DEF AppStart, read_fw_flag, TrialInv, CopyInv
<1>17. CASE SaveRelayState
  BY <1>17, <1>i, <1>j, <1>f DEF SaveRelayState, user_flash_erase, read_fw_flag, TrialInv, CopyInv
<1>18. CASE NewFw
  BY <1>18, <1>i, <1>j, <1>f DEF NewFw, read_fw_flag, TrialInv, CopyInv
<1>19. CASE FwErase \/ FirmwareData
  <2>1. PICK p \in ExtPage, c \in Content :
          /\ ext' = ext_flash_erase(p) \/ ext' = ext_flash_write(p, c)
          /\ \A k \in Page : p # GoldenBase + k
    <3>1. CASE FwErase
      <4>1. fw.page \in Page
        BY <1>i DEF TypeOK, FwState
      <4>2. SlotBase + fw.page \in ExtPage /\ \A k \in Page : SlotBase + fw.page # GoldenBase + k
        BY <4>1, AddressTypes, GeometryAssumption
      <4>q. QED
        BY <3>1, <4>2 DEF FwErase, erase_extflash_page
    <3>2. CASE FirmwareData
      <4>1. fw.off \in 0 .. MaxOffset
        BY <1>i, <3>2 DEF FirmwareData, TypeOK, FwState
      <4>2. SlotBase + fw.off \in ExtPage /\ \A k \in Page : SlotBase + fw.off # GoldenBase + k
        BY <4>1, AddressTypes, GeometryAssumption
      <4>q. QED
        BY <3>2, <4>2 DEF FirmwareData
    <3>q. QED
      BY <1>19, <3>1, <3>2
  <2>2. \A k \in Used : Golden'[k] \in {Golden[k], "blank", "garbage"}
    BY <1>i, <2>1, GoldenPages, AddressTypes
  <2>3. UNCHANGED <<int, flag, pend, pc, confirmed>> /\ pc \in AppPc
    BY <1>19 DEF FwErase, FirmwareData
  <2>4. KnownPages(Golden)' /\ (KnownPages(int) <=> KnownPages(int)')
    BY <1>i, <2>2, <2>3 DEF KnownPages
  <2>q. QED
    BY <1>j, <2>3, <2>4 DEF read_fw_flag, TrialInv, CopyInv
<1>20. CASE FwVerify
  BY <1>20, <1>i, <1>j, <1>f DEF FwVerify, user_flash_erase, read_fw_flag, TrialInv, CopyInv
<1>21. CASE FwAbort
  BY <1>21, <1>i, <1>j, <1>f DEF FwAbort, read_fw_flag, TrialInv, CopyInv
<1>22. CASE Reset
  BY <1>22, <1>i, <1>j, <1>f DEF Reset, read_fw_flag, TrialInv, CopyInv
<1>23. CASE UNCHANGED vars
  BY <1>23, <1>i, <1>j, <1>f DEF vars, read_fw_flag, TrialInv, CopyInv
<1>q. QED
  BY <1>1, <1>2, <1>3, <1>4, <1>5, <1>6, <1>7, <1>8, <1>9, <1>10, <1>11, <1>12,
     <1>13, <1>14, <1>15, <1>16, <1>17, <1>18, <1>19, <1>20, <1>21, <1>22, <1>23
  DEF Next, Bootloader, Application

\* The invariant of the trial, for every behaviour.
LEMMA TrialInvariant == Spec => [](TypeInv /\ TrialInv)
<1>1. Init => TypeInv /\ TrialInv
  BY InitTypeInv, InitTrialInv
<1>2. TypeInv /\ TrialInv /\ [Next]_vars => (TypeInv /\ TrialInv)'
  BY NextTypeInv, NextTrialInv
<1>q. QED
  BY <1>1, <1>2, PTL DEF Spec

\* What a rollback restores has joined the network before: backup_golden_image runs
\* only in an image that has just joined, and a transfer never writes a golden page.
\* No assumption on sectors, commands or power failures is needed.
THEOREM GoldenConfirmed == Spec => []GoldenIsConfirmed
<1>1. TypeInv /\ TrialInv => GoldenIsConfirmed
  BY WholeAndKnown DEF TypeInv, TrialInv, GoldenIsConfirmed
<1>q. QED
  BY <1>1, TrialInvariant, PTL

\* An image that has never joined runs only while the flag still provides for its
\* trial, unless power may fail inside an update of the flag's sector
\* (user_flash_update_byte), where the run ota_flag_cut shows it false.
THEOREM TrialUntilConfirmed ==
  ASSUME ~FlagCut
  PROVE  Spec => []UnconfirmedOnTrial
<1>1. TypeInv /\ TrialInv => UnconfirmedOnTrial
  <2> SUFFICES ASSUME TypeInv, TrialInv,
                      pc \in AppPc \cup {"asleep"}, ImageOf(int) \notin confirmed
               PROVE  flag \in UpdateFlags
    BY DEF UnconfirmedOnTrial, UpdateFlags
  <2>1. Whole(int) /\ TypeOK
    BY DEF TypeInv, AppIsWhole, Running
  <2>2. ~KnownPages(int)
    BY <2>1, WholeAndKnown
  <2>q. QED
    BY <2>2 DEF TrialInv, FlagToBe, read_fw_flag, UpdateFlags
<1>q. QED
  BY <1>1, TrialInvariant, PTL

-----------------------------------------------------------------------------
(***************************************************************************)
(* The implementation of OtaUpdate.                                         *)
(***************************************************************************)
\* The factory state: no backup has begun and no update is under way.
LEMMA InitBackupInv == Init => BackupInv
BY DEF Init, BackupInv

\* Every step keeps what a backup relies on.
LEMMA NextBackupInv ==
  ASSUME TypeInv, RecoveryInv, BackupInv, [Next]_vars
  PROVE  BackupInv'
<1>i. /\ TypeOK /\ AppIsWhole /\ FlagInv /\ CopyInv /\ AppInv /\ FwInv
      /\ BackupInv
  BY DEF TypeInv, RecoveryInv
<1>a. CASE pc' \notin {"backup_erase", "backup_copy"}
  BY <1>a DEF BackupInv
<1>b. CASE JoinConfirm /\ pc' = "backup_erase"
  <2>1. UNCHANGED <<Golden, Slot>>
    BY <1>b, ExtFrame DEF JoinConfirm
  <2>2. ~Whole(Golden) /\ page' = 0
    BY <1>b DEF JoinConfirm, user_flash_erase
  <2>q. QED
    BY <1>b, <2>1, <2>2 DEF BackupInv
<1>c. CASE GoldenErase
  <2>0. pc = "backup_erase" /\ page \in Page /\ pc' \in {"backup_erase", "backup_copy"}
    BY <1>c, <1>i DEF GoldenErase, AppInv, TypeOK
  <2>1. \A q \in ExtPage : ext'[q] = IF SectorOf(q) = SectorOf(GoldenBase + page)
                                       THEN "blank" ELSE ext[q]
    BY <1>c DEF GoldenErase, erase_extflash_page, ext_flash_erase
  <2>2. \A k \in Page : Golden[k] = "blank" \/ k = page => Golden'[k] = "blank"
    BY <2>0, <2>1, AddressTypes DEF Golden
  <2>3. \A k \in Page : k <= page => Golden'[k] = "blank"
    BY <2>0, <2>2, <1>i, GeometryAssumption DEF BackupInv
  <2>4. ~Whole(Golden')
    BY <2>0, <2>3, AddressTypes, ImageAssumption, GeometryAssumption DEF Whole, IsWhole
  <2>5. \/ pc' = "backup_erase" /\ page' = page + 1
        \/ pc' = "backup_copy" /\ page' = 0 /\ page = ImagePages - 1
    BY <1>c, <2>0, GeometryAssumption DEF GoldenErase
  <2>q. QED
    BY <2>0, <2>3, <2>4, <2>5, GeometryAssumption DEF BackupInv
<1>d. CASE BackupCopy
  <2>0. page \in Page /\ int[page] \in Content
    BY <1>i DEF TypeOK
  <2>1. \A k \in Page : Golden'[k] = IF k = page THEN int[k] ELSE Golden[k]
    <3>1. Golden[page] = "blank"
      BY <1>d, <1>i, <2>0, GeometryAssumption DEF BackupCopy, BackupInv
    <3>2. ext' = ext_flash_write(GoldenBase + page, int[page])
      BY <1>d DEF BackupCopy
    <3>3. \A k \in Page : GoldenBase + k = GoldenBase + page <=> k = page
      BY <2>0, GeometryAssumption
    <3>q. QED
      BY <2>0, <3>1, <3>2, <3>3, <1>i, AddressTypes DEF ext_flash_write, TypeOK, Golden
  <2>2. \/ pc' = "backup_copy" /\ page' = page + 1 /\ UNCHANGED int
        \/ pc' \in {"reset", "stuck"}
    BY <1>d DEF BackupCopy, watchdog_reboot
  <2>3. \A k \in Page : Golden'[k] = IF k < page + 1 THEN int[k] ELSE "blank"
    BY <1>d, <1>i, <2>0, <2>1, GeometryAssumption DEF BackupCopy, BackupInv
  <2>q. QED
    BY <2>2, <2>3 DEF BackupInv
<1>e. CASE FwErase \/ FirmwareData
  BY <1>e, <1>a DEF FwErase, FirmwareData
<1>f. CASE UNCHANGED vars
  BY <1>f, <1>i, ExtFrame DEF vars, BackupInv
<1>g. CASE Bootloader \/ UserFlashProgram \/ Reset
  BY <1>g, <1>a, <1>i
  DEF Bootloader, UserFlashProgram, BootInit, BootRead, BootPingOk, BootMain, BootTrial,
      BootCopy, PageErase, PageProgram, Reset, user_flash_erase, jump_to_image, TypeOK
<1>h. CASE JoinConfirm
  BY <1>h, <1>a, <1>b DEF JoinConfirm, user_flash_erase
<1>q. QED
  BY <1>a, <1>c, <1>d, <1>e, <1>f, <1>g, <1>h
  DEF Next, Application, AppStart, RootNotFound, NeedReboot, watchdog_reboot, CleanGi,
      SaveRelayState, NewFw, FwVerify, FwAbort, user_flash_erase

\* Every step keeps a lost node lost: its application never runs again, and its
\* bootloader copies nothing.
LEMMA NextLostInv ==
  ASSUME TypeInv, RecoveryInv, LostInv, [Next]_vars
  PROVE  LostInv'
<1> USE DEF UpdateFlags, Running, FlagToBe, read_fw_flag
<1>i. TypeOK /\ AppIsWhole /\ FlagInv /\ CopyInv
  BY DEF TypeInv, RecoveryInv
<1>1. CASE spoilt = "forgotten"
  <2>0. ~Whole(int) /\ FlagToBe \notin UpdateFlags
    BY <1>1 DEF LostInv
  <2>1. ~Running(AppPc) /\ pc \notin {"start", "backup_erase", "backup_copy", "clean_erase"}
    BY <2>0, <1>i DEF AppIsWhole
  <2>2. CASE UserFlashProgram
    BY <2>0, <2>2 DEF UserFlashProgram, jump_to_image, LostInv
  <2>3. CASE BootInit
    BY <2>0, <2>3 DEF BootInit, jump_to_image, LostInv
  <2>4. CASE BootRead
    <3>1. int'[0] = "garbage"
      BY <2>0, <2>4, <1>i, AddressTypes DEF BootRead, verify_current_firmware, TypeOK
    <3>2. ~Whole(int')
      BY <3>1, AddressTypes, ImageAssumption DEF Whole, IsWhole
    <3>q. QED
      BY <2>0, <2>4, <3>2 DEF BootRead, LostInv
  <2>5. CASE BootPingOk \/ BootMain \/ BootTrial \/ BootCopy
    BY <2>0, <2>5 DEF BootPingOk, BootMain, BootTrial, BootCopy, user_flash_erase,
       jump_to_image, LostInv
  <2>6. CASE PageErase \/ PageProgram
    BY <2>0, <2>6, <1>i DEF PageErase, PageProgram, CopyInv
  <2>7. CASE Reset
    <3>1. int' = int /\ flag' = flag /\ pc' = "reset"
      BY <2>7 DEF Reset
    <3>2. ~Whole(int')
      BY <2>0, <3>1
    <3>3. FlagToBe' \notin UpdateFlags
      <4>1. CASE pc = "flag"
        BY <4>1, <3>1, <1>i DEF FlagInv
      <4>2. CASE pc # "flag"
        BY <4>2, <2>0, <3>1
      <4>q. QED
        BY <4>1, <4>2
    <3>q. QED
      BY <3>2, <3>3 DEF LostInv
  <2>8. CASE UNCHANGED vars
    BY <2>0, <2>8 DEF vars, LostInv
  <2>9. ~Application
    BY <2>1 DEF Application, AppStart, JoinConfirm, RootNotFound, NeedReboot, GoldenErase,
       BackupCopy, CleanGi, SaveRelayState, NewFw, FwErase, FirmwareData, FwVerify, FwAbort
  <2>q. QED
    BY <2>2, <2>3, <2>4, <2>5, <2>6, <2>7, <2>8, <2>9 DEF Next, Bootloader
<1>2. CASE spoilt # "forgotten" /\ Reset
  <2> SUFFICES ASSUME spoilt' = "forgotten" PROVE ~Whole(int') /\ FlagToBe' \notin UpdateFlags
    BY DEF LostInv
  <2>1. int' = int /\ flag' = flag /\ pc' = "reset"
    BY <1>2 DEF Reset
  <2>2. pc = "flag" /\ ~Whole(int)
    BY <1>2, Zenon DEF Reset
  <2>3. flag = "blank"
    BY <2>2, <1>i DEF FlagInv
  <2>q. QED
    BY <2>1, <2>2, <2>3
<1>3. CASE spoilt # "forgotten" /\ ~Reset
  <2>1. spoilt' # "forgotten"
    BY <1>3, Zenon DEF Next, Bootloader, Application, vars, UserFlashProgram, BootInit,
       BootRead, BootPingOk, BootMain, BootTrial, BootCopy, PageErase, PageProgram, AppStart,
       JoinConfirm, RootNotFound, NeedReboot, GoldenErase, BackupCopy, CleanGi,
       SaveRelayState, NewFw, FwErase, SlotTouched, FirmwareData, FwVerify, FwAbort
  <2>q. QED
    BY <2>1 DEF LostInv
<1>q. QED
  BY <1>1, <1>2, <1>3

\* What an area holds is decided by the pages an image fills.
LEMMA ImageInIs ==
  ASSUME NEW area
  PROVE  /\ \A i \in Image : IsWhole(area, i) => ImageIn(area) = i
         /\ Whole(area) => ImageIn(area) \in Image /\ IsWhole(area, ImageIn(area))
         /\ ~Whole(area) => ImageIn(area) = "blank"
         /\ ImageIn(area) = "blank" => ~Whole(area)
<1>1. Whole(area) => ImageOf(area) \in Image /\ IsWhole(area, ImageOf(area))
  BY DEF Whole, ImageOf, IsWhole
<1>2. \A i, j \in Image : IsWhole(area, i) /\ IsWhole(area, j) => i = j
  BY AddressTypes DEF IsWhole
<1>3. \A i \in Image : IsWhole(area, i) => Whole(area)
  BY DEF Whole
<1>4. "blank" \notin Image
  BY ImageAssumption
<1>q. QED
  BY <1>1, <1>2, <1>3, <1>4 DEF ImageIn

\* Areas that agree on those pages hold the same image, or both none.
LEMMA ImageInCongruent ==
  ASSUME NEW a, NEW b, \A k \in Used : a[k] = b[k]
  PROVE  ImageIn(a) = ImageIn(b)
<1>1. \A i \in Image : IsWhole(a, i) <=> IsWhole(b, i)
  BY DEF IsWhole
<1>2. Whole(a) <=> Whole(b)
  BY <1>1 DEF Whole
<1>q. QED
  BY <1>1, <1>2, ImageInIs

\* The stage as nested conditions, before and after a step.
LEMMA StageIs ==
  /\ Stage = IF FlagToBe = "NEW_IMG_EXT" THEN "install"
             ELSE IF FlagToBe = "NEW_IMG_INT_RST" THEN "ready"
             ELSE IF FlagToBe = "NEW_IMG_INT" THEN "trial" ELSE "stable"
  /\ Stage' = IF FlagToBe' = "NEW_IMG_EXT" THEN "install"
              ELSE IF FlagToBe' = "NEW_IMG_INT_RST" THEN "ready"
              ELSE IF FlagToBe' = "NEW_IMG_INT" THEN "trial" ELSE "stable"
BY DEF Stage

\* A step that changes none of the mapped values is a stuttering step.
LEMMA Stutters ==
  ASSUME ImageIn(int') = ImageIn(int), ImageIn(Golden') = ImageIn(Golden),
         Stage' = Stage, Stage = "install" => ImageIn(Slot') = ImageIn(Slot),
         UNCHANGED spoilt, UNCHANGED cuts
  PROVE  UNCHANGED Update!vars
BY DEF Update!vars, ImageIn

\* The factory state maps to the abstract initial state.
LEMMA InitImplements == Init => Update!Init
<1> SUFFICES ASSUME Init PROVE Update!Init
  OBVIOUS
<1>1. ImageIn(int) = Factory
  BY ImageInIs, ImageAssumption, AddressTypes DEF Init, IsWhole
<1>2. ~Whole(Golden)
  BY BlankIsNotWhole, AddressTypes DEF Init, Golden
<1>3. Stage = "stable"
  BY StageIs DEF Init, FlagToBe, read_fw_flag
<1>q. QED
  BY <1>1, <1>2, <1>3, ImageInIs DEF Init, Update!Init

\* Every step of bootloader, application and environment is a step of the abstract
\* update or changes nothing of it.
LEMMA NextImplements ==
  ASSUME SafeGeometry, ~GiCommands, TypeInv, RecoveryInv, BackupInv, LostInv, [Next]_vars
  PROVE  [Update!Next]_Update!vars
<1> USE DEF UpdateFlags, Running
<1>i. /\ TypeOK /\ AppIsWhole /\ FlagInv /\ CopyInv /\ AppInv /\ FwInv
      /\ BackupInv
  BY DEF TypeInv, RecoveryInv
\* Steps that leave all flash areas alone and the flag where it was.
<1>s. ASSUME UNCHANGED <<int, ext, spoilt, cuts>>, FlagToBe' = FlagToBe \/ (Stage = "stable" /\ Stage' = "stable")
      PROVE  UNCHANGED Update!vars
  <2>1. Golden' = Golden /\ Slot' = Slot /\ int' = int
    BY <1>s, ExtFrame
  <2>2. Stage' = Stage
    BY <1>s, StageIs
  <2>q. QED
    BY <1>s, <2>1, <2>2, Stutters
<1>1. CASE UserFlashProgram
  <2>1. pc' # "flag" /\ pc = "flag"
    BY <1>1, <1>i DEF UserFlashProgram, jump_to_image, TypeOK
  <2>2. FlagToBe' = FlagToBe \/ (Stage = "stable" /\ Stage' = "stable")
    BY <1>1, <1>i, <2>1, StageIs DEF UserFlashProgram, FlagToBe, read_fw_flag, TypeOK
  <2>q. QED
    BY <1>1, <1>s, <2>2 DEF UserFlashProgram
<1>2. CASE BootInit
  <2>1. FlagToBe' = FlagToBe
    BY <1>2 DEF BootInit, jump_to_image, FlagToBe, read_fw_flag
  <2>q. QED
    BY <1>2, <1>s, <2>1 DEF BootInit
<1>3. CASE BootRead
  <2>1. FlagToBe' = FlagToBe
    BY <1>3 DEF BootRead, FlagToBe, read_fw_flag
  <2>2. Stage' = Stage /\ Golden' = Golden /\ Slot' = Slot
    BY <1>3, <2>1, StageIs, ExtFrame DEF BootRead
  <2>3. ImageIn(int') = ImageIn(int)
    <3>1. CASE Whole(int)
      BY <1>3, <3>1 DEF BootRead, verify_current_firmware
    <3>2. CASE ~Whole(int)
      <4>1. int'[0] = "garbage"
        BY <1>3, <1>i, <3>2, AddressTypes DEF BootRead, verify_current_firmware, TypeOK
      <4>2. ~Whole(int')
        BY <4>1, AddressTypes, ImageAssumption DEF Whole, IsWhole
      <4>q. QED
        BY <3>2, <4>2, ImageInIs
    <3>q. QED
      BY <3>1, <3>2
  <2>q. QED
    BY <1>3, <2>2, <2>3, Stutters DEF BootRead
<1>4. CASE BootPingOk
  <2>1. Stage = "stable" /\ Stage' = "stable"
    BY <1>4, StageIs DEF BootPingOk, user_flash_erase, FlagToBe, read_fw_flag
  <2>q. QED
    BY <1>4, <1>s, <2>1 DEF BootPingOk
<1>5. CASE BootMain \/ BootCopy
  <2>1. FlagToBe' = FlagToBe
    BY <1>5 DEF BootMain, BootCopy, jump_to_image, FlagToBe, read_fw_flag
  <2>q. QED
    BY <1>5, <1>s, <2>1 DEF BootMain, BootCopy
<1>6. CASE BootTrial
  <2>1. Stage = "ready" /\ Stage' = "trial"
    BY <1>6, StageIs DEF BootTrial, user_flash_erase, FlagToBe, read_fw_flag
  <2>2. Golden' = Golden /\ Slot' = Slot /\ UNCHANGED <<int, spoilt, cuts>>
    BY <1>6, ExtFrame DEF BootTrial
  <2>3. Update!StartTrial
    BY <2>1, <2>2 DEF Update!StartTrial, ImageIn
  <2>q. QED
    BY <2>3 DEF Update!Next
<1>7. CASE PageErase
  <2>1. FlagToBe' = FlagToBe /\ FlagToBe \in {"NEW_IMG_INT", "NEW_IMG_EXT"}
    BY <1>7, <1>i DEF PageErase, CopyInv, FlagToBe, read_fw_flag
  <2>2. Stage' = Stage /\ Stage \in {"install", "trial"} /\ Golden' = Golden /\ Slot' = Slot
    BY <1>7, <2>1, StageIs, ExtFrame DEF PageErase
  <2>3. CASE page \in Used
    <3>1. int'[page] = "blank"
      BY <1>7, <1>i DEF PageErase, TypeOK
    <3>2. ~Whole(int')
      BY <2>3, <3>1, ImageAssumption DEF Whole, IsWhole
    <3>3. ImageIn(int') = "blank"
      BY <3>2, ImageInIs
    <3>4. Update!Copy
      BY <1>7, <2>2, <3>3 DEF PageErase, Update!Copy, ImageIn
    <3>q. QED
      BY <3>4 DEF Update!Next
  <2>4. CASE page \notin Used
    <3>1. \A k \in Used : int'[k] = int[k]
      BY <1>7, <1>i, <2>4, AddressTypes DEF PageErase, TypeOK
    <3>2. ImageIn(int') = ImageIn(int)
      BY <3>1, ImageInCongruent
    <3>q. QED
      BY <1>7, <2>2, <3>2, Stutters DEF PageErase
  <2>q. QED
    BY <2>3, <2>4
<1>8. CASE PageProgram
  <2>0. Golden' = Golden /\ Slot' = Slot /\ UNCHANGED cuts /\ page \in Page
    BY <1>8, <1>i, ExtFrame DEF PageProgram, TypeOK
  <2> DEFINE Source == IF src = GoldenBase THEN Golden ELSE Slot
  <2>1. \/ /\ Stage = "install" /\ Source = Slot /\ src # GoldenBase
           /\ Whole(Source) \/ spoilt = "yes"
        \/ Stage = "trial" /\ Source = Golden /\ src = GoldenBase /\ Whole(Source)
    <3>1. SlotBase # GoldenBase
      BY GeometryAssumption
    <3>q. QED
      BY <1>8, <1>i, <3>1, StageIs DEF PageProgram, CopyInv, FlagInv, FlagToBe, read_fw_flag
  <2>2. \A k \in Page : k <= page => int'[k] = Source[k]
    <3>1. \A k \in Page : k <= page => int'[k] = ext[src + k]
      BY <1>8, <1>i DEF PageProgram, TypeOK, CopyInv
    <3>q. QED
      BY <3>1, <1>i DEF Golden, Slot, TypeOK
  <2>3. CASE page < ImagePages - 1
    <3>1. Stage' = Stage /\ UNCHANGED spoilt
      BY <1>8, <2>3, StageIs DEF PageProgram, FlagToBe, read_fw_flag
    <3>2. CASE page \in Used /\ Whole(Source)
      <4>1. PICK s \in Image : IsWhole(Source, s)
        BY <3>2 DEF Whole
      <4>2. ImageIn(Source) = s
        BY <4>1, ImageInIs
      <4>3. int'[page] = s
        BY <2>0, <2>2, <3>2, <4>1, GeometryAssumption DEF IsWhole
      <4>4. ImageIn(int') \in {"blank", ImageIn(Source)}
        BY <3>2, <4>2, <4>3, ImageInIs DEF IsWhole
      <4>5. Update!Copy
        BY <2>0, <2>1, <3>1, <4>4 DEF Update!Copy, ImageIn
      <4>q. QED
        BY <4>5 DEF Update!Next
    <3>3. CASE ~Whole(Source)
      <4>1. Stage = "install" /\ spoilt = "yes"
        BY <2>1, <3>3
      <4>2. ImageIn(int') \in Image \cup {"blank"}
        BY ImageInIs
      <4>3. Update!Copy
        BY <2>0, <3>1, <4>1, <4>2 DEF Update!Copy, ImageIn
      <4>q. QED
        BY <4>3 DEF Update!Next
    <3>4. CASE page \notin Used
      <4>1. \A k \in Used : int'[k] = int[k]
        BY <1>8, <1>i, <3>4, AddressTypes DEF PageProgram, TypeOK
      <4>2. ImageIn(int') = ImageIn(int)
        BY <4>1, ImageInCongruent
      <4>q. QED
        BY <2>0, <3>1, <4>2, Stutters
    <3>q. QED
      BY <3>2, <3>3, <3>4
  <2>4. CASE ~(page < ImagePages - 1)
    <3>1. \A k \in Used : k \in Page /\ k <= page
      BY <2>0, <2>4, GeometryAssumption
    <3>2. ImageIn(int') = ImageIn(Source)
      BY <2>2, <3>1, ImageInCongruent
    <3>3. CASE Stage = "install"
      <4>1. Stage' = "ready" /\ UNCHANGED spoilt
        BY <1>8, <2>1, <2>4, <3>3, StageIs DEF PageProgram, user_flash_erase, FlagToBe
      <4>2. Update!Installed
        BY <2>0, <2>1, <3>2, <3>3, <4>1 DEF Update!Installed, ImageIn
      <4>q. QED
        BY <4>2 DEF Update!Next
    <3>4. CASE Stage = "trial"
      <4>1. Stage' = "stable" /\ spoilt' = "no"
        BY <1>8, <2>1, <2>4, <3>4, StageIs DEF PageProgram, user_flash_erase, FlagToBe
      <4>2. Update!RolledBack
        BY <2>0, <2>1, <3>2, <3>4, <4>1 DEF Update!RolledBack, ImageIn
      <4>q. QED
        BY <4>2 DEF Update!Next
    <3>q. QED
      BY <2>1, <3>3, <3>4
  <2>q. QED
    BY <2>3, <2>4
<1>9. CASE JoinConfirm
  <2>0. UNCHANGED <<int, ext, cuts>>
    BY <1>9 DEF JoinConfirm
  <2>1. CASE flag # "NEW_IMG_INT" \/ pc' = "backup_erase"
    <3>1. FlagToBe' = FlagToBe /\ UNCHANGED spoilt
      BY <1>9, <2>1 DEF JoinConfirm, user_flash_erase, FlagToBe, read_fw_flag
    <3>q. QED
      BY <2>0, <3>1, <1>s
  <2>2. CASE ~(flag # "NEW_IMG_INT" \/ pc' = "backup_erase")
    <3>1. flag = "NEW_IMG_INT" /\ pc' = "flag" /\ pend' = "PING_OK" /\ spoilt' = "no"
      BY <1>9, <2>2 DEF JoinConfirm, user_flash_erase, FlagToBe, read_fw_flag
    <3>2. Stage = "trial" /\ Stage' = "stable"
      BY <1>9, <3>1, StageIs DEF JoinConfirm, FlagToBe, read_fw_flag
    <3>3. Whole(int)
      BY <1>9, <1>i DEF JoinConfirm, AppIsWhole
    <3>4. ImageIn(int) # "blank"
      BY <3>3, ImageInIs
    <3>5. Golden' = Golden /\ Slot' = Slot
      BY <2>0, ExtFrame
    <3>6. Update!Confirm
      BY <2>0, <3>1, <3>2, <3>4, <3>5 DEF Update!Confirm, ImageIn
    <3>q. QED
      BY <3>6 DEF Update!Next
  <2>q. QED
    BY <2>1, <2>2
<1>10. CASE AppStart \/ RootNotFound \/ NeedReboot \/ NewFw \/ FwAbort
  <2>1. FlagToBe' = FlagToBe
    BY <1>10 DEF AppStart, RootNotFound, NeedReboot, watchdog_reboot, NewFw, FwAbort, FlagToBe, read_fw_flag
  <2>q. QED
    BY <1>10, <1>s, <2>1 DEF AppStart, RootNotFound, NeedReboot, NewFw, FwAbort
<1>11. CASE GoldenErase
  <2>0. pc = "backup_erase" /\ pc' \in {"backup_erase", "backup_copy"} /\ UNCHANGED <<int, flag, spoilt, cuts>>
    BY <1>11, <1>i DEF GoldenErase, AppInv
  <2>1. FlagToBe' = FlagToBe /\ FlagToBe \notin UpdateFlags
    BY <2>0, <1>i DEF FlagToBe, read_fw_flag, AppInv
  <2>2. Stage' = Stage /\ Stage = "stable"
    BY <2>1, StageIs
  <2>3. ~Whole(Golden)
    BY <2>0, <1>i DEF BackupInv
  <2>4. Golden'[0] = "blank"
    <3>1. page \in Page /\ \A k \in Page : k < page => Golden[k] = "blank"
      BY <2>0, <1>i DEF BackupInv, TypeOK
    <3>2. \A q \in ExtPage : ext'[q] = IF SectorOf(q) = SectorOf(GoldenBase + page)
                                         THEN "blank" ELSE ext[q]
      BY <1>11 DEF GoldenErase, erase_extflash_page, ext_flash_erase
    <3>3. Golden[0] = "blank" \/ page = 0
      BY <3>1, AddressTypes, GeometryAssumption
    <3>q. QED
      BY <3>2, <3>3, AddressTypes DEF Golden
  <2>5. ~Whole(Golden')
    BY <2>4, AddressTypes, ImageAssumption DEF Whole, IsWhole
  <2>q. QED
    BY <2>0, <2>2, <2>3, <2>5, ImageInIs, Stutters
<1>12. CASE BackupCopy
  <2>0. /\ pc = "backup_copy" /\ pc' \in {"backup_copy", "reset", "stuck"} /\ UNCHANGED <<int, flag, spoilt, cuts>>
        /\ page \in Page /\ Whole(int)
    BY <1>12, <1>i DEF BackupCopy, watchdog_reboot, AppIsWhole, TypeOK
  <2>1. FlagToBe' = FlagToBe /\ FlagToBe \notin UpdateFlags
    BY <2>0, <1>i DEF FlagToBe, read_fw_flag, AppInv
  <2>2. Stage' = Stage /\ Stage = "stable"
    BY <2>1, StageIs
  <2>3. \A k \in Page : Golden'[k] = IF k <= page THEN int[k] ELSE "blank"
    <3>1. \A k \in Page : Golden[k] = IF k < page THEN int[k] ELSE "blank"
      BY <2>0, <1>i DEF BackupInv
    <3>2. ext' = ext_flash_write(GoldenBase + page, int[page]) /\ int[page] \in Content
      BY <1>12, <2>0, <1>i DEF BackupCopy, TypeOK
    <3>3. \A k \in Page : GoldenBase + k = GoldenBase + page <=> k = page
      BY <2>0, GeometryAssumption
    <3>4. \A k \in Page : Golden'[k] = IF k = page THEN int[k] ELSE Golden[k]
      BY <2>0, <3>1, <3>2, <3>3, <1>i, AddressTypes, GeometryAssumption
      DEF ext_flash_write, TypeOK, Golden
    <3>q. QED
      BY <2>0, <3>1, <3>4, GeometryAssumption
  <2>4. CASE \A k \in Used : k < page
    <3>1. \A k \in Used : Golden'[k] = Golden[k]
      BY <2>0, <2>3, <2>4, <1>i, AddressTypes, GeometryAssumption DEF BackupInv
    <3>2. ImageIn(Golden') = ImageIn(Golden)
      BY <3>1, ImageInCongruent
    <3>q. QED
      BY <2>0, <2>2, <3>2, Stutters
  <2>5. CASE \E k \in Used : ~(k < page)
    <3>1. ~Whole(Golden)
      BY <2>0, <2>5, <1>i, AddressTypes, ImageAssumption DEF BackupInv, Whole, IsWhole
    <3>2. CASE ~Whole(Golden')
      BY <2>0, <2>2, <3>1, <3>2, ImageInIs, Stutters
    <3>3. CASE Whole(Golden')
      <4>1. \A k \in Used : k <= page
        BY <2>3, <3>3, AddressTypes, ImageAssumption DEF Whole, IsWhole
      <4>2. ImageIn(Golden') = ImageIn(int)
        BY <2>3, <4>1, AddressTypes, ImageInCongruent
      <4>3. ImageIn(Golden) = "blank"
        BY <3>1, ImageInIs
      <4>3a. ImageIn(int) # "blank"
        BY <2>0, ImageInIs
      <4>4. Update!Backup
        BY <2>0, <2>2, <4>2, <4>3, <4>3a DEF Update!Backup, ImageIn
      <4>q. QED
        BY <4>4 DEF Update!Next
    <3>q. QED
      BY <3>2, <3>3
  <2>q. QED
    BY <2>4, <2>5
<1>13. CASE CleanGi
  BY <1>13 DEF CleanGi
<1>14. CASE SaveRelayState
  <2>1. FlagToBe' = FlagToBe \/ (Stage = "stable" /\ Stage' = "stable")
    BY <1>14, <1>i, StageIs DEF SaveRelayState, user_flash_erase, FlagToBe, read_fw_flag, TypeOK
  <2>q. QED
    BY <1>14, <1>s, <2>1 DEF SaveRelayState
<1>15. CASE FwErase \/ FirmwareData
  <2>1. \A k \in Used : Golden'[k] = Golden[k]
    <3>1. CASE FwErase
      BY <3>1, <1>i, SlotErase DEF FwErase, erase_extflash_page, TypeOK, FwState
    <3>2. CASE FirmwareData
      <4>1. PICK c \in Content : ext' = ext_flash_write(SlotBase + fw.off, c)
        BY <3>2 DEF FirmwareData
      <4>2. fw.off \in 0 .. MaxOffset
        BY <3>2, <1>i DEF FirmwareData, TypeOK, FwState
      <4>q. QED
        BY <1>i, <4>1, <4>2, SlotWrite
    <3>q. QED
      BY <1>15, <3>1, <3>2
  <2>2. ImageIn(Golden') = ImageIn(Golden)
    BY <2>1, ImageInCongruent
  <2>3. FlagToBe' = FlagToBe /\ FlagToBe = read_fw_flag /\ UNCHANGED <<int, cuts>>
    BY <1>15, <1>i DEF FwErase, FirmwareData, FlagToBe, read_fw_flag
  <2>4. Stage' = Stage /\ (Stage = "install" <=> flag = "NEW_IMG_EXT")
    BY <2>3, StageIs DEF read_fw_flag
  <2>5. spoilt' = IF flag = "NEW_IMG_EXT" THEN "yes" ELSE spoilt
    BY <1>15, Zenon DEF FwErase, FirmwareData, SlotTouched
  <2>6. CASE flag = "NEW_IMG_EXT"
    <3>1. Whole(int)
      BY <1>15, <1>i DEF FwErase, FirmwareData, AppIsWhole
    <3>2. ImageIn(int) # "blank" /\ ImageIn(Slot') \in Image \cup {"blank"}
      BY <3>1, ImageInIs
    <3>3. Stage = "install" /\ Stage' = "install" /\ spoilt' = "yes"
      BY <2>4, <2>5, <2>6
    <3>4. Update!Spoil
      BY <2>2, <2>3, <3>2, <3>3 DEF Update!Spoil, ImageIn
    <3>q. QED
      BY <3>4 DEF Update!Next
  <2>7. CASE flag # "NEW_IMG_EXT"
    BY <2>2, <2>3, <2>4, <2>5, <2>7, Stutters
  <2>q. QED
    BY <2>6, <2>7
<1>16. CASE FwVerify
  <2>0. UNCHANGED <<int, ext, cuts>> /\ Golden' = Golden /\ Slot' = Slot
    BY <1>16, ExtFrame DEF FwVerify
  <2>1. CASE Whole(Slot) /\ Uuid[ImageOf(Slot)] = Uuid[ImageOf(int)]
    <3>1. pc # "join" /\ spi
      BY <1>16, <1>i, <2>1, BlankIsNotWhole DEF FwVerify, FwInv
    <3>2. flag # "NEW_IMG_INT" /\ Whole(Golden) /\ Whole(int)
      BY <1>16, <1>i, <3>1 DEF FwVerify, AppInv, AppIsWhole
    <3>3. Stage # "trial" /\ Stage' = "install" /\ spoilt' = "no"
      BY <1>16, <2>1, <3>2, StageIs DEF FwVerify, user_flash_erase, FlagToBe, read_fw_flag
    <3>4. ImageIn(Slot) \in Image /\ ImageIn(Golden) # "blank" /\ ImageIn(int) # "blank"
      BY <2>1, <3>2, ImageInIs
    <3>5. Update!Commit
      BY <2>0, <3>3, <3>4 DEF Update!Commit, ImageIn
    <3>q. QED
      BY <3>5 DEF Update!Next
  <2>2. CASE ~(Whole(Slot) /\ Uuid[ImageOf(Slot)] = Uuid[ImageOf(int)])
    <3>1. FlagToBe' = FlagToBe /\ UNCHANGED spoilt
      BY <1>16, <2>2 DEF FwVerify, FlagToBe, read_fw_flag
    <3>q. QED
      BY <2>0, <3>1, <1>s
  <2>q. QED
    BY <2>1, <2>2
<1>17. CASE Reset
  <2>0. UNCHANGED <<int, ext, flag>> /\ Golden' = Golden /\ Slot' = Slot /\ cuts' = cuts + 1
    BY <1>17, ExtFrame DEF Reset
  <2>1. CASE pc # "flag"
    <3>1. Stage' = Stage /\ UNCHANGED spoilt
      BY <1>17, <2>0, <2>1, StageIs DEF Reset, FlagToBe, read_fw_flag
    <3>2. Update!PowerFails
      BY <2>0, <3>1 DEF Update!PowerFails, ImageIn
    <3>q. QED
      BY <3>2 DEF Update!Next
  <2>2. CASE pc = "flag"
    <3>1. flag = "blank" /\ (Whole(int) \/ spoilt # "no")
      BY <2>2, <1>i DEF FlagInv
    <3>2. Stage' = "stable"
      BY <1>17, <2>0, <3>1, StageIs DEF Reset, FlagToBe, read_fw_flag
    <3>3. ImageIn(int) = "blank" <=> ~Whole(int)
      BY ImageInIs
    <3>4. spoilt' # "no" <=> spoilt # "no" /\ ~Whole(int)
      <4>1. spoilt = "forgotten" => ~Whole(int)
        BY DEF LostInv
      <4>2. spoilt \in {"no", "yes", "forgotten"}
        BY <1>i DEF TypeOK
      <4>q. QED
        BY <1>17, <2>2, <4>1, <4>2 DEF Reset
    <3>5. Update!PowerFails
      BY <2>0, <3>1, <3>2, <3>3, <3>4 DEF Update!PowerFails, ImageIn
    <3>q. QED
      BY <3>5 DEF Update!Next
  <2>q. QED
    BY <2>1, <2>2
<1>18. CASE UNCHANGED vars
  BY <1>18, <1>s DEF vars, FlagToBe, read_fw_flag
<1>q. QED
  BY <1>1, <1>2, <1>3, <1>4, <1>5, <1>6, <1>7, <1>8, <1>9, <1>10, <1>11, <1>12,
     <1>13, <1>14, <1>15, <1>16, <1>17, <1>18
  DEF Next, Bootloader, Application

\* The flash memories, the bootloader and the application implement the abstract
\* update: the image that runs is given up only with an image to return to, and for a
\* whole one unless the application has spoilt it since; a trial ends in a confirmation
\* or a rollback, and the only thing that makes the node forget an update is a power
\* failure, which costs it the image only when what it installed had been spoilt.
THEOREM OtaBootImplementsUpdate ==
  ASSUME SafeGeometry, ~GiCommands
  PROVE  Spec => ImplementsUpdate
<1>1. Init => BackupInv /\ LostInv /\ Update!Init
  BY InitBackupInv, InitImplements DEF Init, LostInv
<1>2. TypeInv /\ RecoveryInv /\ BackupInv /\ LostInv /\ [Next]_vars => BackupInv' /\ LostInv'
  BY NextBackupInv, NextLostInv
<1>3. TypeInv /\ RecoveryInv /\ BackupInv /\ LostInv /\ [Next]_vars
        => [Update!Next]_Update!vars
  BY NextImplements
<1>q. QED
  BY <1>1, <1>2, <1>3, RecoveryInvariant, PTL DEF Spec, ImplementsUpdate, Update!Spec

=============================================================================
