--------------------------- MODULE RelayNodeProofs ---------------------------
(***************************************************************************)
(* Proofs about the relay device: however often the power fails, the pins,  *)
(* the RAM and the user page agree whenever main_process waits, and the OTA *)
(* flag in that page survives every update that is not itself cut short.    *)
(***************************************************************************)
EXTENDS RelayNode, TLAPS

Byte == 0 .. 255
Bit == {0, 1}

\* The bytes of the page have addresses of their own (int-flash-common.h).
LEMMA Offsets ==
  /\ OTA_STATUS_FLAG \in Offset
  /\ \A r \in Relay : Last(r) \in Offset /\ Start(r) \in Offset
                      /\ Last(r) # OTA_STATUS_FLAG /\ Start(r) # OTA_STATUS_FLAG
  /\ \A r, q \in Relay : Last(r) # Start(q) /\ (Last(r) = Last(q) => r = q)
BY DEF Offset, OTA_STATUS_FLAG, Last, Start, Relay

-----------------------------------------------------------------------------
\* What the page, or the buffer it is programmed from, may hold: no start-up
\* setting is ever written, and a saved state is a state or blank.
PageOK(page) ==
  \A r \in Relay : page[Start(r)] = BLANK_FLASH_VALUE
                   /\ page[Last(r)] \in Bit \cup {BLANK_FLASH_VALUE}

\* Only the state of a relay is ever saved.
UpdateInv ==
  pc \in {"save", "erased"} =>
    \E r \in Relay : /\ update.offset = Last(r) /\ update.value = state[r]
                     /\ update.next = "configure_2" => r = 1

\* The relays whose saved state must be their state where main_process is.
Saved(p, next, offset) ==
  IF p = "configure_1" THEN {}
  ELSE IF p = "configure_2" THEN {1}
  ELSE IF p = "yield" THEN Relay
  ELSE LET after == IF next = "configure_2" THEN {1} ELSE Relay
       IN  IF p = "erased" THEN after ELSE {r \in after : Last(r) # offset}

\* The page that counts: the buffer while the sector is erased.
Current == IF pc = "erased" THEN update.buffer ELSE flash

\* The inductive invariant.
RelayInv ==
  /\ TypeOK
  /\ dio = state
  /\ PageOK(flash) /\ PageOK(Current)
  /\ UpdateInv
  /\ \A r \in Saved(pc, update.next, update.offset) : Current[Last(r)] = state[r]
  /\ ~torn => Current[OTA_STATUS_FLAG] = Flag

\* A new device is blank but for the OTA flag.
LEMMA InitRelayInv == Init => RelayInv
<1> SUFFICES ASSUME Init PROVE RelayInv
  OBVIOUS
<1>1. TypeOK
  <2>1. Blank \in [Offset -> 0 .. 255]
    BY DEF Blank, BLANK_FLASH_VALUE
  <2>2. flash \in [Offset -> 0 .. 255]
    <3>1. flash = [Blank EXCEPT ![OTA_STATUS_FLAG] = 3]
      BY Zenon DEF Init, Flag
    <3>q. QED
      BY <2>1, <3>1, Offsets, SMT
  <2>3. update \in [offset : Offset, value : 0 .. 255, buffer : [Offset -> 0 .. 255],
                    next : {"configure_2", "yield"}]
    BY <2>1, Offsets DEF Init, None
  <2>4. message \in [data_type : {0, DATA_TYPE_COMMAND, DATA_TYPE_SETTINGS, DATA_TYPE_UART},
                     ability_target : 0 .. 255, ability_number : 0 .. 255,
                     ability_state : 0 .. 255]
    <3>1. message = NoMessage
      BY Zenon DEF Init
    <3>q. QED
      BY <3>1 DEF NoMessage
  <2>5. /\ dio \in [Relay -> {0, 1}] /\ state \in [Relay -> {0, 1}]
        /\ commanded \in [Relay -> {0, 1}]
    BY DEF Init
  <2>6. /\ events \in 0 .. MaxEvents /\ cuts \in 0 .. MaxCuts
        /\ pc \in {"configure_1", "configure_2", "yield", "save", "erased"}
    BY RelayAssumption DEF Init
  <2>7. torn \in BOOLEAN
    BY Zenon DEF Init
  <2>q. QED
    BY <2>2, <2>3, <2>4, <2>5, <2>6, <2>7, Zenon DEF TypeOK
<1>2. PageOK(flash)
  BY Offsets DEF Init, PageOK, Blank, BLANK_FLASH_VALUE
<1>q. QED
  BY <1>1, <1>2, Offsets
  DEF Init, RelayInv, UpdateInv, Saved, Current, Blank, Flag

\* Switching relay r to a state it can have, from a place where the others are
\* saved, keeps the invariant: the start-up and the commands share this step.
LEMMA ChangeInv ==
  ASSUME RelayInv, NEW r \in Relay, NEW command \in Byte,
         NEW next \in {"configure_2", "yield"},
         pc \in {"configure_1", "configure_2", "yield"},
         change_dio_state(r, command, next),
         next = "configure_2" => r = 1,
         next = "yield" => \A q \in Relay : q = r \/ flash[Last(q)] = state[q],
         events' \in 0 .. MaxEvents,
         UNCHANGED <<flash, message, cuts, commanded, torn>>
  PROVE  RelayInv'
<1> DEFINE s == Switched(state[r], command)
<1>1. s \in Bit
  BY DEF RelayInv, TypeOK, Switched, Bit, Byte, DEVICE_ABILITY_RELAY_COMMAND_OFF,
     DEVICE_ABILITY_RELAY_COMMAND_ON, DEVICE_ABILITY_RELAY_COMMAND_TOGGLE
<1>2. /\ state' = [state EXCEPT ![r] = s]
      /\ update' = [offset |-> Last(r), value |-> s, buffer |-> Blank, next |-> next]
      /\ pc' = "save"
  BY DEF change_dio_state, user_flash_update_byte
<1>3. dio' = state'
  <2>1. command \notin Known => s = state[r]
    BY DEF Switched, Known
  <2>q. QED
    BY <1>2, <2>1 DEF change_dio_state, RelayInv, TypeOK
<1>4. update' \in [offset : Offset, value : Byte, buffer : [Offset -> Byte],
                   next : {"configure_2", "yield"}]
  BY <1>1, <1>2, Offsets DEF Blank, BLANK_FLASH_VALUE, Bit, Byte
<1>5. TypeOK'
  BY <1>1, <1>2, <1>3, <1>4 DEF TypeOK, RelayInv, Bit, Byte
<1>6. UpdateInv'
  BY <1>2 DEF UpdateInv, RelayInv, TypeOK
<1>7. Current' = flash /\ Current = flash
  BY <1>2 DEF Current
<1>8. ASSUME NEW q \in Saved(pc, update.next, update.offset)'
      PROVE  Current'[Last(q)] = state'[q]
  <2>1. q \in Relay /\ Last(q) # Last(r) /\ next # "configure_2"
    BY <1>2, Offsets DEF Saved, Relay
  <2>q. QED
    BY <2>1, <1>2, <1>7 DEF RelayInv, TypeOK
<1>q. QED
  BY <1>3, <1>5, <1>6, <1>7, <1>8 DEF RelayInv, PageOK

\* A step that touches neither the page nor the relays keeps the invariant.
LEMMA FrameInv ==
  ASSUME RelayInv, TypeOK', UNCHANGED <<flash, dio, state, pc, update, torn>>
  PROVE  RelayInv'
BY DEF RelayInv, PageOK, UpdateInv, Saved, Current

\* Every step of main_process and of the packet handlers, and every power
\* failure, keeps the invariant.
LEMMA NextRelayInv == RelayInv /\ [Next]_vars => RelayInv'
<1> SUFFICES ASSUME RelayInv, [Next]_vars PROVE RelayInv'
  OBVIOUS
<1> USE DEF Relay, BLANK_FLASH_VALUE
<1>1. CASE Configure
  <2>1. ASSUME NEW r \in Relay
        PROVE  /\ get_start_state_flash(r) = START_ON_LAST_STATE
               /\ StartCommand(r) \in Byte
    BY DEF RelayInv, PageOK, get_start_state_flash, StartCommand, get_last_state_flash,
       DEVICE_ABILITY_RELAY_COMMAND_OFF, Bit, Byte
  <2>2. CASE Configure1
    BY <1>1, <2>1, <2>2, ChangeInv
    DEF Configure, Configure1, configure_channel, RelayInv, TypeOK
  <2>3. CASE Configure2
    <3>1. flash[Last(1)] = state[1]
      BY <2>3 DEF Configure2, RelayInv, Saved, Current
    <3>q. QED
      BY <1>1, <2>1, <2>3, <3>1, ChangeInv
      DEF Configure, Configure2, configure_channel, RelayInv, TypeOK
  <2>q. QED
    BY <1>1, <2>2, <2>3 DEF Configure
<1>2. CASE flash_sector_erase
  <2>1. PICK r \in Relay : /\ update.offset = Last(r) /\ update.value = state[r]
                           /\ update.next = "configure_2" => r = 1
    BY <1>2 DEF flash_sector_erase, RelayInv, UpdateInv
  <2> DEFINE b == [flash EXCEPT ![Last(r)] = state[r]]
  <2>2. /\ update' = [update EXCEPT !.buffer = b] /\ flash' = Blank
        /\ pc = "save" /\ pc' = "erased"
        /\ UNCHANGED <<dio, state, message, events, cuts, commanded, torn>>
    BY <1>2, <2>1 DEF flash_sector_erase
  <2>3. b \in [Offset -> 0 .. 255] /\ b[Last(r)] = state[r]
        /\ \A o \in Offset : o # Last(r) => b[o] = flash[o]
    BY <2>1, Offsets DEF RelayInv, TypeOK
  <2>4. /\ update' \in [offset : Offset, value : 0 .. 255, buffer : [Offset -> 0 .. 255],
                        next : {"configure_2", "yield"}]
        /\ update'.buffer = b /\ update'.offset = update.offset
        /\ update'.value = update.value /\ update'.next = update.next
    BY <2>2, <2>3 DEF RelayInv, TypeOK
  <2>5. TypeOK'
    <3>1. flash' \in [Offset -> 0 .. 255]
      BY <2>2 DEF Blank
    <3>q. QED
      BY <2>2, <2>4, <3>1 DEF RelayInv, TypeOK
  <2>6. PageOK(b)
    BY <2>3, Offsets DEF RelayInv, TypeOK, PageOK, Bit
  <2>7. PageOK(Blank)
    BY Offsets DEF PageOK, Blank
  <2>8. Current' = b
    BY <2>2, <2>4 DEF Current
  <2>9. UpdateInv'
    BY <2>1, <2>2, <2>4 DEF UpdateInv
  <2>10. ASSUME NEW q \in Saved(pc, update.next, update.offset)'
         PROVE  b[Last(q)] = state[q]
    <3>1. q \in Relay /\ (Last(q) = Last(r) \/ q \in Saved(pc, update.next, update.offset))
      BY <2>1, <2>2, <2>4 DEF Saved, RelayInv, TypeOK
    <3>q. QED
      BY <3>1, <2>2, <2>3, Offsets DEF RelayInv, Current
  <2>11. ~torn => b[OTA_STATUS_FLAG] = Flag
    BY <2>2, <2>3, Offsets DEF RelayInv, Current
  <2>q. QED
    BY <2>2, <2>5, <2>6, <2>7, <2>8, <2>9, <2>10, <2>11 DEF RelayInv
<1>3. CASE flash_program
  <2>1. /\ flash' = update.buffer /\ pc = "erased" /\ pc' = update.next
        /\ update' = None /\ update.next \in {"configure_2", "yield"}
        /\ UNCHANGED <<dio, state, message, events, cuts, commanded, torn>>
    BY <1>3 DEF flash_program, RelayInv, TypeOK
  <2>2. Current' = update.buffer /\ Current = update.buffer
    BY <2>1 DEF Current
  <2>3. TypeOK'
    BY <2>1, Offsets DEF RelayInv, TypeOK, None, Blank
  <2>4. UpdateInv'
    BY <2>1 DEF UpdateInv
  <2>5. Saved(pc, update.next, update.offset)' = Saved(pc, update.next, update.offset)
    BY <2>1 DEF Saved
  <2>q. QED
    BY <2>1, <2>2, <2>3, <2>4, <2>5 DEF RelayInv
<1>4. CASE main_process
  <2>1. /\ pc = "yield" /\ events' \in 0 .. MaxEvents
        /\ UNCHANGED <<flash, message, cuts, commanded, torn>>
    BY <1>4, RelayAssumption DEF main_process, RelayInv, TypeOK
  <2>2. CASE UNCHANGED <<state, dio, update, pc>>
    <3>1. TypeOK'
      BY <2>1, <2>2 DEF RelayInv, TypeOK
    <3>q. QED
      BY <2>1, <2>2, <3>1, FrameInv
  <2>3. CASE message.ability_number \in Relay
             /\ change_dio_state(message.ability_number, message.ability_state, "yield")
    <3>1. \A q \in Relay : flash[Last(q)] = state[q]
      BY <2>1 DEF RelayInv, Saved, Current
    <3>2. message.ability_state \in Byte
      BY DEF RelayInv, TypeOK, Byte
    <3>q. QED
      BY <2>1, <2>3, <3>1, <3>2, ChangeInv
  <2>q. QED
    BY <1>4, <2>2, <2>3
    DEF main_process, exe_relay_command, settings_change, DEVICE_ABILITY_RELAY
<1>5. ASSUME NEW p \in Packets, command_settings_handler(p) PROVE RelayInv'
  <2>1. p \in Packet
    BY RelayAssumption
  <2>2. commanded' \in [Relay -> {0, 1}]
    BY <1>5 DEF command_settings_handler, Asked, Switched, RelayInv, TypeOK,
       DEVICE_ABILITY_RELAY_COMMAND_OFF, DEVICE_ABILITY_RELAY_COMMAND_ON
  <2>3. TypeOK'
    BY <1>5, <2>1, <2>2, RelayAssumption
    DEF command_settings_handler, CanArrive, RelayInv, TypeOK, Packet
  <2>q. QED
    BY <1>5, <2>3, FrameInv DEF command_settings_handler
<1>6. CASE uart_packet_handler
  <2>1. TypeOK'
    BY <1>6, RelayAssumption DEF uart_packet_handler, CanArrive, RelayInv, TypeOK
  <2>q. QED
    BY <1>6, <2>1, FrameInv DEF uart_packet_handler
<1>7. CASE PowerCut
  <2>1. torn' \in BOOLEAN /\ torn' = (torn \/ events > 0 \/ pc = "erased" \/ Unsaved)
    BY <1>7 DEF PowerCut, RelayInv, TypeOK
  <2>2. TypeOK'
    BY <1>7, <2>1, Offsets, RelayAssumption
    DEF PowerCut, RelayInv, TypeOK, NoMessage, None, Blank
  <2>3. Current' = flash
    BY <1>7 DEF PowerCut, Current
  <2>4. ~torn' => Current[OTA_STATUS_FLAG] = Flag /\ Current = flash
    BY <2>1 DEF RelayInv, Current, TypeOK
  <2>5. Saved(pc, update.next, update.offset)' = {} /\ UpdateInv'
    BY <1>7 DEF PowerCut, Saved, UpdateInv
  <2>q. QED
    BY <1>7, <2>2, <2>3, <2>4, <2>5 DEF PowerCut, RelayInv
<1>8. CASE UNCHANGED vars
  <2>1. TypeOK'
    BY <1>8 DEF vars, RelayInv, TypeOK
  <2>q. QED
    BY <1>8, <2>1, FrameInv DEF vars
<1>q. QED
  BY <1>1, <1>2, <1>3, <1>4, <1>5, <1>6, <1>7, <1>8 DEF Next

\* The invariant holds throughout.
LEMMA RelayInvariant == Spec => []RelayInv
  BY InitRelayInv, NextRelayInv, PTL DEF Spec

\* Pins, RAM and flash agree on both relays whenever main_process waits, for
\* any packets, spaced or not, and any number of power failures.
THEOREM RelayStatesAgree == Spec => []StatesAgree
<1>1. RelayInv => StatesAgree
  BY DEF RelayInv, StatesAgree, Saved, Current
<1>q. QED
  BY <1>1, RelayInvariant, PTL

\* The OTA flag survives every relay command and every start-up; only a power
\* failure during an update of the page can lose it.
THEOREM RelayKeepsOtaFlag == Spec => []OtaFlagKept
<1>1. RelayInv => OtaFlagKept
  BY DEF RelayInv, OtaFlagKept, Current
<1>q. QED
  BY <1>1, RelayInvariant, PTL

-----------------------------------------------------------------------------
(***************************************************************************)
(* The relays obey the packets, when those come one at a time.              *)
(***************************************************************************)
\* What get_last_state_flash reads from a page.
LastOf(page, r) ==
  IF page[Last(r)] = BLANK_FLASH_VALUE THEN 0 ELSE page[Last(r)]

\* The relays that configure_channel has set up since the last start.
Started ==
  IF pc = "configure_1" THEN {}
  ELSE IF pc = "configure_2" \/ (pc \in {"save", "erased"} /\ update.next = "configure_2")
  THEN {1} ELSE Relay

\* A relay that is set up is where the packets want it, once the one that
\* waits is executed; one that is not will be put there from the page.
CommandInv ==
  /\ events > 0 => pc = "yield" /\ events = 1
  /\ ~torn =>
       /\ \A r \in Started :
            commanded[r] = IF events > 0 THEN Asked(message, r, state[r]) ELSE state[r]
       /\ \A r \in Relay : r \in Started \/ LastOf(Current, r) = commanded[r]
       /\ pc = "save" /\ update.next = "configure_2" => LastOf(flash, 1) = commanded[1]

\* A new device is off, as nobody has asked for anything else.
LEMMA InitCommandInv == Init => CommandInv
<1> SUFFICES ASSUME Init PROVE CommandInv
  OBVIOUS
<1>1. \A r \in Relay : flash[Last(r)] = BLANK_FLASH_VALUE
  BY Offsets DEF Init, Blank
<1>2. events = 0 /\ pc = "configure_1" /\ \A r \in Relay : commanded[r] = 0
  BY DEF Init
<1>q. QED
  BY <1>1, <1>2 DEF CommandInv, Started, LastOf, Current

\* Every step keeps the relays in line with the packets.
LEMMA NextCommandInv ==
  ASSUME Spaced PROVE RelayInv /\ CommandInv /\ [Next]_vars => CommandInv'
<1> SUFFICES ASSUME RelayInv, CommandInv, [Next]_vars PROVE CommandInv'
  OBVIOUS
<1> USE DEF Relay, BLANK_FLASH_VALUE
<1>0. TypeOK
  BY DEF RelayInv
<1>1. CASE Configure
  <2>1. ASSUME NEW r \in Relay
        PROVE  /\ get_start_state_flash(r) = START_ON_LAST_STATE
               /\ StartCommand(r) = LastOf(flash, r)
               /\ LastOf(flash, r) \in {0, 1}
    BY DEF RelayInv, PageOK, get_start_state_flash, StartCommand, get_last_state_flash,
       DEVICE_ABILITY_RELAY_COMMAND_OFF, Bit, LastOf
  <2>2. ASSUME NEW r \in Relay, NEW next, change_dio_state(r, LastOf(flash, r), next)
        PROVE  /\ state' = [state EXCEPT ![r] = LastOf(flash, r)]
               /\ pc' = "save" /\ update'.next = next
    BY <2>1, <2>2 DEF change_dio_state, Switched, user_flash_update_byte,
       DEVICE_ABILITY_RELAY_COMMAND_OFF, DEVICE_ABILITY_RELAY_COMMAND_ON
  <2>3. events = 0 /\ UNCHANGED <<flash, message, events, commanded, torn>>
        /\ Current = flash
    BY <1>0, <1>1 DEF Configure, Configure1, Configure2, CommandInv, Current, TypeOK
  <2>4. CASE Configure1
    <3>1. change_dio_state(1, LastOf(flash, 1), "configure_2") /\ pc = "configure_1"
      BY <2>1, <2>4 DEF Configure1, configure_channel
    <3>2. /\ state' = [state EXCEPT ![1] = LastOf(flash, 1)]
          /\ pc' = "save" /\ update'.next = "configure_2"
      BY <2>2, <3>1
    <3>3. Started' = {1} /\ Started = {} /\ Current' = flash
      BY <2>3, <3>1, <3>2 DEF Started, Current
    <3>q. QED
      BY <1>0, <2>3, <3>2, <3>3 DEF CommandInv, TypeOK, LastOf
  <2>5. CASE Configure2
    <3>1. change_dio_state(2, LastOf(flash, 2), "yield") /\ pc = "configure_2"
      BY <2>1, <2>5 DEF Configure2, configure_channel
    <3>2. /\ state' = [state EXCEPT ![2] = LastOf(flash, 2)]
          /\ pc' = "save" /\ update'.next = "yield"
      BY <2>2, <3>1
    <3>3. Started' = Relay /\ Started = {1} /\ Current' = flash
      BY <2>3, <3>1, <3>2 DEF Started, Current
    <3>q. QED
      BY <1>0, <2>3, <3>2, <3>3 DEF CommandInv, TypeOK, LastOf
  <2>q. QED
    BY <1>1, <2>4, <2>5 DEF Configure
<1>2. CASE flash_sector_erase
  <2>1. PICK r \in Relay : /\ update.offset = Last(r) /\ update.value = state[r]
                           /\ update.next = "configure_2" => r = 1
    BY <1>2 DEF flash_sector_erase, RelayInv, UpdateInv
  <2> DEFINE b == [flash EXCEPT ![Last(r)] = state[r]]
  <2>2. /\ update' = [update EXCEPT !.buffer = b]
        /\ pc = "save" /\ pc' = "erased"
        /\ UNCHANGED <<state, message, events, commanded, torn>>
    BY <1>2, <2>1 DEF flash_sector_erase
  <2>3. \A o \in Offset : o # Last(r) => b[o] = flash[o]
    BY <1>0 DEF TypeOK
  <2>4. update'.buffer = b /\ update'.next = update.next
        /\ update.next \in {"configure_2", "yield"}
    BY <1>0, <2>2 DEF TypeOK
  <2>5. Started' = Started /\ Current' = b /\ Current = flash
    BY <2>2, <2>4 DEF Started, Current
  <2>6. \A q \in Relay : q \in Started \/ LastOf(b, q) = LastOf(flash, q)
    <3>1. ASSUME NEW q \in Relay, q \notin Started PROVE Last(q) # Last(r) /\ Last(q) \in Offset
      BY <2>1, <2>2, <2>4, <3>1, Offsets DEF Started
    <3>q. QED
      BY <2>3, <3>1 DEF LastOf
  <2>q. QED
    BY <2>2, <2>5, <2>6 DEF CommandInv
<1>3. CASE flash_program
  <2>1. /\ flash' = update.buffer /\ pc = "erased" /\ pc' = update.next
        /\ update.next \in {"configure_2", "yield"}
        /\ UNCHANGED <<state, message, events, commanded, torn>>
    BY <1>0, <1>3 DEF flash_program, TypeOK
  <2>2. Started' = Started /\ Current' = Current
    BY <2>1 DEF Started, Current
  <2>3. events = 0
    BY <1>0, <2>1 DEF CommandInv, TypeOK
  <2>q. QED
    BY <2>1, <2>2, <2>3 DEF CommandInv
<1>4. CASE main_process
  <2>1. /\ pc = "yield" /\ events = 1 /\ events' = 0
        /\ UNCHANGED <<flash, message, commanded, torn>>
    BY <1>0, <1>4 DEF main_process, CommandInv, TypeOK
  <2>2. Started = Relay
    BY <2>1 DEF Started
  <2>3. Started' = Relay /\ ~(pc' = "save" /\ update'.next = "configure_2")
    BY <1>4, <2>1 DEF main_process, exe_relay_command, settings_change, change_dio_state,
       user_flash_update_byte, Started
  <2>4. \A r \in Relay : state'[r] = Asked(message, r, state[r])
    BY <1>0, <1>4 DEF main_process, exe_relay_command, settings_change, change_dio_state,
       Asked, DEVICE_ABILITY_RELAY, TypeOK, DATA_TYPE_COMMAND, DATA_TYPE_SETTINGS
  <2>q. QED
    BY <2>1, <2>2, <2>3, <2>4 DEF CommandInv
<1>5. ASSUME NEW p \in Packets, command_settings_handler(p) PROVE CommandInv'
  <2>1. /\ pc = "yield" /\ events = 0 /\ events' = 1 /\ message' = p
        /\ commanded' = [r \in Relay |-> Asked(p, r, commanded[r])]
        /\ UNCHANGED <<flash, state, pc, update, torn>>
    BY <1>5 DEF command_settings_handler, CanArrive
  <2>2. Started = Relay /\ Started' = Relay
    BY <2>1 DEF Started
  <2>q. QED
    BY <2>1, <2>2 DEF CommandInv
<1>6. CASE uart_packet_handler
  <2>1. /\ pc = "yield" /\ events = 0 /\ events' = 1
        /\ message' = [message EXCEPT !.data_type = DATA_TYPE_UART]
        /\ UNCHANGED <<flash, state, pc, update, torn, commanded>>
    BY <1>6 DEF uart_packet_handler, CanArrive
  <2>2. Started = Relay /\ Started' = Relay
    BY <2>1 DEF Started
  <2>3. \A r \in Relay : Asked(message', r, state[r]) = state[r]
    BY <1>0, <2>1 DEF Asked, TypeOK, DATA_TYPE_UART, DATA_TYPE_COMMAND
  <2>q. QED
    BY <2>1, <2>2, <2>3 DEF CommandInv
<1>7. CASE PowerCut
  <2>1. /\ events' = 0 /\ pc' = "configure_1" /\ UNCHANGED <<flash, commanded>>
        /\ ~torn' => ~torn /\ events = 0 /\ pc # "erased" /\ ~Unsaved
    <3>1. /\ events' = 0 /\ pc' = "configure_1" /\ UNCHANGED <<flash, commanded>>
          /\ torn' = (torn \/ events > 0 \/ pc = "erased" \/ Unsaved)
      BY <1>7, Zenon DEF PowerCut
    <3>2. ~torn' => ~torn /\ ~(events > 0) /\ pc # "erased" /\ ~Unsaved
      BY <3>1, Zenon
    <3>3. ~(events > 0) => events = 0
      BY <1>0, RelayAssumption DEF TypeOK
    <3>q. QED
      BY <3>1, <3>2, <3>3, Zenon
  <2>2. Started' = {} /\ Current' = flash
    BY <2>1 DEF Started, Current
  <2>3. ASSUME ~torn', NEW r \in Relay PROVE LastOf(flash, r) = commanded[r]
    <3>1. ~torn /\ events = 0 /\ pc # "erased" /\ ~Unsaved /\ Current = flash
      BY <2>1, <2>3 DEF Current
    <3>2. CASE r \notin Started
      BY <3>1, <3>2 DEF CommandInv
    <3>3. CASE pc = "save" /\ update.next = "configure_2" /\ r = 1
      BY <3>1, <3>3 DEF CommandInv
    <3>4. CASE r \in Started /\ ~(pc = "save" /\ update.next = "configure_2")
      <4>1. commanded[r] = state[r] /\ state[r] \in {0, 1}
        BY <1>0, <3>1, <3>4 DEF CommandInv, TypeOK
      <4>2. flash[Last(r)] = state[r]
        <5>1. CASE pc = "save" /\ Last(r) = update.offset
          <6>1. PICK q \in Relay : update.offset = Last(q) /\ update.value = state[q]
            BY <5>1 DEF RelayInv, UpdateInv
          <6>q. QED
            BY <1>0, <3>1, <3>4, <5>1, <6>1, Offsets DEF Unsaved, TypeOK
        <5>2. CASE ~(pc = "save" /\ Last(r) = update.offset)
          BY <1>0, <3>1, <3>4, <5>2 DEF RelayInv, Saved, Started, TypeOK
        <5>q. QED
          BY <5>1, <5>2
      <4>q. QED
        BY <4>1, <4>2 DEF LastOf
    <3>q. QED
      BY <3>2, <3>3, <3>4 DEF Started
  <2>q. QED
    BY <2>1, <2>2, <2>3 DEF CommandInv
<1>8. CASE UNCHANGED vars
  BY <1>8 DEF vars, CommandInv, Started, Current
<1>q. QED
  BY <1>1, <1>2, <1>3, <1>4, <1>5, <1>6, <1>7, <1>8 DEF Next

\* When packets arrive one at a time, the relays are in the states the packets
\* ask for, across any number of power failures that hit no packet and no
\* update of the page.  (Packets that overlap break this: relay_overrun.)
THEOREM RelayObeysCommands == ASSUME Spaced PROVE Spec => []CommandsObeyed
<1>1. RelayInv /\ CommandInv => CommandsObeyed
  <2> SUFFICES ASSUME RelayInv, CommandInv, pc = "yield", events = 0, ~torn
               PROVE  state = commanded
    BY DEF CommandsObeyed
  <2>1. \A r \in Relay : commanded[r] = state[r]
    BY DEF CommandInv, Started
  <2>2. state \in [Relay -> {0, 1}] /\ commanded \in [Relay -> {0, 1}]
    BY DEF RelayInv, TypeOK
  <2>q. QED
    BY <2>1, <2>2
<1>q. QED
  BY <1>1, InitCommandInv, NextCommandInv, RelayInvariant, PTL DEF Spec
=============================================================================
