------------------------------- MODULE RelayNode -------------------------------
(***************************************************************************)
(* A relay device: packets for its abilities (command_settings_handler and  *)
(* uart_packet_handler in dag_node.c) go through one static message and the *)
(* Contiki event queue to main_process in relay.c, which switches the       *)
(* relays and saves their states in the user page of the internal flash     *)
(* (user_flash_update_byte in int-flash-common.c).  The page also holds the *)
(* start-up settings and the OTA flag.  Power may fail at any point.        *)
(*                                                                          *)
(* Commands come long after start-up, when the node has joined the network. *)
(***************************************************************************)
EXTENDS Naturals, Sequences

CONSTANTS
  Packets,   \* the command and settings packets the network may deliver
  Spaced,    \* packets arrive apart: the last one has been handled
  MaxEvents, \* bound: events waiting for main_process
  MaxCuts    \* bound: power cuts

Relay == {1, 2}

DATA_TYPE_COMMAND    == 5
DATA_TYPE_SETTINGS   == 8
DATA_TYPE_UART       == 13
DEVICE_ABILITY_RELAY == 17

DEVICE_ABILITY_RELAY_COMMAND_OFF    == 0
DEVICE_ABILITY_RELAY_COMMAND_ON     == 1
DEVICE_ABILITY_RELAY_COMMAND_TOGGLE == 128
DEVICE_ABILITY_RELAY_COMMAND_BLINK  == 129

START_ON_LAST_STATE == 1
START_ON_ON_STATE   == 2
START_ON_OFF_STATE  == 3

BLANK_FLASH_VALUE == 255

Packet ==
  [data_type : {DATA_TYPE_COMMAND, DATA_TYPE_SETTINGS},
   ability_target : 0 .. 255, ability_number : 0 .. 255, ability_state : 0 .. 255]

ASSUME RelayAssumption ==
  /\ Packets \subseteq Packet
  /\ Spaced \in BOOLEAN /\ MaxEvents \in Nat /\ MaxCuts \in Nat

\* The bytes of the user page that are used, by name and relay.
Last(r)  == <<"last", r>>
Start(r) == <<"start", r>>
OTA_STATUS_FLAG == <<"ota", 0>>
Offset == {"last", "start"} \X Relay \cup {OTA_STATUS_FLAG}

Flag == 3  \* some OTA flag, written before the device was started

VARIABLES
  flash,    \* the user page
  dio,      \* the output pins of the relays
  state,    \* relay_1_state, relay_2_state
  message,  \* message_for_main_process
  events,   \* PROCESS_EVENT_CONTINUE events queued for main_process
  pc,       \* where main_process is
  update,   \* the flash update under way, and where main_process goes on
  cuts,
  commanded, \* history: the states the packets received ask for
  torn       \* history: power failed on a packet or an update not finished

vars == <<flash, dio, state, message, events, pc, update, cuts, commanded, torn>>

Blank == [o \in Offset |-> BLANK_FLASH_VALUE]
None  == [offset |-> OTA_STATUS_FLAG, value |-> 0, buffer |-> Blank, next |-> "yield"]

NoMessage == [data_type |-> 0, ability_target |-> 0, ability_number |-> 0,
              ability_state |-> 0]

Init ==
  /\ flash = [Blank EXCEPT ![OTA_STATUS_FLAG] = Flag]
  /\ dio = [r \in Relay |-> 0] /\ state = [r \in Relay |-> 0]
  /\ message = NoMessage /\ events = 0
  /\ pc = "configure_1" /\ update = None
  /\ cuts = 0
  /\ commanded = [r \in Relay |-> 0] /\ torn = FALSE

-----------------------------------------------------------------------------
(* Saving a byte: the page is read, erased and programmed again.            *)

\* The update of a byte begins; main_process goes on to pc `next' after it.
user_flash_update_byte(offset, value, next) ==
  /\ update' = [offset |-> offset, value |-> value, buffer |-> Blank, next |-> next]
  /\ pc' = "save"

\* Mutant: the buffer is not filled from the flash first.
flash_sector_erase_unread ==
  /\ pc = "save"
  /\ update' = [update EXCEPT !.buffer = [Blank EXCEPT ![update.offset] = update.value]]
  /\ flash' = Blank
  /\ pc' = "erased"
  /\ UNCHANGED <<dio, state, message, events, cuts, commanded, torn>>

\* The page is in the buffer, with the new byte, and erased.
flash_sector_erase ==
  /\ pc = "save"
  /\ update' = [update EXCEPT !.buffer = [flash EXCEPT ![update.offset] = update.value]]
  /\ flash' = Blank
  /\ pc' = "erased"
  /\ UNCHANGED <<dio, state, message, events, cuts, commanded, torn>>

flash_program ==
  /\ pc = "erased"
  /\ flash' = update.buffer
  /\ pc' = update.next
  /\ update' = None
  /\ UNCHANGED <<dio, state, message, events, cuts, commanded, torn>>

-----------------------------------------------------------------------------
(* relay.c                                                                  *)

get_start_state_flash(r) ==
  IF flash[Start(r)] = BLANK_FLASH_VALUE THEN START_ON_LAST_STATE ELSE flash[Start(r)]

get_last_state_flash(r) ==
  IF flash[Last(r)] = BLANK_FLASH_VALUE
  THEN DEVICE_ABILITY_RELAY_COMMAND_OFF ELSE flash[Last(r)]

Known == {DEVICE_ABILITY_RELAY_COMMAND_OFF, DEVICE_ABILITY_RELAY_COMMAND_ON,
          DEVICE_ABILITY_RELAY_COMMAND_TOGGLE}

\* The state a relay in state s goes to; any other command leaves it alone.
Switched(s, command) ==
  IF command \in {DEVICE_ABILITY_RELAY_COMMAND_OFF, DEVICE_ABILITY_RELAY_COMMAND_ON}
  THEN command
  ELSE IF command = DEVICE_ABILITY_RELAY_COMMAND_TOGGLE
  THEN 1 - s
  ELSE s

\* Mutant: a toggle is not saved.
change_dio_state_unsaved(r, command, next) ==
  LET s == Switched(state[r], command)
  IN  /\ state' = [state EXCEPT ![r] = s]
      /\ dio' = [dio EXCEPT ![r] = s]
      /\ IF command = DEVICE_ABILITY_RELAY_COMMAND_TOGGLE
         THEN pc' = next /\ UNCHANGED update
         ELSE user_flash_update_byte(Last(r), s, next)

\* An unknown command leaves the pin alone; the state is saved in any case.
change_dio_state(r, command, next) ==
  LET s == Switched(state[r], command)
  IN  /\ state' = [state EXCEPT ![r] = s]
      /\ dio' = [dio EXCEPT ![r] = IF command \in Known THEN s ELSE @]
      /\ user_flash_update_byte(Last(r), s, next)

\* The command a channel is started with; nothing is done for any other byte.
StartCommand(r) ==
  LET start == get_start_state_flash(r)
  IN  IF start = START_ON_LAST_STATE THEN get_last_state_flash(r)
      ELSE IF start = START_ON_ON_STATE THEN DEVICE_ABILITY_RELAY_COMMAND_ON
      ELSE DEVICE_ABILITY_RELAY_COMMAND_OFF

\* Mutant: the pin is cleared and the saved state is not read.
configure_channel_off(r, next) ==
  change_dio_state(r, DEVICE_ABILITY_RELAY_COMMAND_OFF, next)

configure_channel(r, next) ==
  IF get_start_state_flash(r) \in
       {START_ON_LAST_STATE, START_ON_ON_STATE, START_ON_OFF_STATE}
  THEN change_dio_state(r, StartCommand(r), next)
  ELSE /\ dio' = [dio EXCEPT ![r] = 0]
       /\ pc' = next
       /\ UNCHANGED <<state, update>>

Configure1 == pc = "configure_1" /\ configure_channel(1, "configure_2")
Configure2 == pc = "configure_2" /\ configure_channel(2, "yield")

Configure ==
  /\ Configure1 \/ Configure2
  /\ UNCHANGED <<flash, message, events, cuts, commanded, torn>>

exe_relay_command ==
  IF message.ability_number \in Relay
  THEN change_dio_state(message.ability_number, message.ability_state, "yield")
  ELSE UNCHANGED <<state, dio, update, pc>>

\* settings_change looks for its own targets (1 and 2) behind a test for
\* DEVICE_ABILITY_RELAY (17), so no message changes the start-up settings.
settings_change ==
  IF message.ability_number \in Relay /\ message.ability_target \in Relay
  THEN /\ user_flash_update_byte(Start(message.ability_target),
                                 message.ability_state, "yield")
       /\ UNCHANGED <<state, dio>>
  ELSE UNCHANGED <<state, dio, update, pc>>

\* main_process takes an event and reads the message as it is now.
main_process ==
  /\ pc = "yield" /\ events > 0
  /\ events' = events - 1
  /\ IF message.ability_target # DEVICE_ABILITY_RELAY
     THEN UNCHANGED <<state, dio, update, pc>>
     ELSE IF message.data_type = DATA_TYPE_COMMAND
     THEN exe_relay_command
     ELSE IF message.data_type = DATA_TYPE_SETTINGS
     THEN settings_change
     ELSE UNCHANGED <<state, dio, update, pc>>
  /\ UNCHANGED <<flash, message, cuts, commanded, torn>>

-----------------------------------------------------------------------------
(* dag_node.c: the packets, and the power.                                  *)

CanArrive ==
  /\ pc = "yield"
  /\ events < MaxEvents
  /\ Spaced => events = 0

\* What a packet asks of relay r, in the state s.
Asked(p, r, s) ==
  IF /\ p.data_type = DATA_TYPE_COMMAND
     /\ p.ability_target = DEVICE_ABILITY_RELAY
     /\ p.ability_number = r
  THEN Switched(s, p.ability_state) ELSE s

command_settings_handler(p) ==
  /\ CanArrive
  /\ message' = p
  /\ events' = events + 1
  /\ commanded' = [r \in Relay |-> Asked(p, r, commanded[r])]
  /\ UNCHANGED <<flash, dio, state, pc, update, cuts, torn>>

\* The UART fields are of no use to a relay; the ability fields are left as
\* they were.
uart_packet_handler ==
  /\ CanArrive
  /\ message' = [message EXCEPT !.data_type = DATA_TYPE_UART]
  /\ events' = events + 1
  /\ UNCHANGED <<flash, dio, state, pc, update, cuts, commanded, torn>>

\* A change of state that is not in the page yet.
Unsaved == pc = "save" /\ update.next = "yield" /\ flash[update.offset] # update.value

PowerCut ==
  /\ cuts < MaxCuts
  /\ cuts' = cuts + 1
  /\ dio' = [r \in Relay |-> 0] /\ state' = [r \in Relay |-> 0]
  /\ message' = NoMessage /\ events' = 0
  /\ pc' = "configure_1" /\ update' = None
  /\ torn' = (torn \/ events > 0 \/ pc = "erased" \/ Unsaved)
  /\ UNCHANGED <<flash, commanded>>

Next ==
  \/ Configure
  \/ flash_sector_erase \/ flash_program
  \/ main_process
  \/ \E p \in Packets : command_settings_handler(p)
  \/ uart_packet_handler
  \/ PowerCut

Spec == Init /\ [][Next]_vars

-----------------------------------------------------------------------------
(* Properties.                                                              *)

\* Every variable has its type; the user page holds bytes the code can write.
TypeOK ==
  /\ flash \in [Offset -> 0 .. 255]
  /\ dio \in [Relay -> {0, 1}] /\ state \in [Relay -> {0, 1}]
  /\ message \in [data_type : {0, DATA_TYPE_COMMAND, DATA_TYPE_SETTINGS, DATA_TYPE_UART},
                  ability_target : 0 .. 255, ability_number : 0 .. 255,
                  ability_state : 0 .. 255]
  /\ events \in 0 .. MaxEvents
  /\ pc \in {"configure_1", "configure_2", "yield", "save", "erased"}
  /\ update \in [offset : Offset, value : 0 .. 255, buffer : [Offset -> 0 .. 255],
                 next : {"configure_2", "yield"}]
  /\ cuts \in 0 .. MaxCuts
  /\ commanded \in [Relay -> {0, 1}] /\ torn \in BOOLEAN

\* When main_process waits, the pins, the RAM and the page agree on both
\* relays, whatever was switched, cut short or wiped before.
StatesAgree ==
  pc = "yield" => \A r \in Relay :
    dio[r] = state[r] /\ flash[Last(r)] = state[r]

\* A relay is in the state that the packets received for it ask for, across
\* power cuts that hit no packet and no flash update.  The update of the user
\* page at every start-up must not disturb the relay that is not started yet.
CommandsObeyed ==
  pc = "yield" /\ events = 0 /\ ~torn => state = commanded

\* Saving a relay's state rewrites the page the OTA flag lives in; outside a
\* cut update the flag survives.
OtaFlagKept ==
  ~torn /\ pc # "erased" => flash[OTA_STATUS_FLAG] = Flag
=============================================================================
