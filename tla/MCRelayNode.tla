----------------------------- MODULE MCRelayNode -----------------------------
(***************************************************************************)
(* Packets for both relays and for one the device does not have.            *)
(***************************************************************************)
EXTENDS RelayNode

MCPackets ==
  [data_type : {DATA_TYPE_COMMAND, DATA_TYPE_SETTINGS},
   ability_target : {DEVICE_ABILITY_RELAY, 1},
   ability_number : {1, 2, 3},
   ability_state : {DEVICE_ABILITY_RELAY_COMMAND_OFF, DEVICE_ABILITY_RELAY_COMMAND_ON,
                    DEVICE_ABILITY_RELAY_COMMAND_TOGGLE,
                    DEVICE_ABILITY_RELAY_COMMAND_BLINK}]
=============================================================================
