-------------------------------- MODULE Links --------------------------------
(***************************************************************************)
(* How a keyboard half of the UHK 80 reaches the other half: over UART     *)
(* while both are plugged together, else over Bluetooth, where the right   *)
(* half is the NUS client and the left half the NUS server.  A link is the *)
(* record                                                                  *)
(*                                                                         *)
(*   open   the media that work as far as this half knows: Uart_IsConnected *)
(*          and Peers[].isConnectedAndConfigured                           *)
(*   via    isConnected[] of device_state.c, the medium used or "none"     *)
(*   free   the count of the transmit semaphore of each medium             *)
(*                                                                         *)
(* and each function of device_state.c, messenger.c, uart.c and nus_*.c    *)
(* that changes it an operator.                                            *)
(***************************************************************************)
EXTENDS Naturals

Devices == {"Left", "Right"}
Media == {"bt", "uart"}
Routes == Media \cup {"none"}

Other(d) == IF d = "Left" THEN "Right" ELSE "Left"

\* NUS_SLOTS of the server and of the client, UART_SLOTS.
Slots(d, m) == IF m = "bt" /\ d = "Left" THEN 2 ELSE 1

AllFree(d) == [m \in Media |-> Slots(d, m)]

Unlinked(d) == [open |-> {}, via |-> "none", free |-> AllFree(d)]

\* UART is preferred to Bluetooth, both by determineChannel, which looks at
\* what is open, and by DeviceState_TriggerUpdate, which stores the result.
determineChannel(open) ==
    CASE "uart" \in open -> "uart"
      [] open = {"bt"} -> "bt"
      [] open = {} -> "none"

TriggerUpdate(link) == [link EXCEPT !.via = determineChannel(link.open)]

\* Bt_SetDeviceConnected, and updateConnectionState when pings arrive.
SetConnected(link, m) ==
    TriggerUpdate([link EXCEPT !.open = @ \cup {m}])

\* Mutant: the semaphore is left as it is.
SetDisconnected_KeepsSlots(link, d, m) ==
    TriggerUpdate([link EXCEPT !.open = @ \ {m}])

\* disconnected(), which calls NusServer_Disconnected or
\* NusClient_Disconnected, and updateConnectionState when pings stay away:
\* both make the semaphore anew.
SetDisconnected(link, d, m) ==
    TriggerUpdate([link EXCEPT !.open = @ \ {m}, !.free[m] = Slots(d, m)])

Take(link, m) == [link EXCEPT !.free[m] = @ - 1]

\* The semaphores are created with their initial count as limit.
Give(link, d, m) ==
    [link EXCEPT !.free[m] = IF @ < Slots(d, m) THEN @ + 1 ELSE @]

\* Mutant: a change from one medium to the other is no new connection.
Connects_OnlyFirst(old, new) == old.via = "none" /\ new.via # "none"

\* handleStateTransition is called when the stored medium changes, and sees
\* a connection unless the new one is "none".
Connects(old, new) == old.via # new.via /\ new.via # "none"
Disconnects(old, new) == old.via # new.via /\ new.via = "none"
=============================================================================
