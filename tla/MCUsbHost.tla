----------------------------- MODULE MCUsbHost -----------------------------
(***************************************************************************)
(* The USB host stack for TLC.  A behaviour is one of                      *)
(*   host   a device is brought up, in one of the setups below             *)
(*   send   data to a CDC device that was brought up: messages shorter     *)
(*          than, as long as and longer than a packet of two bytes, and an *)
(*          empty one                                                      *)
(***************************************************************************)
EXTENDS UsbHost, UsbCdcSend

VARIABLE scenario

(* A cable pulled between transfers only, and transactions that last       *)
(* longer than the code that starts them.                                  *)
GentleWith(class, refused) ==
    [class |-> class, serial |-> TRUE, refused |-> refused, slow |-> FALSE,
     anyUnplug |-> FALSE, nak |-> FALSE]

(* And a HID device without a serial number, pulled at any time, whose     *)
(* transactions end before the code that started them goes on and whose    *)
(* OUT status stages meet a NAK.                                           *)
MCSetups ==
    {GentleWith("CDC", {}), GentleWith("MSC", {}),
     GentleWith("MSC", {"BOT_RESET", "GET_MAX_LUN"}),
     [class |-> "HID", serial |-> FALSE, refused |-> {}, slow |-> TRUE,
      anyUnplug |-> TRUE, nak |-> TRUE]}

ASSUME UsbCdcSendAssumption /\ UsbHostAssumption

allVars == <<scenario, setup, vars, tvars>>

Hosting(A) == scenario = "host" /\ A /\ UNCHANGED <<scenario, setup, tvars>>
Sending(A) == scenario = "send" /\ A /\ UNCHANGED <<scenario, setup, vars>>

MCInit ==
    /\ scenario \in {"host", "send"}
    /\ Init /\ SendInit
    /\ scenario = "send" => Class = "CDC"

MCNext == Hosting(Next) \/ Sending(SendNext)

MCSpec ==
    /\ MCInit /\ [][MCNext]_allVars
    /\ WF_allVars(Hosting(Main) \/ Sending(App))
    /\ WF_allVars(Hosting(Isr) \/ Sending(BulkIsr))
    /\ WF_allVars(Hosting(Bus) \/ Sending(BulkAnswer))

-----------------------------------------------------------------------------
(* The types of both parts. *)
UsbHostTypeOK == HostTypeOK /\ SendTypeOK
=============================================================================
