---------------------------- MODULE MCUsbDevice ----------------------------
(***************************************************************************)
(* The USB device library for TLC.  Endpoint 0 and the bulk endpoint of    *)
(* the mass storage class share no state but the interrupt handler, which  *)
(* serves them one after the other; a behaviour is one of                  *)
(*   control   transfers on endpoint 0: packets of two bytes, and answers  *)
(*             longer than asked, of full packets only, and short          *)
(*   proper    every kind of command, a storage that may not be ready      *)
(*   awkward   invalid wrappers, empty commands, a storage that fails      *)
(*   sense     enough failures for the ring of sense codes to go round     *)
(* The medium has four blocks of two bytes.                                *)
(***************************************************************************)
EXTENDS UsbControl, UsbMsc

VARIABLE scenario

Req(type, dir, bRequest, wLength, size, ok) ==
    [type |-> type, dir |-> dir, bRequest |-> bRequest, wLength |-> wLength,
     size |-> size, ok |-> ok]
Common == {
    Req("standard", "in", "GET_DESCRIPTOR", 5, 4, TRUE), Req("standard", "in", "GET_DESCRIPTOR", 5, 6, TRUE),
    Req("standard", "in", "GET_DESCRIPTOR", 0, 5, TRUE), Req("standard", "in", "GET_DESCRIPTOR", 2, 2, FALSE),
    Req("standard", "in", "GET_STATUS", 2, 2, TRUE), Req("standard", "out", "SET_ADDRESS", 0, 7, TRUE),
    Req("standard", "out", "SET_FEATURE", 0, 0, TRUE)}

(* Besides these: for each handler the requests of its class, and some it  *)
(* does not know.                                                          *)
RequestsFor == [
    none |-> Common \cup {
        Req("standard", "in", "GET_CONFIGURATION", 1, 1, TRUE), Req("standard", "in", "SYNCH_FRAME", 2, 2, TRUE),
        Req("standard", "out", "SET_CONFIGURATION", 0, 1, TRUE), Req("standard", "out", "CLEAR_FEATURE", 0, 0, TRUE),
        Req("class", "out", "0x20", 3, 0, TRUE), Req("vendor", "in", "0x01", 2, 2, TRUE)},
    CDC |-> Common \cup {
        Req("class", "out", "0x20", 3, 0, TRUE), Req("class", "in", "0x21", 3, 8, TRUE),
        Req("class", "in", "0x21", 0, 8, TRUE), Req("class", "out", "0x22", 0, 0, TRUE),
        Req("class", "in", "GET_PROTOCOL", 2, 1, TRUE)},
    HID |-> Common \cup {
        Req("class", "out", "SET_IDLE", 0, 0, TRUE), Req("class", "in", "GET_PROTOCOL", 2, 1, TRUE),
        Req("class", "out", "0x20", 3, 0, TRUE), Req("class", "in", "0x21", 0, 8, TRUE)},
    MSC |-> Common \cup {
        Req("class", "in", "GET_MAX_LUN", 1, 1, TRUE), Req("class", "in", "GET_MAX_LUN", 1, 1, FALSE),
        Req("class", "out", "BOT_RESET", 0, 0, TRUE), Req("reserved", "out", "0x01", 0, 0, TRUE)}]
SomeRequests == UNION {RequestsFor[c] : c \in DOMAIN RequestsFor}

Cmd(op, blk, n, xfer, dir) == [op |-> op, blk |-> blk, n |-> n, xfer |-> xfer, dir |-> dir]
Capacity == Cmd("READ_CAPACITY_10", 0, 0, 8, "in")
RequestSense == Cmd("REQUEST_SENSE", 0, 0, 18, "in")
ProperCommands == {Capacity, RequestSense,
    Cmd("TEST_UNIT_READY", 0, 0, 0, "in"), Cmd("INQUIRY", 0, 0, 40, "in"),
    Cmd("MODE_SENSE", 0, 0, 4, "in"), Cmd("READ_FORMAT_CAPACITIES", 0, 0, 12, "in"),
    Cmd("VERIFY_10", 3, 1, 0, "in"), Cmd("START_STOP_UNIT", 0, 0, 0, "in"),
    Cmd("READ_10", 0, 3, 6, "in"), Cmd("READ_10", 3, 2, 4, "in"), Cmd("READ_10", 1, 1, 4, "in"),
    Cmd("WRITE10", 1, 3, 6, "out"), Cmd("WRITE10", 0, 1, 2, "in"), Cmd("FORMAT_UNIT", 0, 0, 0, "in")}
AwkwardCommands == {Capacity, RequestSense,
    Cmd("INVALID", 0, 0, 0, "in"), Cmd("TEST_UNIT_READY", 0, 0, 2, "out"),
    Cmd("WRITE10", 0, 0, 0, "out"),
    Cmd("READ_10", 0, 3, 6, "in"), Cmd("WRITE10", 1, 2, 4, "out")}
SenseCommands == {Capacity, RequestSense, Cmd("FORMAT_UNIT", 0, 0, 0, "in"),
    Cmd("READ_10", 3, 2, 4, "in"), Cmd("TEST_UNIT_READY", 0, 0, 0, "in")}

Awkward == INSTANCE UsbMsc WITH Commands <- AwkwardCommands,
    MayFail <- {"READY", "READ_10", "WRITE10"}
Sense == INSTANCE UsbMsc WITH Commands <- SenseCommands, MaxCommands <- 10

ASSUME ProperRequests /\ UsbMscAssumption /\ Conforming /\ Awkward!Conforming /\ Sense!Conforming

allVars == <<scenario, vars, botVars>>

OnEndpoint0(A) ==
    /\ scenario = "control" /\ A /\ UNCHANGED <<scenario, botVars>>
    /\ host'.req \in RequestsFor[dev.classReqHandler] \cup {NoRequest}
OnBulk(name, A) == scenario = name /\ A /\ UNCHANGED <<scenario, vars>>

MCInit ==
    /\ scenario \in {"control", "proper", "awkward", "sense"} /\ Init /\ BotInit
    /\ scenario # "control" => dev.classReqHandler = "MSC"

MCNext ==
    \/ OnEndpoint0(Next) \/ OnBulk("proper", BotNext)
    \/ OnBulk("awkward", Awkward!BotNext) \/ OnBulk("sense", Sense!BotNext)

MCSpec ==
    /\ MCInit /\ [][MCNext]_allVars
    /\ WF_allVars(\/ OnEndpoint0(Isr) \/ OnBulk("proper", Bulk)
                  \/ OnBulk("awkward", Awkward!Bulk) \/ OnBulk("sense", Sense!Bulk))
    /\ WF_allVars(\/ OnEndpoint0(Host) \/ OnBulk("proper", HostNext)
                  \/ OnBulk("awkward", Awkward!HostNext) \/ OnBulk("sense", Sense!HostNext))

-----------------------------------------------------------------------------
(* The types of both parts. *)
UsbTypeOK == TypeOK /\ BotTypeOK

(* Every proper command, one that fails included, is answered with a       *)
(* status wrapper of its own, without a reset of the transport.            *)
ProperAnswered == scenario = "proper" => EveryCommandAnswered
=============================================================================
