------------------------------ MODULE UsbBridge ------------------------------
(***************************************************************************)
(* The way from the host to the CAN bus through                            *)
(* modules/usb_can_bridge/src/main.c: a stream of bytes, in which packets  *)
(* of a fixed size follow each other and nothing but two magic bytes says  *)
(* where one begins.  A turn of the main loop reads at most UsbBudget      *)
(* bytes; the byte it reads to find that the budget is used up is lost,    *)
(* and the parser has to find the next packet.                             *)
(*                                                                         *)
(* Bytes are numbered in the order in which the host writes them.  Packets *)
(* are CAN_TX, the only ones tools/can_flash.py writes; two magic bytes,   *)
(* the type, the flags, and then bytes that may look like magic ones.      *)
(*                                                                         *)
(* Left out: the way back and the result of a transmission, which are in   *)
(* FlashTransfer, the heartbeat and the LED.                               *)
(***************************************************************************)
EXTENDS Integers, Sequences

CONSTANTS
  PacketSize,   \* USB_CAN_PACKET_SIZE (16)
  UsbBudget,    \* USB_CAN_MAX_USB_BYTES_PER_LOOP (128)
  FifoSize,     \* bytes the USB stack holds before the host has to wait (256)
  StreamLength  \* bound: bytes the host writes

ASSUME PacketAssumption == PacketSize \in Nat /\ PacketSize >= 6
ASSUME BudgetAssumption == UsbBudget \in Nat /\ UsbBudget >= PacketSize
ASSUME FifoAssumption == FifoSize \in Nat \ {0}
ASSUME StreamAssumption == StreamLength \in Nat

VARIABLES
  payload,       \* what bytes 5 to PacketSize of every packet look like
  written,       \* bytes the host has written
  taken,         \* bytes getchar_timeout_us has returned
  buffer,        \* parser: the bytes kept, index of them
  phase,         \* "usb" or "can": which inner loop of main runs
  processed,     \* usb_bytes_processed
  drops,         \* history: bytes read and not pushed
  genuine,       \* history: packets handled as the host wrote them
  corrupted,     \* history: other packets handled as CAN_TX
  bitrate_asked  \* history: a packet was handled as SET_BITRATE

stream_vars == <<payload, written, taken, buffer, phase, processed, drops, genuine,
                corrupted, bitrate_asked>>

Magic0 == "A5"
Magic1 == "5A"
Free == 5 .. PacketSize

PositionOf(n) == (n % PacketSize) + 1
PacketOf(n) == n \div PacketSize

Byte(n) == CASE PositionOf(n) = 1 -> Magic0
             [] PositionOf(n) = 2 -> Magic1
             [] PositionOf(n) \in {3, 4} -> "other"
             [] OTHER -> payload[PositionOf(n)]

StreamInit ==
  /\ payload \in [Free -> {Magic0, Magic1, "other"}]
  /\ written = 0 /\ taken = 0
  /\ buffer = <<>>
  /\ phase = "usb" /\ processed = 0
  /\ drops = 0 /\ genuine = 0 /\ corrupted = 0
  /\ bitrate_asked = FALSE
-----------------------------------------------------------------------------
(* usb_packet_parser_push and handle_usb_packet *)

\* A faulty parser that gives up a first magic byte when it sees another.
PushForgetful(n) ==
  IF Len(buffer) = 0 THEN IF Byte(n) = Magic0 THEN <<n>> ELSE <<>>
  ELSE IF Len(buffer) = 1 /\ Byte(n) # Magic1 THEN <<>>
  ELSE Append(buffer, n)

Push(n) ==
  IF Len(buffer) = 0 THEN IF Byte(n) = Magic0 THEN <<n>> ELSE <<>>
  ELSE IF Len(buffer) = 1 /\ Byte(n) # Magic1
         THEN IF Byte(n) = Magic0 THEN <<n>> ELSE <<>>
  ELSE Append(buffer, n)

\* The packet holds the bytes of one packet of the host, each in its place.
Genuine(packet) ==
  \A k \in 3 .. PacketSize :
    PositionOf(packet[k]) = k /\ PacketOf(packet[k]) = PacketOf(packet[3])

\* The flags are zero, no packet type; any other byte may be one.
Types(packet) ==
  CASE PositionOf(packet[3]) = 3 -> {"can_tx"}
    [] PositionOf(packet[3]) = 4 -> {"bad"}
    [] OTHER -> {"can_tx", "ping", "set_bitrate", "bad"}

Handle(packet) ==
  \E type \in Types(packet) :
    /\ genuine' = IF Genuine(packet) THEN genuine + 1 ELSE genuine
    /\ corrupted' = IF type = "can_tx" /\ ~Genuine(packet) THEN corrupted + 1 ELSE corrupted
    /\ bitrate_asked' = (bitrate_asked \/ type = "set_bitrate")

Pushed(packet) ==
  IF Len(packet) = PacketSize
    THEN buffer' = <<>> /\ Handle(packet)
    ELSE buffer' = packet /\ UNCHANGED <<genuine, corrupted, bitrate_asked>>
-----------------------------------------------------------------------------
(* main *)

\* USB delivers what the host wrote in pieces of any size.
HostWrites ==
  /\ written < StreamLength /\ written - taken < FifoSize
  /\ written' = written + 1
  /\ UNCHANGED <<payload, taken, buffer, phase, processed, drops, genuine, corrupted,
                 bitrate_asked>>

ReadByte ==
  /\ phase = "usb" /\ taken < written
  /\ processed < UsbBudget
  /\ taken' = taken + 1
  /\ processed' = processed + 1
  /\ Pushed(Push(taken))
  /\ UNCHANGED <<payload, written, phase, drops>>

\* The byte was read before the budget was compared.
DropByte ==
  /\ phase = "usb" /\ taken < written
  /\ processed = UsbBudget
  /\ taken' = taken + 1
  /\ drops' = drops + 1
  /\ phase' = "can"
  /\ UNCHANGED <<payload, written, buffer, processed, genuine, corrupted, bitrate_asked>>

NothingToRead ==
  /\ phase = "usb" /\ taken = written
  /\ phase' = "can"
  /\ UNCHANGED <<payload, written, taken, buffer, processed, drops, genuine, corrupted,
                 bitrate_asked>>

NextTurn ==
  /\ phase = "can"
  /\ phase' = "usb"
  /\ processed' = 0
  /\ UNCHANGED <<payload, written, taken, buffer, drops, genuine, corrupted, bitrate_asked>>

StreamNext == HostWrites \/ ReadByte \/ DropByte \/ NothingToRead \/ NextTurn

StreamSpec == StreamInit /\ [][StreamNext]_stream_vars
-----------------------------------------------------------------------------

\* The free bytes hold no magic pair, and would hold none if one byte of them
\* were lost.
Clean ==
  \A i, j \in Free :
    j \in {i + 1, i + 2} => ~(payload[i] = Magic0 /\ payload[j] = Magic1)

\* What a dropped byte costs: at most the packet it belongs to and the next,
\* at most one garbled frame on the bus, and never a change of its bitrate.
\* It may cost more when the data look like the beginning of a packet.
DamageBounded ==
  Clean =>
    /\ PacketOf(taken) - genuine <= 2 * drops
    /\ corrupted <= drops
    /\ ~bitrate_asked
=============================================================================
