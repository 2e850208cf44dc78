---------------------------- MODULE MCPciDevice ----------------------------
(***************************************************************************)
(* Instantiation of PciDevice for TLC: the single 4 KiB memory BAR that    *)
(* varstored registers, a guest that writes COMMAND, both halves of BAR0,  *)
(* a read-only identity word and the last bytes of configuration space,    *)
(* with values that enable and disable decoding, move the BAR, probe its   *)
(* size and clear it.                                                      *)
(***************************************************************************)
EXTENDS PciDevice

MCInfo ==
  [vendor_id |-> 22611, device_id |-> 49425, revision |-> 1, prog_if |-> 0,
   class |-> 255, subclass |-> 128, header_type |-> 0, subvendor_id |-> 22611,
   subdevice_id |-> 49425, command |-> 0, interrupt_pin |-> 1,
   bus |-> 0, device |-> 4, function |-> 0]

\* a valid BDF, and one whose device number does not fit in 5 bits
MCInfos == {MCInfo, [MCInfo EXCEPT !.device = 32]}

MCBarReg == 0 :> [type |-> 0, order |-> 12]

MCHandlerByte(x) == (7 * x + 3) % 256

\* COMMAND, BAR0 low and high half, VENDOR_ID (read-only)
MCCfgWriteOffsets == {PCI_COMMAND, PCI_BASE_ADDRESS_0, PCI_BASE_ADDRESS_0 + 2,
                      PCI_VENDOR_ID}

\* memory decode on (and, in a BAR, base 0), all ones (sizing probe, every
\* COMMAND bit), and the 4 KiB-aligned base 0xF0001000 (decode off in COMMAND)
MCCfgValues == {W(2), Ones32, <<61440, 4096>>}

\* 0x01020304
MCBarValues == {<<258, 772>>}
=============================================================================
