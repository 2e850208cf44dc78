--------------------------- MODULE MCIoreqServer ---------------------------
(***************************************************************************)
(* Two vCPUs sharing the varstored device.  Each may enable or disable     *)
(* memory decode, place BAR0 at 0xF0001000 or clear it, read the end of    *)
(* configuration space, and read or write the start of the BAR window,    *)
(* all as 4-byte accesses.                                                 *)
(***************************************************************************)
EXTENDS IoreqServer, MCPciDevice

\* COMMAND and BAR0
MCIoCfgWriteOffsets == {PCI_COMMAND, PCI_BASE_ADDRESS_0}

\* memory decode on / BAR base 0, and 0xF0001000 (decode off / BAR base)
MCIoCfgValues == {W(2), <<61440, 4096>>}
=============================================================================
