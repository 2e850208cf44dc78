------------------------------ MODULE PciDevice ------------------------------
(***************************************************************************)
(* The synthetic PCI function of varstored (src/pci.c): its 256-byte       *)
(* configuration space with the per-byte writable mask, the BAR table, and *)
(* the calls it makes into the hypervisor (map/unmap of the BDF and of BAR *)
(* I/O ranges) and into the BAR handler (readb/readw/readl, writeb/...,    *)
(* map/unmap).  The hypervisor's ioreq-server range set is part of the     *)
(* state: it is what decides which guest accesses reach pci_bar_read and   *)
(* pci_bar_write.  32-bit quantities are Word32 values.                    *)
(*                                                                         *)
(* Guest accesses are served one at a time here, as the single-threaded    *)
(* event loop does; module IoreqServer splits them into issue and service. *)
(***************************************************************************)
EXTENDS Integers, FiniteSets, Sequences, TLC, Word32
LOCAL INSTANCE SequencesExt

CONSTANTS
  Infos,         \* the pci_info_t values varstored may be started with
  BarReg,        \* [index -> [type, order]]: the pci_bar_register calls made
  Handlers,      \* the access-width sets a BAR handler may implement
  HasMapOps,     \* whether the handler has map/unmap callbacks
  HandlerByte(_),\* the byte the handler returns at an offset of its window
  CfgWriteOffsets, \* configuration offsets the guest writes
  CfgReadOffsets,  \* configuration offsets the guest reads
  CfgValues,     \* words the guest writes to configuration space
  AccessSizes,   \* access sizes the hypervisor forwards (config and port I/O)
  MmioSizes,     \* sizes of the MMIO accesses it forwards, up to 8
  BarOffsets,    \* offsets into a routed window the guest accesses
  BarValues,     \* words the guest writes to a BAR window
  MaxRestarts,   \* bound on save/restore cycles (migration)
  HvCanFail      \* whether the hypervisor may refuse an I/O range map

(* Register layout, from the PCI header definitions pci.c includes. *)
PCI_CONFIG_SIZE          == 256
PCI_CONFIG_HEADER_SIZE   == 64
PCI_NUM_BAR              == 6
PCI_VENDOR_ID            == 0
PCI_DEVICE_ID            == 2
PCI_COMMAND              == 4
PCI_REVISION_ID          == 8
PCI_CLASS_PROG           == 9
PCI_CLASS_DEVICE         == 10
PCI_CACHE_LINE_SIZE      == 12
PCI_HEADER_TYPE          == 14
PCI_BASE_ADDRESS_0       == 16
PCI_SUBSYSTEM_VENDOR_ID  == 44
PCI_SUBSYSTEM_ID         == 46
PCI_INTERRUPT_LINE       == 60
PCI_INTERRUPT_PIN        == 61
PCI_COMMAND_IO           == 1
PCI_COMMAND_MEMORY       == 2
PCI_COMMAND_MASTER       == 4
PCI_COMMAND_INTX_DISABLE == 1024
PCI_BASE_ADDRESS_SPACE_IO == 1
PCI_BAR_UNMAPPED         == Ones32            \* ~(0u)

ASSUME \A h \in Handlers : 1 \in h /\ h \subseteq {1, 2, 4}   \* readb is required
ASSUME DOMAIN BarReg \subseteq 0 .. PCI_NUM_BAR - 1
ASSUME \A i \in DOMAIN BarReg : BarReg[i].order \in 2 .. 15

VARIABLES
  info,      \* the pci_info_t of this run (from the command line)
  handler,   \* the widths the BAR's bar_ops_t implements (non-NULL read/write)
  phase,     \* "init", "registered", "running", "stopped", "failed", "aborted"
  config,    \* pci.config
  mask,      \* pci.mask
  bar,       \* pci.bar
  ranges,    \* the ioreq server's I/O ranges (set by xc_hvm_*_io_range_*)
  pcidev,    \* whether the BDF is mapped to the ioreq server
  hmap,      \* per BAR, the address the handler was last given by map
  resp,      \* the current guest request and the data returned for it
  calls,     \* handler calls made by the current BAR write
  snapshot,  \* configuration saved through pci_config_ptr for a resume
  restarts,
  hvfail     \* a range map was refused in the last pci_update_config

vars == <<info, handler, phase, config, mask, bar, ranges, pcidev, hmap, resp, calls,
          snapshot, restarts, hvfail>>

NoSnapshot == [o \in {} |-> 0]
NoResp     == [kind |-> "none", off |-> 0, size |-> 0, val |-> Zero32]

-----------------------------------------------------------------------------
(* Byte-level helpers *)
RECURSIVE LE(_, _, _)
LE(f, o, n) == IF n = 0 THEN 0 ELSE f[o] + 256 * LE(f, o + 1, n - 1)

SetLE(f, o, v, n) ==
  [x \in DOMAIN f |-> IF x \in o .. o + n - 1 THEN ByteOf(v, x - o) ELSE f[x]]

Bit(v, b) == (v \div b) % 2 = 1

ZeroBytes == [x \in 0 .. PCI_CONFIG_SIZE - 1 |-> 0]
Indexes   == 0 .. PCI_NUM_BAR - 1
NoBar     == [enable |-> FALSE, is_mmio |-> FALSE, size |-> Zero32, addr |-> Zero32]

(* The hypervisor's rangeset for the server: a map that overlaps an       *)
(* existing range, or whose end wrapped below its start, is refused, and  *)
(* so may be any map when HvCanFail (out of memory, the server's range   *)
(* limit); pci.c drops the error with a (void) cast.                      *)
HvAccepts(rs, r) ==
  /\ ~Lt32(r.hi, r.lo)
  /\ ~\E x \in rs : x.mmio = r.mmio /\ Leq32(x.lo, r.hi) /\ Leq32(r.lo, x.hi)

HvOutcomes == IF HvCanFail THEN BOOLEAN ELSE {FALSE}

HvUnmap(rs, r) == rs \ {r}

(* [addr, addr + size - 1] computed in uint32, as in pci.c *)
BarRange(b) == [mmio |-> b.is_mmio, lo |-> b.addr,
                hi |-> Sub32(Add32(b.addr, b.size), W(1))]

-----------------------------------------------------------------------------
(* pci_device_register: fill the identity fields and the writable mask *)
InitConfig ==
  LET c1 == SetLE(ZeroBytes, PCI_VENDOR_ID, W(info.vendor_id), 2)
      c2 == SetLE(c1, PCI_DEVICE_ID, W(info.device_id), 2)
      c3 == [c2 EXCEPT ![PCI_REVISION_ID] = info.revision,
                       ![PCI_CLASS_PROG] = info.prog_if,
                       ![PCI_CLASS_DEVICE + 1] = info.class,
                       ![PCI_CLASS_DEVICE] = info.subclass,
                       ![PCI_HEADER_TYPE] = info.header_type,
                       ![PCI_INTERRUPT_PIN] = info.interrupt_pin]
      c4 == SetLE(c3, PCI_SUBSYSTEM_VENDOR_ID, W(info.subvendor_id), 2)
      c5 == SetLE(c4, PCI_SUBSYSTEM_ID, W(info.subdevice_id), 2)
  IN  SetLE(c5, PCI_COMMAND, W(info.command), 2)

InitMask ==
  LET cmdMask == PCI_COMMAND_IO + PCI_COMMAND_MEMORY + PCI_COMMAND_MASTER
                   + PCI_COMMAND_INTX_DISABLE
      m1 == [x \in 0 .. PCI_CONFIG_SIZE - 1 |->
               IF x >= PCI_CONFIG_HEADER_SIZE
                  \/ x \in {PCI_CACHE_LINE_SIZE, PCI_INTERRUPT_LINE}
               THEN 255 ELSE 0]
  IN  SetLE(m1, PCI_COMMAND, W(cmdMask), 2)

ValidBdf ==
  info.bus \in 0 .. 255 /\ info.device \in 0 .. 31 /\ info.function \in 0 .. 7

PciDeviceRegister ==
  /\ phase = "init"
  /\ \/ /\ ValidBdf
        /\ config' = InitConfig
        /\ mask' = InitMask
        /\ \/ /\ pcidev' = TRUE             \* xc_hvm_map_pcidev_to_ioreq_server
              /\ phase' = "registered"
           \/ /\ pcidev' = FALSE            \* it failed: goto fail2
              /\ phase' = "failed"
     \/ /\ ~ValidBdf                        \* goto fail1
        /\ phase' = "failed"
        /\ UNCHANGED <<config, mask, pcidev>>
  /\ UNCHANGED <<info, handler, bar, ranges, hmap, resp, calls, snapshot, restarts, hvfail>>

(* pci_bar_register(index, type, order, ops, priv) *)
(* Fault: the mask written as ~size, the sizing mask off by one *)
BarMaskNoDecrement(size) == Not32(size)

BarMask(size) == Not32(Sub32(size, W(1)))           \* ~(size - 1)

PciBarRegister(i) ==
  LET size == Shl32(W(1), BarReg[i].order)          \* 1u << order
  IN
  /\ phase = "registered"
  /\ i < PCI_NUM_BAR
  /\ ~bar[i].enable
  /\ bar' = [bar EXCEPT ![i] = [enable |-> TRUE,
                                is_mmio |-> ~Bit(BarReg[i].type, PCI_BASE_ADDRESS_SPACE_IO),
                                size |-> size, addr |-> PCI_BAR_UNMAPPED]]
  /\ config' = SetLE(config, PCI_BASE_ADDRESS_0 + 4 * i, W(BarReg[i].type), 4)
  /\ mask' = SetLE(mask, PCI_BASE_ADDRESS_0 + 4 * i, BarMask(size), 4)
  /\ UNCHANGED <<info, handler, phase, ranges, pcidev, hmap, resp, calls, snapshot, restarts, hvfail>>

-----------------------------------------------------------------------------
(* BAR mapping.  st is [bar, ranges, hmap, refuse, failed]: refuse says  *)
(* whether the hypervisor refuses maps in this step, failed whether one   *)
(* was refused.  Each operator returns the state after the call.         *)

(* Fault: pci_map_bar without the ops->map callback *)
PciMapBarNoCallback(st, i) ==
  LET r  == BarRange(st.bar[i])
      ok == ~st.refuse /\ HvAccepts(st.ranges, r)
  IN  [st EXCEPT !.ranges = IF ok THEN @ \cup {r} ELSE @,
                 !.failed = @ \/ ~ok]

(* pci_map_bar: handler map callback, then the hypervisor range *)
PciMapBar(st, i) ==
  LET r  == BarRange(st.bar[i])
      ok == ~st.refuse /\ HvAccepts(st.ranges, r)
  IN  [st EXCEPT !.hmap = IF HasMapOps THEN [@ EXCEPT ![i] = st.bar[i].addr] ELSE @,
                 !.ranges = IF ok THEN @ \cup {r} ELSE @,
                 !.failed = @ \/ ~ok]

(* pci_unmap_bar: hypervisor range, then handler unmap callback *)
PciUnmapBar(st, i) ==
  [st EXCEPT !.ranges = HvUnmap(@, BarRange(st.bar[i])),
             !.hmap = IF HasMapOps THEN [@ EXCEPT ![i] = PCI_BAR_UNMAPPED] ELSE @]

(* The address pci_update_bar decodes for BAR i from a configuration *)
UpdateBarAddr(cfg, b, i) ==
  LET raw  == FromBytes(cfg, PCI_BASE_ADDRESS_0 + 4 * i, 4)
      cmd  == LE(cfg, PCI_COMMAND, 2)
      a1   == AlignDown32(raw, IF b.is_mmio THEN 16 ELSE 4) \* &= PCI_BASE_ADDRESS_*_MASK
      a2   == IF \/ ~Bit(cmd, PCI_COMMAND_IO) /\ ~b.is_mmio
                 \/ ~Bit(cmd, PCI_COMMAND_MEMORY) /\ b.is_mmio
              THEN PCI_BAR_UNMAPPED ELSE a1
  IN  IF a2 = Zero32 \/ a2 = BarMask(b.size) THEN PCI_BAR_UNMAPPED ELSE a2

(* Fault: bar->addr is not reset to PCI_BAR_UNMAPPED after the unmap *)
PciUpdateBarNoReset(cfg, st, i) ==
  LET b    == st.bar[i]
      addr == UpdateBarAddr(cfg, b, i)
      st1  == IF b.addr # PCI_BAR_UNMAPPED THEN PciUnmapBar(st, i) ELSE st
      st2  == [st1 EXCEPT !.bar[i].addr = addr]
  IN  IF ~b.enable \/ b.addr = addr THEN st
      ELSE IF addr # PCI_BAR_UNMAPPED THEN PciMapBar(st2, i) ELSE st1

PciUpdateBar(cfg, st, i) ==
  LET b    == st.bar[i]
      addr == UpdateBarAddr(cfg, b, i)
      st1  == IF b.addr # PCI_BAR_UNMAPPED
              THEN [PciUnmapBar(st, i) EXCEPT !.bar[i].addr = PCI_BAR_UNMAPPED]
              ELSE st
      st2  == [st1 EXCEPT !.bar[i].addr = addr]
  IN  IF ~b.enable \/ b.addr = addr THEN st
      ELSE IF addr # PCI_BAR_UNMAPPED THEN PciMapBar(st2, i) ELSE st1

(* pci_update_config: pci_update_bar(i) for each BAR in index order; it   *)
(* returns at once for a BAR that is not enabled, so only those count.   *)
RECURSIVE UpdateBarsIn(_, _, _)
UpdateBarsIn(cfg, st, S) ==
  IF S = {} THEN st
  ELSE LET i == Min(S)
       IN  UpdateBarsIn(cfg, PciUpdateBar(cfg, st, i), S \ {i})

PciUpdateConfig(cfg, st) ==
  UpdateBarsIn(cfg, st, {i \in Indexes : st.bar[i].enable})

MapState(refuse) ==
  [bar |-> bar, ranges |-> ranges, hmap |-> hmap, refuse |-> refuse,
   failed |-> FALSE]

ApplyUpdate(cfg) ==
  \E refuse \in HvOutcomes :
    LET st == PciUpdateConfig(cfg, MapState(refuse))
    IN  /\ bar' = st.bar
        /\ ranges' = st.ranges
        /\ hmap' = st.hmap
        /\ hvfail' = st.failed

-----------------------------------------------------------------------------
(* pci_config_write(addr, size, val), addressed to this BDF *)
(* Fault: every lane masked with pci.mask[addr], the first byte's mask *)
ConfigWriteBytesFirstLaneMask(cfg, msk, o, size, val) ==
  [x \in DOMAIN cfg |->
     IF x \in o .. o + size - 1
     THEN (cfg[x] & (255 - msk[o])) | (ByteOf(val, x - o) & msk[o])
     ELSE cfg[x]]

ConfigWriteBytes(cfg, msk, o, size, val) ==
  [x \in DOMAIN cfg |->
     IF x \in o .. o + size - 1
     THEN (cfg[x] & (255 - msk[x])) | (ByteOf(val, x - o) & msk[x])
     ELSE cfg[x]]

PciConfigWrite(o, size, val) ==
  LET off == o + size \div 65536                   \* addr += size >> 16
      len == size % 65536                          \* size &= 0xffff
      cfg == ConfigWriteBytes(config, mask, off, len, val)
  IN
  /\ phase = "running"
  /\ config' = cfg
  /\ ApplyUpdate(config')
  /\ resp' = NoResp
  /\ calls' = <<>>
  /\ UNCHANGED <<info, handler, phase, mask, pcidev, snapshot, restarts>>

(* pci_config_read(addr, size): bytes past the end OR in 0xff << (i + 8) *)
ConfigReadVal(cfg, o, size) ==
  FoldLeft(LAMBDA v, i : Or32(v, IF o + i < PCI_CONFIG_SIZE
                                 THEN ShlSmall(cfg[o + i], i * 8)
                                 ELSE ShlSmall(255, i + 8)),
           Zero32, [k \in 1 .. size |-> k - 1])

PciConfigRead(o, size) ==
  /\ phase = "running"
  /\ resp' = [kind |-> "cfg", off |-> o, size |-> size,
              val |-> ConfigReadVal(config, o, size)]
  /\ calls' = <<>>
  /\ UNCHANGED <<info, handler, phase, config, mask, bar, ranges, pcidev, hmap,
                 snapshot, restarts, hvfail>>

(* pci_config_resume(data): raw copy, then pci_update_config *)
PciConfigResume ==
  /\ phase = "registered"
  /\ \A i \in DOMAIN BarReg : bar[i].enable
  /\ snapshot # NoSnapshot
  /\ config' = snapshot
  /\ ApplyUpdate(config')
  /\ phase' = "running"
  /\ snapshot' = NoSnapshot                 \* the saved data is consumed
  /\ UNCHANGED <<info, handler, mask, pcidev, resp, calls, restarts>>

-----------------------------------------------------------------------------
(* BAR accesses *)

(* pci_bar_get: the first enabled BAR of the access type whose window,   *)
(* with its end computed in uint32, contains addr; -1 for NULL.          *)
(* Fault: the window's base excluded from the lookup *)
PciBarGetStrictBase(mmio, a) ==
  LET hits == {i \in Indexes :
                 /\ bar[i].enable
                 /\ bar[i].is_mmio = mmio
                 /\ Lt32(bar[i].addr, a)
                 /\ Lt32(a, Add32(bar[i].addr, bar[i].size))}
  IN  IF hits = {} THEN -1 ELSE Min(hits)

PciBarGet(mmio, a) ==
  LET hits == {i \in Indexes :
                 /\ bar[i].enable
                 /\ bar[i].is_mmio = mmio
                 /\ Leq32(bar[i].addr, a)
                 /\ Lt32(a, Add32(bar[i].addr, bar[i].size))}
  IN  IF hits = {} THEN -1 ELSE Min(hits)

(* The width pci_bar_read/pci_bar_write call the handler with: the access *)
(* width if implemented, else readw/writew pairs for 4, else bytes.       *)
(* Fault: readw/writew called for a 2-byte access without the NULL test *)
NativeWidthNoNullTest(size) == IF size \in handler THEN size ELSE 2

NativeWidth(size) ==
  IF size \in handler THEN size
  ELSE IF size = 4 /\ 2 \in handler THEN 2 ELSE 1

(* The handler's readb/readw/readl at an offset of its window *)
HandlerRead(o, w) == FromBytes([x \in o .. o + w - 1 |-> HandlerByte(x)], o, w)

(* Fault: PCI_BAR_READ advancing _shift by _size instead of 8 * _size *)
BarReadValShiftBytes(o, size) ==
  LET w == NativeWidth(size)
  IN  FoldLeft(LAMBDA v, k : Or32(v, Shl32(HandlerRead(o + k * w, w), w * k)),
               Zero32, [j \in 1 .. size \div w |-> j - 1])

(* PCI_BAR_READ: OR the native reads together, shifting by 8 * width *)
BarReadVal(o, size) ==
  LET w == NativeWidth(size)
  IN  FoldLeft(LAMBDA v, k : Or32(v, Shl32(HandlerRead(o + k * w, w), 8 * w * k)),
               Zero32, [j \in 1 .. size \div w |-> j - 1])

(* The handler calls of pci_bar_write, each with the bytes of the value   *)
(* the handler receives (val >> shift, truncated to its width).           *)
(* PCI_BAR_WRITE starts with (_val) = 0, so a split access passes 0s.     *)
BarWriteCalls(o, size, val) ==
  LET w  == NativeWidth(size)
      v0 == IF w = size THEN val ELSE Zero32
  IN  [j \in 1 .. size \div w |->
         [off |-> o + (j - 1) * w, width |-> w,
          val |-> [b \in 1 .. w |-> ByteOf(v0, (j - 1) * w + b - 1)]]]

(* The hypervisor forwards an access only if its whole extent is in a range *)
Routed(mmio, a, size) ==
  LET last == Add32(a, W(size - 1))
  IN  \E r \in ranges : r.mmio = mmio /\ Leq32(r.lo, a) /\ Leq32(a, last)
                       /\ Leq32(last, r.hi)

(* The sizes an access of each kind may have: an MMIO access is forwarded *)
(* whole up to 8 bytes (ioreq_t), port I/O up to 4                       *)
BarSizes(mmio) == IF mmio THEN MmioSizes ELSE AccessSizes

GuestAddrs == {Add32(r.lo, W(k)) : r \in ranges, k \in BarOffsets}

(* Fault: addr -= bar->addr left out *)
WinOffNoSub(a, i) == a[2]

(* offset of a into the window of BAR i (windows are below 64 KiB) *)
WinOff(a, i) == Sub32(a, bar[i].addr)[2]

(* pci_bar_read(is_mmio, addr, size); a NULL bar fails assert(bar != NULL) *)
(* and a size the switch has no case for fails assert(0).                  *)
PciBarRead(mmio, a, size) ==
  LET i == PciBarGet(mmio, a)
  IN
  /\ phase = "running"
  /\ IF i < 0 \/ size \notin {1, 2, 4}
     THEN /\ phase' = "aborted"
          /\ UNCHANGED resp
     ELSE /\ resp' = [kind |-> "bar", off |-> WinOff(a, i), size |-> size,
                      val |-> BarReadVal(WinOff(a, i), size)]
          /\ UNCHANGED phase
  /\ calls' = <<>>
  /\ UNCHANGED <<info, handler, config, mask, bar, ranges, pcidev, hmap, snapshot, restarts,
                 hvfail>>

(* pci_bar_write(is_mmio, addr, size, val) *)
PciBarWrite(mmio, a, size, val) ==
  LET i == PciBarGet(mmio, a)
  IN
  /\ phase = "running"
  /\ IF i < 0 \/ size \notin {1, 2, 4}
     THEN /\ phase' = "aborted"
          /\ UNCHANGED <<resp, calls>>
     ELSE /\ resp' = [kind |-> "barw", off |-> WinOff(a, i), size |-> size,
                      val |-> val]
          /\ calls' = BarWriteCalls(WinOff(a, i), size, val)
          /\ UNCHANGED phase
  /\ UNCHANGED <<info, handler, config, mask, bar, ranges, pcidev, hmap, snapshot, restarts,
                 hvfail>>

-----------------------------------------------------------------------------
(* Teardown: pci_bar_deregister for each BAR, then pci_device_deregister. *)
(* pci_bar_deregister unmaps the range but leaves addr and enable as they *)
(* were and does not call the handler's unmap.                            *)
PciBarDeregister(rs, i) ==
  IF bar[i].addr = PCI_BAR_UNMAPPED THEN rs ELSE HvUnmap(rs, BarRange(bar[i]))

Teardown ==
  /\ phase = "running"
  /\ ranges' = FoldLeft(LAMBDA rs, i : PciBarDeregister(rs, i), ranges,
                        SetToSeq(DOMAIN BarReg))
  /\ pcidev' = FALSE                       \* pci_device_deregister
  /\ phase' = "stopped"
  /\ resp' = NoResp
  /\ calls' = <<>>
  /\ UNCHANGED <<info, handler, config, mask, bar, hmap, snapshot, restarts, hvfail>>

(* Start of the event loop after registration: fresh, or resumed from a *)
(* saved configuration (PciConfigResume).                               *)
FreshStart ==
  /\ phase = "registered"
  /\ \A i \in DOMAIN BarReg : bar[i].enable
  /\ snapshot = NoSnapshot
  /\ phase' = "running"
  /\ UNCHANGED <<info, handler, config, mask, bar, ranges, pcidev, hmap, resp, calls,
                 snapshot, restarts, hvfail>>

(* Save for migration: pci_config_ptr is saved and the process exits; the *)
(* ioreq server, with its ranges and BDF, goes with it.  The restarted    *)
(* process starts from the static zero state.                             *)
SaveAndRestart ==
  /\ phase = "running"
  /\ restarts < MaxRestarts
  /\ snapshot' = config
  /\ restarts' = restarts + 1
  /\ phase' = "init"
  /\ config' = ZeroBytes
  /\ mask' = ZeroBytes
  /\ bar' = [i \in Indexes |-> NoBar]
  /\ ranges' = {}
  /\ pcidev' = FALSE
  /\ hmap' = [i \in Indexes |-> PCI_BAR_UNMAPPED]
  /\ resp' = NoResp
  /\ calls' = <<>>
  /\ hvfail' = FALSE
  /\ UNCHANGED <<info, handler>>

(* The process has exited or aborted *)
Done ==
  /\ phase \in {"stopped", "failed", "aborted"}
  /\ UNCHANGED vars

-----------------------------------------------------------------------------
Init ==
  /\ info \in Infos
  /\ handler \in Handlers
  /\ phase = "init"
  /\ config = ZeroBytes
  /\ mask = ZeroBytes
  /\ bar = [i \in Indexes |-> NoBar]
  /\ ranges = {}
  /\ pcidev = FALSE
  /\ hmap = [i \in Indexes |-> PCI_BAR_UNMAPPED]
  /\ resp = NoResp
  /\ calls = <<>>
  /\ snapshot = NoSnapshot
  /\ restarts = 0
  /\ hvfail = FALSE

(* Guest configuration accesses reach varstored only for its BDF *)
GuestConfigWrite ==
  /\ pcidev
  /\ \E o \in CfgWriteOffsets, s \in AccessSizes, v \in CfgValues :
       PciConfigWrite(o, s, v)

GuestConfigRead ==
  /\ pcidev
  /\ \E o \in CfgReadOffsets, s \in AccessSizes : PciConfigRead(o, s)

GuestBarRead ==
  \E a \in GuestAddrs, mmio \in BOOLEAN : \E s \in BarSizes(mmio) :
    /\ Routed(mmio, a, s)
    /\ PciBarRead(mmio, a, s)

GuestBarWrite ==
  \E a \in GuestAddrs, mmio \in BOOLEAN, v \in BarValues : \E s \in BarSizes(mmio) :
    /\ Routed(mmio, a, s)
    /\ PciBarWrite(mmio, a, s, v)

Next ==
  \/ PciDeviceRegister
  \/ \E i \in DOMAIN BarReg : PciBarRegister(i)
  \/ FreshStart
  \/ PciConfigResume
  \/ GuestConfigWrite
  \/ GuestConfigRead
  \/ GuestBarRead
  \/ GuestBarWrite
  \/ SaveAndRestart
  \/ Teardown
  \/ Done

Spec == Init /\ [][Next]_vars

-----------------------------------------------------------------------------
(* Properties *)

TypeOK ==
  /\ info \in Infos
  /\ handler \in Handlers
  /\ phase \in {"init", "registered", "running", "stopped", "failed", "aborted"}
  /\ config \in [0 .. PCI_CONFIG_SIZE - 1 -> 0 .. 255]
  /\ mask \in [0 .. PCI_CONFIG_SIZE - 1 -> 0 .. 255]
  /\ bar \in [Indexes -> [enable : BOOLEAN, is_mmio : BOOLEAN, size : W32, addr : W32]]
  /\ ranges \subseteq [mmio : BOOLEAN, lo : W32, hi : W32]
  /\ pcidev \in BOOLEAN
  /\ hmap \in [Indexes -> W32]
  /\ hvfail \in BOOLEAN
  /\ resp.kind \in {"none", "cfg", "bar", "barw"} /\ resp.val \in W32
  /\ \A j \in DOMAIN calls : calls[j].width \in handler
  /\ restarts \in 0 .. MaxRestarts

(* The window BAR i claims by the PCI rules: decoding of its space is on  *)
(* in COMMAND and its base is neither 0 nor the top-most slot, the one    *)
(* the sizing pattern ~(size-1) selects.                                  *)
Claimed(i) ==
  LET size == W(2^BarReg[i].order)
      io   == Bit(BarReg[i].type, PCI_BASE_ADDRESS_SPACE_IO)
      raw  == FromBytes(config, PCI_BASE_ADDRESS_0 + 4 * i, 4)
      base == AlignDown32(raw, IF io THEN 4 ELSE 16)
      end  == Add32(base, size)
      on   == Bit(LE(config, PCI_COMMAND, 2),
                  IF io THEN PCI_COMMAND_IO ELSE PCI_COMMAND_MEMORY)
  IN  IF on /\ base # Zero32 /\ end # Zero32
      THEN {[mmio |-> ~io, lo |-> base, hi |-> Sub32(end, W(1))]} ELSE {}

(* Across any sequence of partial configuration writes, BAR moves, decode *)
(* toggles, save/restore and teardown, the hypervisor routes to varstored *)
(* exactly the windows the configuration space claims (pci_update_bar,    *)
(* pci_config_resume, pci_bar_deregister), and the handler was told       *)
(* about each of them through its map callback.  A refused map excuses   *)
(* the update that met it, not the ones after it.                        *)
RoutingFollowsConfig ==
  /\ phase = "running" /\ ~hvfail =>
       /\ ranges = UNION {Claimed(i) : i \in DOMAIN BarReg}
       /\ HasMapOps =>
            \A i \in DOMAIN BarReg :
              hmap[i] = IF Claimed(i) = {} THEN PCI_BAR_UNMAPPED
                        ELSE (CHOOSE r \in Claimed(i) : TRUE).lo
  /\ phase = "stopped" => ranges = {}

(* No guest access the hypervisor forwards makes pci_bar_read or          *)
(* pci_bar_write fail assert(bar != NULL): pci_bar_get, with its uint32   *)
(* end-of-window arithmetic, finds a BAR for every routed address.        *)
NoAbort == phase # "aborted"

(* A read wider than the handler's widths, split by PCI_BAR_READ, returns *)
(* the same little-endian bytes the handler's byte reads would.           *)
WideReadComposesBytes ==
  resp.kind = "bar" =>
    resp.val = FromBytes([x \in resp.off .. resp.off + resp.size - 1 |->
                            HandlerByte(x)], resp.off, resp.size)

(* Whatever the guest writes, the identity fields of the header and the  *)
(* read-only low bits of each BAR (its type) keep the values registered  *)
(* by pci_device_register and pci_bar_register, which is what lets BAR   *)
(* sizing work.                                                          *)
IdentityOffsets ==
  {0, 1, 2, 3, PCI_REVISION_ID, PCI_CLASS_PROG, PCI_CLASS_DEVICE,
   PCI_CLASS_DEVICE + 1, PCI_HEADER_TYPE, 44, 45, 46, 47, PCI_INTERRUPT_PIN}

HeaderIdentityPreserved ==
  phase = "running" =>
    /\ \A o \in IdentityOffsets : config[o] = InitConfig[o]
    /\ \A i \in DOMAIN BarReg :
         Low32(FromBytes(config, PCI_BASE_ADDRESS_0 + 4 * i, 4), BarReg[i].order)
           = W(BarReg[i].type)

(* The bits of a configuration byte its mask marks read-only *)
ReadOnlyBits(b, m) == b & (255 - m)

(* No step of the running device changes a read-only bit: a guest write  *)
(* through pci_config_write changes only the bits pci.mask[addr + i]      *)
(* allows at each lane of an unaligned or multi-byte access, e.g. a       *)
(* 4-byte write at COMMAND that reaches STATUS, and no BAR access or BAR  *)
(* update touches the configuration at all.                               *)
ReadOnlyBitsKept ==
  [][phase = "running" /\ phase' = "running" /\ config' # config =>
       \A o \in {x \in DOMAIN config : config'[x] # config[x]} :
          ReadOnlyBits(config'[o], mask[o]) = ReadOnlyBits(config[o], mask[o])]_vars

(* The base BAR i is routed at, or PCI_BAR_UNMAPPED *)
RoutedBase(i) ==
  IF BarRange(bar[i]) \in ranges THEN bar[i].addr ELSE PCI_BAR_UNMAPPED

BW == INSTANCE BarWindow
        WITH Bars <- DOMAIN BarReg,
             Size <- LAMBDA i : 2^BarReg[i].order,
             live <- phase = "running",
             win  <- [i \in DOMAIN BarReg |-> RoutedBase(i)],
             told <- [i \in DOMAIN BarReg |->
                        IF HasMapOps THEN hmap[i] ELSE RoutedBase(i)],
             acc  <- IF resp.kind \in {"bar", "barw"}
                     THEN [off |-> resp.off, size |-> resp.size]
                     ELSE [off |-> 0, size |-> 0]

(* pci.c implements BarWindow: every routed window is aligned, nonzero   *)
(* and does not wrap; the handler's map/unmap callbacks track routing in *)
(* the same pci_update_bar step; BAR accesses reach the handler inside a *)
(* window; teardown and restart withdraw routing.                        *)
BarWindowRefined == BW!Spec

(* A configuration read returns the configuration bytes, and 0xff for    *)
(* each byte lane past the end of the 256-byte space (spec section 6:     *)
(* unhandled offsets read as 0xFF), as pci_config_read means to.          *)
ConfigReadPastEndIsAllOnes ==
  resp.kind = "cfg" =>
    resp.val = FromBytes([x \in resp.off .. resp.off + resp.size - 1 |->
                            IF x < PCI_CONFIG_SIZE THEN config[x] ELSE 255],
                         resp.off, resp.size)

(* A BAR write split into narrower handler calls by PCI_BAR_WRITE         *)
(* delivers the bytes of the value written, in order.                     *)
BarWriteDeliversValue ==
  resp.kind = "barw" =>
    \A j \in DOMAIN calls :
      /\ calls[j].off = resp.off + (j - 1) * calls[j].width
      /\ \A b \in 1 .. calls[j].width :
           calls[j].val[b] = ByteOf(resp.val, calls[j].off - resp.off + b - 1)
=============================================================================
