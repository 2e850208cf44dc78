# TLA+ models of varstored

varstored is a UEFI variable service for Xen guests. It runs as a device model
process: it presents a synthetic PCI function with one MMIO BAR, and the guest
firmware's variable requests arrive as accesses to that BAR. This directory
holds TLA+ modules of the parts of the repository that have runtime behaviour,
the TLC configurations that check them, and `PROJECT.json`. That file records
the runs, the mutants that show each property can fail, the map from
definitions to source lines, the findings and the hazards.

## 1. Inventory

### Parts of the system

| Part | Source | Status |
|---|---|---|
| PCI configuration space, BAR table, BAR access splitting | `src/pci.c` | modelled: `PciDevice`, abstracted by `BarWindow` |
| Transport shim / ioreq event loop (`varstored.c`) | not in the tree | partly, from `spec.md` §4.G and §5: `IoreqServer` |
| `create-auth`, the build-time generator of signed Secure Boot payloads | `src/unnamed/part_001` | modelled: `AuthFormat`, `CreateAuth` |
| Makefile | `src/unnamed/part_000` | partly: the `auth` goal in `AuthBuild`; the compile rules are left out |
| Variable store, authenticator, Secure Boot modes, dispatcher, persistence (spec components A-F) | not in the tree | not modelled |

### State of `pci.c`

`pci.c` holds one static `pci_t`:
- `config[256]`: the configuration bytes;
- `mask[256]`: the writable bits of each byte;
- `bar[6]`, each with `enable`, `is_mmio`, `size`, `addr` (`PCI_BAR_UNMAPPED`
  = `~0u` when unmapped) and the handler `ops`.

Outside the process, the hypervisor holds two things for the ioreq server:
- the PCI BDF it forwards configuration cycles for;
- the set of I/O and MMIO ranges it forwards accesses for.

The BAR handler (`bar_ops_t`) has these callbacks:
- `readb`/`writeb`, which are required;
- `readw`/`writew`/`readl`/`writel`, which are optional;
- `map`/`unmap`, which are optional.

### Operations

- `pci_device_register` does four things:
  - it validates the BDF (fail1);
  - it writes the identity fields and COMMAND;
  - it builds the writable mask;
  - it asks Xen to forward the BDF (fail2 if refused).
- `pci_bar_register` writes the BAR type bits and the sizing mask `~(size-1)`,
  and marks the BAR enabled and unmapped.
- `pci_config_write` writes through the mask, then calls `pci_update_config`.
  That runs `pci_update_bar` for each BAR, which does the following:
  - It decodes the base from the BAR and the IO/MEMORY bits of COMMAND.
  - It treats base 0 and the sizing pattern as unmapped.
  - It unmaps the old window: Xen range first, then the handler's `unmap`.
  - It maps the new one: the handler's `map` first, then the Xen range.
- `pci_config_read` returns the configuration bytes, with `0xff` meant for
  lanes past offset 255.
- `pci_bar_read`/`pci_bar_write` work as follows:
  - they find the BAR with `pci_bar_get`, asserting it exists;
  - they call the widest handler callback the access size allows;
  - a wider access is split into 1- or 2-byte calls (`PCI_BAR_READ`/`PCI_BAR_WRITE`).
- `pci_bar_deregister` and `pci_device_deregister` withdraw the ranges and the BDF.
- `pci_config_ptr` and `pci_config_resume` support save and restore on migration:
  - the 256 bytes are saved;
  - a new process copies them back raw;
  - it then rebuilds routing with `pci_update_config`.

### How the parts interact

Xen forwards a guest access to varstored only while the access lies inside a
range varstored asked for. Those ranges exist only because of guest
configuration writes. The BAR handler learns about its window through
`map`/`unmap`.

Correctness therefore means keeping three things equal:
- what the configuration space claims;
- what Xen routes;
- what the handler believes.

### Hard behaviours

See `hazards` in `PROJECT.json`. In short:
- uint32 wrap of the window end in `pci_bar_get`;
- the sizing-probe special case;
- sequences of partial writes that move or toggle a BAR;
- resume from a raw snapshot;
- ignored hypervisor errors;
- accesses routed at issue time but served after a reconfiguration by another
  vCPU;
- two arithmetic slips in `pci_config_read` and `PCI_BAR_WRITE`.

## 2. Modules

### `Word32`

C `uint32_t` arithmetic for TLC, whose integers stop at 2^31-1:
- a word is the pair `<<hi16, lo16>>`;
- addition and subtraction wrap mod 2^32;
- shifts truncate;
- bytes are little-endian.

### `PciDevice` (model of `src/pci.c`)

**Variables:**
- `config`, `mask`, `bar`: the static `pci_t`.
- `ranges`: the Xen rangeset.
- `pcidev`: whether the BDF is forwarded.
- `hmap`: the address last given to the handler's `map`.
- `resp` and `calls`: the result of the current access. `calls` holds the
  handler calls of a BAR write, with the bytes each call receives.
- `snapshot` and `restarts`: migration.
- `info`: the command-line `pci_info_t`.
- `phase`: the process lifecycle.

**Actions:**
- `PciDeviceRegister` and `PciBarRegister` are the register functions, each as
  one action including its failure paths.
- `GuestConfigWrite` is `pci_config_write`. It is modelled whole, including
  `size >> 16` and the trailing `pci_update_config`, which is a fold of
  `PciUpdateBar` over the six BARs.
- `GuestConfigRead` is `pci_config_read`, as written (the `i + 8` shift).
- `GuestBarRead` and `GuestBarWrite` are `pci_bar_read` and `pci_bar_write`. An
  access with no BAR, or of a size the `switch` has no case for, moves to phase
  `aborted`. This models `assert(bar != NULL)` and `assert(0)`. MMIO accesses
  take their sizes from `MmioSizes` (Xen forwards up to 8 bytes whole), port
  I/O from `AccessSizes` (`BarSizes`).
- `handler` is the width set of the BAR's `bar_ops_t`: which of
  `readw`/`readl` (and `writew`/`writel`) are non-NULL. It is chosen in `Init`
  from `Handlers` and never changes.
- `Teardown` is `pci_bar_deregister` for each BAR, then `pci_device_deregister`.
- `SaveAndRestart` saves `pci_config_ptr()` and resets the process.
- `PciConfigResume` models `pci_config_resume`.
- `FreshStart` starts the event loop without a resume.
- `Done` stutters once the process has exited.

**The hypervisor** is an environment assumption written from the spec (§6,
`map_io_range`/`unmap_io_range`):
- a map is refused when it overlaps an existing range or its end wrapped;
- with `HvCanFail`, any map of a step may also be refused (out of memory, the
  server's range limit): `ApplyUpdate` picks the outcome from `HvOutcomes`,
  and `hvfail` records that a map of the last update was refused;
- an unmap removes the exact range;
- `pci.c` ignores both results.

**Properties:**
- `TypeOK`.
- `RoutingFollowsConfig`: while running, Xen's ranges are exactly the windows a
  reference PCI decode of `config` claims, unless the last update met a
  refused map (`hvfail`). With handler map ops, the handler's
  last mapped address agrees. After teardown, nothing is routed.
- `NoAbort`: no forwarded access fails `assert(bar != NULL)` or `assert(0)`.
- `BarWindowRefined`: `PciDevice` implements `BarWindow` (below).
- `WideReadComposesBytes`: a split read returns the handler's bytes, little-endian.
- `HeaderIdentityPreserved`: identity fields and BAR type bits survive every
  write. After a resume they hold only because the restarted process
  registers with the same info and BARs, so the snapshot's read-only bytes
  always agree: the check of a resume is by construction.
- `ReadOnlyBitsKept` (action property): no step of the running device
  changes a bit its mask marks read-only. It is about each lane of an
  unaligned or multi-byte `pci_config_write` (line 425), e.g. a 4-byte write at
  COMMAND that reaches STATUS. Its mutant masks every lane with the first
  byte's mask: STATUS then becomes writable.
- `ConfigReadPastEndIsAllOnes` and `BarWriteDeliversValue` state what spec §6
  says of reads past the end and of decomposed writes. Both are found violated
  (see §4).

### `MCPciDevice`

The constants for TLC:
- **Device:** the varstored device, with BAR0 a 4 KiB memory BAR.
- **Start-up:** two start-up infos, one with a valid BDF and one with device
  number 32, which takes the fail1 path.
- **Handler:** either byte and dword callbacks (`{1, 4}`: 2-byte accesses are
  split into bytes) or byte and word callbacks (`{1, 2}`: 4-byte accesses are
  split into `readw`/`writew` pairs). Between them, every branch of
  `pci_bar_read`'s and `pci_bar_write`'s switch is taken. `MCPciDevice.cfg`
  has both; the other cfgs have `{1, 4}`.
- **Writes:**
  - offsets: COMMAND, BAR0, BAR0+2 and the read-only VENDOR_ID;
  - sizes: 1, 2 and 4;
  - values: `2` (memory decode on, or base 0 in a BAR), `~0` (sizing probe, all
    COMMAND bits) and `0xF0001000` (a base; decode off in COMMAND);
  - these values reach every decode state: base 0, a normal base, the probe
    pattern, and partial bases from byte writes.
- **Reads:** configuration reads at offset 254, where lanes run past the end.
- **BAR accesses:** offsets 0 and 2 of each routed window.
- **Restarts:** one save/restore cycle (`MaxRestarts = 1`).

### `BarWindow` (abstract)

This is what the PCI layer promises, with configuration space abstracted away.
- **State:** whether the process is live; per BAR, the routed window `win`, the
  base the handler was told, `told`; and the last access served.
- **Windows:** while the process is live, each routed window is nonzero,
  aligned to its size, and does not wrap past 2^32.
- **Actions:**
  - `Start` and `Reroute` place or remove windows, and the handler is told in
    the same step;
  - `Access` serves an access inside a routed window;
  - `Other` is a request that touches no window;
  - `Exit` withdraws routing;
  - `Crash` is an abort that leaves everything behind.

`PciDevice` maps onto it with `INSTANCE BarWindow WITH ...`:
- `live` is `phase = "running"`;
- `win[i]` is `bar[i].addr` when `BarRange(bar[i])` is in Xen's `ranges`, and
  unmapped otherwise;
- `told[i]` is `hmap[i]` (or `win[i]` without map ops);
- the access is the offset and size of the last BAR response.

### `IoreqServer` (spec-modelled transport, composed with `PciDevice`)

The event loop is in `varstored.c`, which is not in the tree. Its slot
protocol follows the spec (§4.G, §5) and Xen's ioreq states.
- **State:** `ioreq[v]` for each vCPU: `none`, `ready` or `done`, with the
  request.
- **Issuing:** `IssueConfig(v)` and `IssueBar(v)` post a request. Xen routes a
  BAR access against the ranges of the moment it is issued.
- **Serving:** `Serve(v)` runs the `pci.c` entry point for the request type
  (`Dispatch`) and marks the response, unless the entry point aborted.
- **Completing:** `Complete(v)` frees the slot.
- **Other steps:** registration, start, resume and teardown are the
  `PciDevice` actions. Save needs every slot idle (`Quiesced`): the toolstack
  pauses the domain first.
- **Property:** `NoAbort` (from `PciDevice`), checked in the composition
  where issue and service are separate steps (run `ioreq_stale_route`).
  No liveness property is checked here: with the event loop outside the
  tree, "every ready slot is answered" would follow from the fairness
  assumed for that loop, whatever `pci.c` does.

`MCIoreqServer` has two vCPUs:
- COMMAND and BAR0 writes of "decode on" and of the base `0xF0001000`;
- reads at offset 254;
- 4-byte reads and writes of the window.

### `AuthFormat` (bytes of `create-auth`)

**Writer operators**, from `part_001`:
- `CertsToSigList` / `SigListOf` are `certs_to_sig_list`;
- `SignedBuffer` and `SignData` are `sign_data`;
- `CreateDescriptor` is `create_descriptor`;
- `TimeOfTm` and `EfiTimeBytes` are the timestamp;
- `Ucs2Name`, `VarGuid` and `VendorGuid` handle the name argument.

Bytes are integers, buffers are sequences, and fields are little-endian.
PKCS#7 is abstracted to `<<48, key>> \o msg`: a DER tag, the signer, and
the exact message signed.

**Reader:** below the line is a reader written from spec §3 and §4.C steps
1-2.
- `ParseAuth` checks the header and the bounds of `dwLength`.
- `ParseSigLists` follows each `SignatureListSize` after checking it against
  the bytes left.
- `AuthVerifies` requires four things:
  - a normalized timestamp;
  - X509 lists carrying exactly the given certificates under the vendor GUID;
  - a signature over the message the verifier rebuilds;
  - for that message, the namespace GUID of §3 and the attributes of §3.

### `CreateAuth` (one run of `main`)

**State:**
- `pc`;
- the command line `argv`;
- the three output buffers `bufs` and the next one to write, `next`;
- the exit `status`;
- a small file system `fs` (data and mtime);
- the clock `now`.

**Actions:**
- `Prepare` is everything up to `create_descriptor`. Nothing is written
  before `fopen`, so it is one step: either the first failing check of `Fails`
  (in the code's order) and exit 1, or the buffers.
- `Open` is `fopen`.
- `Write` is each `fwrite`, then `fclose`.
- `Done` stutters once the process has exited.

**Faults:** `Faults` says which of `fopen`, `fwrite` and `fclose` may fail.
- A failed flush leaves the file cut at one of `Cuts`: each buffer boundary
  and each buffer's midpoint. These are the places a reader can tell apart.
- An `fwrite` failure exits 1.
- An `fclose` failure is not seen.

**Property:** `AuthFileVerifies`: a run that exits 0 leaves a file that
`AuthVerifies` accepts for its name, key and certificates.

`MCCreateAuth` covers 260 command lines:
- no key;
- a matching key and certificate;
- a key with a mismatched certificate;
- a key given without a certificate (`-k` without `-c`);
- each of these for PK, KEK, db, dbx and an unsupported name;
- one or two certificates from a good, another good, or an empty file.

### `AuthBuild` (the `auth` goal of the Makefile, composed with `CreateAuth`)

**State:** make's state `mk` (idle, running with the targets left, or waiting
on a recipe), `made` (the last `make auth` exited 0 and nothing changed since)
and the key pairs generated so far, `keys`.

**Make actions**, as GNU make runs them:
- `MakeTool` is the `create-auth` rule;
- `MakeKeys` is the openssl pattern rule, which runs only when the files are
  missing;
- `MakeTarget` remakes a target that is missing or older than a
  prerequisite, and skips it otherwise;
- `RunRecipe` is a `CreateAuth` step;
- `RecipeDone` continues, or stops make on a non-zero status. The target is
  not deleted, because the Makefile has no `.DELETE_ON_ERROR`.
- `MakeFinish` ends a run that made every target.

**User actions:**
- `MakeAuth` runs `make auth`;
- `EditFile` rewrites a list or a certificate;
- `MakeClean` runs `make clean`;
- `Quit` stops.

The user acts only while a whole make run still fits under `MaxTime`
(`MakeTicks` = 5 clock ticks), so every make run can finish.

**Property:** `BuiltAuthsCurrent`: after `make auth` exits 0, every `.auth`
verifies with the current `PK.key` and the certificates its list names.

## 3. Runs

| Run | cfg | Expect | Checks |
|---|---|---|---|
| `pci_routing` | `MCPciDevice.cfg` | pass (12,588 states, ~2-4 min) | `TypeOK`, `RoutingFollowsConfig`, `WideReadComposesBytes`, `HeaderIdentityPreserved`, `NoAbort`, `BarWindowRefined`, `ReadOnlyBitsKept` |
| `pci_cfg_read_past_end` | `MCPciDeviceCfgRead.cfg` | violation | `ConfigReadPastEndIsAllOnes` |
| `pci_split_bar_write` | `MCPciDeviceBarWrite.cfg` | violation | `BarWriteDeliversValue` |
| `pci_hv_refused_map` | `MCPciDeviceHvFail.cfg` | violation | `RoutingFollowsConfig` with `HvCanFail` |
| `pci_wide_mmio_abort` | `MCPciDeviceWide.cfg` | violation | `NoAbort` with 8-byte MMIO accesses |
| `ioreq_stale_route` | `MCIoreqServerNoAbort.cfg` | violation | `NoAbort` with two vCPUs |
| `createauth_layout` | `MCCreateAuth.cfg` | pass (1,912 states) | `AuthFileVerifies`, with fopen and fwrite failing |
| `createauth_unchecked_fclose` | `MCCreateAuthClose.cfg` | violation | `AuthFileVerifies`, with fclose failing |
| `authbuild_current` | `MCAuthBuild.cfg` | pass (9,253 states) | `BuiltAuthsCurrent`, with list edits |
| `authbuild_truncated_target` | `MCAuthBuildWriteFail.cfg` | violation | `BuiltAuthsCurrent`, with fwrite failing |
| `authbuild_cert_not_prereq` | `MCAuthBuildCertChange.cfg` | violation | `BuiltAuthsCurrent`, with certificate edits |

Each passing property has a mutant in `PROJECT.json` that TLC must find
violated:
- the sizing mask written as `~size`;
- `pci_bar_get` excluding the window's base;
- no reset of `bar->addr` after an unmap;
- `readw` called without its NULL test;
- the read shift advanced by bytes instead of bits;
- every lane of a config write masked with `pci.mask[addr]`;
- `addr -= bar->addr` left out of `pci_bar_read` (refinement: the handler
  is given an offset outside its window);
- `dwLength` counting the signature alone;
- a `.auth` rule without its list prerequisite.

**Bounds:**
- one save/restore (`MaxRestarts = 1`) is enough to exercise resume from a raw
  snapshot;
- two vCPUs are the fewest that can interleave an issue with another vCPU's
  reconfiguration;
- buffers of a few bytes still hold every header field at full width;
- `MaxTime = 14` allows two make runs with edits, a clean and a key
  regeneration between them;
- `MaxKeys = 2` allows one regenerated key pair.

**Fairness:** none. Every passing run checks safety properties only. The
one liveness candidate, that the event loop answers every ready ioreq slot,
was dropped: the loop is in `varstored.c`, outside the tree, and the
property would hold by the fairness assumed for it alone.

## 4. Findings

- **`src/pci.c:400`.** A config read ORs `0xff << (i + 8)` into each lane past
  offset 255, where `i * 8` was meant. A 4-byte read at 254 returns `0x0007FC00`,
  not `0xFFFF0000`.
- **`src/pci.c:249`.** `PCI_BAR_WRITE` begins with `(_val) = 0`, so every write
  split into narrower handler calls delivers zeros.
- **`src/pci.c:305`.** `pci_map_bar` drops Xen's error. Once a map is refused,
  `bar->addr` says mapped, and `pci_update_bar` returns early for the same
  address (line 357). The BAR stays unrouted until the guest moves it.
- **`src/pci.c:238`.** An 8-byte MMIO access, which Xen forwards whole,
  reaches `assert(0)` in `pci_bar_read`. Any guest kernel can abort varstored,
  although spec §4.G says wide accesses are decomposed into native widths.
- **`src/pci.c:210`.** An access routed when vCPU 1 issued it is served after
  vCPU 2 moved the BAR, and `assert(bar != NULL)` aborts varstored.
- **`part_001:396`.** `fclose`'s result is ignored: a failed final flush leaves
  a truncated `.auth`, and the exit status is 0.
- **`part_000:59`.** There is no `.DELETE_ON_ERROR`. A `PK.auth` truncated by a
  failed recipe is newer than its prerequisites, so the next `make auth`
  accepts it.
- **`part_000:62` (spec gap).** `KEK.auth` and `db.auth` do not depend on the
  certificates their lists name, so a replaced certificate is not re-enrolled.

## 5. Not modelled

- `pci_config_dump`, which only logs.
- The `sbdf` mismatch paths (lines 386-391, 414-417): Xen forwards only
  this BDF, on segment 0, so neither the check nor the 16-bit truncation of
  the SBDF in `pci_config_write` can be reached. They are not listed as
  hazards.
- Config writes whose size has bits above 16 (`addr += size >> 16`, spec §9).
  `PciConfigWrite` models the encoding, but no access Xen delivers carries
  such a size, so it is not listed as a hazard.
- **Inside `IoreqServer`:** event-channel notification, buffered ioreqs and the
  variable handler behind the BAR. The handler is a stub that returns known
  bytes.
- **In `create-auth`:** real PKCS7 signing and X509 DER, which are abstracted
  as above; `malloc` failure paths; and `getopt` details beyond which of
  `-k`/`-c` are given.
- **In the Makefile:** the `varstored`, `%.o`, `check`, `TAGS` and `print-%`
  rules, which only compile, test or print; and parallel make.
- **The variable engine** (spec components A-F). It is not part of this
  repository: `pci.c`, `create-auth.c` and the Makefile are the whole tree. A
  model of it would transcribe the spec with no code to hold it to. Where
  the engine meets this code (the BAR handler, and the `.auth` layout it
  verifies), the interface is modelled: `HandlerByte` and `Handlers` in
  `PciDevice`, and the reader in `AuthFormat`.
