----------------------------- MODULE IoreqServer -----------------------------
(***************************************************************************)
(* The ioreq-server transport between the guest's vCPUs and varstored,     *)
(* composed with PciDevice.  Each vCPU has one ioreq slot in the shared    *)
(* page.  An access is routed by the hypervisor when the vCPU issues it    *)
(* (against the ranges and BDF registered at that moment) and is served    *)
(* later by varstored's event loop, which calls pci_config_read/write or   *)
(* pci_bar_read/write with the request's address, size and data.  The      *)
(* vCPU resumes once the response is posted.                               *)
(*                                                                         *)
(* The event loop is in varstored.c, outside src/; the slot protocol is    *)
(* written from the spec (transport shim) and Xen's ioreq states:          *)
(* STATE_IOREQ_NONE, STATE_IOREQ_READY, STATE_IORESP_READY.                *)
(***************************************************************************)
EXTENDS PciDevice

CONSTANT Vcpus

VARIABLE ioreq   \* [Vcpus -> [state, req]]: the shared ioreq page

allVars == <<vars, ioreq>>

NoReq == [type |-> "none", mmio |-> FALSE, addr |-> Zero32, size |-> 0,
          val |-> Zero32]

Idle(v) == ioreq[v].state = "none"

-----------------------------------------------------------------------------
(* A vCPU traps on an access the hypervisor forwards to varstored: a      *)
(* configuration cycle to its BDF, or an access inside one of its ranges. *)
Post(v, r) ==
  /\ Idle(v)
  /\ ioreq' = [ioreq EXCEPT ![v] = [state |-> "ready", req |-> r]]
  /\ UNCHANGED vars

IssueConfig(v) ==
  /\ pcidev
  /\ \/ \E o \in CfgWriteOffsets, s \in AccessSizes, x \in CfgValues :
          Post(v, [type |-> "cfgw", mmio |-> FALSE, addr |-> W(o), size |-> s,
                   val |-> x])
     \/ \E o \in CfgReadOffsets, s \in AccessSizes :
          Post(v, [type |-> "cfgr", mmio |-> FALSE, addr |-> W(o), size |-> s,
                   val |-> Zero32])

IssueBar(v) ==
  \E a \in GuestAddrs, mmio \in BOOLEAN : \E s \in BarSizes(mmio) :
    /\ Routed(mmio, a, s)
    /\ \/ Post(v, [type |-> "barr", mmio |-> mmio, addr |-> a, size |-> s,
                   val |-> Zero32])
       \/ \E x \in BarValues :
            Post(v, [type |-> "barw", mmio |-> mmio, addr |-> a, size |-> s,
                     val |-> x])

(* The event loop serves vCPU v's request with the pci.c entry point for  *)
(* its type and posts the response; an assert failure ends the process    *)
(* with the request still pending.                                        *)
Dispatch(r) ==
  CASE r.type = "cfgw" -> PciConfigWrite(r.addr[2], r.size, r.val)
    [] r.type = "cfgr" -> PciConfigRead(r.addr[2], r.size)
    [] r.type = "barr" -> PciBarRead(r.mmio, r.addr, r.size)
    [] r.type = "barw" -> PciBarWrite(r.mmio, r.addr, r.size, r.val)

Serve(v) ==
  /\ ioreq[v].state = "ready"
  /\ Dispatch(ioreq[v].req)
  /\ ioreq' = IF phase' = "aborted" THEN ioreq
              ELSE [ioreq EXCEPT ![v].state = "done"]

(* The vCPU picks up its response and resumes *)
Complete(v) ==
  /\ ioreq[v].state = "done"
  /\ ioreq' = [ioreq EXCEPT ![v] = [state |-> "none", req |-> NoReq]]
  /\ UNCHANGED vars

(* The domain is paused with no request in flight before it is saved *)
Quiesced == \A v \in Vcpus : Idle(v)

-----------------------------------------------------------------------------
IoInit ==
  /\ Init
  /\ ioreq = [v \in Vcpus |-> [state |-> "none", req |-> NoReq]]

IoNext ==
  \/ \E v \in Vcpus : IssueConfig(v) \/ IssueBar(v) \/ Serve(v) \/ Complete(v)
  \/ (PciDeviceRegister \/ \E i \in DOMAIN BarReg : PciBarRegister(i)
      \/ FreshStart \/ PciConfigResume \/ Teardown \/ Done) /\ UNCHANGED ioreq
  \/ Quiesced /\ SaveAndRestart /\ UNCHANGED ioreq

IoSpec == IoInit /\ [][IoNext]_allVars
=============================================================================
