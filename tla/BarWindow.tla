------------------------------ MODULE BarWindow ------------------------------
(***************************************************************************)
(* What the PCI layer of varstored promises its BAR handlers and the       *)
(* guest, with configuration space abstracted away.  While the process is *)
(* live, each BAR is either not routed or routed as one window of its      *)
(* size, at a nonzero base aligned to the size whose end does not pass     *)
(* 2^32.  The handler is told the base of every window placed and told     *)
(* when it is removed, in the same step.  An access reaches the handler    *)
(* only inside a routed window.  When the process ends, routing is         *)
(* withdrawn.                                                              *)
(***************************************************************************)
EXTENDS Integers, Word32

CONSTANTS
  Bars,      \* the registered BAR indexes
  Size(_)    \* the size in bytes of each, a power of two below 2^16

VARIABLES
  live,      \* the event loop is running
  win,       \* [Bars -> base word, or None]: the routed windows
  told,      \* [Bars -> base word, or None]: what the handler was told
  acc        \* the last access served: [off, size], or NoAccess

bwVars == <<live, win, told, acc>>

None      == Ones32
NoWindows == [i \in Bars |-> None]
NoAccess  == [off |-> 0, size |-> 0]

(* A base a BAR of this size may be decoded at *)
ValidBase(i, b) ==
  /\ b # Zero32
  /\ AlignDown32(b, Size(i)) = b
  /\ Add32(b, W(Size(i))) # Zero32

ValidWindows(w) == \A i \in Bars : w[i] = None \/ ValidBase(i, w[i])

Init ==
  /\ live = FALSE
  /\ win = NoWindows
  /\ told = NoWindows
  /\ acc = NoAccess

(* The event loop starts, with the windows a restored state asks for *)
Start ==
  /\ ~live
  /\ live'
  /\ ValidWindows(win')
  /\ told' = win'
  /\ acc' = NoAccess

(* The guest reconfigures: windows move, appear or go, with the handler  *)
(* told of each                                                          *)
Reroute ==
  /\ live /\ live'
  /\ ValidWindows(win')
  /\ told' = win'
  /\ acc' = NoAccess

(* A routed access served by the handler at an offset of a window *)
Access ==
  /\ live /\ live'
  /\ UNCHANGED <<win, told>>
  /\ \E i \in Bars : win[i] # None /\ acc'.off + acc'.size <= Size(i)

(* A request that touches no window *)
Other ==
  /\ live /\ live'
  /\ UNCHANGED <<win, told>>
  /\ acc' = NoAccess

(* The process ends: on teardown the routes are withdrawn and the handler *)
(* may be left as it was; on a save the handler goes with the process.   *)
Exit ==
  /\ live /\ ~live'
  /\ win' = NoWindows
  /\ told' \in {told, NoWindows}
  /\ acc' = NoAccess

(* The process dies on an assertion, leaving everything behind *)
Crash ==
  /\ live /\ ~live'
  /\ UNCHANGED <<win, told, acc>>

Next == Start \/ Reroute \/ Access \/ Other \/ Exit \/ Crash

Spec == Init /\ [][Next]_bwVars
=============================================================================
