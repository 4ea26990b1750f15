------------------------ MODULE InputRecovery_proofs ------------------------
(***************************************************************************)
(* For any set of nodes, cameras, streams and files: an explicit source is *)
(* never replaced, a camera only by a camera or a stream, and a failed     *)
(* attempt holds no device.                                                *)
(***************************************************************************)
EXTENDS InputRecovery, FiniteSetTheorems, WellFoundedInduction, TLAPS

-----------------------------------------------------------------------------
(* The smallest node, and sets of at most one *)

\* Min of a set of nodes is one of them.
LEMMA MinIsMember ==
  ASSUME NEW S, S \subseteq Nat, S # {}
  PROVE  Min(S) \in S
<1>1. PICK x \in S : \A y \in S : ~(<<y, x>> \in OpToRel(<, Nat))
  BY NatLessThanWellFounded, WFMin
<1>2. ASSUME NEW y \in S PROVE x <= y
  <2>1. x \in Nat /\ y \in Nat OBVIOUS
  <2>2. ~(y < x) BY <1>1, <2>1 DEF OpToRel
  <2>3. QED BY <2>1, <2>2
<1>3. \E z \in S : \A y \in S : z <= y BY <1>2
<1>4. QED BY <1>3 DEF Min

\* At most one node.
Single(d) == d = {} \/ \E x : d = {x}

\* A set with one member at the most has at the most one element.
LEMMA SingleCardinality ==
  ASSUME NEW d, Single(d)
  PROVE  Cardinality(d) <= 1
<1>1. CASE d = {} BY <1>1, FS_EmptySet
<1>2. ASSUME NEW x, d = {x} PROVE Cardinality(d) <= 1
  <2>1. Cardinality({x}) = 1 BY FS_Singleton
  <2>2. QED BY <1>2, <2>1
<1>3. QED BY <1>1, <1>2 DEF Single

\* A source opens one device at the most.
LEMMA DeviceSingle ==
  ASSUME NEW s PROVE Single(DeviceOf(s))
  BY DEF Single, DeviceOf

-----------------------------------------------------------------------------
(* The strengthening *)

\* TypeOK, with the bound on the devices said without a cardinality.
Typed ==
  /\ present \subseteq Things
  /\ registry \in Things \cup {Token}
  /\ original \in Sources /\ cfg \in Sources /\ input \in Sources
  /\ pc \in {"serve", "broken", "scan", "check", "open", "models"}
  /\ scan \in [left : SUBSET Nodes, pin : Nodes \cup {Token}]
  /\ device \subseteq Cameras \cap present /\ Single(device)
  /\ newDevice \subseteq Cameras \cap present /\ Single(newDevice)

\* Only an attempt that loads models has a second input, and its device is another.
Attempt ==
  /\ IF pc = "models" THEN new \in Sources ELSE new = NoSource /\ newDevice = {}
  /\ newDevice \cap device = {}

\* An explicit source is never scanned for, and every place that could replace
\* it holds it.
Kept ==
  Explicit =>
    /\ pc # "scan" /\ cfg = original /\ input = original
    /\ pc = "models" => new = original

IInv == Typed /\ Attempt /\ Kept

\* What a start selects is a source.
LEMMA StartInputIsSource ==
  ASSUME NEW value \in Things \cup {Token}, NEW there \in SUBSET Things
  PROVE  StartInput(value, there) \in Sources
<1>1. AutoDetected(there) \in Nodes
  <2>1. CASE Cameras \cap there = {} BY <2>1, NodesAssumption DEF AutoDetected
  <2>2. CASE Cameras \cap there # {}
    <3>1. Min(Cameras \cap there) \in Cameras \cap there BY <2>2, MinIsMember, NodesAssumption
    <3>2. QED BY <2>2, <3>1, NodesAssumption DEF AutoDetected
  <2>3. QED BY <2>1, <2>2
<1>2. QED BY <1>1 DEF StartInput, Source, Sources, Things

\* The initial state satisfies it.
LEMMA InitIInv == Init => IInv
<1> SUFFICES ASSUME Init PROVE IInv
  OBVIOUS
<1>1. original \in Sources BY StartInputIsSource DEF Init
<1>2. device \subseteq Cameras \cap present /\ Single(device)
  BY DeviceSingle, NodesAssumption DEF Init, CanOpen, DeviceOf
<1>3. Typed BY <1>1, <1>2 DEF Init, Typed, Single
<1>4. Attempt /\ Kept BY DEF Init, Attempt, Kept
<1>5. QED BY <1>3, <1>4 DEF IInv

\* Cameras, servers, files, the user and a fault preserve it.
LEMMA WorldKeeps == IInv /\ (World \/ Fault) => IInv'
<1> SUFFICES ASSUME IInv, World \/ Fault PROVE IInv'
  OBVIOUS
<1> USE DEF IInv, Typed, Attempt, Kept, Explicit
<1>1. ASSUME NEW x \in Things, Appear(x) PROVE IInv'
  BY <1>1 DEF Appear
<1>2. ASSUME NEW x \in Things, Vanish(x) PROVE IInv'
  <2>1. \A d : Single(d) => Single(d \ {x}) BY DEF Single
  <2>2. QED BY <1>2, <2>1 DEF Vanish
<1>3. ASSUME NEW value \in Things \cup {Token}, SetRegistry(value) PROVE IInv'
  BY <1>3 DEF SetRegistry
<1>4. CASE Fault BY <1>4 DEF Fault, world
<1>5. QED BY <1>1, <1>2, <1>3, <1>4 DEF World

\* Every step of recover_pipeline() preserves it.
LEMMA RecoverKeeps == IInv /\ Recover => IInv'
<1> SUFFICES ASSUME IInv, Recover PROVE IInv'
  OBVIOUS
<1> USE DEF IInv, Typed, Attempt, Kept, Explicit, world, Pick, Source, Sources
<1>1. CASE Choose
  <2>1. cfg' \in Sources /\ scan' \in [left : SUBSET Nodes, pin : Nodes \cup {Token}]
    BY <1>1 DEF Choose, Scan, Things
  <2>2. QED BY <1>1, <2>1 DEF Choose, Scan
<1>2. CASE Probe
  <2>1. Min(scan.left) \in Nodes
    <3>1. scan.left \subseteq Nat /\ scan.left # {} BY <1>2, NodesAssumption DEF Probe
    <3>2. Min(scan.left) \in scan.left BY <3>1, MinIsMember
    <3>3. QED BY <3>2
  <2>2. QED BY <1>2, <2>1 DEF Probe, Things
<1>3. CASE ScanEnds BY <1>3 DEF ScanEnds, Things
<1>4. CASE Check BY <1>4 DEF Check
<1>5. CASE Open
  <2>1. CASE CanOpen(cfg, device)
    <3>1. DeviceOf(cfg) \subseteq Cameras \cap present /\ DeviceOf(cfg) \cap device = {}
      BY <2>1 DEF CanOpen, DeviceOf
    <3>2. Single(DeviceOf(cfg)) BY DeviceSingle
    <3>3. QED BY <1>5, <2>1, <3>1, <3>2 DEF Open
  <2>2. CASE ~CanOpen(cfg, device) BY <1>5, <2>2 DEF Open
  <2>3. QED BY <2>1, <2>2
<1>6. CASE LoadFails BY <1>6 DEF LoadFails, Single
<1>7. CASE Publish BY <1>7 DEF Publish, Single
<1>8. QED BY <1>1, <1>2, <1>3, <1>4, <1>5, <1>6, <1>7 DEF Recover

\* Every step preserves the inductive invariant.
LEMMA NextIInv == IInv /\ [Next]_vars => IInv'
<1>1. IInv /\ UNCHANGED vars => IInv'
  BY DEF vars, world, IInv, Typed, Attempt, Kept, Explicit
<1>2. QED BY <1>1, WorldKeeps, RecoverKeeps DEF Next

-----------------------------------------------------------------------------
(* The theorems *)

\* The inductive invariant holds in every reachable state.
THEOREM Invariance == Spec => []IInv
  BY InitIInv, NextIInv, PTL DEF Spec

\* Every variable keeps its type: an input has one device open at the most.
THEOREM TypeCorrect == Spec => []TypeOK
<1>1. IInv => TypeOK
  <2> SUFFICES ASSUME IInv PROVE TypeOK
    OBVIOUS
  <2>1. Cardinality(device) <= 1 /\ Cardinality(newDevice) <= 1
    BY SingleCardinality DEF IInv, Typed
  <2>2. QED BY <2>1 DEF IInv, Typed, Attempt, TypeOK
<1>2. QED BY <1>1, Invariance, PTL

\* A stream or file that was asked for at the start is the source for ever.
THEOREM ExplicitKept == Spec => []ExplicitIsKept
<1>1. IInv => ExplicitIsKept BY DEF IInv, Typed, Kept, Explicit, Sources, ExplicitIsKept
<1>2. QED BY <1>1, Invariance, PTL

\* An attempt that fails at any step holds no device, and two inputs never have
\* the same one.
THEOREM FailuresHoldNothing == Spec => []FailureHoldsNothing
<1>1. IInv => FailureHoldsNothing BY DEF IInv, Attempt, FailureHoldsNothing
<1>2. QED BY <1>1, Invariance, PTL

-----------------------------------------------------------------------------
(* What a camera is replaced by *)

\* The sources that a USB start and steps 2 and 3 of a recovery choose from.
Usable == {Source("usb", n) : n \in Nodes} \cup {Source("rtsp", s) : s \in Streams}

\* Every place a source goes through holds such a one, and a device goes with its source.
FromUsable ==
  /\ original.kind = "usb" =>
       /\ cfg \in Usable /\ input \in Usable
       /\ pc = "models" => new \in Usable
  /\ device \subseteq DeviceOf(input)
  /\ pc = "models" => newDevice \subseteq DeviceOf(new)

\* What a start takes for a camera is a node.
LEMMA StartUsable ==
  ASSUME NEW value \in Things \cup {Token}, NEW there \in SUBSET Things,
         StartInput(value, there).kind = "usb"
  PROVE  StartInput(value, there) \in Usable
<1>1. AutoDetected(there) \in Nodes
  <2>1. CASE Cameras \cap there = {} BY <2>1, NodesAssumption DEF AutoDetected
  <2>2. CASE Cameras \cap there # {}
    <3>1. Min(Cameras \cap there) \in Cameras \cap there BY <2>2, MinIsMember, NodesAssumption
    <3>2. QED BY <2>2, <3>1, NodesAssumption DEF AutoDetected
  <2>3. QED BY <2>1, <2>2
<1>2. CASE value = Token BY <1>1, <1>2 DEF StartInput, Usable
<1>3. CASE value # Token
  <2>1. StartInput(value, there).kind \in {"rtsp", "file"} BY <1>3 DEF StartInput, Source
  <2>2. QED BY <2>1
<1>4. QED BY <1>2, <1>3

\* Each step of a recovery hands on a usable source.
LEMMA RecoverUsable == IInv /\ FromUsable /\ Recover => FromUsable'
<1> SUFFICES ASSUME IInv, FromUsable, Recover PROVE FromUsable'
  OBVIOUS
<1> USE DEF FromUsable, Usable, world, Pick
<1>1. CASE Choose BY <1>1 DEF Choose, Scan, Explicit
<1>2. CASE Probe
  <2>1. Min(scan.left) \in Nodes
    <3>1. scan.left \subseteq Nat /\ scan.left # {} /\ scan.left \subseteq Nodes
      BY <1>2, NodesAssumption DEF Probe, IInv, Typed
    <3>2. Min(scan.left) \in scan.left BY <3>1, MinIsMember
    <3>3. QED BY <3>1, <3>2
  <2>2. QED BY <1>2, <2>1 DEF Probe
<1>3. CASE ScanEnds BY <1>3 DEF ScanEnds, IInv, Typed
<1>4. CASE Check BY <1>4 DEF Check
<1>5. CASE Open BY <1>5 DEF Open
<1>6. CASE LoadFails BY <1>6 DEF LoadFails
<1>7. CASE Publish BY <1>7 DEF Publish
<1>8. QED BY <1>1, <1>2, <1>3, <1>4, <1>5, <1>6, <1>7 DEF Recover

\* A camera is only ever replaced by a node or a recognised stream.
THEOREM UsbKept == Spec => []UsbIsKept
<1>1. Init => FromUsable
  <2> SUFFICES ASSUME Init PROVE FromUsable
    OBVIOUS
  <2>1. original.kind = "usb" => original \in Usable BY StartUsable DEF Init
  <2>2. QED BY <2>1 DEF Init, FromUsable
<1>2. IInv /\ FromUsable /\ [Next]_vars => FromUsable'
  <2> SUFFICES ASSUME IInv, FromUsable, [Next]_vars PROVE FromUsable'
    OBVIOUS
  <2>1. CASE World \/ Fault
    BY <2>1 DEF World, Fault, Appear, Vanish, SetRegistry, world, FromUsable, Usable
  <2>2. CASE Recover BY <2>2, RecoverUsable
  <2>3. CASE UNCHANGED vars BY <2>3 DEF vars, world, FromUsable
  <2>4. QED BY <2>1, <2>2, <2>3 DEF Next
<1>3. FromUsable => UsbIsKept BY DEF FromUsable, Usable, UsbIsKept
<1>4. QED BY <1>1, <1>2, <1>3, Invariance, PTL DEF Spec
=============================================================================
