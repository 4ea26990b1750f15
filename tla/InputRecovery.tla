---------------------------- MODULE InputRecovery ----------------------------
(***************************************************************************)
(* Which source a start selects (main.cpp, input_from_registry.cpp) and    *)
(* which one recover_pipeline() (orchestrator.cpp) opens when it is lost,  *)
(* while cameras come and go and the user edits the registry.              *)
(*                                                                         *)
(* Everything here is the supervisor's thread except Appear, Vanish,       *)
(* SetRegistry and the capture thread's Fault.  A video device streams to  *)
(* one handle only (V4L2 answers EBUSY to a second one); a recovery opens  *)
(* the new input while input_ is still open.  When it happens, the backoff *)
(* and the threads are the Orchestrator's.                                 *)
(***************************************************************************)
EXTENDS Naturals, FiniteSetsExt

CONSTANTS Nodes,     \* the /dev/video numbers there may be
          Cameras,   \* the nodes that capture: a camera also has metadata nodes
          Streams,   \* urls that begin with "rtsp://"
          Variants,  \* "rtsps://", or in capitals
          Paths,     \* files
          Token      \* "usb_camera", nothing, or anything not recognised

ASSUME NodesAssumption == 0 \in Nodes /\ Nodes \subseteq Nat /\ Cameras \subseteq Nodes

Things  == Nodes \cup Streams \cup Variants \cup Paths
Sources == [kind : {"usb", "rtsp", "file"}, name : Things]
NoSource == [kind |-> "none"]

Source(k, x) == [kind |-> k, name |-> x]

VARIABLES present,   \* the nodes, files and servers that are there
          registry,  \* bsext-gaze-video-device
          original,  \* original_input_
          cfg,       \* cfg_.input
          input,     \* the source of input_
          device,    \* the nodes whose device input_ has open (one, or none when
                     \*   it is not a device or the device has gone)
          pc,        \* where the supervisor is
          scan,      \* candidate_dev: the nodes left to probe, and the pin
          new,       \* new_input_tmp: its source and its device, as above
          newDevice

world == <<present, registry>>
vars == <<world, original, cfg, input, device, pc, scan, new, newDevice>>

TypeOK ==
  /\ present \subseteq Things
  /\ registry \in Things \cup {Token}
  /\ {original, cfg, input} \subseteq Sources
  /\ pc \in {"serve", "broken", "scan", "check", "open", "models"}
  /\ scan \in [left : SUBSET Nodes, pin : Nodes \cup {Token}]
  /\ new \in Sources \cup {NoSource}
  /\ \A d \in {device, newDevice} : d \subseteq Cameras \cap present /\ Cardinality(d) <= 1

-----------------------------------------------------------------------------
(* What a start selects *)

\* autoDetectUsbDeviceV4L2(): the first node that captures, or /dev/video0.
\* It does not mind a device that is in use.
AutoDetected(there) ==
  IF Cameras \cap there = {} THEN 0 ELSE Min(Cameras \cap there)

\* make_input_from_registry_value(getVideoDevice()): the variants of a url are
\* recognised, and a pinned node is a path.
StartInput(value, there) ==
  IF value = Token THEN Source("usb", AutoDetected(there))
  ELSE IF value \in Streams \cup Variants THEN Source("rtsp", value)
  ELSE Source("file", value)

\* The device that an open source holds.
DeviceOf(s) == {s.name} \cap Nodes

\* open(): a stream accepts another client; a device that is held does not.
CanOpen(s, held) ==
  /\ s.name \in present
  /\ DeviceOf(s) \subseteq Cameras \ held

\* build_pipeline() has succeeded; otherwise the process ends.
Init ==
  /\ present \in SUBSET Things /\ registry \in Things \cup {Token}
  /\ \E setting \in Things \cup {Token} : original = StartInput(setting, present)
  /\ CanOpen(original, {})
  /\ cfg = original /\ input = original /\ device = DeviceOf(original)
  /\ pc = "serve" /\ scan = [left |-> {}, pin |-> Token]
  /\ new = NoSource /\ newDevice = {}

-----------------------------------------------------------------------------
(* The world: cameras, servers, files and the user *)

Appear(x) ==
  /\ x \notin present
  /\ present' = present \cup {x}
  /\ UNCHANGED <<registry, original, cfg, input, device, pc, scan, new, newDevice>>

\* The handles of a device that is unplugged are dead: another one that appears
\* at the same node later is free.
Vanish(x) ==
  /\ x \in present
  /\ present' = present \ {x}
  /\ device' = device \ {x} /\ newDevice' = newDevice \ {x}
  /\ UNCHANGED <<registry, original, cfg, input, pc, scan, new>>

SetRegistry(value) ==
  /\ registry' = value /\ value # registry
  /\ UNCHANGED <<present, original, cfg, input, device, pc, scan, new, newDevice>>

\* A fetch that returns anything but a frame marks the source broken, whether it
\* is gone or one frame was late; stop_threads() then ends the pipeline, and
\* input_ stays open.
Fault ==
  /\ pc = "serve"
  /\ pc' = "broken"
  /\ UNCHANGED <<world, original, cfg, input, device, scan, new, newDevice>>

-----------------------------------------------------------------------------
(* Seeded faults: variants of definitions below that the properties must    *)
(* catch.                                                                   *)

\* The registry is asked whatever the original source is.
NotExplicit == FALSE

\* The scan stops at the first node whatever it is.
ProbeFirst ==
  /\ pc = "scan" /\ scan.left # {}
  /\ cfg' = Source("usb", Min(scan.left))
  /\ pc' = "check" /\ UNCHANGED scan
  /\ UNCHANGED <<world, original, input, device, new, newDevice>>

\* The new input is not closed when a model does not load.
LoadFailsOpen ==
  /\ pc = "models"
  /\ pc' = "broken"
  /\ UNCHANGED <<world, original, cfg, input, device, scan, new, newDevice>>

-----------------------------------------------------------------------------
(* recover_pipeline() *)

\* A stream or file that was asked for at the start is never replaced.
Explicit == original.kind \in {"rtsp", "file"}

\* cfg_.input is overwritten; step 4 follows.
Pick(s) == cfg' = s /\ pc' = "check" /\ UNCHANGED scan

\* findWorkingCameraDevice() lists /dev once, and probes what it has listed.
Scan(pin) ==
  /\ scan' = [left |-> Nodes \cap present, pin |-> pin]
  /\ pc' = "scan" /\ UNCHANGED cfg

\* Seeded fault: a registry value that step 2 does not recognise is turned into an
\* input as at the start.
ChooseAsAtStart ==
  /\ pc = "broken"
  /\ IF Explicit THEN Pick(original)
     ELSE IF registry = Token THEN Scan(Token)
     ELSE Pick(StartInput(registry, present))
  /\ UNCHANGED <<world, original, input, device, new, newDevice>>

\* Step 2: what to connect to.  A registry value that is none of these leaves
\* cfg_.input as the last attempt left it.
Choose ==
  /\ pc = "broken"
  /\ IF Explicit THEN Pick(original)
     ELSE IF registry = Token THEN Scan(Token)
     ELSE IF registry \in Nodes
          THEN IF registry \in present THEN Pick(Source("usb", registry)) ELSE Scan(registry)
     ELSE IF registry \in Streams THEN Pick(Source("rtsp", registry))
     ELSE Pick(cfg)
  /\ UNCHANGED <<world, original, input, device, new, newDevice>>

\* The next node delivers a frame (and is closed again), or is passed over.
Probe ==
  LET n == Min(scan.left) IN
  /\ pc = "scan" /\ scan.left # {}
  /\ IF CanOpen(Source("usb", n), device) THEN Pick(Source("usb", n))
     ELSE scan' = [scan EXCEPT !.left = @ \ {n}] /\ UNCHANGED <<cfg, pc>>
  /\ UNCHANGED <<world, original, input, device, new, newDevice>>

\* No node delivers: the pin, or else what cfg_.input says already.
ScanEnds ==
  /\ pc = "scan" /\ scan.left = {}
  /\ Pick(IF scan.pin = Token THEN cfg ELSE Source("usb", scan.pin))
  /\ UNCHANGED <<world, original, input, device, new, newDevice>>

\* Step 4: stat() of a device or a file; a stream is taken to be there.
Check ==
  /\ pc = "check"
  /\ pc' = IF cfg.kind = "rtsp" \/ cfg.name \in present THEN "open" ELSE "broken"
  /\ UNCHANGED <<world, original, cfg, input, device, scan, new, newDevice>>

\* Step 5: make_input(), open(), start().
Open ==
  /\ pc = "open"
  /\ IF CanOpen(cfg, device)
     THEN new' = cfg /\ newDevice' = DeviceOf(cfg) /\ pc' = "models"
     ELSE pc' = "broken" /\ UNCHANGED <<new, newDevice>>
  /\ UNCHANGED <<world, original, cfg, input, device, scan>>

\* A model does not load: the new input is stopped and closed.
LoadFails ==
  /\ pc = "models"
  /\ new' = NoSource /\ newDevice' = {}
  /\ pc' = "broken"
  /\ UNCHANGED <<world, original, cfg, input, device, scan>>

\* Steps 6 to 8: the new input replaces the old one, whose last reference
\* closes it, and the threads are launched; that may fail, too.
Publish ==
  /\ pc = "models"
  /\ input' = new /\ device' = newDevice
  /\ new' = NoSource /\ newDevice' = {}
  /\ pc' \in {"serve", "broken"}
  /\ UNCHANGED <<world, original, cfg, scan>>

-----------------------------------------------------------------------------

Recover == Choose \/ Probe \/ ScanEnds \/ Check \/ Open \/ LoadFails \/ Publish
World == \/ \E x \in Things : Appear(x) \/ Vanish(x)
         \/ \E value \in Things \cup {Token} : SetRegistry(value)

Next == World \/ Fault \/ Recover

Spec == Init /\ [][Next]_vars

\* The supervisor runs, and models load and threads are created in the end.
FairSpec == Spec /\ WF_vars(Recover) /\ SF_vars(Publish /\ pc' = "serve")

-----------------------------------------------------------------------------
(* Correctness *)

\* An explicit RTSP or file source "must reconnect to THAT source"
\* (orchestrator.cpp): no sequence of faults, registry edits and failed attempts
\* ever makes the pipeline run on another one.
ExplicitIsKept == original.kind # "usb" => input = original

\* Between attempts at most input_ has a device open: an attempt that fails at
\* any step takes nothing with it that later attempts (or a scan) would find busy.
FailureHoldsNothing == newDevice # {} => pc = "models" /\ newDevice \cap device = {}

\* A pipeline that began on a camera is never on anything but a node or a stream of the
\* kind step 2 recognises, whatever the user writes into the registry and however many
\* attempts fail; what an input has open is the device of its own source.
UsbIsKept ==
  /\ original.kind = "usb" =>
       input \in {Source("usb", n) : n \in Nodes} \cup {Source("rtsp", s) : s \in Streams}
  /\ device \subseteq DeviceOf(input)

\* Something the recovery looks for is there and nobody holds it.
Recoverable ==
  IF original.kind # "usb" THEN CanOpen(original, device)
  ELSE registry \in Nodes \cup {Token} /\
       \E n \in Cameras : CanOpen(Source("usb", n), device)
                          /\ (registry \in present => n = registry)

WorldRests == <>[][FALSE]_world

\* Once the world comes to rest with something to recover, the recovery finds
\* it, whatever earlier attempts left behind in cfg_.input.
ComesBack == WorldRests => (Recoverable ~> pc = "serve" \/ ~Recoverable)

-----------------------------------------------------------------------------
(* What the documentation says and the code does not do *)

\* cpp-design.md: "Recovers automatically from camera disconnects, network
\* failures, and other transient errors".  A camera that was late once and is
\* still there is still open in input_, and cannot be opened again.
CameraComesBack == WorldRests => (device # {} ~> pc = "serve" \/ device = {})
=============================================================================
