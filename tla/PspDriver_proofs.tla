-------------------------- MODULE PspDriver_proofs --------------------------
(***************************************************************************)
(* The PSP's driver over any number of launches, refusals, cable events    *)
(* and packets: the USB stack and the module agree, the event flag is      *)
(* owned, clean launches work, and late requests never send what is old.   *)
(***************************************************************************)
EXTENDS PspDriver, SequenceTheorems, TLAPS

Places == {"none", "open", "load", "start", "reopen", "init", "usbbus",
           "usbdriver", "activate", "run"}

\* What a step of the start-up has already seen to.
StepsDone ==
    /\ app \in {"reopen", "init"} => prx = "started"
    /\ app \in {"usbbus", "usbdriver"} => registered
    /\ mock => app = "run"

ControlTypes ==
    /\ app \in Places
    /\ prx \in {"absent", "loaded", "started"}
    /\ known \in Int /\ kept \in Int /\ refused \in Nat
    /\ started \subseteq {"bus", "driver"}
    /\ created \in Nat /\ 0 \notin flags

\* Without a refusal nothing but a loaded module is left half done, in this
\* launch or an earlier one.
CleanSteps ==
    refused = 0 =>
        /\ app = "load" => prx # "started"
        /\ app = "run" /\ mock => prx = "loaded"
        /\ app \in {"init", "usbbus", "usbdriver", "activate"} => fd
        /\ app = "usbdriver" => "bus" \in started
        /\ app = "activate" => started = {"bus", "driver"}
        /\ app = "run" /\ ~mock => fd /\ active

DriverInv ==
    /\ ControlTypes /\ StepsDone
    /\ StackHoldsDriver /\ FlagOwned /\ StatusHonest
    /\ CleanSteps

LEMMA DriverStep ==
    ASSUME DriverInv, [Next]_vars
    PROVE  DriverInv'
<1> USE DEF DriverInv, ControlTypes, Places, StepsDone, StackHoldsDriver,
            FlagOwned, StatusHonest, CleanSteps, Outcome, Goto, MockMode,
            appVars, stackVars, usbVars, flagVars
<1>1. CASE Launch
  BY <1>1 DEF Launch
<1>2. CASE StartUp
  <2>1. CASE TryOpen
    BY <2>1 DEF TryOpen
  <2>2. CASE LoadPrx
    BY <2>2 DEF LoadPrx
  <2>3. CASE StartPrx
    BY <2>3 DEF StartPrx, ModuleStart
  <2>4. CASE Reopen
    BY <2>4 DEF Reopen
  <2>5. CASE IoctlInit
    BY <2>5 DEF IoctlInit, Register
  <2>6. CASE StartBus
    <3>1. /\ app = "usbbus" /\ app' = "usbdriver" /\ ~mock' /\ fd' = fd
          /\ prx' = prx /\ registered' = registered
          /\ known' = known /\ kept' = kept /\ active' = active
          /\ event' = event /\ flags' = flags /\ created' = created
      BY <2>6 DEF StartBus
    <3>2. /\ refused' \in Nat /\ (refused' = 0 => refused = 0 /\ "bus" \in started')
          /\ \/ started' = started
             \/ "bus" \notin started /\ started' = started \cup {"bus"}
      <4>1. CASE "bus" \notin started /\ Outcome(TRUE) /\ started' = started \cup {"bus"}
        BY <4>1
      <4>2. CASE Outcome("bus" \in started) /\ started' = started
        <5>1. refused' \in Nat /\ (refused' = 0 => refused = 0 /\ "bus" \in started)
          BY <4>2
        <5>2. QED
          BY <4>2, <5>1
      <4>3. QED
        BY <2>6, <4>1, <4>2 DEF StartBus
    <3>3. ~active \/ started' = started
      BY <3>2
    <3>4. started' \subseteq {"bus", "driver"} /\ ("driver" \in started' => "driver" \in started)
      BY <3>2
    <3>5. ControlTypes' /\ StepsDone' /\ FlagOwned'
      BY <3>1, <3>2, <3>4
    <3>6. StackHoldsDriver' /\ StatusHonest' /\ CleanSteps'
      BY <3>1, <3>2, <3>3, <3>4
    <3>7. QED
      BY <3>5, <3>6
  <2>7. CASE StartUsb
    <3>1. /\ app = "usbdriver" /\ app' = "activate" /\ ~mock' /\ fd' = fd
          /\ prx' = prx /\ registered' = registered /\ registered
          /\ known' = known /\ kept' = kept /\ active' = active
      BY <2>7 DEF StartUsb
    <3>2. CASE /\ "driver" \notin started
               /\ \E flag \in BOOLEAN : Outcome(flag) /\ StartFunc(flag)
               /\ started' = started \cup {"driver"} /\ UNCHANGED failed
      <4>1. event = 0 /\ flags = {}
        BY <3>2
      <4>2. /\ created' \in Nat /\ 0 \notin flags' /\ flags' \subseteq {event'}
            /\ event' # 0 => event' \in flags'
        BY <3>2, <4>1 DEF StartFunc
      <4>3. refused' \in Nat /\ (refused' = 0 => refused = 0)
        BY <3>2
      <4>4. QED
        BY <3>1, <3>2, <4>2, <4>3
    <3>3. CASE /\ Outcome("driver" \in started) /\ failed' = TRUE
               /\ UNCHANGED <<started, flagVars>>
      <4>1. /\ refused' \in Nat
            /\ refused' = 0 => refused = 0 /\ "driver" \in started
        BY <3>3
      <4>2. refused' = 0 => started = {"bus", "driver"} /\ fd
        BY <3>1, <4>1
      <4>3. UNCHANGED <<started, flagVars>>
        BY <3>3
      <4>4. QED
        BY <3>1, <4>1, <4>2, <4>3
    <3>4. QED
      BY <2>7, <3>2, <3>3 DEF StartUsb
  <2>8. CASE Activate
    <3>1. /\ app = "activate" /\ app' = "run" /\ ~mock' /\ fd' = fd
          /\ prx' = prx /\ registered' = registered
          /\ known' = known /\ kept' = kept /\ started' = started
          /\ event' = event /\ flags' = flags /\ created' = created
      BY <2>8 DEF Activate
    <3>2. CASE started = {"bus", "driver"} /\ Outcome(TRUE) /\ active' = TRUE
      BY <3>1, <3>2
    <3>3. CASE Outcome(started # {"bus", "driver"}) /\ failed' = TRUE /\ active' = active
      BY <3>1, <3>3
    <3>4. QED
      BY <2>8, <3>2, <3>3 DEF Activate
  <2>9. QED
    BY <1>2, <2>1, <2>2, <2>3, <2>4, <2>5, <2>6, <2>7, <2>8 DEF StartUp
<1>3. CASE PlugOrUnplug
  BY <1>3 DEF PlugOrUnplug
<1>4. CASE IoctlSend
  BY <1>4 DEF IoctlSend, counters
<1>5. CASE CompleteSend
  BY <1>5 DEF CompleteSend, counters
<1>6. CASE Exit
  BY <1>6 DEF Exit, counters
<1>7. CASE TakeOffBus
  BY <1>7 DEF TakeOffBus, counters
<1>8. CASE StopUsb
  BY <1>8 DEF StopUsb, StopFunc, counters
<1>9. CASE Unload
  BY <1>9 DEF Unload, ModuleStop
<1>10. CASE UNCHANGED vars
  BY <1>10 DEF vars, counters
<1>11. QED
  BY <1>1, <1>2, <1>3, <1>4, <1>5, <1>6, <1>7, <1>8, <1>9, <1>10 DEF Next

LEMMA DriverInduction == Spec => []DriverInv
<1>1. Init => DriverInv
  BY DEF Init, DriverInv, ControlTypes, Places, StepsDone, StackHoldsDriver,
         FlagOwned, StatusHonest, CleanSteps
<1>2. QED
  BY <1>1, DriverStep, PTL DEF Spec

\* Besides the drivers it refused to let go the USB stack holds the module's,
\* once, while it is registered, and starts only a registered one
\* (pspdl_driver_kernel.c:200-211, 281-289).
THEOREM StackCorrect == Spec => []StackHoldsDriver
<1>1. DriverInv => StackHoldsDriver
  BY DEF DriverInv
<1>2. QED
  BY <1>1, DriverInduction, PTL

\* g_usb_event is a flag that exists, of a driver that is started, and no other
\* flag does, whether or not one could be created (pspdl_driver_kernel.c:95-168).
THEOREM FlagCorrect == Spec => []FlagOwned
<1>1. DriverInv => FlagOwned
  BY DEF DriverInv
<1>2. QED
  BY <1>1, DriverInduction, PTL

\* "Waiting for Host..." is shown only with the device on the bus
\* (transport_usb.c:65-83).
THEOREM StatusCorrect == Spec => []StatusHonest
<1>1. DriverInv => StatusHonest
  BY DEF DriverInv
<1>2. QED
  BY <1>1, DriverInduction, PTL

\* As long as nothing was refused every launch gets a device on the bus, over
\* whatever earlier launches left behind, wherever they ended, unless it finds a
\* module that was loaded and not started (transport_usb.c:19-85).
THEOREM CleanLaunchCorrect == Spec => []CleanLaunchWorks
<1>1. DriverInv => CleanLaunchWorks
  BY DEF DriverInv, CleanSteps, CleanLaunchWorks
<1>2. QED
  BY <1>1, DriverInduction, PTL

-----------------------------------------------------------------------------
(***************************************************************************)
(* Requests. Those that wait are in the order of their ioctls and newer    *)
(* than what went out, and the buffer they share holds the newest packet.  *)
(***************************************************************************)
RequestInv ==
    /\ asked \in Nat /\ txBuf \in Nat
    /\ queued \in Seq(Nat)
    /\ onWire \in Seq([packet : Nat, request : Nat])
    /\ queued # <<>> => txBuf = asked /\ "driver" \in started
    /\ \A i \in 1..Len(queued) : queued[i] <= asked
    /\ \A i, j \in 1..Len(queued) : i < j => queued[i] < queued[j]
    /\ \A i \in 1..Len(onWire) :
          /\ onWire[i].packet <= asked
          /\ onWire[i].request <= onWire[i].packet
          /\ \A j \in 1..Len(queued) : onWire[i].request < queued[j]
    /\ \A i, j \in 1..Len(onWire) : i < j =>
          /\ onWire[i].request < onWire[j].request
          /\ onWire[i].packet <= onWire[j].packet

LEMMA Elements ==
    ASSUME NEW q \in Seq(Nat), NEW w \in Seq([packet : Nat, request : Nat])
    PROVE  /\ Len(q) \in Nat /\ Len(w) \in Nat
           /\ \A i \in 1..Len(q) : q[i] \in Nat
           /\ \A i \in 1..Len(w) : w[i].packet \in Nat /\ w[i].request \in Nat
<1>1. \A i \in 1..Len(q) : q[i] \in Nat
  BY ElementOfSeq
<1>2. \A i \in 1..Len(w) : w[i] \in [packet : Nat, request : Nat]
  BY ElementOfSeq
<1>3. QED
  BY <1>1, <1>2

LEMMA RequestInvSuffices == RequestInv => SentNeverOlder
<1> SUFFICES ASSUME RequestInv PROVE SentNeverOlder
  OBVIOUS
<1>1. DOMAIN onWire = 1..Len(onWire)
  BY DEF RequestInv
<1>2. \A i \in 1..Len(onWire) : onWire[i].packet \in Nat /\ onWire[i].request \in Nat
  BY Elements DEF RequestInv
<1>3. QED
  BY <1>1, <1>2 DEF RequestInv, SentNeverOlder

\* What a packet that goes out must satisfy for the order to be kept, and what
\* may happen to the queue meanwhile.
LEMMA WireGrows ==
    ASSUME RequestInv, NEW r \in [packet : Nat, request : Nat],
           onWire' = Append(onWire, r),
           asked' \in Nat, asked <= asked', txBuf' \in Nat,
           r.packet <= asked', r.request <= r.packet,
           \A i \in 1..Len(onWire) : /\ onWire[i].request < r.request
                                     /\ onWire[i].packet <= r.packet,
           queued' \in Seq(Nat),
           queued' # <<>> => txBuf' = asked' /\ "driver" \in started',
           \A j \in 1..Len(queued') : queued'[j] <= asked' /\ r.request < queued'[j],
           \A i, j \in 1..Len(queued') : i < j => queued'[i] < queued'[j]
    PROVE  RequestInv'
<1>1. /\ onWire' \in Seq([packet : Nat, request : Nat])
      /\ Len(onWire') = Len(onWire) + 1 /\ Len(onWire) \in Nat
      /\ \A i \in 1..Len(onWire) : onWire'[i] = onWire[i]
      /\ onWire'[Len(onWire) + 1] = r
  BY DEF RequestInv
<1>2. /\ \A i \in 1..Len(onWire) : onWire[i].packet \in Nat /\ onWire[i].request \in Nat
      /\ r.packet \in Nat /\ r.request \in Nat
      /\ \A j \in 1..Len(queued') : queued'[j] \in Nat
  BY Elements DEF RequestInv
<1>3. ASSUME NEW i \in 1..Len(onWire')
      PROVE  /\ onWire'[i].packet <= asked'
             /\ onWire'[i].request <= onWire'[i].packet
             /\ \A j \in 1..Len(queued') : onWire'[i].request < queued'[j]
  <2>1. CASE i \in 1..Len(onWire)
    <3>1. /\ onWire'[i] = onWire[i]
          /\ onWire[i].packet \in Nat /\ onWire[i].request \in Nat
          /\ onWire[i].packet <= asked /\ onWire[i].request <= onWire[i].packet
          /\ onWire[i].request < r.request
      BY <1>1, <1>2, <2>1 DEF RequestInv
    <3>2. asked \in Nat
      BY DEF RequestInv
    <3>3. onWire[i].packet <= asked'
      BY <3>1, <3>2
    <3>4. \A j \in 1..Len(queued') : onWire[i].request < queued'[j]
      BY SMTT(30), <1>2, <3>1
    <3>5. QED
      BY <3>1, <3>3, <3>4
  <2>2. CASE i = Len(onWire) + 1
    BY <1>1, <1>2, <2>2
  <2>3. QED
    BY <1>1, <2>1, <2>2
<1>4. ASSUME NEW i \in 1..Len(onWire'), NEW j \in 1..Len(onWire'), i < j
      PROVE  /\ onWire'[i].request < onWire'[j].request
             /\ onWire'[i].packet <= onWire'[j].packet
  <2>1. i \in 1..Len(onWire) /\ onWire'[i] = onWire[i]
    BY <1>1, <1>4
  <2>2. CASE j \in 1..Len(onWire)
    BY <1>1, <1>4, <2>1, <2>2 DEF RequestInv
  <2>3. CASE j = Len(onWire) + 1
    BY <1>1, <2>1, <2>3
  <2>4. j \in 1..Len(onWire) \/ j = Len(onWire) + 1
    BY <1>1
  <2>5. QED
    BY <2>2, <2>3, <2>4
<1>5. QED
  BY <1>1, <1>3, <1>4 DEF RequestInv

LEMMA SendKeepsOrder ==
    ASSUME RequestInv, IoctlSend
    PROVE  RequestInv'
<1> DEFINE n == asked + 1
<1>1. /\ asked' = n /\ txBuf' = n /\ n \in Nat /\ asked \in Nat
      /\ started' = started
  BY DEF RequestInv, IoctlSend, usbVars
<1>2. \A i \in 1..Len(onWire) :
          /\ onWire[i].packet \in Nat /\ onWire[i].request \in Nat
          /\ onWire[i].packet <= asked /\ onWire[i].request <= asked
  <2>1. \A i \in 1..Len(onWire) : onWire[i].packet \in Nat /\ onWire[i].request \in Nat
    BY Elements DEF RequestInv
  <2>2. ASSUME NEW i \in 1..Len(onWire)
        PROVE  onWire[i].packet <= asked /\ onWire[i].request <= asked
    <3>1. onWire[i].packet <= asked /\ onWire[i].request <= onWire[i].packet
      BY DEF RequestInv
    <3>2. QED
      BY <1>1, <2>1, <3>1
  <2>3. QED
    BY <2>1, <2>2
<1>3. CASE DoneAtOnce /\ Sent(txBuf', asked')
  <2> DEFINE r == [packet |-> n, request |-> n]
  <2>1. onWire' = Append(onWire, r) /\ queued' = <<>> /\ Len(queued') = 0
    BY <1>1, <1>3 DEF Sent, DoneAtOnce
  <2>2. r \in [packet : Nat, request : Nat] /\ r.packet = n /\ r.request = n
    BY <1>1
  <2> HIDE DEF r
  <2>3. queued' \in Seq(Nat)
    BY <2>1 DEF RequestInv
  <2>4. QED
    BY <1>1, <1>2, <2>1, <2>2, <2>3, WireGrows
<1>4. CASE HeldBack
  <2>1. /\ queued' \in Seq(Nat) /\ Len(queued') = Len(queued) + 1
        /\ Len(queued) \in Nat
        /\ \A i \in 1..Len(queued) : queued'[i] = queued[i] /\ queued[i] \in Nat
        /\ queued'[Len(queued) + 1] = n
    BY <1>1, <1>4, AppendProperties, Elements DEF RequestInv, HeldBack
  <2> HIDE DEF n
  <2>2. \A i \in 1..Len(queued) : queued[i] <= asked /\ queued[i] < n
    <3>1. \A i \in 1..Len(queued) : queued[i] <= asked
      BY DEF RequestInv
    <3>2. QED
      BY <1>1, <2>1, <3>1 DEF n
  <2>3. \A i \in 1..Len(queued') : i \in 1..Len(queued) \/ i = Len(queued) + 1
    BY <2>1
  <2>4. \A i \in 1..Len(queued') : queued'[i] <= n
    BY <1>1, <2>1, <2>2, <2>3
  <2>5. ASSUME NEW i \in 1..Len(queued'), NEW j \in 1..Len(queued'), i < j
        PROVE  queued'[i] < queued'[j]
    <3>1. i \in 1..Len(queued) /\ queued'[i] = queued[i] /\ queued[i] < n
      BY <2>1, <2>5, <2>2
    <3>2. CASE j \in 1..Len(queued)
      BY <2>1, <2>5, <3>1, <3>2 DEF RequestInv
    <3>3. CASE j = Len(queued) + 1
      BY <2>1, <3>1, <3>3
    <3>4. QED
      BY <2>3, <3>2, <3>3
  <2>6. ASSUME NEW i \in 1..Len(onWire), NEW j \in 1..Len(queued')
        PROVE  onWire[i].request < queued'[j]
    <3>1. CASE j \in 1..Len(queued)
      BY <2>1, <3>1 DEF RequestInv
    <3>2. CASE j = Len(queued) + 1
      BY <1>1, <1>2, <2>1, <3>2 DEF n
    <3>3. QED
      BY <2>3, <3>1, <3>2
  <2>7. ASSUME NEW i \in 1..Len(onWire)
        PROVE  onWire[i].packet <= n
    BY <1>1, <1>2 DEF n
  <2>8. QED
    BY <1>1, <1>4, <2>1, <2>4, <2>5, <2>6, <2>7 DEF RequestInv, HeldBack
<1>5. CASE SendRefused
  <2>1. queued' = queued /\ onWire' = onWire
    BY <1>5 DEF SendRefused
  <2> HIDE DEF n
  <2>2. \A i \in 1..Len(queued) : queued[i] <= n
    <3>1. \A i \in 1..Len(queued) : queued[i] \in Nat /\ queued[i] <= asked
      BY Elements DEF RequestInv
    <3>2. QED
      BY <1>1, <3>1 DEF n
  <2>3. \A i \in 1..Len(onWire) : onWire[i].packet <= n
    BY <1>1, <1>2 DEF n
  <2>4. QED
    BY <1>1, <2>1, <2>2, <2>3 DEF RequestInv
<1>6. QED
  BY <1>3, <1>4, <1>5 DEF IoctlSend

LEMMA CompleteKeepsOrder ==
    ASSUME RequestInv, CompleteSend
    PROVE  RequestInv'
<1> DEFINE r == [packet |-> txBuf, request |-> queued[1]]
<1>1. /\ onWire' = Append(onWire, r) /\ queued' = Tail(queued)
      /\ queued # <<>> /\ asked' = asked /\ txBuf' = txBuf
      /\ started' = started
  BY DEF CompleteSend, Sent, usbVars
<1>2. /\ queued \in Seq(Nat) /\ Len(queued) \in Nat /\ Len(queued) >= 1
      /\ asked \in Nat /\ txBuf = asked /\ "driver" \in started
      /\ queued[1] \in Nat /\ queued[1] <= asked
  BY <1>1 DEF RequestInv
<1>3. /\ queued' \in Seq(Nat) /\ Len(queued') = Len(queued) - 1
      /\ \A i \in 1..Len(queued') : queued'[i] = queued[i + 1]
  BY <1>1, <1>2
<1>4. ASSUME NEW j \in 1..Len(queued')
      PROVE  queued'[j] <= asked /\ queued[1] < queued'[j]
  <2>1. j + 1 \in 1..Len(queued) /\ 1 \in 1..Len(queued) /\ 1 < j + 1
    BY <1>2, <1>3
  <2>2. queued[j + 1] <= asked /\ queued[1] < queued[j + 1]
    BY <2>1 DEF RequestInv
  <2>3. QED
    BY <1>3, <2>2
<1>5. ASSUME NEW i \in 1..Len(queued'), NEW j \in 1..Len(queued'), i < j
      PROVE  queued'[i] < queued'[j]
  <2>1. i + 1 \in 1..Len(queued) /\ j + 1 \in 1..Len(queued) /\ i + 1 < j + 1
    BY <1>2, <1>3, <1>5
  <2>2. queued[i + 1] < queued[j + 1]
    BY <2>1 DEF RequestInv
  <2>3. QED
    BY <1>3, <2>2
<1>6. r \in [packet : Nat, request : Nat] /\ r.packet = asked /\ r.request = queued[1]
  BY <1>2
<1> HIDE DEF r
<1>7. \A i \in 1..Len(onWire) : /\ onWire[i].request < r.request
                                /\ onWire[i].packet <= r.packet
  BY <1>2, <1>6 DEF RequestInv
<1>8. /\ asked' \in Nat /\ asked <= asked' /\ txBuf' \in Nat
      /\ queued' # <<>> => txBuf' = asked' /\ "driver" \in started'
  BY <1>1, <1>2
<1>9. \A j \in 1..Len(queued') : queued'[j] <= asked' /\ r.request < queued'[j]
  BY <1>1, <1>4, <1>6
<1>10. r.packet <= asked' /\ r.request <= r.packet
  BY <1>1, <1>2, <1>6
<1>11. QED
  BY <1>1, <1>3, <1>5, <1>6, <1>7, <1>8, <1>9, <1>10, WireGrows

LEMMA RequestStep ==
    ASSUME RequestInv, [Next]_vars
    PROVE  RequestInv'
<1>1. ASSUME UNCHANGED ioVars, "driver" \in started => "driver" \in started'
      PROVE  RequestInv'
  BY <1>1 DEF ioVars, RequestInv
<1>2. ASSUME queued' = <<>>, txBuf' \in Nat, UNCHANGED <<asked, onWire>>
      PROVE  RequestInv'
  <2>1. queued' \in Seq(Nat) /\ Len(queued') = 0
    BY <1>2
  <2>2. QED
    BY <1>2, <2>1 DEF RequestInv
<1>3. txBuf \in Nat
  BY DEF RequestInv
<1>4. CASE PlugOrUnplug
  <2>1. /\ queued' = queued \/ queued' = <<>>
        /\ UNCHANGED <<txBuf, asked, onWire>> /\ started' = started
    BY <1>4 DEF PlugOrUnplug, usbVars
  <2>2. QED
    BY <1>1, <1>2, <1>3, <2>1 DEF ioVars
<1>5. CASE StopUsb
  <2>1. PICK d \in started :
            /\ started' = started \ {d}
            /\ IF d = "driver" THEN StopFunc /\ queued' = <<>>
                               ELSE UNCHANGED <<flagVars, queued>>
    BY <1>5 DEF StopUsb
  <2>2. UNCHANGED <<txBuf, asked, onWire>>
    BY <1>5 DEF StopUsb
  <2>3. CASE d = "driver"
    BY <1>2, <1>3, <2>1, <2>2, <2>3
  <2>4. CASE d # "driver"
    BY <1>1, <2>1, <2>2, <2>4 DEF ioVars
  <2>5. QED
    BY <2>3, <2>4
<1>6. CASE Unload
  <2>1. /\ "driver" \notin started /\ txBuf' = 0
        /\ UNCHANGED <<queued, asked, onWire>>
    BY <1>6 DEF Unload
  <2>2. queued = <<>>
    BY <2>1 DEF RequestInv
  <2>3. QED
    BY <1>2, <2>1, <2>2
<1>7. CASE StartUp
  <2>1. "driver" \in started => "driver" \in started'
    BY <1>7 DEF StartUp, usbVars, TryOpen, LoadPrx, StartPrx, Reopen,
                IoctlInit, StartBus, StartUsb, Activate
  <2>2. QED
    BY <1>1, <1>7, <2>1 DEF StartUp
<1>8. CASE Launch \/ Exit \/ TakeOffBus \/ UNCHANGED vars
  BY <1>1, <1>8 DEF Launch, Exit, TakeOffBus, vars, usbVars
<1>9. QED
  BY <1>4, <1>5, <1>6, <1>7, <1>8, SendKeepsOrder, CompleteKeepsOrder DEF Next

\* However late its request is completed, a packet is never replaced by one from
\* before it, and nothing goes out after what is newer
\* (pspdl_driver_kernel.c:212-227).
THEOREM SentNeverOlderCorrect == Spec => []SentNeverOlder
<1>1. Init => RequestInv
  BY DEF Init, RequestInv
<1>2. QED
  BY <1>1, RequestStep, RequestInvSuffices, PTL DEF Spec
=============================================================================
