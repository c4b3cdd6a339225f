----------------------------- MODULE PortsProofs -----------------------------
(* An interrupt that reaches the CPU finds its handler, an open port is      *)
(* heard, nothing alone on its line is forgotten, and a closed port is       *)
(* quiet: for any subset of the four ports.                                  *)
EXTENDS PortsProperties, FiniteSetTheorems, TLAPS

(* What a call has done to its port, by the step it is at; a line is masked  *)
(* only when no other port on it is open.                                    *)
JobPart ==
  /\ job.call = "none" => job.at = "end"
  /\ job.call = "open" => job.at \in {"gate", "setup", "enable"}
  /\ job.call = "close" => job.at \in {"mask", "quiet", "shut"}
  /\ job.call # "none" => open[job.dev] /\ op[job.dev] = "none" /\ ~event[job.dev]
  /\ job.call = "open" => ier[job.dev] = {} /\ ~mcr[job.dev]
  /\ job.at = "mask" => \A q \in Partners(job.dev) : ~open[q]
  /\ job.at = "shut" => ier[job.dev] = {} /\ ~mcr[job.dev]

(* An open port has the gate of its line, from the second step on. *)
GatePart ==
  \A p \in Ports : open[p] /\ ~(job.at = "gate" /\ job.dev = p) => Line(p) \in gates

(* An open port drives its line, except between steps of its own call. *)
DrivenPart == \A p \in Ports : open[p] /\ (job.call = "none" \/ job.dev # p) => mcr[p]

(* A request is complete only while it is there. *)
EventPart == \A p \in Ports : event[p] => op[p] # "none"

(* Only a UART that drives its line reports anything. *)
DrivePart == \A p \in Ports : ier[p] # {} => mcr[p]

(* What is on a line beside something else is recorded. *)
SharedPart ==
  /\ DrivePart
  /\ \A l \in Lines : \A r, s \in Conditions(l) : r # s => l \in both
  /\ ForgottenOnlyTogether

PortsInv ==
  /\ PortsTypeOK /\ JobPart /\ GatePart /\ DrivenPart /\ EventPart
  /\ NoStrayInterrupt /\ OpenIsHeard /\ ClosedStaysQuiet /\ SharedPart

LEMMA InitPorts == Init => PortsInv
<1> SUFFICES ASSUME Init PROVE PortsInv
  OBVIOUS
<1>1. PortsTypeOK
  BY PortAssumption DEF Init, PortsTypeOK, NoJob, Lines
<1>2. JobPart /\ GatePart /\ DrivenPart /\ EventPart
  BY PortAssumption DEF Init, JobPart, GatePart, DrivenPart, EventPart, NoJob
<1>3. NoStrayInterrupt /\ OpenIsHeard /\ ClosedStaysQuiet
  BY DEF Init, NoStrayInterrupt, OpenIsHeard, ClosedStaysQuiet
<1>4. SharedPart
  BY DEF Init, SharedPart, DrivePart, ForgottenOnlyTogether, Conditions, High, Reports
<1> QED BY <1>1, <1>2, <1>3, <1>4 DEF PortsInv

(* The parts without the latches. *)
StillPart ==
  /\ PortsTypeOK /\ JobPart /\ GatePart /\ DrivenPart /\ EventPart
  /\ OpenIsHeard /\ ClosedStaysQuiet

(* A line that is high has a gate: the port that drives it is open and its   *)
(* call to serial_open has passed the gate.                                  *)
LEMMA HighHasGate == StillPart => \A l \in Lines : High(l) => l \in gates
<1> SUFFICES ASSUME StillPart, NEW l \in Lines, High(l)
             PROVE  l \in gates
  OBVIOUS
<1>1. PICK p \in Ports : Line(p) = l /\ mcr[p] /\ Reports(p) # {}
  BY DEF High
<1>2. open[p]
  BY <1>1 DEF StillPart, ClosedStaysQuiet
<1>3. ~(job.at = "gate" /\ job.dev = p)
  BY <1>1 DEF StillPart, JobPart, PortsTypeOK
<1> QED BY <1>1, <1>2, <1>3 DEF StillPart, GatePart

LEMMA HighGetsGate == StillPart' => \A l \in Lines : High(l)' => l \in gates'
<1>1. (StillPart => \A l \in Lines : High(l) => l \in gates)'
  BY HighHasGate, PTL
<1> QED BY <1>1

(* So the edges of a step are on lines with gates. *)
LEMMA LatchesFollow ==
  ASSUME NoStrayInterrupt, StillPart', gates \subseteq gates',
         irr' \subseteq irr \cup {l \in Lines : High(l)'}
  PROVE  NoStrayInterrupt'
BY HighGetsGate DEF NoStrayInterrupt

(* The latches and the history are of lines. *)
LEMMA WiredTypes ==
  ASSUME irr \subseteq Lines, Wired
  PROVE  irr' \subseteq Lines /\ both' \subseteq Lines
BY DEF Wired, Rising

(* serial_open: the port is claimed, the gate set, the UART programmed, and  *)
(* the line unmasked.                                                        *)
LEMMA OpenStill ==
  ASSUME StillPart, NEW p \in Ports, Open(p)
  PROVE  StillPart'
<1> USE DEF StillPart, Open, Idle, device, uart, pic, hist
<1>1. PortsTypeOK'
  BY DEF PortsTypeOK
<1>2. JobPart' /\ EventPart'
  BY DEF JobPart, EventPart, ClosedStaysQuiet, PortsTypeOK
<1>3. GatePart' /\ OpenIsHeard' /\ DrivenPart' /\ ClosedStaysQuiet'
  BY DEF GatePart, OpenIsHeard, DrivenPart, ClosedStaysQuiet, PortsTypeOK, JobPart
<1> QED BY <1>1, <1>2, <1>3

LEMMA OpenGateStill ==
  ASSUME StillPart, OpenGate
  PROVE  StillPart'
<1> USE DEF StillPart, OpenGate, At, Goto, device, uart, pic, hist
<1>1. Line(job.dev) \in gates'
  BY DEF GatePart, Partners, Line, PortsTypeOK
<1>2. PortsTypeOK'
  BY DEF PortsTypeOK, Line, Lines
<1>3. JobPart' /\ EventPart'
  BY DEF JobPart, EventPart, PortsTypeOK
<1>4. GatePart' /\ OpenIsHeard' /\ DrivenPart' /\ ClosedStaysQuiet'
  BY <1>1 DEF GatePart, OpenIsHeard, DrivenPart, ClosedStaysQuiet, PortsTypeOK
<1> QED BY <1>2, <1>3, <1>4

LEMMA OpenSetupStill ==
  ASSUME StillPart, OpenSetup
  PROVE  StillPart'
<1> USE DEF StillPart, OpenSetup, At, Goto, device, uart, pic, hist
<1>1. PortsTypeOK'
  <2>1. CASE panicked' = TRUE /\ UNCHANGED <<job, uart, irr, both>>
    BY <2>1 DEF PortsTypeOK
  <2>2. CASE /\ ier' = [ier EXCEPT ![job.dev] = {}]
             /\ cond' = [cond EXCEPT ![job.dev] = {}]
             /\ UNCHANGED <<mcr, panicked>> /\ Wired /\ Goto("enable")
    <3>1. irr' \subseteq Lines /\ both' \subseteq Lines
      BY <2>2, WiredTypes DEF PortsTypeOK
    <3>2. job' \in [call : {"none", "open", "close"}, dev : Ports,
                    at : {"end", "gate", "setup", "enable", "mask", "quiet", "shut"}]
      BY <2>2 DEF PortsTypeOK
    <3> QED BY <2>2, <3>1, <3>2 DEF PortsTypeOK
  <2> QED BY <2>1, <2>2
<1>2. JobPart' /\ EventPart'
  BY DEF JobPart, EventPart, PortsTypeOK
<1>3. GatePart' /\ OpenIsHeard' /\ DrivenPart' /\ ClosedStaysQuiet'
  BY DEF GatePart, OpenIsHeard, DrivenPart, ClosedStaysQuiet, PortsTypeOK, JobPart
<1> QED BY <1>1, <1>2, <1>3

LEMMA OpenEnableStill ==
  ASSUME StillPart, OpenEnable
  PROVE  StillPart'
<1> USE DEF StillPart, OpenEnable, At, Goto, device, uart, pic, hist
<1>1. PortsTypeOK'
  BY PortAssumption DEF PortsTypeOK, Rising, Lines, Line, Switched, NoJob
<1>2. JobPart' /\ EventPart'
  BY DEF JobPart, EventPart, PortsTypeOK, NoJob
<1>3. GatePart' /\ OpenIsHeard' /\ DrivenPart' /\ ClosedStaysQuiet'
  BY DEF GatePart, OpenIsHeard, DrivenPart, ClosedStaysQuiet, PortsTypeOK, JobPart,
         NoJob, Switched, Line
<1> QED BY <1>1, <1>2, <1>3

(* serial_close: the line is masked if nobody else is on it, the UART        *)
(* silenced, and the port given back.                                        *)
LEMMA CloseStill ==
  ASSUME StillPart, NEW p \in Ports, Close(p)
  PROVE  StillPart'
<1> USE DEF StillPart, Close, Idle, device, uart, pic, hist
<1>1. PortsTypeOK'
  BY DEF PortsTypeOK
<1>2. JobPart' /\ EventPart'
  BY DEF JobPart, EventPart, PortsTypeOK, Partners
<1>3. GatePart' /\ OpenIsHeard' /\ DrivenPart' /\ ClosedStaysQuiet'
  BY DEF GatePart, OpenIsHeard, DrivenPart, ClosedStaysQuiet, PortsTypeOK, JobPart
<1> QED BY <1>1, <1>2, <1>3

LEMMA CloseMaskStill ==
  ASSUME StillPart, CloseMask
  PROVE  StillPart'
<1> USE DEF StillPart, CloseMask, At, Goto, device, uart, pic, hist
<1>1. PortsTypeOK'
  BY DEF PortsTypeOK
<1>2. JobPart' /\ EventPart'
  BY DEF JobPart, EventPart, PortsTypeOK
<1>3. OpenIsHeard' /\ DrivenPart'
  BY DEF OpenIsHeard, DrivenPart, PortsTypeOK, JobPart, Switched, Partners, Line
<1>4. GatePart' /\ ClosedStaysQuiet'
  BY DEF GatePart, ClosedStaysQuiet, PortsTypeOK
<1> QED BY <1>1, <1>2, <1>3, <1>4

LEMMA CloseQuietStill ==
  ASSUME StillPart, CloseQuiet
  PROVE  StillPart'
<1> USE DEF StillPart, CloseQuiet, At, Goto, device, uart, pic, hist
<1>1. PortsTypeOK'
  BY DEF PortsTypeOK, Wired, Rising, Lines
<1>2. JobPart' /\ EventPart'
  BY DEF JobPart, EventPart, PortsTypeOK
<1>3. GatePart' /\ OpenIsHeard' /\ DrivenPart' /\ ClosedStaysQuiet'
  BY DEF GatePart, OpenIsHeard, DrivenPart, ClosedStaysQuiet, PortsTypeOK, JobPart
<1> QED BY <1>1, <1>2, <1>3

LEMMA CloseShutStill ==
  ASSUME StillPart, CloseShut
  PROVE  StillPart'
<1> USE DEF StillPart, CloseShut, At, Goto, device, uart, pic, hist
<1>1. PortsTypeOK'
  BY PortAssumption DEF PortsTypeOK, NoJob
<1>2. JobPart' /\ EventPart'
  BY DEF JobPart, EventPart, PortsTypeOK, NoJob
<1>3. GatePart' /\ OpenIsHeard' /\ DrivenPart' /\ ClosedStaysQuiet'
  BY DEF GatePart, OpenIsHeard, DrivenPart, ClosedStaysQuiet, PortsTypeOK, JobPart, NoJob
<1> QED BY <1>1, <1>2, <1>3

LEMMA RequestStill ==
  ASSUME StillPart, NEW p \in Ports, NEW o \in {"READ", "WRITE"}, Request(p, o)
  PROVE  StillPart'
<1> USE DEF StillPart, Request, Idle, device, uart, pic, hist
<1>1. PortsTypeOK'
  <2>1. irr' \subseteq Lines /\ both' \subseteq Lines
    BY WiredTypes DEF PortsTypeOK
  <2>2. ~event[p]
    BY DEF EventPart
  <2>3. CASE o = "READ"
    BY <2>1, <2>3 DEF PortsTypeOK
  <2>4. CASE o = "WRITE"
    BY <2>1, <2>2, <2>4 DEF PortsTypeOK
  <2> QED BY <2>3, <2>4
<1>2. JobPart' /\ EventPart'
  BY DEF JobPart, EventPart, PortsTypeOK
<1>3. GatePart' /\ OpenIsHeard' /\ DrivenPart' /\ ClosedStaysQuiet'
  BY DEF GatePart, OpenIsHeard, DrivenPart, ClosedStaysQuiet, PortsTypeOK, JobPart
<1> QED BY <1>1, <1>2, <1>3

LEMMA CheckIoStill ==
  ASSUME StillPart, NEW p \in Ports, CheckIo(p)
  PROVE  StillPart'
<1> USE DEF StillPart, CheckIo, Idle, device, uart, pic, hist
<1>1. PortsTypeOK'
  BY DEF PortsTypeOK
<1>2. JobPart' /\ EventPart'
  BY DEF JobPart, EventPart, PortsTypeOK
<1>3. GatePart' /\ OpenIsHeard' /\ DrivenPart' /\ ClosedStaysQuiet'
  BY DEF GatePart, OpenIsHeard, DrivenPart, ClosedStaysQuiet, PortsTypeOK, JobPart
<1> QED BY <1>1, <1>2, <1>3

LEMMA ByteStill ==
  ASSUME StillPart, NEW p \in Ports, ByteArrives(p) \/ ByteSent(p)
  PROVE  StillPart'
<1> USE DEF StillPart, ByteArrives, ByteSent, device, uart, pic, hist
<1>1. PortsTypeOK'
  <2>1. irr' \subseteq Lines /\ both' \subseteq Lines
    BY WiredTypes DEF PortsTypeOK
  <2>2. \E c \in {"in", "out"} : cond' = [cond EXCEPT ![p] = @ \cup {c}]
    OBVIOUS
  <2>3. cond' \in [Ports -> SUBSET {"in", "out"}]
    BY <2>2 DEF PortsTypeOK
  <2> QED BY <2>1, <2>3 DEF PortsTypeOK
<1>2. JobPart' /\ EventPart' /\ GatePart' /\ OpenIsHeard' /\ DrivenPart' /\ ClosedStaysQuiet'
  BY DEF JobPart, EventPart, GatePart, OpenIsHeard, DrivenPart, ClosedStaysQuiet
<1> QED BY <1>1, <1>2

(* An interrupt serves at most one port, which is open; on a port without a  *)
(* request it is no output, and an input is the end.                         *)
LEMMA InterruptStill ==
  ASSUME StillPart, NEW l \in Lines, Interrupt(l)
  PROVE  StillPart'
<1> USE DEF StillPart
<1>1. /\ UNCHANGED <<open, op, mcr, unmasked, gates, job, deafened>>
      /\ irr' = (irr \ {l}) \cup Rising
      /\ both' \subseteq Lines
      /\ \/ panicked' = TRUE /\ UNCHANGED <<event, ier, cond>>
         \/ \E p \in Ports : Serve(p)
         \/ UNCHANGED <<event, ier, cond, panicked>>
  BY DEF Interrupt, Picked
<1>2. CASE UNCHANGED <<event, ier, cond>> /\ panicked' \in BOOLEAN
  <2>1. PortsTypeOK'
    BY <1>1, <1>2 DEF PortsTypeOK, Rising, Lines
  <2>2. JobPart' /\ EventPart' /\ GatePart' /\ OpenIsHeard' /\ DrivenPart' /\ ClosedStaysQuiet'
    BY <1>1, <1>2 DEF JobPart, EventPart, GatePart, OpenIsHeard, DrivenPart, ClosedStaysQuiet
  <2> QED BY <2>1, <2>2
<1>3. CASE \E p \in Ports : Serve(p)
  <2>1. PICK p \in Ports : Serve(p)
    BY <1>3
  <2>2. CASE open[p] /\ (Input(p) \/ Output(p))
    <3>1. PortsTypeOK'
      <4>1. irr' \subseteq Lines /\ both' \subseteq Lines
        BY <1>1 DEF PortsTypeOK, Rising
      <4>2. CASE Input(p)
        BY <1>1, <4>1, <4>2 DEF PortsTypeOK, Input
      <4>3. CASE Output(p)
        <5>1. cond' \in [Ports -> SUBSET {"in", "out"}] /\ panicked' \in BOOLEAN
          BY <4>3 DEF PortsTypeOK, Output
        <5>2. CASE UNCHANGED <<event, ier>>
          BY <1>1, <4>1, <5>1, <5>2 DEF PortsTypeOK
        <5>3. CASE /\ event' = [event EXCEPT ![p] = TRUE]
                   /\ ier' = [ier EXCEPT ![p] = @ \ {"out"}]
          BY <1>1, <4>1, <5>1, <5>3 DEF PortsTypeOK
        <5> QED BY <4>3, <5>2, <5>3 DEF Output
      <4> QED BY <2>2, <4>2, <4>3
    <3>2. EventPart' /\ ClosedStaysQuiet'
      BY <1>1, <2>2 DEF PortsTypeOK, EventPart, ClosedStaysQuiet, Input, Output
    <3>3. JobPart'
      BY <1>1, <2>2 DEF PortsTypeOK, JobPart, EventPart, Input, Output
    <3>4. GatePart' /\ OpenIsHeard' /\ DrivenPart'
      BY <1>1 DEF GatePart, OpenIsHeard, DrivenPart
    <3> QED BY <3>1, <3>2, <3>3, <3>4
  <2>3. CASE UNCHANGED <<cond, event, ier, panicked>>
    BY <1>2, <2>3 DEF PortsTypeOK
  <2> QED BY <2>1, <2>2, <2>3 DEF Serve
<1>4. panicked \in BOOLEAN
  BY DEF PortsTypeOK
<1> QED BY <1>1, <1>2, <1>3, <1>4

LEMMA NextStill ==
  ASSUME StillPart, [Next]_vars
  PROVE  StillPart'
<1>1. CASE UNCHANGED vars
  BY <1>1 DEF vars, StillPart, PortsTypeOK, JobPart, GatePart, DrivenPart,
     EventPart, OpenIsHeard, ClosedStaysQuiet
<1> QED BY <1>1, ByteStill, OpenStill, OpenGateStill, OpenSetupStill, OpenEnableStill,
     CloseStill, CloseMaskStill, CloseQuietStill, CloseShutStill, CheckIoStill,
     RequestStill, InterruptStill DEF Next

LEMMA NextLatches ==
  ASSUME StillPart, NoStrayInterrupt, [Next]_vars
  PROVE  NoStrayInterrupt'
<1> DEFINE edges == {l \in Lines : High(l)'}
<1>1. StillPart'
  BY NextStill
<1>2. gates \subseteq gates' /\ irr' \subseteq irr \cup edges => NoStrayInterrupt'
  BY <1>1, LatchesFollow
<1>3. Rising \subseteq edges
  BY DEF Rising
<1> HIDE DEF edges
<1>4. ASSUME NEW p \in Ports,
             ByteArrives(p) \/ ByteSent(p) \/ Open(p) \/ Close(p) \/ CheckIo(p)
      PROVE  NoStrayInterrupt'
  BY <1>2, <1>3, <1>4 DEF ByteArrives, ByteSent, Open, Close, CheckIo, Wired, pic
<1>5. ASSUME NEW p \in Ports, NEW o \in {"READ", "WRITE"}, Request(p, o)
      PROVE  NoStrayInterrupt'
  BY <1>2, <1>3, <1>5 DEF Request, Wired
<1>6. CASE OpenGate \/ OpenSetup \/ CloseMask \/ CloseQuiet \/ CloseShut
  BY <1>2, <1>3, <1>6 DEF OpenGate, OpenSetup, CloseMask, CloseQuiet, CloseShut, Wired, pic
<1>7. CASE OpenEnable
  <2>1. Line(job.dev) \in gates
    BY <1>7 DEF OpenEnable, At, StillPart, JobPart, GatePart, PortsTypeOK
  <2>2. gates' = gates /\ irr' \subseteq irr \cup edges \cup {Line(job.dev)}
    BY <1>3, <1>7 DEF OpenEnable
  <2>3. edges \subseteq gates'
    BY <1>1, HighGetsGate DEF edges
  <2> QED BY <2>1, <2>2, <2>3 DEF NoStrayInterrupt
<1>8. ASSUME NEW l \in Lines, Interrupt(l)
      PROVE  NoStrayInterrupt'
  BY <1>2, <1>3, <1>8 DEF Interrupt
<1>9. CASE UNCHANGED vars
  BY <1>2, <1>9 DEF vars
<1> QED BY <1>4, <1>5, <1>6, <1>7, <1>8, <1>9 DEF Next

(* Two different conditions on a line are counted as more than one. *)
LEMMA TwoCount ==
  ASSUME NEW S, IsFiniteSet(S), NEW r \in S, NEW s \in S, r # s
  PROVE  Cardinality(S) > 1
<1>1. IsFiniteSet({r}) /\ Cardinality({r}) = 1
  BY FS_Singleton
<1>2. Cardinality({r} \cup {s}) = 2
  BY <1>1, FS_AddElement
<1>3. Cardinality({r} \cup {s}) <= Cardinality(S)
  BY FS_Subset
<1>4. Cardinality(S) \in Nat
  BY FS_CardinalityType
<1> QED BY <1>2, <1>3, <1>4

LEMMA ConditionsFinite ==
  ASSUME NEW l
  PROVE  IsFiniteSet(Conditions(l)) /\ IsFiniteSet(Conditions(l)')
<1>1. IsFiniteSet({COM1, COM2, COM3, COM4})
  <2>1. IsFiniteSet({COM1})
    BY FS_Singleton
  <2>2. IsFiniteSet({COM1} \cup {COM2})
    BY <2>1, FS_AddElement
  <2>3. IsFiniteSet({COM1} \cup {COM2} \cup {COM3})
    BY <2>2, FS_AddElement
  <2>4. IsFiniteSet({COM1} \cup {COM2} \cup {COM3} \cup {COM4})
    BY <2>3, FS_AddElement
  <2>5. {COM1} \cup {COM2} \cup {COM3} \cup {COM4} = {COM1, COM2, COM3, COM4}
    OBVIOUS
  <2> QED BY <2>4, <2>5
<1>2. IsFiniteSet(Ports)
  BY <1>1, PortAssumption, FS_Subset
<1>3. IsFiniteSet({"in", "out"})
  <2>1. IsFiniteSet({"in"})
    BY FS_Singleton
  <2>2. IsFiniteSet({"in"} \cup {"out"})
    BY <2>1, FS_AddElement
  <2>3. {"in"} \cup {"out"} = {"in", "out"}
    OBVIOUS
  <2> QED BY <2>2, <2>3
<1>4. IsFiniteSet(Ports \X {"in", "out"})
  BY <1>2, <1>3, FS_Product
<1>5. Conditions(l) \in SUBSET (Ports \X {"in", "out"})
  BY DEF Conditions
<1>6. Conditions(l)' \in SUBSET (Ports \X {"in", "out"})
  BY DEF Conditions
<1> QED BY <1>4, <1>5, <1>6, FS_Subset

(* Where something is to be reported, and only there, a line is high. *)
LEMMA HighReports ==
  PortsTypeOK /\ DrivePart => \A l \in Lines : High(l) <=> Conditions(l) # {}
<1> SUFFICES ASSUME PortsTypeOK, DrivePart, NEW l \in Lines
             PROVE  High(l) <=> Conditions(l) # {}
  OBVIOUS
<1>1. ASSUME High(l) PROVE Conditions(l) # {}
  <2>1. PICK p \in Ports : Line(p) = l /\ Reports(p) # {}
    BY <1>1 DEF High
  <2>2. PICK c \in {"in", "out"} : c \in Reports(p)
    BY <2>1 DEF Reports, PortsTypeOK
  <2>3. <<p, c>> \in Conditions(l)
    BY <2>1, <2>2 DEF Conditions
  <2> QED BY <2>3
<1>2. ASSUME Conditions(l) # {} PROVE High(l)
  <2>1. PICK r \in Conditions(l) : TRUE
    BY <1>2
  <2>2. r[1] \in Ports /\ Line(r[1]) = l /\ r[2] \in Reports(r[1])
    BY <2>1 DEF Conditions
  <2>3. mcr[r[1]]
    BY <2>2 DEF Reports, DrivePart
  <2> QED BY <2>2, <2>3 DEF High
<1> QED BY <1>1, <1>2

LEMMA HighReportsNext ==
  PortsTypeOK' /\ DrivePart' => \A l \in Lines : High(l)' <=> Conditions(l)' # {}
<1>1. (PortsTypeOK /\ DrivePart => \A l \in Lines : High(l) <=> Conditions(l) # {})'
  BY HighReports, PTL
<1> QED BY <1>1

(* A step that latches every edge and records every line with two conditions *)
(* keeps the record right.                                                   *)
LEMMA WiredShared ==
  ASSUME SharedPart, PortsTypeOK', DrivePart', Wired, UNCHANGED panicked
  PROVE  SharedPart'
<1>1. ASSUME NEW l \in Lines, NEW r \in Conditions(l)', NEW s \in Conditions(l)', r # s
      PROVE  l \in both'
  <2>1. Cardinality(Conditions(l)') > 1
    BY <1>1, ConditionsFinite, TwoCount
  <2>2. High(l)'
    BY <1>1, HighReportsNext
  <2> QED BY <2>1, <2>2 DEF Wired
<1>2. ASSUME NEW l \in Lines, High(l)', l \notin irr', ~panicked'
      PROVE  l \in both'
  <2>1. l \in both
    BY <1>2 DEF Wired, Rising, SharedPart, ForgottenOnlyTogether
  <2> QED BY <1>2, <2>1 DEF Wired
<1> QED BY <1>1, <1>2 DEF SharedPart, ForgottenOnlyTogether

LEMMA QuietShared ==
  ASSUME SharedPart, UNCHANGED <<ier, mcr, cond, irr, both>>, panicked => panicked'
  PROVE  SharedPart'
<1>1. \A l \in Lines : Conditions(l)' = Conditions(l) /\ High(l)' = High(l)
  BY DEF Conditions, Reports, High
<1> QED BY <1>1 DEF SharedPart, DrivePart, ForgottenOnlyTogether

LEMMA OpenEnableShared ==
  ASSUME SharedPart, StillPart, StillPart', OpenEnable
  PROVE  SharedPart'
<1>1. /\ job.dev \in Ports
      /\ mcr' = [mcr EXCEPT ![job.dev] = TRUE]
      /\ ier' = [ier EXCEPT ![job.dev] = {"in"}]
      /\ cond' = [cond EXCEPT ![job.dev] = @ \ {"in"}]
      /\ irr \cup Rising \subseteq irr' /\ both' = {l \in both : High(l)'}
      /\ panicked' = panicked
  BY DEF OpenEnable, StillPart, PortsTypeOK
<1>2. PortsTypeOK /\ PortsTypeOK'
  BY DEF StillPart
<1>3. DrivePart'
  BY <1>1, <1>2 DEF SharedPart, DrivePart, PortsTypeOK
<1>4. \A p \in Ports : Reports(p)' \subseteq Reports(p)
  <2> SUFFICES ASSUME NEW p \in Ports PROVE Reports(p)' \subseteq Reports(p)
    OBVIOUS
  <2>1. CASE p = job.dev
    BY <1>1, <1>2, <2>1 DEF Reports, PortsTypeOK
  <2>2. CASE p # job.dev
    BY <1>1, <1>2, <2>2 DEF Reports, PortsTypeOK
  <2> QED BY <2>1, <2>2
<1>5. \A l \in Lines : Conditions(l)' \subseteq Conditions(l)
  BY <1>4 DEF Conditions
<1>6. \A l \in Lines : High(l)' /\ l \in both => l \in both'
  BY <1>1
<1>7. ASSUME NEW l \in Lines, NEW r \in Conditions(l)', NEW s \in Conditions(l)', r # s
      PROVE  l \in both'
  BY <1>2, <1>3, <1>5, <1>6, <1>7, HighReportsNext DEF SharedPart
<1>8. ASSUME NEW l \in Lines, High(l)', l \notin irr', ~panicked'
      PROVE  l \in both'
  BY <1>1, <1>6, <1>8 DEF SharedPart, ForgottenOnlyTogether, Rising
<1> QED BY <1>3, <1>7, <1>8 DEF SharedPart, ForgottenOnlyTogether

(* serial_interrupt finds the port of the only condition on the line, serves *)
(* it, and the line falls.                                                   *)
LEMMA OnlyOneServed ==
  ASSUME SharedPart, StillPart, NoStrayInterrupt, NEW l \in Lines, Interrupt(l),
         High(l), l \notin both, ~panicked'
  PROVE  ~High(l)'
<1>1. /\ PortsTypeOK /\ ClosedStaysQuiet
      /\ \A r, s \in Conditions(l) : r = s
  BY DEF StillPart, SharedPart
<1>2. PICK p \in Ports : Line(p) = l /\ mcr[p] /\ Reports(p) # {}
  BY DEF High
<1>3. PICK c \in {"in", "out"} : c \in Reports(p)
  BY <1>1, <1>2 DEF Reports, PortsTypeOK
<1>4. \A q \in Ports, d \in {"in", "out"} :
        Line(q) = l /\ d \in Reports(q) => q = p /\ d = c
  <2> SUFFICES ASSUME NEW q \in Ports, NEW d \in {"in", "out"},
                      Line(q) = l, d \in Reports(q)
               PROVE  q = p /\ d = c
    OBVIOUS
  <2>1. <<q, d>> \in Conditions(l) /\ <<p, c>> \in Conditions(l)
    BY <1>2, <1>3 DEF Conditions
  <2>2. <<q, d>> = <<p, c>>
    BY <1>1, <2>1
  <2> QED BY <2>2
<1>5. open[p]
  BY <1>1, <1>2 DEF ClosedStaysQuiet, Reports
<1>6. \A q \in Ports : Line(q) = l /\ q # p => Reports(q) = {}
  BY <1>1, <1>4 DEF Reports, PortsTypeOK
<1>7. Picked(l) = {p}
  <2>1. CASE l = 4
    BY <1>2, <1>6, <2>1, PortAssumption DEF Picked, Line
  <2>2. CASE l = 3
    <3>1. Line(COM2) = 3 /\ Line(COM4) = 3 /\ COM2 # COM4 /\ p \in {COM2, COM4}
      <4>1. COM2 \notin {COM1, COM3} /\ COM4 \notin {COM1, COM3}
        BY PortAssumption
      <4>2. p \in {COM1, COM2, COM3, COM4} /\ p \notin {COM1, COM3}
        BY <1>2, <2>2, PortAssumption DEF Line
      <4> QED BY <4>1, <4>2, PortAssumption DEF Line
    <3>2. COM2 \in Ports /\ p # COM2 => Reports(COM2) = {}
      BY <1>6, <2>2, <3>1
    <3> QED BY <1>2, <2>2, <3>1, <3>2 DEF Picked
  <2> QED BY <2>1, <2>2 DEF Lines
<1>8. mcr' = mcr /\ Serve(p)
  BY <1>7 DEF Interrupt, NoStrayInterrupt
<1>9. Reports(p) = {c}
  BY <1>1, <1>2, <1>3, <1>4 DEF Reports, PortsTypeOK
<1>10. Reports(p)' = {} /\ \A q \in Ports : q # p => Reports(q)' = Reports(q)
  <2>1. CASE c = "in"
    <3>1. Input(p)
      BY <1>2, <1>3, <1>5, <1>8, <1>9, <2>1 DEF Serve
    <3>2. cond' = [cond EXCEPT ![p] = @ \ {"in"}] /\ ier' = ier
      BY <3>1 DEF Input
    <3> QED BY <1>1, <1>9, <2>1, <3>2 DEF Reports, PortsTypeOK
  <2>2. CASE c = "out"
    <3>1. Output(p)
      BY <1>2, <1>3, <1>5, <1>8, <1>9, <2>2 DEF Serve
    <3>2. /\ cond' = [cond EXCEPT ![p] = @ \ {"out"}]
          /\ ier' = ier \/ ier' = [ier EXCEPT ![p] = @ \ {"out"}]
      BY <3>1 DEF Output
    <3> QED BY <1>1, <1>9, <2>2, <3>2 DEF Reports, PortsTypeOK
  <2> QED BY <2>1, <2>2
<1>11. \A q \in Ports : Line(q) = l => Reports(q)' = {}
  BY <1>6, <1>10
<1> QED BY <1>11 DEF High

LEMMA InterruptShared ==
  ASSUME SharedPart, StillPart, StillPart', NoStrayInterrupt, NEW l \in Lines, Interrupt(l)
  PROVE  SharedPart'
<1>1. /\ ~panicked /\ mcr' = mcr /\ irr' = (irr \ {l}) \cup Rising
      /\ both' = {k \in Lines : High(k)' /\ (k \in both \/ Cardinality(Conditions(k)') > 1)}
  BY DEF Interrupt
<1>2. PortsTypeOK /\ PortsTypeOK'
  BY DEF StillPart
<1>3. DrivePart'
  <2>1. \A p \in Ports : ier'[p] \subseteq ier[p]
    <3>1. CASE ier' = ier
      BY <3>1
    <3>2. CASE \E p \in Ports : Output(p)
      BY <1>2, <3>2 DEF Output, PortsTypeOK
    <3> QED BY <3>1, <3>2 DEF Interrupt, Picked, Serve, Input
  <2> QED BY <1>1, <2>1 DEF SharedPart, DrivePart
<1>4. ASSUME NEW k \in Lines, High(k)', k \notin irr', ~panicked'
      PROVE  k \in both'
  <2>1. High(k) /\ (k # l => k \notin irr)
    BY <1>1, <1>4 DEF Rising
  <2>2. k \in both
    <3>1. CASE k = l
      BY <1>4, <2>1, <3>1, OnlyOneServed
    <3>2. CASE k # l
      BY <1>1, <2>1, <3>2 DEF SharedPart, ForgottenOnlyTogether
    <3> QED BY <3>1, <3>2
  <2> QED BY <1>1, <1>4, <2>2
<1>5. ASSUME NEW k \in Lines, NEW r \in Conditions(k)', NEW s \in Conditions(k)', r # s
      PROVE  k \in both'
  <2>1. Cardinality(Conditions(k)') > 1
    BY <1>5, ConditionsFinite, TwoCount
  <2> QED BY <1>1, <1>2, <1>3, <2>1, HighReportsNext
<1> QED BY <1>3, <1>4, <1>5 DEF SharedPart, ForgottenOnlyTogether

LEMMA NextShared ==
  ASSUME SharedPart, StillPart, NoStrayInterrupt, [Next]_vars
  PROVE  SharedPart'
<1>1. StillPart' /\ PortsTypeOK /\ PortsTypeOK'
  BY NextStill DEF StillPart
<1>2. ASSUME NEW p \in Ports, ByteArrives(p) \/ ByteSent(p)
      PROVE  SharedPart'
  BY <1>1, <1>2, WiredShared DEF ByteArrives, ByteSent, SharedPart, DrivePart
<1>3. ASSUME NEW p \in Ports, Open(p) \/ Close(p) \/ CheckIo(p)
      PROVE  SharedPart'
  BY <1>3, QuietShared DEF Open, Close, CheckIo, uart, pic, hist
<1>4. CASE OpenGate \/ CloseMask \/ CloseShut
  BY <1>4, QuietShared DEF OpenGate, CloseMask, CloseShut, uart, pic, hist
<1>5. CASE OpenSetup
  <2>1. CASE UNCHANGED <<uart, irr, both>> /\ panicked' = TRUE
    BY <2>1, QuietShared DEF uart
  <2>2. CASE ier' = [ier EXCEPT ![job.dev] = {}] /\ UNCHANGED <<mcr, panicked>> /\ Wired
    <3>1. DrivePart'
      BY <1>1, <2>2 DEF SharedPart, DrivePart, PortsTypeOK
    <3> QED BY <1>1, <2>2, <3>1, WiredShared
  <2> QED BY <1>5, <2>1, <2>2 DEF OpenSetup
<1>6. CASE OpenEnable
  BY <1>1, <1>6, OpenEnableShared
<1>7. CASE CloseQuiet
  <2>1. /\ ier' = [ier EXCEPT ![job.dev] = {}] /\ mcr' = [mcr EXCEPT ![job.dev] = FALSE]
        /\ Wired /\ UNCHANGED panicked
    BY <1>7 DEF CloseQuiet
  <2>2. DrivePart'
    BY <1>1, <2>1 DEF SharedPart, DrivePart, PortsTypeOK
  <2> QED BY <1>1, <2>1, <2>2, WiredShared
<1>8. ASSUME NEW p \in Ports, NEW o \in {"READ", "WRITE"}, Request(p, o)
      PROVE  SharedPart'
  <2>1. CASE UNCHANGED <<uart, irr, both, panicked>>
    BY <2>1, QuietShared DEF uart
  <2>2. CASE /\ ier' = [ier EXCEPT ![p] = @ \cup {"out"}] /\ UNCHANGED mcr
             /\ Wired /\ UNCHANGED panicked
    <3>1. mcr[p]
      BY <1>1, <1>8 DEF Request, Idle, DrivenPart, StillPart
    <3>2. DrivePart'
      BY <1>1, <2>2, <3>1 DEF SharedPart, DrivePart, PortsTypeOK
    <3> QED BY <1>1, <2>2, <3>2, WiredShared
  <2> QED BY <1>8, <2>1, <2>2 DEF Request
<1>9. ASSUME NEW l \in Lines, Interrupt(l) PROVE SharedPart'
  BY <1>1, <1>9, InterruptShared
<1>10. CASE UNCHANGED vars
  BY <1>10, QuietShared DEF vars
<1> QED BY <1>2, <1>3, <1>4, <1>5, <1>6, <1>7, <1>8, <1>9, <1>10 DEF Next

(* The inductive invariant holds; the properties are parts of it. *)
LEMMA PortsInvariant == Spec => []PortsInv
<1>1. PortsInv /\ [Next]_vars => PortsInv'
  BY NextStill, NextLatches, NextShared DEF PortsInv, StillPart
<1> QED BY InitPorts, <1>1, PTL DEF Spec

(* The registers, latches and calls of all ports keep their types. *)
THEOREM PortsTypeCorrect == Spec => []PortsTypeOK
BY PortsInvariant, PTL DEF PortsInv

(* Whatever is opened and closed, and although opening COM1 or COM3 unmasks  *)
(* line 3 too, every latched request has serial_isr behind its vector.       *)
THEOREM NoInterruptStrays == Spec => []NoStrayInterrupt
BY PortsInvariant, PTL DEF PortsInv

(* An open port is heard, in spite of the partners and of the other line,    *)
(* unless COM1 or COM3 has been closed and the port is COM2 or COM4.         *)
THEOREM OpenPortsHeard == Spec => []OpenIsHeard
BY PortsInvariant, PTL DEF PortsInv

(* With an edge-triggered PIC and one condition served per interrupt, a line *)
(* is left high and forgotten only after two conditions at once.             *)
THEOREM ForgottenByTwo == Spec => []ForgottenOnlyTogether
BY PortsInvariant, PTL DEF PortsInv, SharedPart

(* A late interrupt starts nothing on a port that has been closed. *)
THEOREM ClosedPortsQuiet == Spec => []ClosedStaysQuiet
BY PortsInvariant, PTL DEF PortsInv
=============================================================================
