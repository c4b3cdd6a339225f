----------------------------- MODULE SerialPorts -----------------------------
(* The four serial ports of kernel/serial.c and the two interrupt lines they *)
(* share: opening and closing them, the gates, the mask of the PIC, and      *)
(* serial_interrupt.  kmain opens COM1 only; here the interface of serial.h  *)
(* is used for all of them.                                                  *)
(*                                                                           *)
(* Interrupts come between any two steps of serial_open and serial_close;    *)
(* what those do between cli and sti is one step.  The PIC is edge-triggered *)
(* (ICW1): it latches a request when the line rises, not while it is high.   *)
EXTENDS Integers, FiniteSets

CONSTANTS
  Ports,     \* the ports in use
  COM1, COM2, COM3, COM4

ASSUME PortAssumption ==
  /\ Ports \subseteq {COM1, COM2, COM3, COM4} /\ COM1 \in Ports
  /\ COM1 # COM3 /\ COM2 # COM4 /\ {COM1, COM3} \cap {COM2, COM4} = {}

(* SERIAL_IRQ_COM_1_3 and SERIAL_IRQ_COM_2_4. *)
Line(p)    == IF p \in {COM1, COM3} THEN 4 ELSE 3
Lines      == {3, 4}
Partners(p) == {q \in Ports \ {p} : Line(q) = Line(p)}

VARIABLES
  open,      \* dcb.open
  op,        \* the request at the head of the device, "none" when idle
  event,     \* dcb.event
  ier, mcr,  \* what the UART may report, and whether it drives its line
  cond,      \* what it has to report: "in" a byte received, "out" one sent
  unmasked,  \* the lines the PIC lets through
  gates,     \* the lines whose vector is serial_isr
  irr,       \* the requests the PIC has latched
  job,       \* the serial_open or serial_close in progress
  panicked,  \* a vector without a gate, or the NULL head of an idle device
  both,      \* the lines that had two conditions to report at once
  deafened   \* line 3 has been masked by closing COM1 or COM3

device == <<open, op, event>>
uart   == <<ier, mcr, cond>>
pic    == <<unmasked, gates, irr>>
hist   == <<both, deafened>>
vars   == <<open, op, event, ier, mcr, cond, unmasked, gates, irr, job, panicked, both, deafened>>

NoJob == [call |-> "none", dev |-> COM1, at |-> "end"]

(* irq_init and pic_init: every line masked, no gate; the UARTs are quiet.   *)
Init ==
  /\ open = [p \in Ports |-> FALSE]
  /\ op = [p \in Ports |-> "none"] /\ event = [p \in Ports |-> FALSE]
  /\ ier = [p \in Ports |-> {}] /\ mcr = [p \in Ports |-> FALSE]
  /\ cond = [p \in Ports |-> {}]
  /\ unmasked = {} /\ gates = {} /\ irr = {}
  /\ job = NoJob /\ panicked = FALSE /\ both = {} /\ deafened = FALSE
-----------------------------------------------------------------------------
(* The conditions UART p reports in its IIR, and the line it drives. *)
Reports(p)     == cond[p] \cap ier[p]
Conditions(l)  == {r \in Ports \X {"in", "out"} : Line(r[1]) = l /\ r[2] \in Reports(r[1])}
High(l)        == \E p \in Ports : Line(p) = l /\ mcr[p] /\ Reports(p) # {}
Rising         == {l \in Lines : High(l)' /\ ~High(l)}

(* A step of the UARTs alone, with the edges it causes. *)
Wired ==
  /\ irr' = irr \cup Rising
  /\ both' = {l \in Lines : High(l)' /\ (l \in both \/ Cardinality(Conditions(l)') > 1)}

ByteArrives(p) ==
  /\ ~panicked /\ "in" \notin cond[p]
  /\ cond' = [cond EXCEPT ![p] = @ \cup {"in"}]
  /\ UNCHANGED <<device, ier, mcr, unmasked, gates, job, panicked, deafened>>
  /\ Wired

ByteSent(p) ==
  /\ ~panicked /\ op[p] = "WRITE" /\ ~event[p] /\ "out" \notin cond[p]
  /\ cond' = [cond EXCEPT ![p] = @ \cup {"out"}]
  /\ UNCHANGED <<device, ier, mcr, unmasked, gates, job, panicked, deafened>>
  /\ Wired
-----------------------------------------------------------------------------
Idle == job.call = "none" /\ ~panicked
At(c, s) == job.call = c /\ job.at = s /\ ~panicked
Goto(s)  == job' = IF s = "end" THEN NoJob ELSE [job EXCEPT !.at = s]

(* serial_open.  The search for the speed runs over the bytes of the table,  *)
(* not its entries, so it may accept one that is not in it; with 0 the       *)
(* division of 115200 by it is the end.                                      *)
Open(p) ==
  /\ Idle /\ ~open[p]
  /\ open' = [open EXCEPT ![p] = TRUE] /\ event' = [event EXCEPT ![p] = FALSE]
  /\ job' = [call |-> "open", dev |-> p, at |-> "gate"]
  /\ UNCHANGED <<op, uart, pic, panicked, hist>>

(* Mutant: the vector of the other line. *)
OpenGate_Swapped ==
  /\ At("open", "gate")
  /\ gates' = IF \E q \in Partners(job.dev) : open[q] THEN gates
              ELSE gates \cup {7 - Line(job.dev)}
  /\ Goto("setup")
  /\ UNCHANGED <<device, uart, unmasked, irr, panicked, hist>>

(* idt_install, unless the partner has done it. *)
OpenGate ==
  /\ At("open", "gate")
  /\ gates' = IF \E q \in Partners(job.dev) : open[q] THEN gates
              ELSE gates \cup {Line(job.dev)}
  /\ Goto("setup")
  /\ UNCHANGED <<device, uart, unmasked, irr, panicked, hist>>

(* A speed of 0, or the rate is set and the FIFOs are cleared. *)
OpenSetup ==
  /\ At("open", "setup")
  /\ \/ panicked' = TRUE /\ UNCHANGED <<job, uart, irr, both>>
     \/ /\ ier' = [ier EXCEPT ![job.dev] = {}]
        /\ cond' = [cond EXCEPT ![job.dev] = {}]
        /\ UNCHANGED <<mcr, panicked>>
        /\ Wired /\ Goto("enable")
  /\ UNCHANGED <<device, unmasked, gates, deafened>>

(* The lines whose mask bit the switch for p changes: the case of COM1 and   *)
(* COM3 falls through into that of COM2 and COM4.                            *)
Switched(p) == {3} \cup {Line(p)}

(* cli to sti: unmask, let the UART drive its line and report input, and     *)
(* read the byte that may be there.  That byte has raised the line for a     *)
(* moment.                                                                   *)
OpenEnable ==
  /\ At("open", "enable")
  /\ LET p == job.dev
     IN  /\ unmasked' = unmasked \cup Switched(p)
         /\ mcr' = [mcr EXCEPT ![p] = TRUE] /\ ier' = [ier EXCEPT ![p] = {"in"}]
         /\ cond' = [cond EXCEPT ![p] = @ \ {"in"}]
         /\ irr' = irr \cup Rising
                       \cup {l \in {Line(p)} : "in" \in cond[p] /\ ~High(l)}
         /\ both' = {l \in both : High(l)'}
         /\ deafened' = FALSE
  /\ Goto("end")
  /\ UNCHANGED <<device, gates, panicked>>

(* Mutant: a port in use may be closed. *)
Close_Busy(p) ==
  /\ Idle /\ open[p]
  /\ job' = [call |-> "close", dev |-> p,
             at |-> IF \E q \in Partners(p) : open[q] THEN "quiet" ELSE "mask"]
  /\ UNCHANGED <<device, uart, pic, panicked, hist>>

(* Mutant: an open partner does not keep the line. *)
Close_IgnoresPartner(p) ==
  /\ Idle /\ open[p] /\ op[p] = "none"
  /\ job' = [call |-> "close", dev |-> p, at |-> "mask"]
  /\ UNCHANGED <<device, uart, pic, panicked, hist>>

(* serial_close of an open port without requests.  If its partner is open    *)
(* the mask stays as it is.                                                  *)
Close(p) ==
  /\ Idle /\ open[p] /\ op[p] = "none"
  /\ job' = [call |-> "close", dev |-> p,
             at |-> IF \E q \in Partners(p) : open[q] THEN "quiet" ELSE "mask"]
  /\ UNCHANGED <<device, uart, pic, panicked, hist>>

CloseMask ==
  /\ At("close", "mask")
  /\ unmasked' = unmasked \ Switched(job.dev)
  /\ deafened' = (deafened \/ Line(job.dev) = 4)
  /\ Goto("quiet")
  /\ UNCHANGED <<device, uart, gates, irr, panicked, both>>

CloseQuiet ==
  /\ At("close", "quiet")
  /\ ier' = [ier EXCEPT ![job.dev] = {}] /\ mcr' = [mcr EXCEPT ![job.dev] = FALSE]
  /\ UNCHANGED cond
  /\ Wired /\ Goto("shut")
  /\ UNCHANGED <<device, unmasked, gates, panicked, deafened>>

CloseShut ==
  /\ At("close", "shut")
  /\ open' = [open EXCEPT ![job.dev] = FALSE]
  /\ Goto("end")
  /\ UNCHANGED <<op, event, uart, pic, panicked, hist>>
-----------------------------------------------------------------------------
(* serial_read and serial_write on an idle port, by a system call. *)
Request(p, o) ==
  /\ Idle /\ open[p] /\ op[p] = "none"
  /\ op' = [op EXCEPT ![p] = o]
  /\ \/ o = "READ" /\ UNCHANGED <<uart, irr, both>>
     \/ /\ o = "WRITE"
        /\ ier' = [ier EXCEPT ![p] = @ \cup {"out"}]
        /\ cond' = [cond EXCEPT ![p] = @ \ {"out"}]
        /\ UNCHANGED mcr
        /\ Wired
  /\ UNCHANGED <<open, event, unmasked, gates, job, panicked, deafened>>

(* serial_check_io after an event; here nobody is next. *)
CheckIo(p) ==
  /\ Idle /\ open[p] /\ event[p]
  /\ op' = [op EXCEPT ![p] = "none"] /\ event' = [event EXCEPT ![p] = FALSE]
  /\ UNCHANGED <<open, uart, pic, job, panicked, hist>>

(* serial_input_interrupt on an idle device follows its NULL head; a READ    *)
(* may be complete with this byte.                                           *)
Input(p) ==
  /\ cond' = [cond EXCEPT ![p] = @ \ {"in"}]
  /\ panicked' = (op[p] = "none")
  /\ \E done \in BOOLEAN :
       event' = [event EXCEPT ![p] = @ \/ (done /\ op[p] = "READ")]
  /\ UNCHANGED ier

(* Mutant: the write interrupt stays enabled. *)
Output_KeepsInterrupt(p) ==
  /\ cond' = [cond EXCEPT ![p] = @ \ {"out"}]
  /\ \/ op[p] = "WRITE" /\ ~event[p] /\ event' = [event EXCEPT ![p] = TRUE]
     \/ UNCHANGED event
  /\ UNCHANGED <<ier, panicked>>

(* serial_output_interrupt: the next byte, or the WRITE is complete. *)
Output(p) ==
  /\ cond' = [cond EXCEPT ![p] = @ \ {"out"}]
  /\ \/ /\ op[p] = "WRITE" /\ ~event[p]
        /\ event' = [event EXCEPT ![p] = TRUE]
        /\ ier' = [ier EXCEPT ![p] = @ \ {"out"}]
     \/ UNCHANGED <<event, ier>>
  /\ UNCHANGED panicked

(* Mutant: the byte of a READ that is complete is left in the UART. *)
Serve_LeavesByte(p) ==
  \/ ~open[p] /\ UNCHANGED <<cond, event, ier, panicked>>
  \/ open[p] /\ "in" \in Reports(p) /\ ~event[p] /\ Input(p)
  \/ open[p] /\ "in" \in Reports(p) /\ event[p] /\ UNCHANGED <<cond, event, ier, panicked>>
  \/ open[p] /\ Reports(p) = {"out"} /\ Output(p)
  \/ open[p] /\ Reports(p) = {} /\ UNCHANGED <<cond, event, ier, panicked>>

(* What the IIR of p says is served, input first; nothing of a closed port. *)
Serve(p) ==
  \/ ~open[p] /\ UNCHANGED <<cond, event, ier, panicked>>
  \/ open[p] /\ "in" \in Reports(p) /\ Input(p)
  \/ open[p] /\ Reports(p) = {"out"} /\ Output(p)
  \/ open[p] /\ Reports(p) = {} /\ UNCHANGED <<cond, event, ier, panicked>>

(* The port serial_interrupt picks: COM1 or COM2 if its IIR says it is       *)
(* pending, and otherwise COM3 or COM4, whatever its IIR says.               *)
Picked(l) ==
  LET first  == IF l = 4 THEN COM1 ELSE COM2
      second == IF l = 4 THEN COM3 ELSE COM4
  IN  IF first \in Ports /\ Reports(first) # {} THEN {first} ELSE Ports \cap {second}

(* The PIC delivers the request of line l: one condition of one port is      *)
(* served, and the interrupt ended.                                          *)
Interrupt(l) ==
  /\ l \in irr \cap unmasked /\ ~panicked
  /\ UNCHANGED <<open, op, mcr, unmasked, gates, job, deafened>>
  /\ \/ l \notin gates /\ panicked' = TRUE /\ UNCHANGED <<event, ier, cond>>
     \/ /\ l \in gates
        /\ \/ \E p \in Picked(l) : Serve(p)
           \/ Picked(l) = {} /\ UNCHANGED <<event, ier, cond, panicked>>
  /\ irr' = (irr \ {l}) \cup Rising
  /\ both' = {k \in Lines : High(k)' /\ (k \in both \/ Cardinality(Conditions(k)') > 1)}

Next ==
  \/ \E p \in Ports :
       \/ ByteArrives(p) \/ ByteSent(p)
       \/ Open(p) \/ Close(p) \/ CheckIo(p)
       \/ \E o \in {"READ", "WRITE"} : Request(p, o)
  \/ OpenGate \/ OpenSetup \/ OpenEnable
  \/ CloseMask \/ CloseQuiet \/ CloseShut
  \/ \E l \in Lines : Interrupt(l)

Spec == Init /\ [][Next]_vars
=============================================================================
