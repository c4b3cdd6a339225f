--------------------------- MODULE PortsProperties ---------------------------
(* What opening, closing and the shared lines of the serial ports keep true. *)
EXTENDS SerialPorts

(* The registers, the latches and the step of the call stay in their range;  *)
(* a port reports bytes sent only while a WRITE of it is going on.           *)
PortsTypeOK ==
  /\ open \in [Ports -> BOOLEAN] /\ op \in [Ports -> {"none", "READ", "WRITE"}]
  /\ event \in [Ports -> BOOLEAN] /\ mcr \in [Ports -> BOOLEAN]
  /\ ier \in [Ports -> SUBSET {"in", "out"}] /\ cond \in [Ports -> SUBSET {"in", "out"}]
  /\ \A p \in Ports : "out" \in ier[p] => op[p] = "WRITE" /\ ~event[p]
  /\ unmasked \subseteq Lines /\ gates \subseteq Lines /\ irr \subseteq Lines
  /\ job \in [call : {"none", "open", "close"}, dev : Ports,
              at : {"end", "gate", "setup", "enable", "mask", "quiet", "shut"}]
  /\ panicked \in BOOLEAN /\ both \subseteq Lines /\ deafened \in BOOLEAN

(* A request that reaches the CPU finds serial_isr: although opening COM1    *)
(* unmasks line 3 too, whose vector has no gate, no UART drives a line       *)
(* before serial_open has installed the handler for it.                      *)
NoStrayInterrupt == irr \subseteq gates

(* An open port, once serial_open has returned, is heard: its line is        *)
(* unmasked and leads to serial_isr, in spite of every other port that was   *)
(* opened or closed since; except that closing COM1 or COM3 masks the line   *)
(* of COM2 and COM4 (the missing break, serial.c:375).                       *)
OpenIsHeard ==
  \A p \in Ports :
    open[p] /\ (job.call = "none" \/ job.dev # p) =>
      Line(p) \in gates /\ (Line(p) \in unmasked \/ (Line(p) = 3 /\ deafened))

(* An edge is latched once and serial_interrupt serves one condition of one  *)
(* port, so what is left to report is forgotten, until the line falls; but   *)
(* only if two conditions were there at once.  One at a time, each is        *)
(* latched until it is served.                                               *)
ForgottenOnlyTogether == \A l \in Lines : High(l) /\ l \notin irr /\ ~panicked => l \in both

(* An interrupt that was already latched when its port was closed, or comes  *)
(* between the steps of serial_close, starts nothing: no request, event or   *)
(* write interrupt is on a closed port.                                      *)
ClosedStaysQuiet ==
  \A p \in Ports : ~open[p] => op[p] = "none" /\ ~event[p] /\ ier[p] = {} /\ ~mcr[p]
=============================================================================
