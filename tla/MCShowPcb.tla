------------------------------ MODULE MCShowPcb ------------------------------
(* What the show commands get right in spite of the changes under them, and *)
(* an instance for TLC.                                                     *)
EXTENDS ShowPcb

(* When no process moved while it was the one being printed, Show All shows  *)
(* every process that stayed where it was, and no command shows one twice,   *)
(* however the others were moved around it.                                  *)
RestShownOnce ==
  cmdline \notin {"none", "ShowPcb"} /\ todo = <<>> /\ tidy =>
    \A p \in still : times[p] <= 1 /\ (cmdline = "ShowAll" => times[p] = 1)

(* The command handler never shows itself, not even where the help text says *)
(* "all PCBs" (comhand.c:203): it reads the heads and p_next only while it   *)
(* runs, and then it is in none of the queues.                               *)
HandlerNotShown == iter # ComhandPcb

(* "Prints the name, class, state, suspended status, and priority of all     *)
(* ready PCBs" (comhand.c:181), of those at least that stayed READY.         *)
ReadyAllShown ==
  cmdline = "ShowReady" /\ todo = <<>> /\ tidy =>
    \A p \in still : st[p].exec = "READY" => times[p] >= 1
-----------------------------------------------------------------------------
OneName   == <<"proc1">>
OneTimer  == {"timer_0"}
Typed     == {"LoadR3", "Alarm", "Suspend", "Delete"}
ReadWrite == {"READ", "WRITE"}
OnePri    == {0}
AllShows  == {"ShowPcb", "ShowReady", "ShowBlocked", "ShowAll"}
=============================================================================
