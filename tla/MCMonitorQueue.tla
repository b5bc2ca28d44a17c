--------------------------- MODULE MCMonitorQueue ---------------------------
(* An instance of MonitorQueue for TLC.  Whenever no receiver runs, either  *)
(* the monitor of the user interface or the test server may be started.     *)
(* The sizes are 16, 104, 112, 2064 and 144 bytes in the build; small       *)
(* numbers in the same order do, as only the order and what fits beside     *)
(* what matter.  The queue has room for the first pair of a report and the  *)
(* announcement of the second, whose payload is refused.                    *)
EXTENDS MonitorQueue, TLC

CONSTANTS h1, h2

MCSize   == [ctrl |-> 1, sb |-> 2, bbm |-> 3]
MCReport == <<"sb", "bbm">>

(* server.c does not wait and has no case for the last kind.                *)
Server == INSTANCE MonitorQueue WITH Waits <- FALSE, Known <- {"sb"}

VARIABLE receiver   \* the program that is, or was last, the receiver

EitherInit == Init /\ receiver \in {"monitor", "server"}

EitherNext ==
  \/ receiver = "monitor" /\ Next /\ UNCHANGED receiver
  \/ receiver = "server" /\ Server!Next /\ UNCHANGED receiver
  \/ rpc = "off" /\ CreateMQ /\ receiver' \in {"monitor", "server"}

EitherReceive == IF receiver = "monitor" THEN Receive ELSE Server!Receive

(* The fairness of MonitorQueue.                                            *)
EitherSpec ==
  /\ EitherInit /\ [][EitherNext]_<<vars, receiver>>
  /\ \A h \in Handler : WF_vars(Send(h) \/ Refuse(h))
  /\ WF_vars(EitherReceive)
=============================================================================
