---------------------------- MODULE MonitorQueue ----------------------------
(***************************************************************************)
(* The channel between the file system and its monitor (net/msglib and     *)
(* ui/messageQ): a System V message queue.  At its end every handler sends *)
(* the super block, the two bitmaps and the file it worked on, each as a   *)
(* pair: a control message that announces a kind, then a message of that   *)
(* kind.  All messages have the same mtype, so the receiver tells them     *)
(* apart by their position in the queue, and the kernel by their length.   *)
(*                                                                         *)
(* Either process may die, the monitor may be started again, and the queue *)
(* outlives both: only the monitor removes it, and not every time it ends. *)
(*                                                                         *)
(* SendMQ returns no value after a payload was sent.  In an ordinary build *)
(* the handler gets the number SendMQ has just compared with 0, which is   *)
(* not negative: the model takes it for success.  What a handler answers   *)
(* when its report was refused is in TinyFS and FileData.                  *)
(***************************************************************************)
EXTENDS SequencesExt, Integers

CONSTANTS Handler,   \* the threads of tinyfs
          Kind,      \* MSG_TYPE: sb, ibm, bbm and fio
          Size,      \* sizeof the structure of each kind, and of Msg_t, "ctrl"
          Report,    \* the kinds a handler sends, in order
          MaxBytes,  \* msg_qbytes, the limit of the queue
          Waits,     \* FALSE if the receiver passes IPC_NOWAIT (server.c)
          Known      \* the kinds the receiver's switch has a case for

Message == [kind : Kind \cup {"ctrl"}, of : Kind, from : Handler]

ASSUME KindAssumption  == Kind \cap {"off", "top", "ctrl"} = {}
ASSUME SizeAssumption  == /\ Size \in [Kind \cup {"ctrl"} -> Nat]
                          /\ \A k \in Kind : Size["ctrl"] < Size[k]
ASSUME ReportAssumption == Report \in Seq(Kind) /\ Report # << >>
ASSUME BytesAssumption == MaxBytes \in Nat
ASSUME WaitsAssumption == Waits \in BOOLEAN
ASSUME KnownAssumption == Known \subseteq Kind

VARIABLES exists,  \* TRUE while the queue with key 5000 exists
          queue,   \* its messages, oldest first
          qid,     \* qid[h]: OpenMQ's result for h: none, live, or stale
          todo,    \* todo[h]: what h still has to send
          rpc,     \* where the receiver is: off, top, ctrl, or a kind
          torn     \* history: some pair in the queue has been torn apart

vars == <<exists, queue, qid, todo, rpc, torn>>

(* Faulty: the type of the control message is never assigned.              *)
CtrlUnset(h, k) == [kind |-> "ctrl", of |-> "off", from |-> h]

Ctrl(h, k) == [kind |-> "ctrl", of |-> k, from |-> h]

Payload(h, k) == [kind |-> k, of |-> k, from |-> h]

(* What h sends for a report of kinds ks: for each kind, SendMQ's pair.    *)
Messages(h, ks) ==
  [i \in 1 .. 2 * Len(ks) |-> LET k == ks[(i + 1) \div 2]
                              IN  IF i % 2 = 1 THEN Ctrl(h, k) ELSE Payload(h, k)]

MidPair(h) == todo[h] # << >> /\ Head(todo[h]).kind # "ctrl"

TypeOK ==
  /\ exists \in BOOLEAN /\ torn \in BOOLEAN
  /\ queue \in Seq(Message)
  /\ qid \in [Handler -> {"none", "live", "stale"}]
  /\ todo \in [Handler -> Seq(Message)]
  /\ rpc \in {"off", "top", "ctrl"} \cup Kind

Init ==
  /\ exists = FALSE /\ queue = << >>
  /\ qid  = [h \in Handler |-> "none"]
  /\ todo = [h \in Handler |-> << >>]
  /\ rpc  = "off"
  /\ torn = FALSE

-----------------------------------------------------------------------------
(* A handler opens the queue, does its work, and has its report to send;   *)
(* tiny_init has no file to show and leaves out the last kind.             *)
OpenMQ(h) ==
  /\ todo[h] = << >>
  /\ qid' = [qid EXCEPT ![h] = IF exists THEN "live" ELSE "none"]
  /\ \E ks \in {Report, Front(Report)} :
       todo' = [todo EXCEPT ![h] = Messages(h, ks)]
  /\ UNCHANGED <<exists, queue, rpc, torn>>

(* msgsnd has room for message m.                                          *)
Bytes   == FoldLeft(LAMBDA n, m : n + Size[m.kind], 0, queue)
Fits(m) == Bytes + Size[m.kind] <= MaxBytes

(* The next message of the report is refused: msgsnd fails for want of     *)
(* room, or because the queue is gone or was never found.                  *)
Refused(h) == qid[h] # "live" \/ ~Fits(Head(todo[h]))

(* Faulty: a full queue makes msgsnd wait (the flags of ui/messageQ); a    *)
(* handler goes on with its report after a message that was refused.       *)
RefuseNoQueue(h) ==
  /\ todo[h] # << >> /\ qid[h] # "live"
  /\ todo' = [todo EXCEPT ![h] = << >>]
  /\ UNCHANGED <<exists, queue, qid, rpc, torn>>

RefuseAndGoOn(h) ==
  /\ todo[h] # << >> /\ Refused(h)
  /\ todo' = [todo EXCEPT ![h] = Tail(@)]
  /\ torn' = (torn \/ (qid[h] = "live" /\ MidPair(h)))
  /\ UNCHANGED <<exists, queue, qid, rpc>>

(* The rest of the report is not sent, and the handler ends in a return    *)
(* without a value.                                                        *)
Refuse(h) ==
  /\ todo[h] # << >> /\ Refused(h)
  /\ todo' = [todo EXCEPT ![h] = << >>]
  /\ torn' = (torn \/ (qid[h] = "live" /\ MidPair(h)))
  /\ UNCHANGED <<exists, queue, qid, rpc>>

(* The next message is sent.  A pair is torn if another thread is half-way *)
(* through one.                                                            *)
Send(h) ==
  /\ todo[h] # << >> /\ qid[h] = "live" /\ Fits(Head(todo[h]))
  /\ queue' = Append(queue, Head(todo[h]))
  /\ todo'  = [todo EXCEPT ![h] = Tail(@)]
  /\ torn'  = (torn \/ \E g \in Handler \ {h} : qid[g] = "live" /\ MidPair(g))
  /\ UNCHANGED <<exists, qid, rpc>>

-----------------------------------------------------------------------------
(* The monitor starts: CreateMQ finds the queue or makes one.              *)
CreateMQ ==
  /\ rpc = "off"
  /\ exists' = TRUE
  /\ rpc' = "top"
  /\ UNCHANGED <<queue, qid, todo, torn>>

(* The top of the receiver's loop, the exit flag not being set.            *)
Loop ==
  /\ rpc = "top"
  /\ rpc' = "ctrl"
  /\ UNCHANGED <<exists, queue, qid, todo, torn>>

(* Faulty: the switch has no case for the last kind, as in server.c.       *)
RecvCtrlNoFileIO ==
  /\ rpc = "ctrl" /\ queue # << >>
  /\ Size[Head(queue).kind] <= Size["ctrl"]
  /\ queue' = Tail(queue)
  /\ rpc' = IF Head(queue).of = Last(Report) THEN "top" ELSE Head(queue).of
  /\ UNCHANGED <<exists, qid, todo, torn>>

(* RecvCtrl takes the head of the queue if that is not too long for it,    *)
(* and fails if it is.  An unknown kind is left where it is.               *)
RecvCtrl ==
  /\ rpc = "ctrl" /\ queue # << >>
  /\ Size[Head(queue).kind] <= Size["ctrl"]
  /\ queue' = Tail(queue)
  /\ LET k == Head(queue).of
     IN  /\ rpc'  = IF k \in Known THEN k ELSE "top"
         /\ torn' = (torn \/ k \notin Known)
  /\ UNCHANGED <<exists, qid, todo>>

(* Faulty: with MSG_NOERROR a message that is too long is cut off.         *)
RecvCtrlCutOff ==
  /\ rpc = "ctrl" /\ queue # << >>
  /\ Size[Head(queue).kind] > Size["ctrl"]
  /\ queue' = Tail(queue)
  /\ rpc' = "top"
  /\ UNCHANGED <<exists, qid, todo, torn>>

RecvCtrlTooBig ==
  /\ rpc = "ctrl" /\ queue # << >>
  /\ Size[Head(queue).kind] > Size["ctrl"]
  /\ rpc' = "top"
  /\ UNCHANGED <<exists, queue, qid, todo, torn>>

(* Load<kind>: whatever is not longer than the structure is taken for it.  *)
Load ==
  /\ rpc \in Kind /\ queue # << >>
  /\ Size[Head(queue).kind] <= Size[rpc]
  /\ queue' = Tail(queue)
  /\ rpc' = "top"
  /\ UNCHANGED <<exists, qid, todo, torn>>

LoadTooBig ==
  /\ rpc \in Kind /\ queue # << >>
  /\ Size[Head(queue).kind] > Size[rpc]
  /\ rpc' = "top"
  /\ torn' = TRUE
  /\ UNCHANGED <<exists, queue, qid, todo>>

(* With IPC_NOWAIT a receive from an empty queue fails: a control message  *)
(* is asked for again, a payload is given up.                              *)
RecvNothing ==
  /\ ~Waits /\ queue = << >> /\ rpc \in Kind \cup {"ctrl"}
  /\ rpc'  = "top"
  /\ torn' = (torn \/ rpc \in Kind)
  /\ UNCHANGED <<exists, queue, qid, todo>>

(* The user leaves the monitor.  The receiver removes the queue if it gets *)
(* to the top of its loop before exit(0) ends the process.                 *)
RemoveMQ ==
  /\ rpc = "top"
  /\ exists' = FALSE /\ queue' = << >> /\ torn' = FALSE
  /\ qid' = [h \in Handler |-> IF qid[h] = "live" THEN "stale" ELSE qid[h]]
  /\ rpc' = "off"
  /\ UNCHANGED todo

Exit ==
  /\ rpc # "off"
  /\ rpc'  = "off"
  /\ torn' = (torn \/ rpc \in Kind)
  /\ UNCHANGED <<exists, queue, qid, todo>>

(* tinyfs dies, perhaps half-way through a pair, and is started again.     *)
Crash ==
  /\ todo' = [h \in Handler |-> << >>]
  /\ qid'  = [h \in Handler |-> "none"]
  /\ torn' = (torn \/ \E h \in Handler : qid[h] = "live" /\ MidPair(h))
  /\ UNCHANGED <<exists, queue, rpc>>

Receive == \/ Loop \/ RecvCtrl \/ RecvCtrlTooBig
           \/ Load \/ LoadTooBig \/ RecvNothing

Next ==
  \/ \E h \in Handler : OpenMQ(h) \/ Send(h) \/ Refuse(h)
  \/ CreateMQ \/ Receive \/ RemoveMQ \/ Exit
  \/ Crash

Spec == Init /\ [][Next]_vars

(* No call of the file system waits for the monitor, and the receiver is a *)
(* loop: each runs on whatever the other does.                             *)
FairSpec ==
  /\ Spec
  /\ \A h \in Handler : WF_vars(Send(h) \/ Refuse(h))
  /\ WF_vars(Receive)

-----------------------------------------------------------------------------
(* What the receiver has still to make sense of: the queue, preceded by    *)
(* the announcement of the payload it is waiting for.                      *)
Paired(s, i) ==
  \/ s[i].kind = "ctrl" /\ (i < Len(s) => s[i + 1] = Payload(s[i].from, s[i].of))
  \/ i > 1 /\ s[i - 1].kind = "ctrl" /\ s[i] = Payload(s[i - 1].from, s[i].of)

(* The receiver is in step with the queue: where it expects a control      *)
(* message it finds one, and behind each its payload, of the same kind and *)
(* from the same thread.                                                   *)
InStep ==
  /\ rpc \in Kind /\ queue # << >> => Head(queue).kind = rpc
  /\ LET s == IF rpc \in Kind /\ queue # << >> THEN Tail(queue) ELSE queue
     IN  \A i \in 1 .. Len(s) : Paired(s, i)

(* The only ways to lose step: a payload that is refused for want of room, *)
(* two threads sending at once, either process dying between the two       *)
(* messages of a pair, or a receiver that does not wait for a payload or   *)
(* does not know its kind.                                                 *)
InStepUnlessTorn == ~torn => InStep

(* A receiver whose next message is a payload never gets past it.          *)
Wedged == rpc \in {"off", "top", "ctrl"} /\ queue # << >>
            /\ Head(queue).kind # "ctrl"

(* Starting the monitor again does not help: the queue keeps what is in    *)
(* it until a receiver that is told to exit removes it.                    *)
WedgeOutlivesRestart == [][Wedged /\ exists' => Wedged']_vars

(* The monitor cannot hold up the file system, whether it runs or not.     *)
HandlersNeverWait ==
  \A h \in Handler : todo[h] # << >> ~> todo[h] = << >>

(* When the file system is idle and no pair was torn, the monitor catches  *)
(* up with it.                                                             *)
Idle == \A h \in Handler : todo[h] = << >>
CatchesUp ==
  <>[](Idle /\ ~torn /\ rpc # "off") => []<>(queue = << >>)
=============================================================================
