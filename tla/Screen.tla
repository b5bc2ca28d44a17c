-------------------------------- MODULE Screen --------------------------------
(***************************************************************************)
(* The terminal monitor of FSinside (ui/), around curses_mutex: the thread *)
(* that receives reports, the thread that redraws the bitmap, and the main *)
(* thread, which reads the keyboard and shows About.                       *)
(*                                                                         *)
(* A report is known by its number.  A bitmap has two parts, as a copy or  *)
(* a drawing of it is no single step; part p of the block bitmap is that   *)
(* of block p.  What is drawn where, and in what colours, is left out.     *)
(***************************************************************************)
EXTENDS Integers

CONSTANTS MaxReport,  \* the reports the file system sends
          SubMenu,    \* SUBMENU_1_SELECT_MAX
          Menu,       \* MENU_SELECT_MAX
          Reach       \* how far a user takes a selection out of its range

ASSUME ReportsAssumption == MaxReport \in Nat
ASSUME MenuAssumption   == {SubMenu, Menu} \subseteq Nat \ {0} /\ Reach \in Nat

Part == 1 .. 2
Flag == {"a", "r", "w", "d"}   \* 'D' and 'R' are treated as 'a' is

VARIABLES lock,      \* curses_mutex: "free", or the thread that holds it
          ibm, bbm,  \* the bitmaps; of a block, the report and if it is in use
          marks,     \* isReading, isWriting and isRemoved of blocks[]
          changed,   \* isDiskChanged
          mode,      \* CURRENT_MODE
          about,     \* isAboutOpen
          bean,      \* the thread that animates About: off, told to end, or on
          report,    \* the report that is received, or was last
          npc, dpc, kpc,  \* where the three threads are
          drawn,     \* what the redraw has come to
          selected, sub,  \* the item the keyboard is at
          yes,       \* isExitSelected
          \* history
          last,      \* what a report said of a block since it was drawn in use
          missed     \* the mode was set after a redraw had looked at it

bitmaps    == <<ibm, bbm, marks, report, npc, last>>
screen     == <<drawn, dpc>>
menu       == <<selected, sub, yes, kpc>>
screenVars == <<lock, bitmaps, changed, mode, about, bean, screen, menu, missed>>

NoReport == [no |-> 0, flag |-> "none", blk |-> {}]

ScreenInit ==
  /\ lock = "free" /\ changed = FALSE /\ mode = "inode"
  /\ ibm = [p \in Part |-> 0] /\ bbm = [p \in Part |-> [no |-> 0, used |-> TRUE]]
  /\ marks = [p \in Part |-> {}] /\ last = [p \in Part |-> "none"]
  /\ about = FALSE /\ bean = "off"
  /\ report = NoReport /\ npc = "idle" /\ dpc = "idle" /\ kpc = "menu"
  /\ drawn = [mode |-> "inode", part |-> [p \in Part |-> 0]]
  /\ selected = 0 /\ sub = 0 /\ yes = TRUE /\ missed = FALSE

Running == kpc # "exited"

Take(t) == lock = "free" /\ lock' = t

Give    == lock' = "free"

-----------------------------------------------------------------------------
(* The receiver.  A mount reports the bitmaps without a file event; the    *)
(* blocks of any other report are in use, or free if they were removed.    *)
Stay == UNCHANGED <<mode, about, bean, screen, menu, missed>>

LoadSuperBlk ==
  /\ Running /\ npc = "idle" /\ report.no < MaxReport /\ lock = "free"
  /\ \E f \in Flag \cup {"none"}, b \in {{}, {1}, Part} :
       /\ (f = "none") = (b = {})
       /\ report' = [no |-> report.no + 1, flag |-> f, blk |-> b]
  /\ npc' = "ibm" /\ Stay /\ UNCHANGED <<lock, ibm, bbm, marks, last, changed>>

UpdateInodes ==
  /\ Running
  /\ \/ /\ npc = "ibm" /\ Take("receiver")
        /\ ibm' = [ibm EXCEPT ![1] = report.no] /\ npc' = "ibm2"
     \/ /\ npc = "ibm2" /\ Give
        /\ ibm' = [ibm EXCEPT ![2] = report.no] /\ npc' = "bbm"
  /\ Stay /\ UNCHANGED <<bbm, marks, report, last, changed>>

Bits(p) == [no |-> report.no, used |-> report.flag # "d" \/ p \notin report.blk]

UpdateBlocks ==
  /\ Running
  /\ \/ /\ npc = "bbm" /\ Take("receiver")
        /\ bbm' = [bbm EXCEPT ![1] = Bits(1)] /\ npc' = "bbm2"
     \/ /\ npc = "bbm2" /\ Give
        /\ bbm' = [bbm EXCEPT ![2] = Bits(2)]
        /\ npc' = IF report.flag = "none" THEN "idle" ELSE "fio"
  /\ Stay /\ UNCHANGED <<ibm, marks, report, last, changed>>

(* Faulty: a block that is read keeps its mark of a write.                 *)
MarkedBoth(m, f) == CASE f = "r" -> m \cup {"r"}
                      [] f = "w" -> (m \ {"r"}) \cup {"w"}
                      [] f = "d" -> {"d"}
                      [] OTHER -> m

Marked(m, f) == CASE f = "r" -> (m \ {"w"}) \cup {"r"}
                  [] f = "w" -> (m \ {"r"}) \cup {"w"}
                  [] f = "d" -> (m \ {"r", "w"}) \cup {"d"}
                  [] OTHER -> m

(* Faulty: updateBlocks_for_IO leaves the screen as it is.                 *)
NoFlag == UNCHANGED changed

Flagged == changed' = TRUE

(* updateBlocks_for_IO: the flag is set under the lock.                    *)
UpdateBlocksForIO ==
  /\ Running /\ npc = "fio" /\ lock = "free"
  /\ Flagged
  /\ marks' = [p \in Part |-> IF p \in report.blk THEN Marked(marks[p], report.flag)
                                                  ELSE marks[p]]
  /\ last' = [p \in Part |-> IF p \in report.blk /\ report.flag # "a" THEN report.flag
                                                                      ELSE last[p]]
  /\ npc' = "idle" /\ report' = [report EXCEPT !.blk = {}]
  /\ Stay /\ UNCHANGED <<lock, ibm, bbm>>

-----------------------------------------------------------------------------
(* refresh_bitmap_screen.  The flags are looked at without the lock, the   *)
(* mode twice: if it is set in between, nothing is drawn.                  *)
Leave == UNCHANGED <<ibm, bbm, report, npc, mode, about, bean, menu>>

SeeChange ==
  /\ Running /\ dpc = "idle" /\ ~about /\ changed
  /\ dpc' = "wait"
  /\ Leave /\ UNCHANGED <<lock, changed, marks, last, drawn, missed>>

BeginRedraw ==
  /\ Running /\ dpc = "wait" /\ Take("redraw")
  /\ drawn' = [mode |-> "none", part |-> [p \in Part |-> 0]]
  /\ missed' = FALSE
  /\ dpc' = IF mode = "inode" THEN "inode1" ELSE "look"
  /\ Leave /\ UNCHANGED <<changed, marks, last>>

LookAgain ==
  /\ Running /\ dpc = "look"
  /\ dpc' = IF mode = "block" THEN "block1" ELSE "end"
  /\ Leave /\ UNCHANGED <<lock, changed, marks, last, drawn, missed>>

(* A part is drawn; of a block in use, its marks are shown and cleared.    *)
Drawing(m, p, next) ==
  /\ drawn' = [mode |-> m, part |-> [drawn.part EXCEPT ![p] =
                 IF m = "inode" THEN ibm[p] ELSE bbm[p].no]]
  /\ IF m = "block" /\ bbm[p].used
       THEN marks' = [marks EXCEPT ![p] = {}] /\ last' = [last EXCEPT ![p] = "none"]
       ELSE UNCHANGED <<marks, last>>
  /\ dpc' = next

Draw ==
  /\ Running
  /\ \/ dpc = "inode1" /\ Drawing("inode", 1, "inode2")
     \/ dpc = "inode2" /\ Drawing("inode", 2, "end")
     \/ dpc = "block1" /\ Drawing("block", 1, "block2")
     \/ dpc = "block2" /\ Drawing("block", 2, "end")
  /\ Leave /\ UNCHANGED <<lock, changed, missed>>

(* Faulty: what has been drawn is still taken to be a change.              *)
EndKeepingFlag ==
  /\ Running /\ dpc = "end" /\ Give /\ dpc' = "idle"
  /\ Leave /\ UNCHANGED <<changed, marks, last, drawn, missed>>

EndRedraw ==
  /\ Running /\ dpc = "end" /\ Give /\ dpc' = "idle" /\ changed' = FALSE
  /\ Leave /\ UNCHANGED <<marks, last, drawn, missed>>

-----------------------------------------------------------------------------
(* The keyboard: input_select_menu.                                        *)
RestStays == UNCHANGED <<bitmaps, screen>>

(* KEY_LEFT and KEY_RIGHT wrap around at the two ends only, so a selection *)
(* beyond the last menu, where 'x' has put it, goes on.                    *)
Move(d) ==
  /\ selected' = IF selected + d = -1 THEN Menu - 1
                 ELSE IF selected + d = Menu THEN 0 ELSE selected + d
  /\ sub' = 0

(* KEY_UP and KEY_DOWN; only menu 0 has a submenu to wrap around in.       *)
Step(d) ==
  /\ selected' = selected
  /\ sub' = IF selected # 0 THEN sub + d
            ELSE IF sub + d < 0 THEN SubMenu - 1
            ELSE IF sub + d = SubMenu THEN 0 ELSE sub + d

(* do_selected_menu                                                        *)
Runs(s) == CASE s = 0 -> "mode" [] s = 2 -> "about" [] s = 3 -> "popup" [] OTHER -> "menu"

Key ==
  /\ kpc = "menu"
  /\ \/ \E d \in {-1, 1} : (Move(d) \/ Step(d)) /\ kpc' = "menu"
     \/ UNCHANGED <<selected, sub>> /\ kpc' = Runs(selected)
     \/ \E k \in 0 .. 3 : selected' = k /\ sub' = 0 /\ kpc' = Runs(k)
  /\ selected' <= Menu + Reach /\ sub' \in - Reach .. SubMenu + Reach
  /\ yes' = TRUE
  /\ RestStays /\ UNCHANGED <<lock, changed, mode, about, bean, missed>>

(* set_show_bitmap: the mode, then the flag, without the lock.             *)
SetMode ==
  /\ kpc = "mode" /\ kpc' = "flag"
  /\ mode' = IF sub = 0 THEN "inode" ELSE IF sub = 1 THEN "block" ELSE mode
  /\ missed' = (missed \/ dpc \notin {"idle", "wait"})
  /\ RestStays /\ UNCHANGED <<lock, changed, about, bean, selected, sub, yes>>

SetFlag ==
  /\ kpc = "flag" /\ kpc' = "menu" /\ changed' = TRUE
  /\ RestStays /\ UNCHANGED <<lock, mode, about, bean, selected, sub, yes, missed>>

(* about() waits for a key with the lock in its hands.                     *)
OpenAbout ==
  /\ kpc = "about" /\ Take("about") /\ kpc' = "shown"
  /\ about' = TRUE /\ bean' = "on"
  /\ RestStays /\ UNCHANGED <<changed, mode, selected, sub, yes, missed>>

AnyKey ==
  /\ kpc = "shown" /\ kpc' = "join" /\ bean' = "told"
  /\ RestStays /\ UNCHANGED <<lock, changed, mode, about, selected, sub, yes, missed>>

BeanEnds ==
  /\ Running /\ bean = "told" /\ bean' = "off"
  /\ RestStays /\ UNCHANGED <<lock, changed, mode, about, menu, missed>>

(* Faulty: the windows are deleted while the animation may draw in them.   *)
NoJoin == TRUE

Joined == bean = "off"

CloseAbout ==
  /\ kpc = "join" /\ Joined /\ Give /\ kpc' = "menu" /\ about' = FALSE
  /\ RestStays /\ UNCHANGED <<changed, mode, bean, selected, sub, yes, missed>>

(* exit_fsinside                                                           *)
Popup ==
  /\ kpc = "popup"
  /\ \/ yes' = ~yes /\ kpc' = kpc
     \/ yes' = yes /\ kpc' \in {"exited", "menu", IF yes THEN "exited" ELSE "menu"}
  /\ RestStays /\ UNCHANGED <<lock, changed, mode, about, bean, selected, sub, missed>>

Stopped == kpc = "exited" /\ UNCHANGED screenVars

ReceiveReport == LoadSuperBlk \/ UpdateInodes \/ UpdateBlocks \/ UpdateBlocksForIO
Redraw  == SeeChange \/ BeginRedraw \/ LookAgain \/ Draw \/ EndRedraw
Keys    == Key \/ SetMode \/ SetFlag \/ OpenAbout \/ AnyKey \/ CloseAbout \/ Popup

ScreenNext == ReceiveReport \/ Redraw \/ Keys \/ BeanEnds \/ Stopped

ScreenSpec == ScreenInit /\ [][ScreenNext]_screenVars

(* No thread stops on its own; the user may, and About stays until a key.  *)
(* The redraw sleeps for 5 ms after it has given the lock back, which the  *)
(* receiver, woken by then, takes: it is not overtaken for ever.           *)
FairScreenSpec ==
  /\ ScreenSpec
  /\ SF_screenVars(UpdateInodes \/ UpdateBlocks \/ UpdateBlocksForIO)
  /\ WF_screenVars(Redraw) /\ WF_screenVars(SetFlag)
  /\ WF_screenVars(BeanEnds) /\ WF_screenVars(CloseAbout)

-----------------------------------------------------------------------------
(* What is drawn of a bitmap is the bitmap of one report.                  *)
NoTornDrawing ==
  dpc \in {"idle", "end"} => drawn.part[1] = drawn.part[2]

Current == [mode |-> mode,
            part |-> [p \in Part |-> IF mode = "inode" THEN ibm[p] ELSE bbm[p].no]]

(* Once nothing is under way the screen shows the current bitmap, unless   *)
(* the last report was that of a mount, or the mode was changed while a    *)
(* redraw was past the place where it looks at it.                         *)
NothingUndrawn ==
  /\ ~changed /\ dpc = "idle" /\ npc = "idle" /\ kpc # "flag"
  /\ report.no > 0 /\ report.flag # "none" /\ ~missed
  => drawn = Current

(* Both: what is drawn is one bitmap, and in the end the current one.      *)
DrawnRight == NoTornDrawing /\ NothingUndrawn

(* The three marks of a block tell what the last report said of it.        *)
MarksTellLast ==
  \A p \in Part : last[p] = IF "w" \in marks[p] THEN "w"
                            ELSE IF "r" \in marks[p] THEN "r"
                            ELSE IF "d" \in marks[p] THEN "d" ELSE "none"

(* The submenu of the bitmap has an item for every place in it.            *)
SubInRange == kpc = "mode" \/ (selected = 0 /\ kpc = "menu") => sub \in 0 .. SubMenu - 1

(* The animation of About has windows to draw in.                          *)
BeanHasWindow == bean # "off" => about

(* Both: the keyboard's thread leaves nothing behind that is used and is   *)
(* not there.                                                              *)
NoneDangling == SubInRange /\ BeanHasWindow

(* A change is drawn, and a report taken, sooner or later, unless the user *)
(* has About open or leaves.                                               *)
NobodyWaitsForEver ==
  /\ changed ~> ~changed \/ about \/ ~Running
  /\ npc # "idle" ~> npc = "idle" \/ about \/ ~Running
===============================================================================
