------------------------------ MODULE Desktop ------------------------------
(***************************************************************************)
(* Windows, mouse and keyboard: source/usermode/graphics, fed by the       *)
(* drivers of source/kernel/drivers/input.                                 *)
(*                                                                         *)
(* The graphics thread creates its windows with interrupts enabled.  The   *)
(* mouse and keyboard handlers, and the functions of the usermode they     *)
(* call back, run inside the interrupt, whatever statement of the thread   *)
(* it has hit: one step each here, while every access of the thread to the *)
(* list of windows is a step of its own.                                   *)
(***************************************************************************)
EXTENDS Integers, Sequences, FiniteSets, FiniteSetsExt

CONSTANTS
  Window, NoWindow,
  Opening,                     \* the windows the thread creates, in order
  Start,                       \* where each of them is created
  Width, Height, TitleHeight,  \* of every window
  MaxWindows,                  \* MAX_WINDOWS
  Garbage,                     \* what sys_malloc may leave in zindex
  ScreenWidth, ScreenHeight,
  Moves, Holds,                \* the movements and the buttons the mouse reports
  Key                          \* the keys of the keyboard

Position == [x : Int, y : Int]

MaxZindex == 65535         \* zindex has 16 bits
Zindex == 0 .. MaxZindex
Raised == 99999 % (MaxZindex + 1)

ASSUME DesktopAssumption ==
  /\ NoWindow \notin Window
  /\ Opening \in Seq(Window)
  /\ Start \in [Window -> Position]
  /\ Garbage \subseteq Zindex
  /\ {Width, Height, TitleHeight, ScreenWidth, ScreenHeight} \subseteq Nat
  /\ MaxWindows \in 1 .. Raised
  /\ Moves \subseteq Position
  /\ Holds \subseteq SUBSET {"left", "right"}
  /\ Key \cap {"left", "right"} = {}

VARIABLES
  array, size,       \* windowDrawList
  zindex,            \* of every window
  focused,           \* lastFocusedWindow
  place,             \* the top left corner of every window
  drag, grip,        \* w and mDownX, mDownY of HandleDragFocusInput
  mouse,             \* X, Y and prevState of MouseInfo
  keymap,            \* bPressed and bPressedPrev of every key
  down,              \* of every window: what its last message about it said is down
  opened,            \* how many windows the thread has opened
  thread             \* where the thread is, and its registers

listVars == <<array, size, zindex, focused>>
inputVars == <<mouse, keymap, down>>
dragVars == <<place, drag, grip>>
vars == <<listVars, dragVars, inputVars, opened, thread>>

Origin == [x |-> 0, y |-> 0]
(* The slots of currState and prevState: the driver stores the left button *)
(* in slot 0 and the right button in slot 2; for the messages about them,  *)
(* GMouseHandle looks at slots 0 and 1.                                    *)
Slot == 0 .. 2
Stored == [left |-> 0, right |-> 2]
Tested == [left |-> 0, right |-> 1]
Button == DOMAIN Stored

Registers == [pc |-> "rest", after |-> "rest", i |-> 0, again |-> FALSE,
              w1 |-> NoWindow, w2 |-> NoWindow, z1 |-> 0]

(* Mutant: a pass asks for another one, whether it has exchanged or not.   *)
NextIndex_AlwaysAgain(again) ==
  [Registers EXCEPT !.pc = "step", !.after = thread.after, !.again = TRUE, !.i = thread.i - 1]

(* The next index of ForceSort: w1, w2 and its key are dead there.          *)
NextIndex(again) ==
  [Registers EXCEPT !.pc = "step", !.after = thread.after, !.again = again, !.i = thread.i - 1]

Init ==
  /\ array = [k \in 0 .. MaxWindows - 1 |-> NoWindow]
  /\ size = 0
  /\ zindex \in [Window -> Garbage]
  /\ focused = NoWindow
  /\ place = Start
  /\ drag = NoWindow
  /\ grip = Origin
  /\ mouse = [x |-> 0, y |-> 0, prevState |-> [s \in Slot |-> FALSE]]
  /\ keymap = [k \in Key |-> [bPressed |-> FALSE, bPressedPrev |-> FALSE]]
  /\ down = [w \in Window |-> {}]
  /\ opened = 0
  /\ thread = Registers

-----------------------------------------------------------------------------
(* The graphics thread.                                                    *)

At(pc) == thread.pc = pc
Opened == Opening[opened + 1]

(* CreateWindow up to the list: AddWindow refuses when the list is full.   *)
CreateWindow ==
  /\ At("rest") /\ opened < Len(Opening)
  /\ thread' = [thread EXCEPT !.pc = IF size + 1 > MaxWindows THEN "raise" ELSE "append"]
  /\ UNCHANGED <<listVars, dragVars, inputVars, opened>>

AddWindow ==
  \/ /\ At("append")
     /\ array' = [array EXCEPT ![size] = Opened]
     /\ thread' = [thread EXCEPT !.pc = "grow"]
     /\ UNCHANGED <<size, zindex, focused, dragVars, inputVars, opened>>
  \/ /\ At("grow")
     /\ size' = size + 1
     /\ thread' = [thread EXCEPT !.pc = "sort", !.after = "raise"]
     /\ UNCHANGED <<array, zindex, focused, dragVars, inputVars, opened>>

FocusWindow ==
  \/ /\ At("raise")
     /\ zindex' = [zindex EXCEPT ![Opened] = Raised]
     /\ thread' = [thread EXCEPT !.pc = "focus"]
     /\ UNCHANGED <<array, size, focused, dragVars, inputVars, opened>>
  \/ /\ At("focus")
     /\ focused' = Opened
     /\ opened' = opened + 1
     /\ thread' = [thread EXCEPT !.pc = "sort", !.after = "rest"]
     /\ UNCHANGED <<array, size, zindex, dragVars, inputVars>>

(* ForceSort, its control first.  No entry of the list is ever null.       *)
SortControl ==
  /\ \/ /\ At("sort")
        /\ thread' = IF size <= 1 THEN [Registers EXCEPT !.pc = thread.after]
                                  ELSE [thread EXCEPT !.pc = "pass", !.again = TRUE]
     \/ /\ At("pass")
        /\ thread' = IF thread.again
                       THEN [thread EXCEPT !.pc = "step", !.again = FALSE, !.i = size - 1]
                       ELSE [thread EXCEPT !.pc = "number", !.i = 0]
     \/ /\ At("step")
        /\ thread' = IF thread.i > 0
                       THEN [thread EXCEPT !.pc = "below", !.w1 = array[thread.i]]
                       ELSE [thread EXCEPT !.pc = "pass"]
     \/ /\ At("below")
        /\ thread' = [thread EXCEPT !.pc = "key", !.w2 = array[thread.i - 1]]
     \/ /\ At("key")
        /\ thread' = [thread EXCEPT !.pc = "compare", !.z1 = zindex[thread.w1]]
     \/ /\ At("compare")
        /\ thread' = IF thread.z1 < zindex[thread.w2]
                       THEN [thread EXCEPT !.pc = "swap"]
                       ELSE NextIndex(thread.again)
     \/ /\ At("number")
        /\ thread' = IF thread.i < size
                       THEN [thread EXCEPT !.pc = "assign", !.w1 = array[thread.i]]
                       ELSE [Registers EXCEPT !.pc = thread.after]
  /\ UNCHANGED <<listVars, dragVars, inputVars, opened>>

(* The stores of ForceSort: two for an exchange, one for a new zindex.     *)
SortStore ==
  /\ \/ /\ At("swap")
        /\ array' = [array EXCEPT ![thread.i] = thread.w2]
        /\ thread' = [thread EXCEPT !.pc = "swapped"]
        /\ UNCHANGED zindex
     \/ /\ At("swapped")
        /\ array' = [array EXCEPT ![thread.i - 1] = thread.w1]
        /\ thread' = NextIndex(TRUE)
        /\ UNCHANGED zindex
     \/ /\ At("assign")
        /\ zindex' = [zindex EXCEPT ![thread.w1] = thread.i]
        /\ thread' = [thread EXCEPT !.pc = "number", !.i = @ + 1, !.w1 = NoWindow]
        /\ UNCHANGED array
  /\ UNCHANGED <<size, focused, dragVars, inputVars, opened>>

GraphicsThread ==
  CreateWindow \/ AddWindow \/ FocusWindow \/ SortControl \/ SortStore

-----------------------------------------------------------------------------
(* The mouse interrupt, and all it does to the list and to the drag.       *)

Entries == 0 .. size - 1

(* ForceSort exchanges neighbours only: the sort is stable.                *)
Sorted(list, z) ==
  LET rank(j) == Cardinality({k \in Entries : \/ z[list[k]] < z[list[j]]
                                              \/ z[list[k]] = z[list[j]] /\ k < j})
  IN  [k \in DOMAIN list |->
         IF k \in Entries THEN list[CHOOSE j \in Entries : rank(j) = k] ELSE list[k]]

Numbered(list, z) ==
  [w \in Window |-> LET at == {k \in Entries : list[k] = w}
                    IN  IF at = {} THEN z[w] ELSE Max(at)]

(* Mutant: the click leaves the sorting to the thread.                     *)
Focused_NotSorted(d, w) == [d EXCEPT !.focused = w, !.zindex[w] = Raised]

(* FocusWindow of the handler, on the desktop d = its list and its drag.   *)
Focused(d, w) ==
  LET raised == [d.zindex EXCEPT ![w] = Raised]
      list == Sorted(d.array, raised)
  IN  IF size <= 1
        THEN [d EXCEPT !.focused = w, !.zindex = raised]
        ELSE [d EXCEPT !.focused = w, !.array = list, !.zindex = Numbered(list, raised)]

(* PointInRect includes the edges.                                         *)
Inside(p, corner, height) ==
  /\ p.x \in corner.x .. corner.x + Width
  /\ p.y \in corner.y .. corner.y + height

(* Mutant: the first window of the list under the pointer.                 *)
Hovering_First(d, p) ==
  LET under == {k \in Entries : Inside(p, d.place[d.array[k]], Height)}
  IN  IF under = {} THEN NoWindow ELSE d.array[Min(under)]

(* HoveringWindow: the last window of the list under the pointer.          *)
Hovering(d, p) ==
  LET under == {k \in Entries : Inside(p, d.place[d.array[k]], Height)}
  IN  IF under = {} THEN NoWindow ELSE d.array[Max(under)]

(* Mutant: the grip stays where the button went down.                      *)
Dragged_FromTheStart(d, w, p) ==
  [d EXCEPT !.place[w] = [x |-> @.x + p.x - d.grip.x, y |-> @.y + p.y - d.grip.y]]

(* The window moves by as much as the pointer has since the last packet.   *)
Dragged(d, w, p) ==
  [d EXCEPT !.grip = p,
            !.place[w] = [x |-> @.x + p.x - d.grip.x, y |-> @.y + p.y - d.grip.y]]

Desk == [array |-> array, zindex |-> zindex, focused |-> focused,
         place |-> place, drag |-> drag, grip |-> grip]

(* One window of the list, in HandleDragFocusInput: a press on it gives it *)
(* the focus, one on its title takes hold of it, and it is moved or let go *)
(* if it was held before.  The grip is read only while a window is         *)
(* dragged: it is forgotten with the drag.                                 *)
Meet(d, w, p, mouseDown, mouseWasDown) ==
  LET hit == mouseDown /\ ~ mouseWasDown /\ Hovering(d, p) = w
      grab == hit /\ Inside(p, d.place[w], TitleHeight)
      front == IF hit THEN Focused(d, w) ELSE d
      held == IF grab THEN [front EXCEPT !.drag = w, !.grip = p] ELSE front
  IN  IF held.drag # w \/ ~ mouseWasDown THEN held
      ELSE IF ~ mouseDown THEN [held EXCEPT !.drag = NoWindow, !.grip = Origin]
      ELSE Dragged(held, w, p)

(* The desktop after k entries.  The list is walked while it is reordered: *)
(* a window that was raised may come up again, and one that was not met    *)
(* yet may never come up.                                                  *)
Walk(p, mouseDown, mouseWasDown) ==
  LET met[k \in 0 .. size] ==
        IF k = 0 THEN Desk ELSE Meet(met[k - 1], met[k - 1].array[k - 1], p, mouseDown, mouseWasDown)
  IN  met

HandleDragFocusInput(p, mouseDown, mouseWasDown) ==
  LET d == Walk(p, mouseDown, mouseWasDown)[size]
  IN  /\ array' = d.array /\ zindex' = d.zindex /\ focused' = d.focused
      /\ place' = d.place /\ drag' = d.drag /\ grip' = d.grip
      /\ UNCHANGED size

(* Mutant: the pointer is not kept below the size of the screen.           *)
Clamp_AboveOnly(n, limit) == IF n < 0 THEN 0 ELSE n

Clamp(n, limit) == IF n < 0 THEN 0 ELSE IF n > limit THEN limit ELSE n

(* Mutant: the messages go out before the click has moved the focus.       *)
Told_FocusedBefore(w, pressed, released) ==
  IF focused = NoWindow THEN down
  ELSE [down EXCEPT ![focused] = (@ \cup pressed) \ released]

(* The callback of one window only, w, hears what was pressed or released. *)
Told(w, pressed, released) ==
  IF w = NoWindow THEN down ELSE [down EXCEPT ![w] = (@ \cup pressed) \ released]

(* The third byte of a packet: the driver moves the pointer and calls the  *)
(* handlers; GMouseHandle tells the window that has the focus.             *)
MousePacket(move, held) ==
  LET currState == [s \in Slot |-> \E b \in held : Stored[b] = s]
      p == [x |-> Clamp(mouse.x + move.x, ScreenWidth),
            y |-> Clamp(mouse.y + move.y, ScreenHeight)]
      isDown(b) == currState[Tested[b]]
      isUp(b) == ~ currState[Tested[b]] /\ mouse.prevState[Tested[b]]
  IN  /\ HandleDragFocusInput(p, currState[0], mouse.prevState[0])
      /\ mouse' = [x |-> p.x, y |-> p.y, prevState |-> currState]
      /\ down' = Told(focused', {b \in Button : isDown(b)}, {b \in Button : isUp(b)})
      /\ UNCHANGED <<keymap, opened, thread>>

(* The keyboard interrupt: a make code while the key is held is a repeat.  *)
KeyPress(k, make) ==
  /\ keymap' = [keymap EXCEPT ![k] = [bPressed |-> make, bPressedPrev |-> @.bPressed]]
  /\ down' = Told(focused, IF make THEN {k} ELSE {},
                           IF ~ make /\ keymap[k].bPressed THEN {k} ELSE {})
  /\ UNCHANGED <<listVars, dragVars, mouse, opened, thread>>

-----------------------------------------------------------------------------
Next ==
  \/ GraphicsThread
  \/ \E move \in Moves, held \in Holds : MousePacket(move, held)
  \/ \E k \in Key, make \in BOOLEAN : KeyPress(k, make)

Spec == Init /\ [][Next]_vars

(* The thread gets the processor again and again.                          *)
FairSpec == Spec /\ WF_vars(GraphicsThread)

-----------------------------------------------------------------------------
(* Properties.                                                             *)

TypeOK ==
  /\ array \in [0 .. MaxWindows - 1 -> Window \cup {NoWindow}]
  /\ size \in 0 .. MaxWindows
  /\ zindex \in [Window -> Zindex]
  /\ focused \in Window \cup {NoWindow}
  /\ place \in [Window -> Position]
  /\ drag \in Window \cup {NoWindow}
  /\ grip \in Position
  /\ mouse \in [x : 0 .. ScreenWidth, y : 0 .. ScreenHeight, prevState : [Slot -> BOOLEAN]]
  /\ keymap \in [Key -> [bPressed : BOOLEAN, bPressedPrev : BOOLEAN]]
  /\ down \in [Window -> SUBSET (Button \cup Key)]
  /\ opened \in 0 .. Len(Opening)
  /\ thread.i \in -1 .. MaxWindows

AtRest == At("rest")

Listed == {array[k] : k \in Entries}

(* At rest the list is in the order of the zindexes, the order in which    *)
(* the windows are drawn and searched for the pointer: clicks that reorder *)
(* it between two accesses of the thread's own ForceSort leave nothing     *)
(* unsorted, and the list holds as many entries as windows were opened.    *)
ListInOrder ==
  AtRest =>
    /\ size = opened
    /\ Listed \subseteq {Opening[n] : n \in 1 .. opened}
    /\ \A j, k \in Entries : j < k => zindex[array[j]] <= zindex[array[k]]

(* window_draw_list.cpp:3: the list is there "for keeping track and        *)
(* keeping order of the rendering windows": when the thread has sorted it, *)
(* every window that was opened is in it.                                  *)
NoWindowLost == AtRest => {Opening[n] : n \in 1 .. opened} \subseteq Listed

(* A press on a list that is complete and at rest gives the focus to the   *)
(* window that was on top under the pointer, puts that window on top of    *)
(* all and drops none.                                                     *)
PressRaises ==
  [][AtRest /\ Cardinality(Listed) = size /\ ~ mouse.prevState[0] /\ mouse'.prevState[0] =>
       LET Under(k) == Inside(mouse', place[array[k]], Height)
       IN  /\ \A k \in Entries :
                Under(k) /\ (\A j \in Entries : Under(j) => j <= k)
                  => focused' = array[k] /\ array'[size - 1] = array[k]
           /\ Listed' = Listed]_vars

(* A dragged window follows the pointer: while it is listed, what is held  *)
(* by its title stays under the pointer, and nothing is held once the      *)
(* button is up.                                                           *)
Grabbed ==
  drag # NoWindow =>
    /\ mouse.prevState[0]
    /\ Inside(mouse, place[drag], TitleHeight)
    /\ grip = [x |-> mouse.x, y |-> mouse.y]

DragKept == [][Grabbed /\ drag \in Listed \cup {NoWindow} => Grabbed']_vars

(* What the driver knows to be held, and whether the window with the focus *)
(* was told so.                                                            *)
HeldDown(b) == IF b \in Key THEN keymap[b].bPressed ELSE mouse.prevState[Stored[b]]

Knows(b) == focused # NoWindow /\ (b \in down[focused] <=> HeldDown(b))

(* The left button is never down for the window that has the focus after   *)
(* it was released, though the thread may take the focus to another window *)
(* while it is held.  Of this button and of every key, the window that has *)
(* the focus after a change hears of it, also if the click has just given  *)
(* it the focus, and what it knows it goes on knowing while it keeps it.   *)
FocusedHears ==
  /\ [](focused # NoWindow /\ "left" \in down[focused] => HeldDown("left"))
  /\ [][\A b \in Key \cup {"left"} :
          /\ focused' # NoWindow
          /\ (Knows(b) /\ focused' = focused) \/ HeldDown(b)' # HeldDown(b)
          => Knows(b)']_vars

(* Once the user stops clicking, the thread's sorts come to an end and all *)
(* its windows are opened.                                                 *)
Calm == <>[](mouse.prevState[0]) \/ <>[](~ mouse.prevState[0])

WindowsOpen == Calm => <>(AtRest /\ opened = Len(Opening))

=============================================================================
