------------------------------ MODULE Drawing ------------------------------
(***************************************************************************)
(* What the user sees of Desktop: DrawAndSwap of                           *)
(* source/usermode/graphics/graphics.cpp, with source/graphics.            *)
(*                                                                         *)
(* When its windows are open, the graphics thread draws frame after frame  *)
(* into the back buffer and copies each to the screen, while the mouse     *)
(* interrupt moves and reorders the windows it is drawing.  Only the       *)
(* thread touches the buffers, so a drawing call is one step, taken when   *)
(* it reads where to draw.  Of a pixel the layer on top is kept, although  *)
(* what is below a translucent one shows through.                          *)
(***************************************************************************)
EXTENDS Desktop

CONSTANTS
  BarHeight,     \* of the bar at the bottom of the screen
  CursorSize,    \* mouseCursorSize
  Thickness      \* windowBorderThickness

ASSUME DrawingAssumption == {BarHeight, CursorSize, Thickness} \subseteq Nat

VARIABLES
  pc,              \* where the thread is in its frame
  index, window,   \* i of RenderWindows and the window it draws
  back,            \* backBuffer
  disturbed        \* have windows moved or changed places since the frame began?

frameVars == <<pc, index, window>>
drawVars == <<frameVars, back, disturbed>>

(* GetPixel has an address for these; the size that is allocated, cleared  *)
(* and copied leaves out the last of them.                                 *)
Pixel == (0 .. ScreenWidth - 1) \X (0 .. ScreenHeight - 1)
LastPixel == <<ScreenWidth - 1, ScreenHeight - 1>>

Layer(what, w) == [what |-> what, of |-> w]
Cleared == Layer("Cleared", NoWindow)

(* DrawDesktop: the background and the bar.                                *)
Ground(p) ==
  Layer(IF p[2] >= ScreenHeight - BarHeight THEN "Bar" ELSE "Background", NoWindow)

(* DrawBox includes the edges, as PointInRect does.                        *)
Box(w) ==
  (place[w].x .. place[w].x + Width) \X (place[w].y .. place[w].y + Height)

(* DrawBorderBox: around the window, and over its right and bottom edge.   *)
Border(w) ==
  LET l == place[w].x
      t == place[w].y
      outer == (l - Thickness .. l + Width + Thickness - 1)
                 \X (t - Thickness .. t + Height + Thickness - 1)
  IN  outer \ ((l .. l + Width - 1) \X (t .. t + Height - 1))

(* CopyTo leaves the right and the bottom edge out.                        *)
Viewport(w) ==
  (place[w].x .. place[w].x + Width - 1)
    \X (place[w].y + TitleHeight .. place[w].y + Height - 1)

(* The two lines of DrawCursor.                                            *)
Cross(x, y) ==
  LET half == CursorSize \div 2
  IN  ({x} \X (y - half .. y - half + CursorSize - 1))
        \cup ((x - half .. x - half + CursorSize - 1) \X {y})

-----------------------------------------------------------------------------
Drawn == At("rest") /\ opened = Len(Opening)

(* PutPixel of every pixel of a region; what is not on the screen is not   *)
(* drawn.                                                                  *)
Paint(region, layer) ==
  back' = [p \in Pixel |-> IF p \in region THEN layer ELSE back[p]]

DrawDesktop ==
  /\ Drawn /\ pc = "desktop" /\ pc' = "next"
  /\ back' = [p \in Pixel |-> Ground(p)]
  /\ UNCHANGED <<index, window, disturbed>>

(* Mutant: the index is kept from frame to frame.                          *)
RenderWindows_KeepsIndex ==
  /\ Drawn /\ pc = "next"
  /\ IF index < size
       THEN pc' = "frame" /\ window' = array[index]
       ELSE pc' = "cursor" /\ UNCHANGED window
  /\ UNCHANGED <<index, back, disturbed>>

(* The loop of RenderWindows, over a list that interrupts reorder.         *)
RenderWindows ==
  /\ Drawn /\ pc = "next"
  /\ IF index < size
       THEN pc' = "frame" /\ window' = array[index] /\ UNCHANGED index
       ELSE pc' = "cursor" /\ index' = 0 /\ UNCHANGED window
  /\ UNCHANGED <<back, disturbed>>

(* DrawWindow, its box first, ...                                          *)
DrawWindow ==
  /\ Drawn /\ pc = "frame" /\ pc' = "border"
  /\ Paint(Box(window), Layer("Frame", window))
  /\ UNCHANGED <<index, window, disturbed>>

(* Mutant: the border is drawn before it is known who has the focus.       *)
DrawBorder_Always ==
  /\ Drawn /\ pc = "border" /\ pc' = "content"
  /\ Paint(Border(window), Layer("Border", window))
  /\ UNCHANGED <<index, window, disturbed>>

(* ... then the border if the window has the focus.                        *)
DrawBorder ==
  /\ Drawn /\ pc = "border" /\ pc' = "content"
  /\ IF focused = window THEN Paint(Border(window), Layer("Border", window))
                         ELSE UNCHANGED back
  /\ UNCHANGED <<index, window, disturbed>>

CopyContent ==
  /\ Drawn /\ pc = "content" /\ pc' = "next"
  /\ Paint(Viewport(window), Layer("Content", window))
  /\ index' = index + 1 /\ window' = NoWindow
  /\ UNCHANGED disturbed

DrawCursor ==
  /\ Drawn /\ pc = "cursor" /\ pc' = "swap"
  /\ Paint(Cross(mouse.x, mouse.y), Layer("Cursor", NoWindow))
  /\ UNCHANGED <<index, window, disturbed>>

(* SwapTo: the screen as it is then.  Its last pixel is never written.     *)
Swapped == [back EXCEPT ![LastPixel] = Cleared]

SwapBuffers ==
  /\ Drawn /\ pc = "swap" /\ pc' = "desktop"
  /\ back' = [p \in Pixel |-> IF p = LastPixel THEN back[p] ELSE Cleared]
  /\ disturbed' = FALSE
  /\ UNCHANGED <<index, window>>

Draw ==
  \/ DrawDesktop \/ RenderWindows \/ DrawWindow \/ DrawBorder \/ CopyContent
  \/ DrawCursor \/ SwapBuffers

-----------------------------------------------------------------------------
DrawingInit ==
  /\ Init
  /\ pc = "desktop" /\ index = 0 /\ window = NoWindow
  /\ back = [p \in Pixel |-> Cleared]
  /\ disturbed = FALSE

OpenWindows == GraphicsThread /\ UNCHANGED drawVars

DrawFrame == Draw /\ UNCHANGED vars

(* The interrupt.  Keys change nothing that is drawn.                      *)
Interrupted ==
  /\ \E move \in Moves, held \in Holds : MousePacket(move, held)
  /\ disturbed' = (disturbed \/ (pc # "desktop" /\ ~ UNCHANGED <<listVars, place>>))
  /\ UNCHANGED <<frameVars, back>>

DrawingNext == OpenWindows \/ DrawFrame \/ Interrupted

DrawingVars == <<vars, drawVars>>

(* The thread gets the processor again and again.                          *)
DrawingSpec ==
  /\ DrawingInit /\ [][DrawingNext]_DrawingVars
  /\ WF_DrawingVars(OpenWindows) /\ WF_DrawingVars(DrawFrame)

-----------------------------------------------------------------------------
(* Properties.                                                             *)

(* The border of the window with the focus, where no window is above it.   *)
BorderAt(p) ==
  /\ focused \in Listed /\ p \in Border(focused)
  /\ \E k \in Entries :
       array[k] = focused /\ \A j \in Entries : j > k => p \notin Box(array[j])

(* What is to be seen: at every point the window that a press there would  *)
(* hit, by the same Hovering; the border excepted, which lies outside.     *)
Scene(p) ==
  LET hit == Hovering(Desk, [x |-> p[1], y |-> p[2]])
  IN  IF BorderAt(p) THEN Layer("Border", focused)
      ELSE IF hit = NoWindow THEN Ground(p)
      ELSE IF p \in Viewport(hit) THEN Layer("Content", hit)
      ELSE Layer("Frame", hit)

Shows(image, x, y) ==
  \A p \in Pixel \ {LastPixel} :
    image[p] = IF p \in Cross(x, y) THEN Layer("Cursor", NoWindow) ELSE Scene(p)

(* A frame during which no window was moved or raised shows each point as  *)
(* the window a press there would hit, however the pointer moved while it  *)
(* was drawn, with one cursor.  (The last pixel of the screen is never     *)
(* copied.)                                                                *)
FramesAreTrue ==
  [][SwapBuffers /\ ~ disturbed =>
       \E x \in 0 .. ScreenWidth, y \in 0 .. ScreenHeight : Shows(Swapped, x, y)]_DrawingVars

(* When the mouse has come to rest, whatever it did to the list and to the *)
(* windows in the middle of a frame, the screen goes on to be drawn, and   *)
(* from some frame on it shows the desktop and the pointer where they are. *)
ScreenSettles ==
  <>[][FALSE]_<<listVars, dragVars, mouse>> =>
    /\ []<><<SwapBuffers>>_DrawingVars
    /\ <>[][SwapBuffers => Shows(Swapped, mouse.x, mouse.y)]_DrawingVars

=============================================================================
