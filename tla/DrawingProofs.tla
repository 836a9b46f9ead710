--------------------------- MODULE DrawingProofs ---------------------------
(***************************************************************************)
(* Theorems about Drawing, for any windows, screens and movements: what    *)
(* holds of Desktop holds while its thread draws, and a frame that was not *)
(* disturbed shows every point as the window that a press there would hit. *)
(***************************************************************************)
EXTENDS Drawing, DesktopProofs

-----------------------------------------------------------------------------
(* The steps are those of Desktop.                                         *)

(* Drawing is a way the desktop can run: its calls change nothing of it.   *)
THEOREM RunsTheDesktop == DrawingSpec => Spec
  <1>1. DrawingInit => Init
    BY DEF DrawingInit
  <1>2. [DrawingNext]_DrawingVars => [Next]_vars
    BY DEF DrawingNext, DrawingVars, OpenWindows, DrawFrame, Interrupted, Next
  <1> QED
    BY <1>1, <1>2, PTL DEF DrawingSpec, Spec

(* While frames are drawn, a dragged window follows the pointer.           *)
THEOREM DragFollowsInFrames == DrawingSpec => DragKept
  BY RunsTheDesktop, DragFollows

(* While frames are drawn, the desktop's variables keep their types.       *)
THEOREM DesktopTypeCorrect == DrawingSpec => []TypeOK
  BY RunsTheDesktop, TypeCorrect

-----------------------------------------------------------------------------
(* The inductive invariant.                                                *)

Layers ==
  [what : {"Cleared", "Bar", "Background", "Frame", "Border", "Content", "Cursor"},
   of : Window \cup {NoWindow}]

(* The border of the window with the focus, when n windows are drawn.      *)
BorderShows(p, n) ==
  /\ p \in Border(focused)
  /\ \E k \in 0 .. n - 1 :
       array[k] = focused /\ \A j \in 0 .. n - 1 : j > k => p \notin Box(array[j])

(* The layer on top at p, when n windows are drawn.                        *)
ShownUpTo(layer, p, n) ==
  IF BorderShows(p, n) THEN layer = Layer("Border", focused)
  ELSE /\ \A k \in 0 .. n - 1 :
            p \in Box(array[k]) /\ (\A j \in 0 .. n - 1 : j > k => p \notin Box(array[j]))
              => layer = Layer(IF p \in Viewport(array[k]) THEN "Content" ELSE "Frame", array[k])
       /\ (\A k \in 0 .. n - 1 : p \notin Box(array[k])) => layer = Ground(p)

(* ... and when the box of the next one is drawn, ...                      *)
BoxedUpTo(layer, p, n) ==
  IF p \in Box(array[n]) THEN layer = Layer("Frame", array[n]) ELSE ShownUpTo(layer, p, n)

(* ... and its border, if it has the focus.                                *)
BorderedUpTo(layer, p, n) ==
  IF focused = array[n] /\ p \in Border(focused)
    THEN layer = Layer("Border", focused) ELSE BoxedUpTo(layer, p, n)

PointedUpTo(layer, p, x, y) ==
  IF p \in Cross(x, y) THEN layer = Layer("Cursor", NoWindow) ELSE ShownUpTo(layer, p, size)

(* What is in the back buffer when no window was moved since the frame     *)
(* began.                                                                  *)
Picture ==
  /\ pc \in {"frame", "border", "content"} => window = array[index]
  /\ pc \in {"next", "frame"} => \A p \in Pixel : ShownUpTo(back[p], p, index)
  /\ pc = "border" => \A p \in Pixel : BoxedUpTo(back[p], p, index)
  /\ pc = "content" => \A p \in Pixel : BorderedUpTo(back[p], p, index)
  /\ pc = "cursor" => \A p \in Pixel : ShownUpTo(back[p], p, size)
  /\ pc = "swap" => \E x \in 0 .. ScreenWidth, y \in 0 .. ScreenHeight :
                      \A p \in Pixel : PointedUpTo(back[p], p, x, y)

(* The thread draws at rest only, and its index stays in the list.         *)
AtWork ==
  /\ pc \in {"desktop", "next", "frame", "border", "content", "cursor", "swap"}
  /\ pc # "desktop" => Drawn
  /\ index \in 0 .. size
  /\ pc \in {"desktop", "cursor", "swap"} => index = 0
  /\ pc \in {"frame", "border", "content"} => index < size /\ window \in Window
  /\ back \in [Pixel -> Layers]

DrawingInv == IInv /\ AtWork /\ (~ disturbed => Picture)

-----------------------------------------------------------------------------
(* The painting of one window.                                             *)

(* The content lies within the window, and inside of its border.           *)
LEMMA ContentIsInside ==
  ASSUME place \in [Window -> Position], NEW w \in Window, NEW p \in Viewport(w)
  PROVE  p \in Box(w) /\ p \notin Border(w)
  <1>1. TitleHeight \in Nat /\ Width \in Nat /\ Height \in Nat
    BY Sizes
  <1>2. place[w].x \in Int /\ place[w].y \in Int
    BY DEF Position
  <1>3. PICK x \in place[w].x .. place[w].x + Width - 1,
             y \in place[w].y + TitleHeight .. place[w].y + Height - 1 : p = <<x, y>>
    BY DEF Viewport
  <1>4. /\ x \in place[w].x .. place[w].x + Width
        /\ y \in place[w].y .. place[w].y + Height
        /\ y \in place[w].y .. place[w].y + Height - 1
    BY <1>1, <1>2
  <1>5. p \in Box(w)
    BY <1>3, <1>4 DEF Box
  <1>6. p \in (place[w].x .. place[w].x + Width - 1) \X (place[w].y .. place[w].y + Height - 1)
    BY <1>3, <1>4
  <1> QED
    BY <1>5, <1>6 DEF Border

(* With its content the next window is drawn.                              *)
LEMMA WindowIsPainted ==
  ASSUME place \in [Window -> Position], NEW n \in Nat, array[n] \in Window,
         NEW layer, NEW p, BorderedUpTo(layer, p, n)
  PROVE  ShownUpTo(IF p \in Viewport(array[n]) THEN Layer("Content", array[n]) ELSE layer, p, n + 1)
  <1> DEFINE w == array[n]
             top == IF p \in Viewport(w) THEN Layer("Content", w) ELSE layer
             Clear(k, m) == \A j \in 0 .. m : j > k => p \notin Box(array[j])
  <1>1. n + 1 - 1 = n /\ (0 .. n) = (0 .. n - 1) \cup {n} /\ n \notin 0 .. n - 1
    OBVIOUS
  <1>2. /\ Clear(n, n)
        /\ \A k \in 0 .. n - 1 : Clear(k, n) <=> (p \notin Box(w) /\ Clear(k, n - 1))
    OBVIOUS
  <1>3. p \in Viewport(w) => p \in Box(w) /\ p \notin Border(w)
    BY ContentIsInside
  <1>4. BorderShows(p, n + 1) <=>
          p \in Border(focused) /\ \E k \in 0 .. n : array[k] = focused /\ Clear(k, n)
    BY <1>1 DEF BorderShows
  <1>5. BorderShows(p, n) <=>
          p \in Border(focused) /\ \E k \in 0 .. n - 1 : array[k] = focused /\ Clear(k, n - 1)
    BY DEF BorderShows
  <1>6. ShownUpTo(top, p, n + 1) <=>
          IF BorderShows(p, n + 1) THEN top = Layer("Border", focused)
          ELSE /\ \A k \in 0 .. n :
                    p \in Box(array[k]) /\ Clear(k, n)
                      => top = Layer(IF p \in Viewport(array[k]) THEN "Content" ELSE "Frame", array[k])
               /\ (\A k \in 0 .. n : p \notin Box(array[k])) => top = Ground(p)
    BY <1>1 DEF ShownUpTo
  <1>7. ShownUpTo(layer, p, n) <=>
          IF BorderShows(p, n) THEN layer = Layer("Border", focused)
          ELSE /\ \A k \in 0 .. n - 1 :
                    p \in Box(array[k]) /\ Clear(k, n - 1)
                      => layer = Layer(IF p \in Viewport(array[k]) THEN "Content" ELSE "Frame", array[k])
               /\ (\A k \in 0 .. n - 1 : p \notin Box(array[k])) => layer = Ground(p)
    BY DEF ShownUpTo
  <1> HIDE DEF Clear
  <1>8. CASE focused = w /\ p \in Border(focused)
    <2>1. top = Layer("Border", focused)
      BY <1>3, <1>8 DEF BorderedUpTo
    <2> QED
      BY <1>1, <1>2, <1>4, <1>6, <1>8, <2>1
  <1>9. CASE ~ (focused = w /\ p \in Border(focused)) /\ p \in Box(w)
    <2>1. top = Layer(IF p \in Viewport(w) THEN "Content" ELSE "Frame", w)
      BY <1>9 DEF BorderedUpTo, BoxedUpTo
    <2>2. ~ BorderShows(p, n + 1)
      BY <1>1, <1>2, <1>4, <1>9
    <2>3. \A k \in 0 .. n : Clear(k, n) => k = n
      BY <1>1, <1>2, <1>9
    <2> QED
      BY <1>1, <1>6, <1>9, <2>1, <2>2, <2>3
  <1>10. CASE ~ (focused = w /\ p \in Border(focused)) /\ p \notin Box(w)
    <2>1. top = layer /\ ShownUpTo(layer, p, n)
      BY <1>3, <1>10 DEF BorderedUpTo, BoxedUpTo
    <2>2. BorderShows(p, n + 1) <=> BorderShows(p, n)
      BY <1>1, <1>2, <1>4, <1>5, <1>10
    <2> QED
      BY <1>1, <1>2, <1>6, <1>7, <1>10, <2>1, <2>2
  <1> QED
    BY <1>8, <1>9, <1>10

(* When all windows are drawn, a point shows the window a press would hit. *)
LEMMA ShownIsScene ==
  ASSUME IInv, NEW p \in Pixel, NEW layer, ShownUpTo(layer, p, size), Drawn
  PROVE  layer = Scene(p)
  <1> DEFINE at == [x |-> p[1], y |-> p[2]]
             hit == Hovering(Desk, at)
             Covers(k) == p \in Box(array[k])
             under == {k \in Entries : Covers(k)}
  <1>1. /\ size \in Nat /\ Entries = 0 .. size - 1 /\ Fits /\ Desk \in Desktops
        /\ NoWindow \notin Window
    BY Sizes, DeskIsOne, DesktopAssumption DEF IInv, TypeOK, Entries
  <1>2. \A k \in Entries : array[k] \in Window
    BY DEF IInv, Written, Filled, Drawn, At
  <1>3. \A k \in Entries : Covers(k) <=> Inside(at, place[array[k]], Height)
    <2> TAKE k \in Entries
    <2> DEFINE c == place[array[k]]
    <2>1. p = <<p[1], p[2]>>
      BY DEF Pixel
    <2>2. p \in Box(array[k]) <=> p[1] \in c.x .. c.x + Width /\ p[2] \in c.y .. c.y + Height
      BY <2>1 DEF Box
    <2>3. at.x = p[1] /\ at.y = p[2]
      OBVIOUS
    <2> HIDE DEF at
    <2> QED
      BY <2>2, <2>3 DEF Inside
  <1>4. Desk.array = array /\ Desk.place = place
    BY DEF Desk
  <1>5. /\ \A k \in Entries : Covers(k) /\ (\A j \in Entries : Covers(j) => j <= k) => hit = array[k]
        /\ (\A k \in Entries : ~ Covers(k)) => hit = NoWindow
    <2> HIDE DEF at
    <2>1. /\ \A k \in Entries :
                Inside(at, Desk.place[Desk.array[k]], Height)
                /\ (\A j \in Entries : Inside(at, Desk.place[Desk.array[j]], Height) => j <= k)
                  => hit = Desk.array[k]
          /\ (\A k \in Entries : ~ Inside(at, Desk.place[Desk.array[k]], Height)) => hit = NoWindow
      BY <1>1, HoveringFacts
    <2> QED
      BY <1>3, <1>4, <2>1
  <1>6. BorderShows(p, size) <=> BorderAt(p)
    <2>1. \A k \in Entries : array[k] = focused => focused \in Listed
      BY DEF Listed
    <2> QED
      BY <1>1, <2>1 DEF BorderShows, BorderAt
  <1>7. Scene(p) = IF BorderAt(p) THEN Layer("Border", focused)
                   ELSE IF hit = NoWindow THEN Ground(p)
                   ELSE Layer(IF p \in Viewport(hit) THEN "Content" ELSE "Frame", hit)
    BY DEF Scene
  <1> HIDE DEF Covers, hit
  <1>8. CASE BorderAt(p)
    BY <1>6, <1>7, <1>8 DEF ShownUpTo
  <1>9. CASE ~ BorderAt(p) /\ under = {}
    BY <1>1, <1>5, <1>6, <1>7, <1>9 DEF ShownUpTo, Covers
  <1>10. CASE ~ BorderAt(p) /\ under # {}
    <2>1. PICK k \in under : \A j \in under : j <= k
      <3>1. under \in SUBSET (0 .. size - 1)
        BY <1>1
      <3>2. Max(under) \in under /\ \A y \in under : Max(under) >= y
        BY <1>1, <1>10, <3>1, MaxOfSome
      <3> QED
        BY <1>1, <3>2
    <2>2. k \in Entries /\ Covers(k) /\ \A j \in Entries : Covers(j) => j <= k
      BY <2>1
    <2>3. hit = array[k] /\ hit # NoWindow
      BY <1>1, <1>2, <1>5, <2>2
    <2>4. \A j \in Entries : j > k => ~ Covers(j)
      BY <1>1, <2>2
    <2>5. layer = Layer(IF p \in Viewport(array[k]) THEN "Content" ELSE "Frame", array[k])
      BY <1>1, <1>6, <1>10, <2>2, <2>4 DEF ShownUpTo, Covers
    <2> QED
      BY <1>7, <1>10, <2>3, <2>5
  <1> QED
    BY <1>8, <1>9, <1>10

-----------------------------------------------------------------------------
(* The steps keep the invariant.                                           *)

(* No frame is begun at first.                                             *)
LEMMA DrawingInitHolds == DrawingInit => DrawingInv
  <1> SUFFICES ASSUME DrawingInit PROVE DrawingInv
    OBVIOUS
  <1>1. IInv /\ pc = "desktop" /\ index = 0
    BY InitHolds DEF DrawingInit
  <1>2. 0 \in 0 .. size
    BY <1>1, Sizes DEF IInv, TypeOK
  <1>3. back \in [Pixel -> Layers]
    BY DEF DrawingInit, Layers, Cleared, Layer
  <1> QED
    BY <1>1, <1>2, <1>3 DEF DrawingInv, AtWork, Picture

(* While the thread opens its windows no frame is begun.                   *)
LEMMA OpeningStep == DrawingInv /\ OpenWindows => DrawingInv'
  <1> SUFFICES ASSUME DrawingInv, OpenWindows PROVE DrawingInv'
    OBVIOUS
  <1>1. IInv'
    BY StepHolds DEF DrawingInv, OpenWindows, Next
  <1>2. UNCHANGED <<pc, index, window, back, disturbed>>
    BY DEF OpenWindows, drawVars, frameVars
  <1>3. ~ Drawn
    <2>1. GraphicsThread /\ opened \in 0 .. Len(Opening) /\ Len(Opening) \in Nat
      BY DesktopAssumption DEF OpenWindows, DrawingInv, IInv, TypeOK
    <2>2. CASE CreateWindow
      BY <2>1, <2>2 DEF CreateWindow, Drawn
    <2>3. CASE AddWindow \/ FocusWindow
      BY <2>3 DEF AddWindow, FocusWindow, Drawn, At
    <2>4. CASE SortControl
      BY <2>4 DEF SortControl, Drawn, At
    <2>5. CASE SortStore
      BY <2>5 DEF SortStore, Drawn, At
    <2> QED
      BY <2>1, <2>2, <2>3, <2>4, <2>5 DEF GraphicsThread
  <1>4. pc = "desktop" /\ index = 0 /\ back \in [Pixel -> Layers]
    BY <1>3 DEF DrawingInv, AtWork
  <1>5. index' \in (0 .. size)'
    BY <1>1, <1>2, <1>4, Sizes DEF IInv, TypeOK
  <1> QED
    BY <1>1, <1>2, <1>4, <1>5 DEF DrawingInv, AtWork, Picture

(* What is drawn depends on the list, the places and the focus only.       *)
LEMMA Unmoved ==
  ASSUME UNCHANGED <<array, size, focused, place>>
  PROVE  /\ \A layer, p, n : ShownUpTo(layer, p, n)' <=> ShownUpTo(layer, p, n)
         /\ \A layer, p, n : BoxedUpTo(layer, p, n)' <=> BoxedUpTo(layer, p, n)
         /\ \A layer, p, n : BorderedUpTo(layer, p, n)' <=> BorderedUpTo(layer, p, n)
         /\ \A layer, p, x, y : PointedUpTo(layer, p, x, y)' <=> PointedUpTo(layer, p, x, y)
  <1>1. \A p, n : BorderShows(p, n)' <=> BorderShows(p, n)
    BY DEF BorderShows, Box, Border
  <1>2. \A layer, p, n : ShownUpTo(layer, p, n)' <=> ShownUpTo(layer, p, n)
    BY <1>1 DEF ShownUpTo, Box, Viewport
  <1>3. \A layer, p, n : BoxedUpTo(layer, p, n)' <=> BoxedUpTo(layer, p, n)
    BY <1>2 DEF BoxedUpTo, Box
  <1>4. \A layer, p, n : BorderedUpTo(layer, p, n)' <=> BorderedUpTo(layer, p, n)
    BY <1>3 DEF BorderedUpTo, Border
  <1>5. \A layer, p, x, y : PointedUpTo(layer, p, x, y)' <=> PointedUpTo(layer, p, x, y)
    BY <1>2 DEF PointedUpTo, Cross
  <1> QED
    BY <1>2, <1>3, <1>4, <1>5

(* An interrupt moves or raises windows and disturbs the frame, or neither.*)
LEMMA InterruptedStep == DrawingInv /\ Interrupted => DrawingInv'
  <1> SUFFICES ASSUME DrawingInv, Interrupted PROVE DrawingInv'
    OBVIOUS
  <1>1. PICK move \in Moves, held \in Holds : MousePacket(move, held)
    BY DEF Interrupted
  <1>2. IInv'
    BY <1>1, StepHolds DEF DrawingInv, Next
  <1>3. UNCHANGED <<size, opened, thread>>
    BY <1>1 DEF MousePacket, HandleDragFocusInput
  <1>4. UNCHANGED <<pc, index, window, back>>
    BY DEF Interrupted, frameVars
  <1>5. AtWork'
    BY <1>3, <1>4 DEF DrawingInv, AtWork, Drawn, At
  <1>6. ASSUME ~ disturbed' PROVE Picture'
    <2>1. ~ disturbed /\ Picture
      BY <1>6 DEF Interrupted, DrawingInv
    <2>2. CASE pc = "desktop"
      BY <1>4, <2>2 DEF Picture
    <2>3. CASE pc # "desktop"
      <3>1. UNCHANGED <<array, size, focused, place>>
        BY <1>6, <2>3 DEF Interrupted, listVars
      <3> QED
        BY <1>3, <1>4, <2>1, <3>1, Unmoved DEF Picture
    <2> QED
      BY <2>2, <2>3
  <1> QED
    BY <1>2, <1>5, <1>6 DEF DrawingInv

(* What one call of the frame does to the back buffer.                     *)
LEMMA CallStep ==
  ASSUME DrawingInv, DrawFrame
  PROVE  AtWork' /\ (~ disturbed' => Picture')
  <1>1. UNCHANGED <<array, size, focused, place, mouse, opened, thread>> /\ (Drawn' <=> Drawn)
    BY DEF DrawFrame, vars, listVars, dragVars, inputVars, Drawn, At
  <1>2. /\ AtWork /\ (~ disturbed => Picture) /\ size \in Nat /\ index \in 0 .. size
        /\ place \in [Window -> Position] /\ focused \in Window \cup {NoWindow}
        /\ mouse.x \in 0 .. ScreenWidth /\ mouse.y \in 0 .. ScreenHeight
    BY Sizes DEF DrawingInv, IInv, TypeOK, AtWork
  <1>3. \A k \in Entries : array[k] \in Window
    BY <1>2 DEF DrawingInv, IInv, Written, Filled, Entries
  <1>4. ASSUME NEW region, NEW what \in {"Frame", "Border", "Content", "Cursor"},
               NEW w \in Window \cup {NoWindow}, Paint(region, Layer(what, w))
        PROVE  /\ back' \in [Pixel -> Layers]
               /\ \A p \in Pixel : back'[p] = IF p \in region THEN Layer(what, w) ELSE back[p]
    <2>1. Layer(what, w) \in Layers
      BY DEF Layer, Layers
    <2> QED
      BY <1>2, <1>4, <2>1 DEF Paint, AtWork
  <1>5. CASE DrawDesktop
    <2>1. /\ pc' = "next" /\ Drawn /\ index' = 0
          /\ back' = [p \in Pixel |-> Ground(p)]
      BY <1>2, <1>5 DEF DrawDesktop, AtWork
    <2>2. \A p \in Pixel : Ground(p) \in Layers
      BY DEF Ground, Layer, Layers
    <2>3. AtWork'
      BY <1>1, <1>2, <2>1, <2>2 DEF AtWork
    <2>4. \A p \in Pixel : ShownUpTo(back'[p], p, 0)
      BY <2>1 DEF ShownUpTo, BorderShows
    <2> QED
      BY <1>1, <2>1, <2>3, <2>4, Unmoved DEF Picture
  <1>6. CASE RenderWindows
    <2>1. /\ Drawn /\ pc = "next" /\ UNCHANGED <<back, disturbed>>
          /\ index < size => pc' = "frame" /\ window' = array[index] /\ index' = index
          /\ ~ index < size => pc' = "cursor" /\ index' = 0
      BY <1>6 DEF RenderWindows
    <2>2. CASE index < size
      <3>1. AtWork'
        BY <1>1, <1>2, <1>3, <2>1, <2>2 DEF AtWork, Entries
      <3>2. ~ disturbed => \A p \in Pixel : ShownUpTo(back'[p], p, index)
        BY <1>2, <2>1 DEF Picture
      <3> QED
        BY <1>1, <2>1, <2>2, <3>1, <3>2, Unmoved DEF Picture
    <2>3. CASE ~ index < size
      <3>1. index = size
        BY <1>2, <2>3
      <3>2. AtWork'
        BY <1>1, <1>2, <2>1, <2>3 DEF AtWork
      <3>3. ~ disturbed => \A p \in Pixel : ShownUpTo(back'[p], p, size)
        BY <1>2, <2>1, <3>1 DEF Picture
      <3> QED
        BY <1>1, <2>1, <2>3, <3>2, <3>3, Unmoved DEF Picture
    <2> QED
      BY <2>2, <2>3
  <1>7. CASE DrawWindow
    <2>1. /\ Drawn /\ pc = "frame" /\ pc' = "border" /\ UNCHANGED <<index, window, disturbed>>
          /\ window \in Window /\ Paint(Box(window), Layer("Frame", window))
      BY <1>2, <1>7 DEF DrawWindow, AtWork
    <2>2. /\ back' \in [Pixel -> Layers]
          /\ \A p \in Pixel : back'[p] = IF p \in Box(window) THEN Layer("Frame", window) ELSE back[p]
      BY <1>4, <2>1
    <2>3. AtWork'
      BY <1>1, <1>2, <2>1, <2>2 DEF AtWork
    <2>4. ~ disturbed => window = array[index] /\ \A p \in Pixel : BoxedUpTo(back'[p], p, index)
      BY <1>2, <2>1, <2>2 DEF Picture, BoxedUpTo
    <2> QED
      BY <1>1, <2>1, <2>3, <2>4, Unmoved DEF Picture
  <1>8. CASE DrawBorder
    <2>1. /\ Drawn /\ pc = "border" /\ pc' = "content" /\ UNCHANGED <<index, window, disturbed>>
          /\ window \in Window
          /\ IF focused = window THEN Paint(Border(window), Layer("Border", window))
                                 ELSE UNCHANGED back
      BY <1>2, <1>8 DEF DrawBorder, AtWork
    <2>2. /\ back' \in [Pixel -> Layers]
          /\ \A p \in Pixel : back'[p] = IF focused = window /\ p \in Border(window)
                                           THEN Layer("Border", window) ELSE back[p]
      <3>1. CASE focused = window
        BY <1>4, <2>1, <3>1
      <3>2. CASE focused # window
        BY <1>2, <2>1, <3>2 DEF AtWork
      <3> QED
        BY <3>1, <3>2
    <2>3. AtWork'
      BY <1>1, <1>2, <2>1, <2>2 DEF AtWork
    <2>4. ~ disturbed => window = array[index] /\ \A p \in Pixel : BorderedUpTo(back'[p], p, index)
      BY <1>2, <2>1, <2>2 DEF Picture, BorderedUpTo
    <2> QED
      BY <1>1, <2>1, <2>3, <2>4, Unmoved DEF Picture
  <1>9. CASE CopyContent
    <2>1. /\ Drawn /\ pc = "content" /\ pc' = "next" /\ index' = index + 1 /\ UNCHANGED disturbed
          /\ window \in Window /\ index < size /\ Paint(Viewport(window), Layer("Content", window))
      BY <1>2, <1>9 DEF CopyContent, AtWork
    <2>2. /\ back' \in [Pixel -> Layers]
          /\ \A p \in Pixel :
               back'[p] = IF p \in Viewport(window) THEN Layer("Content", window) ELSE back[p]
      BY <1>4, <2>1
    <2>3. AtWork'
      BY <1>1, <1>2, <2>1, <2>2 DEF AtWork
    <2>4. ~ disturbed => \A p \in Pixel : ShownUpTo(back'[p], p, index + 1)
      <3> SUFFICES ASSUME ~ disturbed, NEW p \in Pixel PROVE ShownUpTo(back'[p], p, index + 1)
        OBVIOUS
      <3>1. window = array[index] /\ BorderedUpTo(back[p], p, index)
        BY <1>2, <2>1 DEF Picture
      <3> QED
        BY <1>2, <2>1, <2>2, <3>1, WindowIsPainted
    <2> QED
      BY <1>1, <2>1, <2>3, <2>4, Unmoved DEF Picture
  <1>10. CASE DrawCursor
    <2>1. /\ Drawn /\ pc = "cursor" /\ pc' = "swap" /\ UNCHANGED <<index, window, disturbed>>
          /\ Paint(Cross(mouse.x, mouse.y), Layer("Cursor", NoWindow))
      BY <1>2, <1>10 DEF DrawCursor
    <2>2. /\ back' \in [Pixel -> Layers]
          /\ \A p \in Pixel : back'[p] = IF p \in Cross(mouse.x, mouse.y)
                                           THEN Layer("Cursor", NoWindow) ELSE back[p]
      BY <1>4, <2>1
    <2>3. AtWork'
      BY <1>1, <1>2, <2>1, <2>2 DEF AtWork
    <2>4. ~ disturbed => \A p \in Pixel : PointedUpTo(back'[p], p, mouse.x, mouse.y)
      BY <1>2, <2>1, <2>2 DEF Picture, PointedUpTo
    <2> QED
      BY <1>1, <1>2, <2>1, <2>3, <2>4, Unmoved DEF Picture
  <1>11. CASE SwapBuffers
    <2>1. /\ Drawn /\ pc = "swap" /\ pc' = "desktop" /\ UNCHANGED <<index, window>>
          /\ back' = [p \in Pixel |-> IF p = LastPixel THEN back[p] ELSE Cleared]
      BY <1>11 DEF SwapBuffers
    <2>2. Cleared \in Layers
      BY DEF Cleared, Layer, Layers
    <2>3. back' \in [Pixel -> Layers]
      BY <1>2, <2>1, <2>2 DEF AtWork
    <2>4. AtWork'
      BY <1>1, <1>2, <2>1, <2>3 DEF AtWork
    <2> QED
      BY <2>1, <2>4 DEF Picture
  <1> QED
    BY <1>5, <1>6, <1>7, <1>8, <1>9, <1>10, <1>11 DEF DrawFrame, Draw

(* The inductive invariant holds in every reachable state.                 *)
THEOREM DrawingInvariant == DrawingSpec => []DrawingInv
  <1>1. DrawingInv /\ [DrawingNext]_DrawingVars => DrawingInv'
    <2> SUFFICES ASSUME DrawingInv, [DrawingNext]_DrawingVars PROVE DrawingInv'
      OBVIOUS
    <2>1. CASE OpenWindows
      BY <2>1, OpeningStep
    <2>2. CASE Interrupted
      BY <2>2, InterruptedStep
    <2>3. CASE DrawFrame
      <3>1. IInv'
        BY <2>3, StepHolds DEF DrawFrame, DrawingInv
      <3> QED
        BY <2>3, <3>1, CallStep DEF DrawingInv
    <2>4. CASE UNCHANGED DrawingVars
      <3>1. UNCHANGED <<array, size, focused, place, mouse, opened, thread, pc, index, window, back, disturbed>>
        BY <2>4 DEF DrawingVars, drawVars, frameVars, vars, listVars, dragVars, inputVars
      <3>2. IInv'
        BY <2>4, StepHolds DEF DrawingVars, DrawingInv
      <3>3. AtWork'
        BY <3>1 DEF DrawingInv, AtWork, Drawn, At
      <3>4. Picture => Picture'
        BY <3>1, Unmoved DEF Picture
      <3> QED
        BY <3>1, <3>2, <3>3, <3>4 DEF DrawingInv
    <2> QED
      BY <2>1, <2>2, <2>3, <2>4 DEF DrawingNext
  <1> QED
    BY <1>1, DrawingInitHolds, PTL DEF DrawingSpec

(* A frame during which no window was moved or raised shows each point,    *)
(* but for the last pixel, as the window a press there would hit.          *)
THEOREM FramesShowWhatAPressHits == DrawingSpec => FramesAreTrue
  <1>1. DrawingInv /\ [DrawingNext]_DrawingVars =>
          [SwapBuffers /\ ~ disturbed =>
             \E x \in 0 .. ScreenWidth, y \in 0 .. ScreenHeight : Shows(Swapped, x, y)]_DrawingVars
    <2> SUFFICES ASSUME DrawingInv, SwapBuffers, ~ disturbed
                 PROVE  \E x \in 0 .. ScreenWidth, y \in 0 .. ScreenHeight : Shows(Swapped, x, y)
      OBVIOUS
    <2>1. Drawn /\ pc = "swap" /\ IInv /\ Picture /\ back \in [Pixel -> Layers]
      BY DEF SwapBuffers, DrawingInv, AtWork
    <2>2. PICK x \in 0 .. ScreenWidth, y \in 0 .. ScreenHeight :
            \A p \in Pixel : PointedUpTo(back[p], p, x, y)
      BY <2>1 DEF Picture
    <2>3. ASSUME NEW p \in Pixel \ {LastPixel}
          PROVE  Swapped[p] = IF p \in Cross(x, y) THEN Layer("Cursor", NoWindow) ELSE Scene(p)
      <3>1. Swapped[p] = back[p]
        BY <2>1 DEF Swapped
      <3>2. PointedUpTo(back[p], p, x, y)
        BY <2>2
      <3> QED
        BY <2>1, <3>1, <3>2, ShownIsScene DEF PointedUpTo
    <2> QED
      BY <2>3 DEF Shows
  <1> QED
    BY <1>1, DrawingInvariant, PTL DEF DrawingSpec, FramesAreTrue

=============================================================================
