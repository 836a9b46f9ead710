--------------------------- MODULE DesktopProofs ---------------------------
(***************************************************************************)
(* Theorems about Desktop, for any windows, screens and movements of the   *)
(* mouse: the handlers of the interrupt, which walk the list of windows    *)
(* while they reorder it, and the thread they interrupt.                   *)
(***************************************************************************)
EXTENDS Desktop, Ranks

-----------------------------------------------------------------------------
(* Constants and helpers.                                                  *)

(* The sizes are numbers, and a list fits into the range of zindex.        *)
LEMMA Sizes ==
  /\ Width \in Nat /\ Height \in Nat /\ TitleHeight \in Nat
  /\ ScreenWidth \in Nat /\ ScreenHeight \in Nat
  /\ MaxZindex \in Nat /\ Raised \in Nat /\ Raised <= MaxZindex
  /\ MaxWindows \in Nat /\ MaxWindows >= 1 /\ MaxWindows <= Raised
  <1>1. MaxZindex \in Nat
    BY DEF MaxZindex
  <1>2. Raised \in Nat /\ Raised <= MaxZindex
    BY DEF MaxZindex, Raised
  <1>3. {Width, Height, TitleHeight, ScreenWidth, ScreenHeight} \subseteq Nat
    BY DesktopAssumption
  <1>4. MaxWindows \in 1 .. Raised
    BY DesktopAssumption
  <1> QED
    BY <1>1, <1>2, <1>3, <1>4

(* The greatest of some numbers from 0 up.                                 *)
LEMMA MaxOfSome ==
  ASSUME NEW n \in Nat, NEW S \in SUBSET (0 .. n - 1), S # {}
  PROVE  Max(S) \in S /\ \A y \in S : Max(S) >= y
  <1>1. IsFiniteSet(0 .. n - 1)
    BY FS_Interval
  <1>2. IsFiniteSet(S)
    BY <1>1, FS_Subset
  <1>3. S \in SUBSET Int
    OBVIOUS
  <1> QED
    BY <1>2, <1>3, Extremes DEF Max

-----------------------------------------------------------------------------
(* ForceSort, when the handler calls it.                                   *)

Rank(list, z, j) ==
  Cardinality({k \in Entries : z[list[k]] < z[list[j]] \/ (z[list[k]] = z[list[j]] /\ k < j)})

(* Every entry goes to the place that is the number of entries that come   *)
(* before it.                                                              *)
LEMMA SortedIsByRank ==
  ASSUME NEW list, NEW z, size \in Nat, Entries \subseteq DOMAIN list,
         \A k \in Entries : z[list[k]] \in Int
  PROVE  /\ Sorted(list, z) = [k \in DOMAIN list |-> Sorted(list, z)[k]]
         /\ \A k \in DOMAIN list \ Entries : Sorted(list, z)[k] = list[k]
         /\ \E from \in [Entries -> Entries] :
              /\ \A k \in Entries : Sorted(list, z)[k] = list[from[k]] /\ Rank(list, z, from[k]) = k
              /\ \A j \in Entries : \E k \in Entries : from[k] = j
         /\ \A m \in Entries :
              (\A j \in Entries : j # m => z[list[j]] < z[list[m]])
                => Sorted(list, z)[size - 1] = list[m]
  <1> DEFINE less == {e \in Entries \X Entries :
                        \/ z[list[e[1]]] < z[list[e[2]]]
                        \/ z[list[e[1]]] = z[list[e[2]]] /\ e[1] < e[2]}
             from == [k \in Entries |-> CHOOSE j \in Entries : Rank(list, z, j) = k]
  <1>1. \A j, k \in Entries :
          <<k, j>> \in less <=> (z[list[k]] < z[list[j]] \/ (z[list[k]] = z[list[j]] /\ k < j))
    OBVIOUS
  <1>2. \A k \in Entries : k \in Int /\ z[list[k]] \in Int
    BY DEF Entries
  <1>3. IsFiniteSet(Entries) /\ Cardinality(Entries) = size
    BY FS_Interval DEF Entries
  <1>4. \A j \in Entries : Rank(list, z, j) = Cardinality(Before(less, Entries, j))
    <2> TAKE j \in Entries
    <2>1. Before(less, Entries, j) =
            {k \in Entries : z[list[k]] < z[list[j]] \/ (z[list[k]] = z[list[j]] /\ k < j)}
      BY <1>1 DEF Before
    <2> QED
      BY <2>1 DEF Rank
  <1> HIDE DEF less
  <1>5. StrictlyOrders(less, Entries)
    BY <1>1, <1>2 DEF StrictlyOrders
  <1>6. /\ \A j \in Entries : Rank(list, z, j) \in 0 .. size - 1
        /\ \A j, k \in Entries : <<k, j>> \in less => Rank(list, z, k) < Rank(list, z, j)
    BY <1>3, <1>4, <1>5, RanksDiffer
  <1>7. \A k \in 0 .. size - 1 : \E j \in Entries : Rank(list, z, j) = k
    BY <1>3, <1>4, <1>5, RanksAreTaken
  <1>8. \A j, k \in Entries : Rank(list, z, j) = Rank(list, z, k) => j = k
    <2> SUFFICES ASSUME NEW j \in Entries, NEW k \in Entries, j # k
                 PROVE  Rank(list, z, j) # Rank(list, z, k)
      OBVIOUS
    <2>1. <<j, k>> \in less \/ <<k, j>> \in less
      BY <1>5 DEF StrictlyOrders
    <2>2. Rank(list, z, j) \in Int /\ Rank(list, z, k) \in Int
      BY <1>6
    <2> QED
      BY <1>6, <2>1, <2>2
  <1>9. \A k \in Entries : from[k] \in Entries /\ Rank(list, z, from[k]) = k
    BY <1>7, Zenon DEF Entries
  <1>10. \A j \in Entries : \E k \in Entries : from[k] = j
    <2> TAKE j \in Entries
    <2>1. Rank(list, z, j) \in Entries
      BY <1>6 DEF Entries
    <2>2. from[Rank(list, z, j)] = j
      BY <1>8, <1>9, <2>1
    <2> QED
      BY <2>1, <2>2
  <1>11. Sorted(list, z) = [k \in DOMAIN list |-> IF k \in Entries THEN list[from[k]] ELSE list[k]]
    BY DEF Sorted, Rank
  <1>12. from \in [Entries -> Entries]
    BY <1>9
  <1> HIDE DEF from
  <1>13. ASSUME NEW m \in Entries, \A j \in Entries : j # m => z[list[j]] < z[list[m]]
         PROVE  Sorted(list, z)[size - 1] = list[m]
    <2>1. Before(less, Entries, m) = Entries \ {m}
      BY <1>1, <1>2, <1>13 DEF Before
    <2>2. Cardinality(Entries \ {m}) = size - 1
      BY <1>3, FS_RemoveElement
    <2>3. size - 1 \in Entries
      BY DEF Entries
    <2>4. from[size - 1] = m
      BY <1>4, <1>8, <1>9, <2>1, <2>2, <2>3
    <2> QED
      BY <1>11, <2>3, <2>4
  <1> QED
    BY <1>9, <1>10, <1>11, <1>12, <1>13

(* The numbers that ForceSort gives last are those of entries.             *)
LEMMA NumberedTyped ==
  ASSUME NEW list, NEW z \in [Window -> Zindex], size \in 0 .. MaxWindows
  PROVE  /\ Numbered(list, z) \in [Window -> Zindex]
         /\ \A k \in Entries : list[k] \in Window =>
              /\ Numbered(list, z)[list[k]] \in k .. size - 1
              /\ list[Numbered(list, z)[list[k]]] = list[k]
  <1> DEFINE at(w) == {k \in Entries : list[k] = w}
  <1>1. ASSUME NEW w \in Window, at(w) # {}
        PROVE  /\ Max(at(w)) \in Entries /\ Max(at(w)) \in at(w)
               /\ \A k \in at(w) : Max(at(w)) >= k
    <2>1. at(w) \in SUBSET (0 .. size - 1) /\ size \in Nat
      BY Sizes DEF Entries
    <2> QED
      BY <1>1, <2>1, MaxOfSome
  <1>2. Entries \subseteq Zindex
    BY Sizes DEF Entries, Zindex
  <1>3. \A w \in Window : Numbered(list, z)[w] = IF at(w) = {} THEN z[w] ELSE Max(at(w))
    BY DEF Numbered
  <1>4. \A w \in Window : z[w] \in Zindex
    OBVIOUS
  <1>5. \A k \in Entries : k \in at(list[k])
    OBVIOUS
  <1>9. \A w : \A k \in at(w) : list[k] = w
    OBVIOUS
  <1> HIDE DEF at
  <1>6. \A w \in Window : Numbered(list, z)[w] \in Zindex
    BY <1>1, <1>2, <1>3, <1>4
  <1>7. \E f : Numbered(list, z) = [w \in Window |-> f[w]]
    <2>1. Numbered(list, z) = [w \in Window |-> Numbered(list, z)[w]]
      BY DEF Numbered
    <2> QED
      BY <2>1
  <1>8. Numbered(list, z) \in [Window -> Zindex]
    BY <1>6, <1>7
  <1>10. ASSUME NEW k \in Entries, list[k] \in Window
         PROVE  /\ Numbered(list, z)[list[k]] \in k .. size - 1
                /\ list[Numbered(list, z)[list[k]]] = list[k]
    <2>1. k \in at(list[k])
      BY <1>5
    <2>2. Numbered(list, z)[list[k]] = Max(at(list[k]))
      BY <1>3, <1>10, <2>1
    <2>3. /\ Max(at(list[k])) \in Entries /\ Max(at(list[k])) \in at(list[k])
          /\ Max(at(list[k])) >= k
      BY <1>1, <1>10, <2>1
    <2>4. list[Max(at(list[k]))] = list[k]
      BY <1>9, <2>3
    <2> QED
      BY <2>2, <2>3, <2>4 DEF Entries
  <1> QED
    BY <1>8, <1>10

-----------------------------------------------------------------------------
(* The desktop in the hands of the handler.                                *)

(* The entries that are written: AddWindow stores one before it counts it. *)
Filled == IF At("grow") THEN 0 .. size ELSE Entries

Lists ==
  {a \in [0 .. MaxWindows - 1 -> Window \cup {NoWindow}] : \A k \in Filled : a[k] \in Window}

Desktops ==
  [array : Lists, zindex : [Window -> Zindex], focused : Window \cup {NoWindow},
   place : [Window -> Position], drag : Window \cup {NoWindow}, grip : Position]

Fits ==
  /\ size \in 0 .. MaxWindows
  /\ Filled \subseteq 0 .. MaxWindows - 1

(* When it has focused a window on a list of several, every zindex of the  *)
(* list is small.                                                          *)
Small(d) == size > 1 => \A k \in Entries : d.zindex[d.array[k]] < size

(* It has numbered them: each window has the number of its last entry.     *)
Placed(d) ==
  size > 1 => \A k \in Entries : /\ d.zindex[d.array[k]] \in k .. size - 1
                                 /\ d.array[d.zindex[d.array[k]]] = d.array[k]

ListedIn(d) == {d.array[k] : k \in Entries}

(* A window that gets the focus: the list is a permutation of itself, and  *)
(* the window comes to its end if no other one stands as high.             *)
LEMMA FocusedFacts ==
  ASSUME Fits, NEW d \in Desktops, NEW w \in Window
  PROVE  LET e == Focused(d, w)
         IN  /\ e \in Desktops
             /\ e.focused = w /\ e.place = d.place /\ e.drag = d.drag /\ e.grip = d.grip
             /\ Small(e) /\ Placed(e)
             /\ ListedIn(e) = ListedIn(d)
             /\ \A k \in 0 .. MaxWindows - 1 : k \notin Entries => e.array[k] = d.array[k]
             /\ \A m \in Entries :
                  /\ d.array[m] = w
                  /\ \A j \in Entries : j # m => d.array[j] # w /\ d.zindex[d.array[j]] < Raised
                  => e.array[size - 1] = w
  <1> DEFINE raised == [d.zindex EXCEPT ![w] = Raised]
             list == Sorted(d.array, raised)
             z == Numbered(list, raised)
             e == Focused(d, w)
  <1>1. /\ size \in Nat /\ size \in 0 .. MaxWindows /\ Entries \subseteq Filled
        /\ Entries \subseteq 0 .. MaxWindows - 1 /\ \A k \in Entries : k \in Int
    BY Sizes DEF Fits, Filled, Entries
  <1>2. /\ d.array \in [0 .. MaxWindows - 1 -> Window \cup {NoWindow}]
        /\ \A k \in Filled : d.array[k] \in Window
        /\ d.zindex \in [Window -> Zindex]
        /\ d = [array |-> d.array, zindex |-> d.zindex, focused |-> d.focused,
                place |-> d.place, drag |-> d.drag, grip |-> d.grip]
        /\ d.place \in [Window -> Position] /\ d.drag \in Window \cup {NoWindow}
        /\ d.grip \in Position
    BY DEF Desktops, Lists
  <1>3. raised \in [Window -> Zindex] /\ raised[w] = Raised
    BY <1>2, Sizes DEF Zindex
  <1>4. \A k \in Entries : d.array[k] \in Window
    BY <1>1, <1>2
  <1>5. \A k \in Entries : raised[d.array[k]] \in Int
    BY <1>3, <1>4 DEF Zindex
  <1>6. e = [array |-> IF size <= 1 THEN d.array ELSE list,
             zindex |-> IF size <= 1 THEN raised ELSE z, focused |-> w,
             place |-> d.place, drag |-> d.drag, grip |-> d.grip]
    BY <1>2 DEF Focused
  <1> HIDE DEF e, z
  <1>7. /\ list = [k \in 0 .. MaxWindows - 1 |-> list[k]]
        /\ \A k \in 0 .. MaxWindows - 1 : k \notin Entries => list[k] = d.array[k]
        /\ \E from \in [Entries -> Entries] :
             /\ \A k \in Entries : list[k] = d.array[from[k]]
             /\ \A j \in Entries : \E k \in Entries : from[k] = j
        /\ \A m \in Entries :
             (\A j \in Entries : j # m => raised[d.array[j]] < raised[d.array[m]])
               => list[size - 1] = d.array[m]
    <2> HIDE DEF raised
    <2>1. DOMAIN d.array = 0 .. MaxWindows - 1
      BY <1>2
    <2> DEFINE a == d.array
    <2>2. Entries \subseteq DOMAIN a /\ \A k \in Entries : raised[a[k]] \in Int
      BY <1>1, <1>5, <2>1
    <2> HIDE DEF a
    <2>3. /\ Sorted(a, raised) = [k \in DOMAIN a |-> Sorted(a, raised)[k]]
          /\ \A k \in DOMAIN a \ Entries : Sorted(a, raised)[k] = a[k]
          /\ \E from \in [Entries -> Entries] :
               /\ \A k \in Entries : Sorted(a, raised)[k] = a[from[k]] /\ Rank(a, raised, from[k]) = k
               /\ \A j \in Entries : \E k \in Entries : from[k] = j
          /\ \A m \in Entries :
               (\A j \in Entries : j # m => raised[a[j]] < raised[a[m]])
                 => Sorted(a, raised)[size - 1] = a[m]
      BY <1>1, <2>2, SortedIsByRank, Zenon
    <2> QED
      BY <2>1, <2>3, Zenon DEF a
  <1>8. list \in Lists
    <2> HIDE DEF list
    <2>1. \A k \in Entries : list[k] \in Window
      BY <1>4, <1>7
    <2>2. \A k \in Filled : list[k] \in Window
      BY <1>2, <1>7, <2>1 DEF Fits
    <2>3. \A k \in 0 .. MaxWindows - 1 : list[k] \in Window \cup {NoWindow}
      BY <1>2, <1>7, <2>1
    <2> QED
      BY <1>7, <2>2, <2>3 DEF Lists
  <1>9. /\ z \in [Window -> Zindex]
        /\ \A k \in Entries : list[k] \in Window =>
             z[list[k]] \in k .. size - 1 /\ list[z[list[k]]] = list[k]
    <2> HIDE DEF raised, list
    <2> QED
      BY <1>1, <1>3, NumberedTyped, Zenon DEF z
  <1>10. {list[k] : k \in Entries} = ListedIn(d)
    BY <1>7 DEF ListedIn
  <1>11. \A k \in Entries : list[k] \in Window
    BY <1>1, <1>8 DEF Lists
  <1>17. \A k \in 0 .. MaxWindows - 1 : k \notin Entries => e.array[k] = d.array[k]
    BY <1>6, <1>7
  <1> HIDE DEF list
  <1>12. e \in Desktops
    BY <1>2, <1>3, <1>6, <1>8, <1>9 DEF Desktops, Lists
  <1>13. Small(e)
    BY <1>1, <1>6, <1>9, <1>11 DEF Small
  <1>16. Placed(e)
    BY <1>1, <1>6, <1>9, <1>11 DEF Placed
  <1>14. ListedIn(e) = ListedIn(d)
    BY <1>6, <1>10 DEF ListedIn
  <1>15. ASSUME NEW m \in Entries, d.array[m] = w,
                \A j \in Entries : j # m => d.array[j] # w /\ d.zindex[d.array[j]] < Raised
         PROVE  e.array[size - 1] = w
    <2>1. CASE size <= 1
      <3>1. m = size - 1
        BY <1>1, <2>1 DEF Entries
      <3> QED
        BY <1>6, <1>15, <2>1, <3>1
    <2>2. CASE ~ (size <= 1)
      <3>1. \A j \in Entries : j # m => raised[d.array[j]] < raised[d.array[m]]
        BY <1>2, <1>3, <1>4, <1>15
      <3>2. list[size - 1] = d.array[m]
        BY <1>7, <3>1
      <3> QED
        BY <1>6, <1>15, <2>2, <3>2
    <2> QED
      BY <2>1, <2>2
  <1> QED
    BY <1>6, <1>12, <1>13, <1>14, <1>15, <1>16, <1>17 DEF e

-----------------------------------------------------------------------------
(* HandleDragFocusInput.                                                   *)

(* The walk is what its recursion says: it begins with the desktop as it   *)
(* is, and each entry is met on the desktop that those before have left.   *)
LEMMA WalkSteps ==
  ASSUME size \in Nat, NEW p, NEW mouseDown, NEW mouseWasDown
  PROVE  LET met == Walk(p, mouseDown, mouseWasDown)
         IN  /\ met[0] = Desk
             /\ \A k \in 1 .. size :
                  met[k] = Meet(met[k - 1], met[k - 1].array[k - 1], p, mouseDown, mouseWasDown)
  <1> DEFINE Follows(d, k) == Meet(d, d.array[k - 1], p, mouseDown, mouseWasDown)
             Walks(f, n) == f = [k \in 0 .. n |-> IF k = 0 THEN Desk ELSE Follows(f[k - 1], k)]
             S == {n \in 0 .. size : \E f : Walks(f, n)}
  <1> HIDE DEF Follows
  <1>1. 0 \in S
    <2> DEFINE f == [k \in 0 .. 0 |-> Desk]
    <2>1. Walks(f, 0)
      OBVIOUS
    <2> HIDE DEF f, Walks
    <2> QED
      BY <2>1
  <1>2. ASSUME NEW n \in 1 .. size, n - 1 \in S PROVE n \in S
    <2>1. PICK f : Walks(f, n - 1)
      BY <1>2
    <2> DEFINE g == [k \in 0 .. n |-> IF k = n THEN Follows(f[n - 1], n) ELSE f[k]]
    <2>2. \A k \in 0 .. n : g[k] = IF k = 0 THEN Desk ELSE Follows(g[k - 1], k)
      <3> TAKE k \in 0 .. n
      <3>1. \A j \in 0 .. n - 1 : f[j] = IF j = 0 THEN Desk ELSE Follows(f[j - 1], j)
        BY <2>1
      <3>2. CASE k = n
        <4>1. n - 1 \in 0 .. n /\ n - 1 # n /\ n # 0
          OBVIOUS
        <4> QED
          BY <3>2, <4>1
      <3>3. CASE k # n
        <4>1. k \in 0 .. n - 1 /\ (k # 0 => k - 1 \in 0 .. n - 1 /\ k - 1 # n /\ k - 1 \in 0 .. n)
          BY <3>3
        <4> QED
          BY <3>1, <3>3, <4>1
      <3> QED
        BY <3>2, <3>3
    <2>3. g = [k \in 0 .. n |-> g[k]]
      OBVIOUS
    <2> HIDE DEF g
    <2>4. Walks(g, n)
      BY <2>2, <2>3
    <2> QED
      BY <2>4
  <1>3. size \in 0 .. size
    OBVIOUS
  <1> HIDE DEF S
  <1>4. size \in S
    BY <1>1, <1>2, <1>3, Ascent
  <1>5. PICK f : Walks(f, size)
    BY <1>4 DEF S
  <1>6. Walks(Walk(p, mouseDown, mouseWasDown), size)
    BY <1>5 DEF Walk, Follows
  <1> DEFINE met == Walk(p, mouseDown, mouseWasDown)
  <1> HIDE DEF met
  <1>7. met = [k \in 0 .. size |-> IF k = 0 THEN Desk ELSE Follows(met[k - 1], k)]
    BY <1>6 DEF met
  <1>8. met[0] = Desk /\ \A k \in 1 .. size : met[k] = Follows(met[k - 1], k)
    BY <1>7
  <1> QED
    BY <1>8 DEF Follows, met

(* The window under the pointer is the last one of the list that is.       *)
LEMMA HoveringFacts ==
  ASSUME Fits, NEW d \in Desktops, NEW p
  PROVE  LET Under(k) == Inside(p, d.place[d.array[k]], Height)
         IN  /\ \A k \in Entries :
                  Under(k) /\ (\A j \in Entries : Under(j) => j <= k) => Hovering(d, p) = d.array[k]
             /\ (\A k \in Entries : ~ Under(k)) => Hovering(d, p) = NoWindow
  <1> DEFINE Under(k) == Inside(p, d.place[d.array[k]], Height)
             under == {k \in Entries : Under(k)}
  <1>1. Hovering(d, p) = IF under = {} THEN NoWindow ELSE d.array[Max(under)]
    BY DEF Hovering
  <1>2. size \in Nat
    BY Sizes DEF Fits
  <1> HIDE DEF Under
  <1>3. ASSUME NEW k \in Entries, Under(k), \A j \in Entries : Under(j) => j <= k
        PROVE  Max(under) = k
    <2>1. under \in SUBSET (0 .. size - 1) /\ under # {}
      BY <1>3 DEF Entries
    <2>2. Max(under) \in under /\ \A y \in under : Max(under) >= y
      BY <1>2, <2>1, MaxOfSome
    <2>3. Max(under) \in 0 .. size - 1 /\ Max(under) <= k /\ Max(under) >= k
      BY <1>3, <2>2 DEF Entries
    <2> QED
      BY <1>2, <1>3, <2>3 DEF Entries
  <1>4. \A k \in Entries : Under(k) => under # {}
    OBVIOUS
  <1>5. (\A k \in Entries : ~ Under(k)) => under = {}
    OBVIOUS
  <1> HIDE DEF under
  <1>6. /\ \A k \in Entries :
             Under(k) /\ (\A j \in Entries : Under(j) => j <= k) => Hovering(d, p) = d.array[k]
        /\ (\A k \in Entries : ~ Under(k)) => Hovering(d, p) = NoWindow
    BY <1>1, <1>3, <1>4, <1>5
  <1> QED
    BY <1>6 DEF Under

(* A window is met as the button goes down, or while it was down before.   *)
Pressed(d, w, p) == Meet(d, w, p, TRUE, FALSE)
Pulled(d, w, p, mouseDown) == Meet(d, w, p, mouseDown, TRUE)

(* When the button goes down, a window that is met is focused or left      *)
(* alone, and taken hold of by its title.                                  *)
LEMMA MeetPressed ==
  ASSUME Fits, NEW d \in Desktops, NEW w \in Window, NEW p \in Position
  PROVE  LET e == Pressed(d, w, p)
             f == Focused(d, w)
         IN  IF Hovering(d, p) = w
               THEN /\ e \in Desktops
                    /\ e.array = f.array /\ e.zindex = f.zindex /\ e.focused = w
                    /\ e.place = d.place
                    /\ IF Inside(p, d.place[w], TitleHeight)
                         THEN e.drag = w /\ e.grip = p
                         ELSE e.drag = d.drag /\ e.grip = d.grip
               ELSE e = d
  <1> DEFINE e == Pressed(d, w, p)
             f == Focused(d, w)
             grab == Inside(p, d.place[w], TitleHeight)
  <1>1. ASSUME Hovering(d, p) # w PROVE e = d
    BY <1>1 DEF Pressed, Meet
  <1>2. ASSUME Hovering(d, p) = w
        PROVE  e = IF grab THEN [f EXCEPT !.drag = w, !.grip = p] ELSE f
    BY <1>2 DEF Pressed, Meet
  <1>3. f \in Desktops /\ f.focused = w /\ f.place = d.place /\ f.drag = d.drag /\ f.grip = d.grip
    BY FocusedFacts
  <1> HIDE DEF e, f, grab
  <1>4. ASSUME Hovering(d, p) = w
        PROVE  /\ e \in Desktops
               /\ e.array = f.array /\ e.zindex = f.zindex /\ e.focused = w /\ e.place = d.place
               /\ IF grab THEN e.drag = w /\ e.grip = p ELSE e.drag = d.drag /\ e.grip = d.grip
    <2>1. CASE grab
      <3>1. e = [f EXCEPT !.drag = w, !.grip = p]
        BY <1>2, <1>4, <2>1
      <3> QED
        BY <1>3, <2>1, <3>1 DEF Desktops
    <2>2. CASE ~ grab
      BY <1>2, <1>3, <1>4, <2>2
    <2> QED
      BY <2>1, <2>2
  <1> QED
    BY <1>1, <1>4 DEF e, f, grab

Shifted(corner, from, to) == [x |-> corner.x + to.x - from.x, y |-> corner.y + to.y - from.y]

(* With the button down before, it is moved or let go if it is held.       *)
LEMMA MeetHeld ==
  ASSUME NEW d \in Desktops, NEW w \in Window, NEW p \in Position, NEW mouseDown \in BOOLEAN,
         NEW e, e = Pulled(d, w, p, mouseDown)
  PROVE  /\ e \in Desktops
         /\ e.array = d.array /\ e.zindex = d.zindex /\ e.focused = d.focused
         /\ d.drag # w => e = d
         /\ d.drag = w /\ ~ mouseDown => e.drag = NoWindow /\ e.place = d.place
         /\ d.drag = w /\ mouseDown =>
              /\ e.drag = w /\ e.grip = p
              /\ e.place[w] = Shifted(d.place[w], d.grip, p)
  <1>1. d.place \in [Window -> Position] /\ d.grip \in Position /\ Origin \in Position
    BY DEF Desktops, Origin, Position
  <1>2. CASE d.drag # w
    <2>1. e = d
      BY <1>2 DEF Pulled, Meet
    <2> QED
      BY <1>2, <2>1
  <1>3. CASE d.drag = w /\ ~ mouseDown
    <2>1. e = [d EXCEPT !.drag = NoWindow, !.grip = Origin]
      BY <1>3 DEF Pulled, Meet
    <2>2. e \in Desktops
      BY <1>1, <2>1 DEF Desktops
    <2>3. /\ e.array = d.array /\ e.zindex = d.zindex /\ e.focused = d.focused
          /\ e.drag = NoWindow /\ e.place = d.place
      BY <2>1 DEF Desktops
    <2> QED
      BY <1>3, <2>2, <2>3
  <1>4. CASE d.drag = w /\ mouseDown
    <2> DEFINE at == Shifted(d.place[w], d.grip, p)
    <2>1. e = Dragged(d, w, p)
      BY <1>4 DEF Pulled, Meet
    <2>2. e = [d EXCEPT !.grip = p, !.place = [d.place EXCEPT ![w] = at]]
      BY <2>1 DEF Dragged, Desktops, Shifted
    <2>3. at \in Position
      BY <1>1 DEF Position, Shifted
    <2> HIDE DEF at
    <2> DEFINE places == [d.place EXCEPT ![w] = at]
    <2>4. places \in [Window -> Position] /\ places[w] = at
      BY <1>1, <2>3
    <2> HIDE DEF places
    <2>6. /\ e.array = d.array /\ e.zindex = d.zindex /\ e.focused = d.focused
          /\ e.drag = w /\ e.grip = p /\ e.place = places
      BY <1>4, <2>2 DEF Desktops, places
    <2>5. e \in Desktops
      BY <2>2, <2>4 DEF Desktops, places
    <2> QED
      BY <1>4, <2>4, <2>5, <2>6 DEF at
  <1> QED
    BY <1>2, <1>3, <1>4

(* What a window that is met may change: the list keeps its windows and    *)
(* the desktop its form.                                                   *)
Kept(d, e) ==
  /\ e \in Desktops
  /\ ListedIn(e) = ListedIn(d)
  /\ \A k \in 0 .. MaxWindows - 1 : k \notin Entries => e.array[k] = d.array[k]
  /\ (e.array = d.array /\ e.zindex = d.zindex) \/ (Small(e) /\ Placed(e))

(* Whatever a window meets in the walk, the desktop stays Kept.            *)
LEMMA MeetKeeps ==
  ASSUME Fits, NEW d \in Desktops, NEW w \in Window, NEW p \in Position,
         NEW mouseDown \in BOOLEAN, NEW mouseWasDown \in BOOLEAN
  PROVE  Kept(d, Meet(d, w, p, mouseDown, mouseWasDown))
  <1>1. CASE mouseWasDown
    <2> SUFFICES ASSUME NEW e, e = Pulled(d, w, p, mouseDown)
                 PROVE  Kept(d, e)
      BY <1>1 DEF Pulled
    <2>1. e \in Desktops /\ e.array = d.array /\ e.zindex = d.zindex /\ e.focused = d.focused
      BY MeetHeld
    <2> QED
      BY <2>1 DEF Kept, ListedIn
  <1>2. CASE ~ mouseWasDown /\ ~ mouseDown
    <2>1. Meet(d, w, p, mouseDown, mouseWasDown) = d
      BY <1>2 DEF Meet
    <2> QED
      BY <2>1 DEF Kept
  <1>3. CASE ~ mouseWasDown /\ mouseDown
    <2> DEFINE e == Pressed(d, w, p)
               f == Focused(d, w)
    <2>1. CASE Hovering(d, p) # w
      <3>1. e = d
        BY <2>1, MeetPressed
      <3> QED
        BY <1>3, <3>1 DEF Kept, Pressed
    <2>2. CASE Hovering(d, p) = w
      <3>1. e \in Desktops /\ e.array = f.array /\ e.zindex = f.zindex /\ e.focused = w
        BY <2>2, MeetPressed
      <3>2. Small(f) /\ Placed(f) /\ ListedIn(f) = ListedIn(d)
        BY FocusedFacts
      <3> HIDE DEF e, f
      <3>5. \A k \in 0 .. MaxWindows - 1 : k \notin Entries => e.array[k] = d.array[k]
        <4>1. \A k \in 0 .. MaxWindows - 1 : k \notin Entries => f.array[k] = d.array[k]
          BY FocusedFacts DEF f
        <4> QED
          BY <3>1, <4>1
      <3>3. Small(e) /\ Placed(e) /\ ListedIn(e) = ListedIn(d)
        <4>1. Small(e)
          BY <3>1, <3>2 DEF Small
        <4>2. Placed(e)
          BY <3>1, <3>2, Zenon DEF Placed
        <4>3. ListedIn(e) = ListedIn(d)
          BY <3>1, <3>2, Zenon DEF ListedIn
        <4> QED
          BY <4>1, <4>2, <4>3
      <3>4. Kept(d, e)
        BY <3>1, <3>3, <3>5 DEF Kept
      <3> QED
        BY <1>3, <3>4 DEF e, Pressed
    <2> QED
      BY <2>1, <2>2
  <1> QED
    BY <1>1, <1>2, <1>3

(* The walk meets windows, whatever it does to the list.                   *)
LEMMA WalkKeeps ==
  ASSUME Fits, Desk \in Desktops, NEW p \in Position,
         NEW mouseDown \in BOOLEAN, NEW mouseWasDown \in BOOLEAN
  PROVE  LET met == Walk(p, mouseDown, mouseWasDown)
         IN  \A k \in 0 .. size : /\ Kept(Desk, met[k])
                                 /\ \A j \in Entries : met[k].array[j] \in Window
  <1> DEFINE met == Walk(p, mouseDown, mouseWasDown)
             S == {k \in 0 .. size : Kept(Desk, met[k])}
  <1>1. size \in Nat /\ Entries \subseteq Filled
    BY Sizes DEF Fits, Filled, Entries
  <1>2. /\ met[0] = Desk
        /\ \A k \in 1 .. size :
             met[k] = Meet(met[k - 1], met[k - 1].array[k - 1], p, mouseDown, mouseWasDown)
    BY <1>1, WalkSteps
  <1>3. \A d \in Desktops : \A j \in Entries : d.array[j] \in Window
    BY <1>1 DEF Desktops, Lists
  <1> HIDE DEF met
  <1>4. 0 \in S
    BY <1>1, <1>2 DEF Kept
  <1>5. ASSUME NEW k \in 1 .. size, k - 1 \in S PROVE k \in S
    <2> DEFINE d == met[k - 1]
               w == d.array[k - 1]
    <2>1. d \in Desktops /\ k - 1 \in Entries /\ Kept(Desk, d)
      BY <1>1, <1>5 DEF Kept, Entries
    <2>2. w \in Window
      BY <1>3, <2>1
    <2>3. met[k] = Meet(d, w, p, mouseDown, mouseWasDown)
      BY <1>2
    <2> HIDE DEF d, w
    <2>4. Kept(d, met[k])
      BY <2>1, <2>2, <2>3, MeetKeeps
    <2>5. Kept(Desk, met[k])
      BY <2>1, <2>4 DEF Kept, Small, Placed
    <2> QED
      BY <1>1, <2>5
  <1>6. \A k \in 0 .. size : k \in S
    <2> HIDE DEF S
    <2> QED
      BY <1>1, <1>4, <1>5, Ascent
  <1>7. \A k \in 0 .. size : Kept(Desk, met[k]) /\ \A j \in Entries : met[k].array[j] \in Window
    BY <1>3, <1>6 DEF Kept
  <1> QED
    BY <1>7 DEF met

(* A walk with the button down before: what is held is moved by as much as *)
(* the pointer, however often it comes up, or let go.                      *)
LEMMA PulledWalk ==
  ASSUME Fits, Desk \in Desktops, NEW p \in Position, NEW mouseDown \in BOOLEAN,
         NEW met, met[0] = Desk,
         \A k \in 1 .. size : met[k] = Pulled(met[k - 1], met[k - 1].array[k - 1], p, mouseDown)
  PROVE  /\ drag = NoWindow => met[size].drag = NoWindow
         /\ drag \in Listed /\ ~ mouseDown => met[size].drag = NoWindow
         /\ drag \in Listed /\ mouseDown =>
              /\ met[size].drag = drag /\ met[size].grip = p
              /\ met[size].place[drag] = Shifted(place[drag], grip, p)
  <1> DEFINE goal == Shifted(place[drag], grip, p)
             Same(d) == d \in Desktops /\ d.array = array
             NotMet(k) == \A j \in 0 .. k - 1 : array[j] # drag
             Nothing == {k \in 0 .. size : Same(met[k]) /\ met[k].drag = NoWindow}
             Gone == {k \in 0 .. size :
                        /\ Same(met[k])
                        /\ met[k].drag = NoWindow \/ (met[k].drag = drag /\ NotMet(k))}
             Moved == {k \in 0 .. size :
                        /\ Same(met[k]) /\ met[k].drag = drag
                        /\ \/ met[k].grip = p /\ met[k].place[drag] = goal
                           \/ met[k].grip = grip /\ met[k].place[drag] = place[drag] /\ NotMet(k)}
  <1>1. /\ size \in Nat /\ Entries \subseteq Filled /\ \A j \in Entries : array[j] \in Window
    BY Sizes DEF Fits, Filled, Entries, Desktops, Lists, Desk
  <1>2. NoWindow \notin Window
    BY DesktopAssumption
  <1>3. Same(Desk) /\ Desk.drag = drag /\ Desk.grip = grip /\ Desk.place = place
    BY DEF Desk
  <1>4. \A k \in 1 .. size : k - 1 \in Entries /\ array[k - 1] \in Window
    BY <1>1 DEF Entries
  <1>5. \A k \in 1 .. size : Same(met[k - 1]) =>
          /\ Same(met[k])
          /\ met[k - 1].drag # array[k - 1] => met[k] = met[k - 1]
          /\ met[k - 1].drag = array[k - 1] /\ ~ mouseDown => met[k].drag = NoWindow
          /\ met[k - 1].drag = array[k - 1] /\ mouseDown =>
               /\ met[k].drag = array[k - 1] /\ met[k].grip = p
               /\ met[k].place[array[k - 1]] =
                     Shifted(met[k - 1].place[array[k - 1]], met[k - 1].grip, p)
    <2> SUFFICES ASSUME NEW k \in 1 .. size, Same(met[k - 1])
                 PROVE  /\ Same(met[k])
                        /\ met[k - 1].drag # array[k - 1] => met[k] = met[k - 1]
                        /\ met[k - 1].drag = array[k - 1] /\ ~ mouseDown => met[k].drag = NoWindow
                        /\ met[k - 1].drag = array[k - 1] /\ mouseDown =>
                             /\ met[k].drag = array[k - 1] /\ met[k].grip = p
                             /\ met[k].place[array[k - 1]] =
                                  Shifted(met[k - 1].place[array[k - 1]], met[k - 1].grip, p)
      OBVIOUS
    <2> DEFINE d == met[k - 1]
               w == array[k - 1]
    <2>1. d \in Desktops /\ d.array = array /\ w \in Window
      BY <1>4
    <2>2. met[k] = Pulled(d, w, p, mouseDown)
      BY <2>1
    <2> HIDE DEF d, w
    <2>3. /\ met[k] \in Desktops
          /\ met[k].array = d.array
          /\ d.drag # w => met[k] = d
          /\ d.drag = w /\ ~ mouseDown => met[k].drag = NoWindow
          /\ d.drag = w /\ mouseDown =>
              /\ met[k].drag = w /\ met[k].grip = p
              /\ met[k].place[w] = Shifted(d.place[w], d.grip, p)
      BY <2>1, <2>2, MeetHeld
    <2> QED
      BY <2>1, <2>3 DEF d, w
  <1>6. \A k \in 1 .. size : NotMet(k - 1) /\ array[k - 1] # drag => NotMet(k)
    BY <1>1
  <1>7. ASSUME drag \in Listed PROVE Shifted(goal, p, p) = goal
    <2>1. place \in [Window -> Position] /\ grip \in Position /\ drag \in Window
      BY <1>1, <1>7 DEF Desktops, Desk, Listed
    <2>2. place[drag] \in Position
      BY <2>1
    <2> QED
      BY <2>1, <2>2 DEF Shifted, Position
  <1>8. size \in 0 .. size /\ 0 \in 0 .. size /\ \A k \in 1 .. size : k \in 0 .. size
    BY <1>1
  <1>9. NotMet(0)
    OBVIOUS
  <1>10. NotMet(size) => drag \notin Listed
    BY DEF Listed, Entries
  <1> HIDE DEF goal, Same, NotMet
  <1>11. ASSUME drag = NoWindow PROVE met[size].drag = NoWindow
    <2>1. 0 \in Nothing
      BY <1>3, <1>8, <1>11
    <2>2. \A k \in 1 .. size : k - 1 \in Nothing => k \in Nothing
      BY <1>2, <1>4, <1>5, <1>8
    <2> HIDE DEF Nothing
    <2>3. size \in Nothing
      BY <1>1, <1>8, <2>1, <2>2, Ascent
    <2> QED
      BY <2>3 DEF Nothing
  <1>12. ASSUME drag \in Listed, ~ mouseDown PROVE met[size].drag = NoWindow
    <2>1. 0 \in Gone
      BY <1>3, <1>8, <1>9
    <2>2. \A k \in 1 .. size : k - 1 \in Gone => k \in Gone
      BY <1>2, <1>4, <1>5, <1>6, <1>8, <1>12
    <2> HIDE DEF Gone
    <2>3. size \in Gone
      BY <1>1, <1>8, <2>1, <2>2, Ascent
    <2> QED
      BY <1>10, <1>12, <2>3 DEF Gone
  <1>13. ASSUME drag \in Listed, mouseDown
         PROVE  /\ met[size].drag = drag /\ met[size].grip = p
                /\ met[size].place[drag] = goal
    <2>1. 0 \in Moved
      BY <1>3, <1>8, <1>9
    <2>2. ASSUME NEW k \in 1 .. size, k - 1 \in Moved PROVE k \in Moved
      <3>1. CASE array[k - 1] # drag
        BY <1>5, <1>6, <1>8, <2>2, <3>1
      <3>2. CASE array[k - 1] = drag
        <4>1. /\ Same(met[k]) /\ met[k].drag = drag /\ met[k].grip = p
              /\ met[k].place[drag] = Shifted(met[k - 1].place[drag], met[k - 1].grip, p)
          BY <1>5, <1>13, <2>2, <3>2
        <4>2. Shifted(met[k - 1].place[drag], met[k - 1].grip, p) = goal
          BY <1>7, <1>13, <2>2 DEF goal
        <4> QED
          BY <1>8, <4>1, <4>2
      <3> QED
        BY <3>1, <3>2
    <2> HIDE DEF Moved
    <2>3. size \in Moved
      BY <1>1, <1>8, <2>1, <2>2, Ascent
    <2> QED
      BY <1>10, <1>13, <2>3 DEF Moved
  <1> QED
    BY <1>11, <1>12, <1>13 DEF goal

(* A walk as the button goes down moves nothing, and takes hold only of    *)
(* what the button is pressed on.                                          *)
LEMMA PressedWalk ==
  ASSUME Fits, Desk \in Desktops, NEW p \in Position,
         NEW met, met[0] = Desk,
         \A k \in 1 .. size : met[k] = Pressed(met[k - 1], met[k - 1].array[k - 1], p)
  PROVE  /\ met[size].place = place
         /\ \/ met[size].drag = drag
            \/ met[size].grip = p /\ Inside(p, place[met[size].drag], TitleHeight)
  <1> DEFINE Good(d) == /\ d \in Desktops /\ d.place = place
                        /\ \/ d.drag = drag
                           \/ d.grip = p /\ Inside(p, place[d.drag], TitleHeight)
             S == {k \in 0 .. size : Good(met[k])}
  <1>1. size \in Nat /\ Entries \subseteq Filled /\ size \in 0 .. size /\ 0 \in 0 .. size
    BY Sizes DEF Fits, Filled, Entries
  <1>2. 0 \in S
    BY <1>1 DEF Desk
  <1>3. ASSUME NEW k \in 1 .. size, k - 1 \in S PROVE k \in S
    <2> DEFINE d == met[k - 1]
               w == d.array[k - 1]
    <2>1. k - 1 \in Entries /\ k \in 0 .. size
      BY <1>1 DEF Entries
    <2>2. Good(d) /\ w \in Window
      BY <1>1, <1>3, <2>1 DEF Desktops, Lists
    <2>3. met[k] = Pressed(d, w, p)
      OBVIOUS
    <2> HIDE DEF d, w
    <2>4. CASE Hovering(d, p) = w
      <3>1. /\ met[k] \in Desktops /\ met[k].place = d.place
            /\ IF Inside(p, d.place[w], TitleHeight)
                 THEN met[k].drag = w /\ met[k].grip = p
                 ELSE met[k].drag = d.drag /\ met[k].grip = d.grip
        BY <2>2, <2>3, <2>4, MeetPressed
      <3> QED
        BY <2>1, <2>2, <2>4, <3>1
    <2>5. CASE Hovering(d, p) # w
      <3>1. met[k] = d
        BY <2>2, <2>3, <2>5, MeetPressed
      <3> QED
        BY <2>1, <2>2, <3>1
    <2> QED
      BY <2>4, <2>5
  <1> HIDE DEF S
  <1>4. size \in S
    BY <1>1, <1>2, <1>3, Ascent
  <1> QED
    BY <1>4 DEF S

(* A list with as many windows as entries holds none twice.                *)
LEMMA NoneTwice ==
  ASSUME size \in Nat, NEW a, Cardinality({a[k] : k \in Entries}) = size
  PROVE  \A j, k \in Entries : a[j] = a[k] => j = k
  <1> DEFINE T == {a[k] : k \in Entries}
             f == [k \in Entries |-> a[k]]
  <1>1. IsFiniteSet(Entries) /\ Cardinality(Entries) = size
    BY FS_Interval DEF Entries
  <1>2. f \in Surjection(Entries, T)
    BY DEF Surjection
  <1> HIDE DEF f
  <1>3. f \in Injection(Entries, T)
    BY <1>1, <1>2, FS_Surjection
  <1>4. \A j, k \in Entries : f[j] = f[k] => j = k
    BY <1>3 DEF Injection, IsInjective
  <1> QED
    BY <1>4 DEF f

(* A press on a complete list gives the focus to the window on top under   *)
(* the pointer, and that window stays at the end of the list however the   *)
(* walk goes on.                                                           *)
LEMMA RaisingWalk ==
  ASSUME Fits, Desk \in Desktops, NEW p \in Position,
         Cardinality(Listed) = size, Small(Desk),
         NEW met, met[0] = Desk,
         \A k \in 1 .. size : met[k] = Pressed(met[k - 1], met[k - 1].array[k - 1], p),
         NEW m \in Entries, Inside(p, place[array[m]], Height),
         \A j \in Entries : Inside(p, place[array[j]], Height) => j <= m
  PROVE  met[size].focused = array[m] /\ met[size].array[size - 1] = array[m]
  <1> DEFINE top == array[m]
             Good(d) == /\ d \in Desktops /\ ListedIn(d) = Listed /\ Small(d)
                        /\ d.place = place /\ d.focused = top /\ d.array[size - 1] = top
             S == {k \in 0 .. size : IF k <= m THEN met[k] = Desk ELSE Good(met[k])}
  <1>1. /\ size \in Nat /\ Entries \subseteq Filled /\ size \in 0 .. size /\ 0 \in 0 .. size
        /\ m \in 0 .. size - 1 /\ size - 1 \in Entries
    BY Sizes DEF Fits, Filled, Entries
  <1>2. /\ ListedIn(Desk) = Listed /\ Desk.place = place /\ Desk.array = array
        /\ \A j \in Entries : array[j] \in Window
    BY <1>1 DEF ListedIn, Listed, Desk, Desktops, Lists
  <1>3. top \in Window /\ Hovering(Desk, p) = top
    <2>1. /\ Inside(p, Desk.place[Desk.array[m]], Height)
          /\ \A j \in Entries : Inside(p, Desk.place[Desk.array[j]], Height) => j <= m
      BY <1>2
    <2> QED
      BY <1>2, <2>1, HoveringFacts
  <1>4. ASSUME NEW d \in Desktops, ListedIn(d) = Listed, Small(d)
        PROVE  /\ \A j, k \in Entries : d.array[j] = d.array[k] => j = k
               /\ size > 1 => \A j \in Entries : d.zindex[d.array[j]] < Raised
    <2>1. Cardinality({d.array[k] : k \in Entries}) = size
      BY <1>4 DEF ListedIn
    <2>2. \A j \in Entries : d.zindex[d.array[j]] \in Int
      <3>1. d.zindex \in [Window -> Zindex] /\ \A j \in Entries : d.array[j] \in Window
        BY <1>1 DEF Desktops, Lists
      <3>2. \A w \in Window : d.zindex[w] \in Int
        BY <3>1 DEF Zindex
      <3> QED
        BY <3>1, <3>2
    <2>3. size <= Raised /\ Raised \in Int
      BY Sizes DEF Fits
    <2>4. size > 1 => \A j \in Entries : d.zindex[d.array[j]] < Raised
      BY <1>1, <1>4, <2>2, <2>3 DEF Small
    <2>5. \A j, k \in Entries : d.array[j] = d.array[k] => j = k
      BY <1>1, <2>1, NoneTwice
    <2> QED
      BY <2>4, <2>5
  <1>5. ASSUME NEW d \in Desktops, ListedIn(d) = Listed, Small(d), d.place = place,
               NEW n \in Entries, d.array[n] = top, Hovering(d, p) = top
        PROVE  Good(Pressed(d, top, p))
    <2> DEFINE e == Pressed(d, top, p)
               f == Focused(d, top)
    <2>1. /\ e \in Desktops /\ e.array = f.array /\ e.zindex = f.zindex
          /\ e.focused = top /\ e.place = d.place
      BY <1>3, <1>5, MeetPressed
    <2>2. \A j \in Entries : j # n => d.array[j] # top /\ d.zindex[d.array[j]] < Raised
      <3> SUFFICES ASSUME NEW j \in Entries, j # n
                   PROVE  d.array[j] # top /\ d.zindex[d.array[j]] < Raised
        OBVIOUS
      <3>1. size > 1
        BY <1>1 DEF Entries
      <3> QED
        BY <1>4, <1>5, <3>1
    <2>3. Small(f) /\ ListedIn(f) = ListedIn(d) /\ f.array[size - 1] = top
      BY <1>3, <1>5, <2>2, FocusedFacts
    <2> HIDE DEF e, f
    <2>4. Good(e)
      BY <1>5, <2>1, <2>3 DEF Small, ListedIn
    <2> QED
      BY <2>4 DEF e
  <1>6. 0 \in S
    BY <1>1
  <1>7. ASSUME NEW k \in 1 .. size, k - 1 \in S PROVE k \in S
    <2> DEFINE d == met[k - 1]
               w == d.array[k - 1]
    <2>1. k - 1 \in Entries /\ k \in 0 .. size
      BY <1>1 DEF Entries
    <2>2. met[k] = Pressed(d, w, p)
      OBVIOUS
    <2>3. CASE k - 1 < m
      <3>1. d = Desk /\ w = array[k - 1] /\ k <= m
        BY <1>1, <1>2, <1>7, <2>3
      <3>2. w # top /\ w \in Window
        BY <1>2, <1>4, <2>1, <2>3, <3>1
      <3> HIDE DEF d, w
      <3>3. met[k] = Desk
        BY <1>3, <2>2, <3>1, <3>2, MeetPressed
      <3> QED
        BY <2>1, <3>1, <3>3
    <2>4. CASE k - 1 = m
      <3>1. d = Desk /\ w = top /\ ~ (k <= m)
        BY <1>1, <1>2, <1>7, <2>4
      <3> HIDE DEF d, w
      <3>2. Good(met[k])
        BY <1>2, <1>3, <1>5, <2>2, <3>1
      <3> QED
        BY <2>1, <3>1, <3>2
    <2>5. CASE k - 1 > m
      <3>1. Good(d) /\ ~ (k <= m) /\ w \in Window
        BY <1>1, <1>7, <2>1, <2>5 DEF Desktops, Lists
      <3> HIDE DEF d, w
      <3>2. Hovering(d, p) = top
        <4>1. /\ Inside(p, d.place[d.array[size - 1]], Height)
              /\ \A j \in Entries : j <= size - 1
          BY <1>1, <3>1 DEF Entries
        <4> QED
          BY <1>1, <3>1, <4>1, HoveringFacts
      <3>3. CASE w = top
        <4>1. Good(met[k])
          BY <1>1, <1>5, <2>2, <3>1, <3>2, <3>3
        <4> QED
          BY <2>1, <3>1, <4>1
      <3>4. CASE w # top
        <4>1. met[k] = d
          BY <2>2, <3>1, <3>2, <3>4, MeetPressed
        <4> QED
          BY <2>1, <3>1, <4>1
      <3> QED
        BY <3>3, <3>4
    <2> QED
      BY <1>1, <2>3, <2>4, <2>5
  <1> HIDE DEF S
  <1>8. size \in S
    BY <1>1, <1>6, <1>7, Ascent
  <1> QED
    BY <1>1, <1>8 DEF S

-----------------------------------------------------------------------------
(* The inductive invariant.                                                *)

Searching == {"below", "key", "compare", "swap", "swapped"}
Sorting == Searching \cup {"pass", "step", "number", "assign"}
Opens == {"append", "grow", "raise", "focus"}
Index == -1 .. MaxWindows
Threads ==
  [pc : {"rest", "sort"} \cup Sorting \cup Opens, after : {"rest", "raise"},
   i : Index, again : BOOLEAN,
   w1 : Window \cup {NoWindow}, w2 : Window \cup {NoWindow}, z1 : Zindex]

(* The registers of the thread point into the list, and a window is left   *)
(* to be opened while one is.                                              *)
ThreadOK ==
  /\ thread \in Threads
  /\ thread.pc \in {"append", "grow"} => size < MaxWindows
  /\ thread.pc \in Opens \/ thread.after = "raise" => opened < Len(Opening)
  /\ thread.pc \in Sorting => size > 1
  /\ thread.pc = "step" => thread.i \in 0 .. size - 1
  /\ thread.pc \in Searching => thread.i \in 1 .. size - 1 /\ thread.w1 \in Window
  /\ thread.pc \in Searching \ {"below"} => thread.w2 \in Window
  /\ thread.pc = "number" => thread.i \in 0 .. size
  /\ thread.pc = "assign" => thread.i \in 0 .. size - 1 /\ thread.w1 \in Window

(* Whatever order the entries are in: there is a window in each.           *)
Written == \A k \in Filled : array[k] \in Window

(* While the thread numbers the windows, those before it have a small      *)
(* number; a click that takes the list from under it numbers them all.     *)
Numbering ==
  /\ At("rest") => Small(Desk)
  /\ thread.pc \in {"number", "assign"} => \A j \in 0 .. thread.i - 1 : zindex[array[j]] < size
  /\ At("assign") => array[thread.i] = thread.w1 \/ Small(Desk)

IInv == TypeOK /\ ThreadOK /\ Written /\ Numbering

-----------------------------------------------------------------------------
(* The initial states, and the steps of the thread.                        *)

(* Before the thread has made its windows the list is empty.               *)
LEMMA InitHolds == Init => IInv
  <1> SUFFICES ASSUME Init PROVE IInv
    OBVIOUS
  <1>1. size = 0 /\ thread = Registers /\ Entries = {} /\ Filled = {}
    BY DEF Init, Registers, At, Filled, Entries
  <1>2. Len(Opening) \in Nat
    BY DesktopAssumption
  <1>3. thread \in Threads
    BY <1>1, Sizes DEF Registers, Threads, Zindex, Index
  <1>4. ThreadOK
    BY <1>1, <1>3 DEF ThreadOK, Registers, Opens, Sorting, Searching
  <1>5. zindex \in [Window -> Zindex]
    BY DesktopAssumption DEF Init
  <1>6. /\ array \in [0 .. MaxWindows - 1 -> Window \cup {NoWindow}]
        /\ size \in 0 .. MaxWindows /\ opened \in 0 .. Len(Opening) /\ thread.i \in -1 .. MaxWindows
        /\ focused \in Window \cup {NoWindow} /\ drag \in Window \cup {NoWindow}
        /\ place \in [Window -> Position] /\ grip \in Position
    BY <1>1, <1>2, Sizes, DesktopAssumption DEF Init, Registers, Origin, Position
  <1>7. /\ mouse \in [x : 0 .. ScreenWidth, y : 0 .. ScreenHeight, prevState : [Slot -> BOOLEAN]]
        /\ keymap \in [Key -> [bPressed : BOOLEAN, bPressedPrev : BOOLEAN]]
        /\ down \in [Window -> SUBSET (Button \cup Key)]
    BY Sizes DEF Init
  <1>8. TypeOK
    BY <1>5, <1>6, <1>7 DEF TypeOK
  <1>9. Written /\ Numbering
    BY <1>1 DEF Written, Numbering, Small, Registers, At
  <1> QED
    BY <1>4, <1>8, <1>9 DEF IInv

(* CreateWindow goes on to the list only while there is room in it.        *)
LEMMA CreateWindowStep == IInv /\ CreateWindow => IInv'
  <1> SUFFICES ASSUME IInv, CreateWindow PROVE IInv'
    OBVIOUS
  <1> USE DEF IInv
  <1>1. /\ thread.pc = "rest" /\ opened < Len(Opening)
        /\ thread' = [thread EXCEPT !.pc = IF size + 1 > MaxWindows THEN "raise" ELSE "append"]
        /\ UNCHANGED <<array, size, zindex, focused, place, drag, grip, mouse, keymap, down, opened>>
    BY DEF CreateWindow, At, listVars, dragVars, inputVars
  <1>2. /\ thread \in Threads /\ thread' \in Threads
        /\ thread'.pc = (IF size + 1 > MaxWindows THEN "raise" ELSE "append")
    BY <1>1 DEF ThreadOK, Threads, Opens
  <1>3. size \in Nat /\ MaxWindows \in Nat
    BY Sizes DEF TypeOK
  <1>4. ThreadOK'
    BY <1>1, <1>2, <1>3 DEF ThreadOK, Opens, Sorting, Searching
  <1>5. TypeOK'
    BY <1>1, <1>2 DEF TypeOK, Threads, Index
  <1>6. Filled' = Filled
    BY <1>1, <1>2 DEF Filled, At, Entries
  <1> QED
    BY <1>1, <1>2, <1>4, <1>5, <1>6 DEF Written, Numbering, At

(* AddWindow writes a window behind the last entry, then counts it.        *)
LEMMA AddWindowStep == IInv /\ AddWindow => IInv'
  <1> SUFFICES ASSUME IInv, AddWindow PROVE IInv'
    OBVIOUS
  <1> USE DEF IInv
  <1>1. size \in Nat /\ MaxWindows \in Nat /\ opened \in Nat /\ thread \in Threads /\ Len(Opening) \in Nat
    BY Sizes, DesktopAssumption DEF TypeOK, ThreadOK
  <1>2. /\ opened < Len(Opening) /\ size < MaxWindows
        /\ UNCHANGED <<zindex, focused, place, drag, grip, mouse, keymap, down, opened>>
    BY DEF AddWindow, At, ThreadOK, Opens, dragVars, inputVars
  <1>3. Opened \in Window
    BY <1>1, <1>2, DesktopAssumption DEF Opened
  <1>4. CASE At("append")
    <2>1. /\ array' = [array EXCEPT ![size] = Opened] /\ size' = size
          /\ thread' = [thread EXCEPT !.pc = "grow"]
      BY <1>4 DEF AddWindow, At
    <2>2. thread' \in Threads /\ thread'.pc = "grow" /\ thread'.i = thread.i
      BY <1>1, <2>1 DEF Threads, Opens
    <2>3. TypeOK'
      BY <1>2, <1>3, <2>1, <2>2 DEF TypeOK
    <2>4. ThreadOK'
      BY <1>2, <2>1, <2>2 DEF ThreadOK, Opens, Sorting, Searching
    <2>5. Filled = 0 .. size - 1 /\ Filled' = 0 .. size
      BY <1>4, <2>1, <2>2 DEF Filled, At, Entries
    <2>6. Written'
      BY <1>1, <1>2, <1>3, <2>1, <2>5 DEF Written, TypeOK
    <2> QED
      BY <1>2, <2>2, <2>3, <2>4, <2>6 DEF Numbering, At
  <1>5. CASE At("grow")
    <2>1. /\ array' = array /\ size' = size + 1
          /\ thread' = [thread EXCEPT !.pc = "sort", !.after = "raise"]
      BY <1>5 DEF AddWindow, At
    <2>2. thread' \in Threads /\ thread'.pc = "sort" /\ thread'.i = thread.i
      BY <1>1, <2>1 DEF Threads
    <2>3. TypeOK'
      BY <1>1, <1>2, <2>1, <2>2 DEF TypeOK
    <2>4. ThreadOK'
      BY <1>2, <2>1, <2>2 DEF ThreadOK, Opens, Sorting, Searching
    <2>5. Filled = 0 .. size /\ Filled' = 0 .. size
      BY <1>1, <1>5, <2>1, <2>2 DEF Filled, At, Entries
    <2>6. Written'
      BY <2>1, <2>5 DEF Written
    <2> QED
      BY <1>2, <2>2, <2>3, <2>4, <2>6 DEF Numbering, At
  <1> QED
    BY <1>4, <1>5 DEF AddWindow

(* FocusWindow raises a window, then gives it the focus.                   *)
LEMMA FocusWindowStep == IInv /\ FocusWindow => IInv'
  <1> SUFFICES ASSUME IInv, FocusWindow PROVE IInv'
    OBVIOUS
  <1> USE DEF IInv
  <1>1. size \in Nat /\ opened \in Nat /\ thread \in Threads /\ Len(Opening) \in Nat
    BY Sizes, DesktopAssumption DEF TypeOK, ThreadOK
  <1>2. /\ opened < Len(Opening)
        /\ UNCHANGED <<array, size, place, drag, grip, mouse, keymap, down>>
    BY DEF FocusWindow, At, ThreadOK, Opens, dragVars, inputVars
  <1>3. Opened \in Window /\ NoWindow \notin Window
    BY <1>1, <1>2, DesktopAssumption DEF Opened
  <1>4. CASE At("raise")
    <2>1. /\ zindex' = [zindex EXCEPT ![Opened] = Raised] /\ focused' = focused /\ opened' = opened
          /\ thread' = [thread EXCEPT !.pc = "focus"]
      BY <1>4 DEF FocusWindow, At
    <2>2. thread' \in Threads /\ thread'.pc = "focus" /\ thread'.i = thread.i
      BY <1>1, <2>1 DEF Threads, Opens
    <2>3. zindex' \in [Window -> Zindex]
      <3>1. Raised \in Zindex
        BY Sizes DEF Zindex
      <3> QED
        BY <2>1, <3>1 DEF TypeOK
    <2>4. TypeOK'
      BY <1>2, <2>1, <2>2, <2>3 DEF TypeOK
    <2>5. ThreadOK'
      BY <1>2, <2>1, <2>2 DEF ThreadOK, Opens, Sorting, Searching
    <2>6. Filled' = Filled
      BY <1>2, <1>4, <2>2 DEF Filled, At, Entries
    <2> QED
      BY <1>2, <2>1, <2>2, <2>4, <2>5, <2>6 DEF Written, Numbering, At
  <1>5. CASE At("focus")
    <2>1. /\ focused' = Opened /\ zindex' = zindex /\ opened' = opened + 1
          /\ thread' = [thread EXCEPT !.pc = "sort", !.after = "rest"]
      BY <1>5 DEF FocusWindow, At
    <2>2. thread' \in Threads /\ thread'.pc = "sort" /\ thread'.i = thread.i /\ thread'.after = "rest"
      BY <1>1, <2>1 DEF Threads
    <2>3. TypeOK'
      BY <1>1, <1>2, <1>3, <2>1, <2>2 DEF TypeOK
    <2>4. ThreadOK'
      BY <1>2, <2>1, <2>2 DEF ThreadOK, Opens, Sorting, Searching
    <2>5. Filled' = Filled
      BY <1>2, <1>5, <2>2 DEF Filled, At, Entries
    <2> QED
      BY <1>2, <1>3, <2>1, <2>2, <2>3, <2>4, <2>5 DEF Written, Numbering, At
  <1> QED
    BY <1>4, <1>5 DEF FocusWindow

(* What the steps of ForceSort have to show: the rest follows from what    *)
(* they leave alone.                                                       *)
LEMMA SortingKeeps ==
  ASSUME IInv, thread.pc # "grow", thread' \in Threads, thread'.pc # "grow", ThreadOK', Numbering',
         UNCHANGED <<size, focused, place, drag, grip, mouse, keymap, down, opened>>,
         array' \in [0 .. MaxWindows - 1 -> Window \cup {NoWindow}], zindex' \in [Window -> Zindex],
         \A k \in Entries : array'[k] \in Window
  PROVE  IInv'
  <1>1. TypeOK'
    BY DEF IInv, TypeOK, Threads, Index
  <1>2. Written'
    BY DEF Written, Filled, At, Entries
  <1> QED
    BY <1>1, <1>2 DEF IInv

(* The steps of the sort that store nothing move only its loop variables.  *)
LEMMA SortControlStep == IInv /\ SortControl => IInv'
  <1> SUFFICES ASSUME IInv, SortControl PROVE IInv'
    OBVIOUS
  <1>1. /\ size \in Nat /\ opened \in Nat /\ Len(Opening) \in Nat /\ MaxWindows \in Nat
        /\ thread \in Threads /\ ThreadOK /\ Numbering /\ size <= MaxWindows
        /\ array \in [0 .. MaxWindows - 1 -> Window \cup {NoWindow}] /\ zindex \in [Window -> Zindex]
    BY Sizes, DesktopAssumption DEF IInv, TypeOK, ThreadOK
  <1>2. UNCHANGED <<array, size, zindex, focused, place, drag, grip, mouse, keymap, down, opened>>
    BY DEF SortControl, listVars, dragVars, inputVars
  <1>3. \A k \in Entries : array[k] \in Window
    BY <1>1 DEF IInv, Written, Filled, Entries
  <1>4. ASSUME thread.pc # "grow", thread'.pc # "grow", thread' \in Threads, ThreadOK', Numbering'
        PROVE  IInv'
    BY <1>1, <1>2, <1>3, <1>4, SortingKeeps
  <1>5. thread.after = "raise" => opened < Len(Opening)
    BY <1>1 DEF ThreadOK
  <1>6. thread.after \in {"rest", "raise"} /\ thread.again \in BOOLEAN
    BY <1>1 DEF Threads
  <1>index. /\ 0 \in Zindex /\ 0 \in Index /\ size - 1 \in Index
            /\ thread.i \in Nat /\ thread.i <= size => thread.i - 1 \in Index
    BY <1>1, Sizes DEF Zindex, Index
  <1>7. ASSUME thread' = [Registers EXCEPT !.pc = thread.after], thread.pc # "grow", Small(Desk)
        PROVE  IInv'
    <2>1. thread'.pc = thread.after /\ thread'.after = "rest"
      BY <1>7 DEF Registers
    <2>2. thread' \in Threads
      BY <1>6, <1>7, <1>index DEF Registers, Threads, Opens
    <2>3. ThreadOK'
      BY <1>2, <1>5, <1>6, <2>1, <2>2 DEF ThreadOK, Opens, Sorting, Searching
    <2>4. Numbering'
      BY <1>2, <1>6, <1>7, <2>1 DEF Numbering, At, Small, Desk, Entries
    <2> QED
      BY <1>4, <1>6, <1>7, <2>1, <2>2, <2>3, <2>4
  <1>8. CASE At("sort")
    <2>1. thread.pc = "sort"
      BY <1>8 DEF At
    <2>2. CASE size <= 1
      <3>1. thread' = [Registers EXCEPT !.pc = thread.after]
        BY <2>1, <2>2 DEF SortControl, At
      <3>2. Small(Desk)
        BY <1>1, <2>2 DEF Small
      <3> QED
        BY <1>7, <2>1, <3>1, <3>2
    <2>3. CASE size > 1
      <3>1. thread' = [thread EXCEPT !.pc = "pass", !.again = TRUE]
        BY <1>1, <2>1, <2>3 DEF SortControl, At
      <3>2. thread' \in Threads /\ thread'.pc = "pass" /\ thread'.after = thread.after
        BY <1>1, <3>1 DEF Threads, Sorting
      <3>3. ThreadOK' /\ Numbering'
        BY <1>2, <1>5, <2>3, <3>2 DEF ThreadOK, Opens, Sorting, Searching, Numbering, At
      <3> QED
        BY <1>4, <2>1, <3>2, <3>3
    <2> QED
      BY <1>1, <2>2, <2>3
  <1>9. CASE At("pass")
    <2>1. thread.pc = "pass" /\ size > 1
      BY <1>1, <1>9 DEF At, ThreadOK, Sorting
    <2>2. CASE thread.again
      <3>1. thread' = [thread EXCEPT !.pc = "step", !.again = FALSE, !.i = size - 1]
        BY <2>1, <2>2 DEF SortControl, At
      <3>2. /\ thread' \in Threads /\ thread'.pc = "step" /\ thread'.after = thread.after
            /\ thread'.i = size - 1
        BY <1>1, <1>index, <3>1 DEF Threads, Sorting
      <3>3. ThreadOK' /\ Numbering'
        BY <1>1, <1>2, <1>5, <2>1, <3>2 DEF ThreadOK, Opens, Sorting, Searching, Numbering, At
      <3> QED
        BY <1>4, <2>1, <3>2, <3>3
    <2>3. CASE ~ thread.again
      <3>1. thread' = [thread EXCEPT !.pc = "number", !.i = 0]
        BY <2>1, <2>3 DEF SortControl, At
      <3>2. /\ thread' \in Threads /\ thread'.pc = "number" /\ thread'.after = thread.after
            /\ thread'.i = 0
        BY <1>1, <1>index, <3>1 DEF Threads, Sorting
      <3>3. ThreadOK' /\ Numbering'
        BY <1>1, <1>2, <1>5, <2>1, <3>2 DEF ThreadOK, Opens, Sorting, Searching, Numbering, At
      <3> QED
        BY <1>4, <2>1, <3>2, <3>3
    <2> QED
      BY <2>2, <2>3
  <1>10. CASE At("step")
    <2>1. thread.pc = "step" /\ size > 1 /\ thread.i \in 0 .. size - 1
      BY <1>1, <1>10 DEF At, ThreadOK, Sorting
    <2>2. CASE thread.i > 0
      <3>1. thread' = [thread EXCEPT !.pc = "below", !.w1 = array[thread.i]]
        BY <2>1, <2>2 DEF SortControl, At
      <3>2. array[thread.i] \in Window
        BY <1>3, <2>1 DEF Entries
      <3>3. /\ thread' \in Threads /\ thread'.pc = "below" /\ thread'.after = thread.after
            /\ thread'.i = thread.i /\ thread'.w1 \in Window
        BY <1>1, <3>1, <3>2 DEF Threads, Sorting, Searching
      <3>4. ThreadOK' /\ Numbering'
        BY <1>1, <1>2, <1>5, <2>1, <2>2, <3>3 DEF ThreadOK, Opens, Sorting, Searching, Numbering, At
      <3> QED
        BY <1>4, <2>1, <3>3, <3>4
    <2>3. CASE ~ (thread.i > 0)
      <3>1. thread' = [thread EXCEPT !.pc = "pass"]
        BY <2>1, <2>3 DEF SortControl, At
      <3>2. thread' \in Threads /\ thread'.pc = "pass" /\ thread'.after = thread.after
        BY <1>1, <3>1 DEF Threads, Sorting
      <3>3. ThreadOK' /\ Numbering'
        BY <1>1, <1>2, <1>5, <2>1, <3>2 DEF ThreadOK, Opens, Sorting, Searching, Numbering, At
      <3> QED
        BY <1>4, <2>1, <3>2, <3>3
    <2> QED
      BY <2>2, <2>3
  <1>11. CASE At("below") \/ At("key") \/ At("compare")
    <2>1. /\ thread.pc \in {"below", "key", "compare"} /\ size > 1
          /\ thread.i \in 1 .. size - 1 /\ thread.w1 \in Window
          /\ thread.pc \in {"key", "compare"} => thread.w2 \in Window
      BY <1>1, <1>11 DEF At, ThreadOK, Sorting, Searching
    <2>2. array[thread.i - 1] \in Window /\ zindex[thread.w1] \in Zindex
      BY <1>1, <1>3, <2>1 DEF Entries
    <2>3. CASE thread' = NextIndex(thread.again)
      <3>1. /\ thread' \in Threads /\ thread'.pc = "step" /\ thread'.after = thread.after
            /\ thread'.i = thread.i - 1
        <4>1. thread.i - 1 \in Index
          BY <1>1, <1>index, <2>1
        <4> QED
          BY <1>6, <1>index, <2>3, <4>1 DEF NextIndex, Registers, Threads, Sorting
      <3>2. ThreadOK' /\ Numbering'
        BY <1>1, <1>2, <1>5, <2>1, <3>1 DEF ThreadOK, Opens, Sorting, Searching, Numbering, At
      <3> QED
        BY <1>4, <2>1, <3>1, <3>2
    <2>4. CASE \/ thread' = [thread EXCEPT !.pc = "key", !.w2 = array[thread.i - 1]]
               \/ thread.pc # "below" /\ thread' = [thread EXCEPT !.pc = "compare", !.z1 = zindex[thread.w1]]
               \/ thread.pc # "below" /\ thread' = [thread EXCEPT !.pc = "swap"]
      <3>1. /\ thread' \in Threads /\ thread'.pc \in {"key", "compare", "swap"}
            /\ thread'.after = thread.after /\ thread'.i = thread.i
            /\ thread'.w1 = thread.w1 /\ thread'.w2 \in Window
        BY <1>1, <2>1, <2>2, <2>4 DEF Threads, Sorting, Searching
      <3>2. ThreadOK' /\ Numbering'
        BY <1>1, <1>2, <1>5, <2>1, <3>1 DEF ThreadOK, Opens, Sorting, Searching, Numbering, At
      <3> QED
        BY <1>4, <2>1, <3>1, <3>2
    <2> QED
      BY <2>1, <2>3, <2>4 DEF SortControl, At
  <1>12. CASE At("number")
    <2>1. thread.pc = "number" /\ size > 1 /\ thread.i \in 0 .. size
      BY <1>1, <1>12 DEF At, ThreadOK, Sorting
    <2>2. CASE thread.i < size
      <3>1. thread' = [thread EXCEPT !.pc = "assign", !.w1 = array[thread.i]]
        BY <2>1, <2>2 DEF SortControl, At
      <3>2. array[thread.i] \in Window
        BY <1>1, <1>3, <2>1, <2>2 DEF Entries
      <3>3. /\ thread' \in Threads /\ thread'.pc = "assign" /\ thread'.after = thread.after
            /\ thread'.i = thread.i /\ thread'.w1 = array[thread.i]
        BY <1>1, <3>1, <3>2 DEF Threads, Sorting
      <3>4. ThreadOK'
        BY <1>1, <1>2, <1>5, <2>1, <2>2, <3>2, <3>3 DEF ThreadOK, Opens, Sorting, Searching
      <3>5. Numbering'
        BY <1>1, <1>2, <2>1, <3>3 DEF Numbering, At
      <3> QED
        BY <1>4, <2>1, <3>3, <3>4, <3>5
    <2>3. CASE ~ (thread.i < size)
      <3>1. thread' = [Registers EXCEPT !.pc = thread.after]
        BY <2>1, <2>3 DEF SortControl, At
      <3>2. thread.i = size
        BY <1>1, <2>1, <2>3
      <3>3. Small(Desk)
        BY <1>1, <2>1, <3>2 DEF Small, Desk, Numbering, Entries
      <3> QED
        BY <1>7, <2>1, <3>1, <3>3
    <2> QED
      BY <2>2, <2>3
  <1> QED
    BY <1>8, <1>9, <1>10, <1>11, <1>12 DEF SortControl

(* The sort stores windows in the list, and numbers below its size.        *)
LEMMA SortStoreStep == IInv /\ SortStore => IInv'
  <1> SUFFICES ASSUME IInv, SortStore PROVE IInv'
    OBVIOUS
  <1>1. /\ size \in Nat /\ opened \in Nat /\ Len(Opening) \in Nat /\ MaxWindows \in Nat
        /\ thread \in Threads /\ ThreadOK /\ Numbering /\ size <= MaxWindows
        /\ array \in [0 .. MaxWindows - 1 -> Window \cup {NoWindow}] /\ zindex \in [Window -> Zindex]
    BY Sizes, DesktopAssumption DEF IInv, TypeOK, ThreadOK
  <1>2. UNCHANGED <<size, focused, place, drag, grip, mouse, keymap, down, opened>>
    BY DEF SortStore, dragVars, inputVars
  <1>3. \A k \in Entries : array[k] \in Window
    BY <1>1 DEF IInv, Written, Filled, Entries
  <1>4. ASSUME thread.pc # "grow", thread'.pc # "grow", thread' \in Threads, ThreadOK', Numbering',
               array' \in [0 .. MaxWindows - 1 -> Window \cup {NoWindow}],
               zindex' \in [Window -> Zindex], \A k \in Entries : array'[k] \in Window
        PROVE  IInv'
    BY <1>2, <1>4, SortingKeeps
  <1>5. thread.after = "raise" => opened < Len(Opening)
    BY <1>1 DEF ThreadOK
  <1>6. thread.after \in {"rest", "raise"}
    BY <1>1 DEF Threads
  <1>7. CASE At("swap")
    <2>1. /\ thread.pc = "swap" /\ size > 1 /\ thread.i \in 1 .. size - 1
          /\ thread.w1 \in Window /\ thread.w2 \in Window
      BY <1>1, <1>7 DEF At, ThreadOK, Sorting, Searching
    <2>2. /\ array' = [array EXCEPT ![thread.i] = thread.w2] /\ zindex' = zindex
          /\ thread' = [thread EXCEPT !.pc = "swapped"]
      BY <2>1 DEF SortStore, At
    <2>3. /\ thread' \in Threads /\ thread'.pc = "swapped" /\ thread'.after = thread.after
          /\ thread'.i = thread.i /\ thread'.w1 = thread.w1 /\ thread'.w2 = thread.w2
      BY <1>1, <2>2 DEF Threads, Sorting, Searching
    <2>4. ThreadOK' /\ Numbering'
      BY <1>2, <1>5, <2>1, <2>3 DEF ThreadOK, Opens, Sorting, Searching, Numbering, At
    <2>5. array' \in [0 .. MaxWindows - 1 -> Window \cup {NoWindow}]
      BY <1>1, <2>1, <2>2
    <2>6. \A k \in Entries : array'[k] \in Window
      BY <1>1, <1>3, <2>1, <2>2 DEF Entries
    <2> QED
      BY <1>1, <1>4, <2>1, <2>2, <2>3, <2>4, <2>5, <2>6
  <1>8. CASE At("swapped")
    <2>1. /\ thread.pc = "swapped" /\ size > 1 /\ thread.i \in 1 .. size - 1
          /\ thread.w1 \in Window
      BY <1>1, <1>8 DEF At, ThreadOK, Sorting, Searching
    <2>2. /\ array' = [array EXCEPT ![thread.i - 1] = thread.w1] /\ zindex' = zindex
          /\ thread' = NextIndex(TRUE)
      BY <2>1 DEF SortStore, At
    <2>3. /\ thread' \in Threads /\ thread'.pc = "step" /\ thread'.after = thread.after
          /\ thread'.i = thread.i - 1
      <3>1. thread.i - 1 \in Index /\ 0 \in Zindex
        BY <1>1, <2>1, Sizes DEF Index, Zindex
      <3> QED
        BY <1>6, <2>2, <3>1 DEF NextIndex, Registers, Threads, Sorting
    <2>4. ThreadOK' /\ Numbering'
      BY <1>1, <1>2, <1>5, <2>1, <2>3 DEF ThreadOK, Opens, Sorting, Searching, Numbering, At
    <2>5. array' \in [0 .. MaxWindows - 1 -> Window \cup {NoWindow}]
      BY <1>1, <2>1, <2>2
    <2>6. \A k \in Entries : array'[k] \in Window
      BY <1>1, <1>3, <2>1, <2>2 DEF Entries
    <2> QED
      BY <1>1, <1>4, <2>1, <2>2, <2>3, <2>4, <2>5, <2>6
  <1>9. CASE At("assign")
    <2>1. /\ thread.pc = "assign" /\ size > 1 /\ thread.i \in 0 .. size - 1
          /\ thread.w1 \in Window
      BY <1>1, <1>9 DEF At, ThreadOK, Sorting, Searching
    <2>2. /\ zindex' = [zindex EXCEPT ![thread.w1] = thread.i] /\ array' = array
          /\ thread' = [thread EXCEPT !.pc = "number", !.i = thread.i + 1, !.w1 = NoWindow]
      BY <2>1 DEF SortStore, At
    <2>3. /\ thread' \in Threads /\ thread'.pc = "number" /\ thread'.after = thread.after
          /\ thread'.i = thread.i + 1
      <3>1. thread.i + 1 \in Index
        BY <1>1, <2>1 DEF Index
      <3> QED
        BY <1>1, <2>2, <3>1 DEF Threads, Sorting
    <2>4. ThreadOK'
      BY <1>1, <1>2, <1>5, <2>1, <2>3 DEF ThreadOK, Opens, Sorting, Searching
    <2>5. zindex' \in [Window -> Zindex]
      <3>1. thread.i \in Zindex
        BY <1>1, <2>1, Sizes DEF Zindex
      <3> QED
        BY <1>1, <2>2, <3>1
    <2>6. \A j \in 0 .. thread.i : zindex'[array[j]] < size
      <3> SUFFICES ASSUME NEW j \in 0 .. thread.i PROVE zindex'[array[j]] < size
        OBVIOUS
      <3>1. j \in Entries /\ array[j] \in Window
        BY <1>1, <1>3, <2>1 DEF Entries
      <3>2. CASE array[j] = thread.w1
        BY <1>1, <2>1, <2>2, <3>1, <3>2
      <3>3. CASE array[j] # thread.w1
        <4>1. zindex[array[j]] < size
          BY <1>1, <2>1, <3>1, <3>3 DEF Numbering, At, Small, Desk
        <4> QED
          BY <1>1, <2>2, <3>1, <3>3, <4>1
      <3> QED
        BY <3>2, <3>3
    <2>7. Numbering'
      BY <1>2, <2>1, <2>2, <2>3, <2>6 DEF Numbering, At
    <2> QED
      BY <1>1, <1>3, <1>4, <2>1, <2>2, <2>3, <2>4, <2>5, <2>7
  <1> QED
    BY <1>7, <1>8, <1>9 DEF SortStore

-----------------------------------------------------------------------------
(* The interrupts.                                                         *)

(* What the proofs about the walk ask of the desktop holds whenever the    *)
(* interrupt comes.                                                        *)
LEMMA DeskIsOne == IInv => Fits /\ Desk \in Desktops
  <1> SUFFICES ASSUME IInv PROVE Fits /\ Desk \in Desktops
    OBVIOUS
  <1>1. size \in 0 .. MaxWindows /\ MaxWindows \in Nat /\ (At("grow") => size < MaxWindows)
    BY Sizes DEF IInv, TypeOK, ThreadOK, At
  <1>2. Fits
    BY <1>1 DEF Fits, Filled, Entries
  <1>3. array \in Lists
    BY DEF IInv, TypeOK, Written, Lists
  <1>4. Desk \in Desktops
    BY <1>3 DEF IInv, TypeOK, Desk, Desktops
  <1> QED
    BY <1>2, <1>4

(* The buttons a packet reports, and those it no longer does.              *)
Pushed(state) == {b \in Button : state[Tested[b]]}

Released(state) == {b \in Button : ~ state[Tested[b]] /\ mouse.prevState[Tested[b]]}

(* A packet moves the pointer to p and leaves the buttons in state.        *)
Packet(p, state) ==
  /\ p \in Position /\ state \in [Slot -> BOOLEAN]
  /\ mouse' = [x |-> p.x, y |-> p.y, prevState |-> state]
  /\ p.x \in 0 .. ScreenWidth /\ p.y \in 0 .. ScreenHeight
  /\ HandleDragFocusInput(p, state[0], mouse.prevState[0])
  /\ down' = Told(focused', Pushed(state), Released(state))
  /\ UNCHANGED <<keymap, opened, thread>>

(* What the windows were told is of buttons and keys.                      *)
LEMMA ToldType ==
  ASSUME down \in [Window -> SUBSET (Button \cup Key)], NEW w,
         NEW pressed, NEW released, pressed \subseteq Button \cup Key
  PROVE  Told(w, pressed, released) \in [Window -> SUBSET (Button \cup Key)]
  BY DEF Told

(* Every mouse packet is one with a position on the screen and a state of  *)
(* the buttons.                                                            *)
LEMMA PacketIsOne ==
  ASSUME IInv, NEW move \in Moves, NEW held \in Holds, MousePacket(move, held)
  PROVE  \E p, state : Packet(p, state)
  <1> DEFINE state == [s \in Slot |-> \E b \in held : Stored[b] = s]
             p == [x |-> Clamp(mouse.x + move.x, ScreenWidth),
                   y |-> Clamp(mouse.y + move.y, ScreenHeight)]
  <1>1. mouse.x \in Int /\ mouse.y \in Int /\ move.x \in Int /\ move.y \in Int
    <2>1. move \in Position
      BY DesktopAssumption
    <2>2. mouse.x \in 0 .. ScreenWidth /\ mouse.y \in 0 .. ScreenHeight
      BY DEF IInv, TypeOK
    <2> QED
      BY <2>1, <2>2 DEF Position
  <1>2. \A n \in Int, limit \in Nat : Clamp(n, limit) \in 0 .. limit
    BY DEF Clamp
  <1>3. p.x \in 0 .. ScreenWidth /\ p.y \in 0 .. ScreenHeight
    <2>1. mouse.x + move.x \in Int /\ mouse.y + move.y \in Int
      BY <1>1
    <2> QED
      BY <1>2, <2>1, Sizes
  <1>4. p \in Position
    BY <1>3, Sizes DEF Position
  <1>5. state \in [Slot -> BOOLEAN]
    OBVIOUS
  <1>6. /\ HandleDragFocusInput(p, state[0], mouse.prevState[0])
        /\ mouse' = [x |-> p.x, y |-> p.y, prevState |-> state]
        /\ down' = Told(focused', Pushed(state), Released(state))
        /\ UNCHANGED <<keymap, opened, thread>>
    BY Zenon DEF MousePacket, Pushed, Released
  <1> HIDE DEF p, state
  <1> QED
    BY <1>3, <1>4, <1>5, <1>6 DEF Packet

(* The desktop after a packet is what the walk leaves.                     *)
LEMMA PacketWalks ==
  ASSUME IInv, NEW p, NEW state, Packet(p, state)
  PROVE  LET d == Walk(p, state[0], mouse.prevState[0])[size]
         IN  /\ array' = d.array /\ zindex' = d.zindex /\ focused' = d.focused
             /\ place' = d.place /\ drag' = d.drag /\ grip' = d.grip
             /\ UNCHANGED size
             /\ Kept(Desk, d)
  <1>1. state[0] \in BOOLEAN /\ mouse.prevState[0] \in BOOLEAN /\ p \in Position
    BY DEF Packet, Slot, IInv, TypeOK
  <1>2. size \in 0 .. size
    BY Sizes DEF IInv, TypeOK
  <1>3. Kept(Desk, Walk(p, state[0], mouse.prevState[0])[size])
    BY <1>1, <1>2, DeskIsOne, WalkKeeps
  <1> QED
    BY <1>3 DEF Packet, HandleDragFocusInput

(* A packet keeps the invariant: the walk keeps the desktop, and the       *)
(* buttons reported so far are those of the state that it stores last.     *)
LEMMA MousePacketStep ==
  ASSUME IInv, NEW p, NEW state, Packet(p, state)
  PROVE  IInv'
  <1> DEFINE d == Walk(p, state[0], mouse.prevState[0])[size]
  <1>1. /\ array' = d.array /\ zindex' = d.zindex /\ focused' = d.focused
        /\ place' = d.place /\ drag' = d.drag /\ grip' = d.grip
        /\ UNCHANGED size
        /\ Kept(Desk, d)
    BY PacketWalks
  <1> HIDE DEF d
  <1>2. /\ state \in [Slot -> BOOLEAN]
        /\ mouse' = [x |-> p.x, y |-> p.y, prevState |-> state]
        /\ p.x \in 0 .. ScreenWidth /\ p.y \in 0 .. ScreenHeight
        /\ down' = Told(focused', Pushed(state), Released(state))
        /\ UNCHANGED <<keymap, opened, thread>>
    BY DEF Packet
  <1>3. /\ array' \in [0 .. MaxWindows - 1 -> Window \cup {NoWindow}]
        /\ \A k \in Filled : array'[k] \in Window
        /\ zindex' \in [Window -> Zindex] /\ focused' \in Window \cup {NoWindow}
        /\ place' \in [Window -> Position] /\ drag' \in Window \cup {NoWindow} /\ grip' \in Position
    BY <1>1 DEF Kept, Desktops, Lists
  <1>4. mouse' \in [x : 0 .. ScreenWidth, y : 0 .. ScreenHeight, prevState : [Slot -> BOOLEAN]]
    BY <1>2
  <1>5. down' \in [Window -> SUBSET (Button \cup Key)]
    BY <1>2, ToldType DEF IInv, TypeOK, Pushed, Released
  <1>6. TypeOK'
    BY <1>1, <1>2, <1>3, <1>4, <1>5 DEF IInv, TypeOK
  <1>7. ThreadOK'
    BY <1>1, <1>2 DEF IInv, ThreadOK
  <1>8. Written'
    BY <1>1, <1>2, <1>3 DEF Written, Filled, At, Entries
  <1>9. Numbering'
    <2>1. \/ array' = array /\ zindex' = zindex
          \/ size > 1 => \A k \in Entries : zindex'[array'[k]] < size
      BY <1>1 DEF Kept, Small, Desk
    <2>2. CASE array' = array /\ zindex' = zindex
      BY <1>1, <1>2, <2>2 DEF IInv, Numbering, At, Small, Desk, Entries
    <2>3. CASE size > 1 => \A k \in Entries : zindex'[array'[k]] < size
      <3>1. Small(Desk)'
        BY <1>1, <2>3 DEF Small, Desk, Entries
      <3>2. thread.pc \in {"number", "assign"} => 0 .. thread.i - 1 \subseteq Entries /\ size > 1
        <4>1. /\ size \in Nat
              /\ thread.pc \in {"number", "assign"} => thread.i \in 0 .. size /\ size > 1
          BY Sizes DEF IInv, TypeOK, ThreadOK, Sorting
        <4> QED
          BY <4>1 DEF Entries
      <3> QED
        BY <1>1, <1>2, <2>3, <3>1, <3>2 DEF Numbering, At
    <2> QED
      BY <2>1, <2>2, <2>3
  <1> QED
    BY <1>6, <1>7, <1>8, <1>9 DEF IInv

(* A key changes the keymap, and what the windows were told of keys.       *)
LEMMA KeyPressStep ==
  ASSUME IInv, NEW k \in Key, NEW make \in BOOLEAN, KeyPress(k, make)
  PROVE  IInv'
  <1>1. /\ keymap' = [keymap EXCEPT ![k] = [bPressed |-> make, bPressedPrev |-> @.bPressed]]
        /\ down' = Told(focused, IF make THEN {k} ELSE {},
                                 IF ~ make /\ keymap[k].bPressed THEN {k} ELSE {})
        /\ UNCHANGED <<array, size, zindex, focused, place, drag, grip, mouse, opened, thread>>
    BY DEF KeyPress, listVars, dragVars
  <1>2. /\ keymap \in [Key -> [bPressed : BOOLEAN, bPressedPrev : BOOLEAN]]
        /\ down \in [Window -> SUBSET (Button \cup Key)]
    BY DEF IInv, TypeOK
  <1>3. /\ keymap' \in [Key -> [bPressed : BOOLEAN, bPressedPrev : BOOLEAN]]
        /\ down' \in [Window -> SUBSET (Button \cup Key)]
    BY <1>1, <1>2, ToldType
  <1>4. TypeOK'
    BY <1>1, <1>3 DEF IInv, TypeOK
  <1>5. ThreadOK' /\ Written' /\ Numbering'
    BY <1>1 DEF IInv, ThreadOK, Written, Filled, Numbering, At, Small, Desk, Entries
  <1> QED
    BY <1>4, <1>5 DEF IInv

-----------------------------------------------------------------------------
(* The theorems.                                                           *)

(* Every step keeps the invariant.                                         *)
LEMMA StepHolds == IInv /\ [Next]_vars => IInv'
  <1> SUFFICES ASSUME IInv, [Next]_vars PROVE IInv'
    OBVIOUS
  <1>1. CASE GraphicsThread
    BY <1>1, CreateWindowStep, AddWindowStep, FocusWindowStep, SortControlStep, SortStoreStep
       DEF GraphicsThread
  <1>2. ASSUME NEW move \in Moves, NEW held \in Holds, MousePacket(move, held) PROVE IInv'
    BY <1>2, PacketIsOne, MousePacketStep
  <1>3. ASSUME NEW k \in Key, NEW make \in BOOLEAN, KeyPress(k, make) PROVE IInv'
    BY <1>3, KeyPressStep
  <1>4. CASE UNCHANGED vars
    BY <1>4 DEF vars, listVars, dragVars, inputVars, IInv, TypeOK, ThreadOK, Written, Filled, Entries,
                At, Numbering, Small, Desk
  <1> QED
    BY <1>1, <1>2, <1>3, <1>4 DEF Next

(* The inductive invariant holds in every reachable state, for any number  *)
(* of windows, keys and movements of the mouse.                            *)
THEOREM Invariant == Spec => []IInv
  BY InitHolds, StepHolds, PTL DEF Spec

(* Every variable keeps its type: the pointer stays on the screen, and     *)
(* whatever the interrupt does to the list, an index stays in the array.   *)
THEOREM TypeCorrect == Spec => []TypeOK
  <1>1. IInv => TypeOK
    BY DEF IInv
  <1> QED
    BY <1>1, Invariant, PTL

(* The walk of a packet, by what the button was before and is now.         *)
LEMMA PacketSteps ==
  ASSUME IInv, NEW p, NEW state, Packet(p, state)
  PROVE  \E met :
           /\ met[0] = Desk
           /\ mouse.prevState[0] =>
                \A k \in 1 .. size : met[k] = Pulled(met[k - 1], met[k - 1].array[k - 1], p, state[0])
           /\ ~ mouse.prevState[0] /\ state[0] =>
                \A k \in 1 .. size : met[k] = Pressed(met[k - 1], met[k - 1].array[k - 1], p)
           /\ ~ mouse.prevState[0] /\ ~ state[0] => \A k \in 1 .. size : met[k] = met[k - 1]
           /\ drag' = met[size].drag /\ grip' = met[size].grip /\ place' = met[size].place
           /\ focused' = met[size].focused /\ array' = met[size].array
           /\ {array'[k] : k \in Entries} = Listed
  <1> DEFINE met == Walk(p, state[0], mouse.prevState[0])
             Step(d, k) == Meet(d, d.array[k - 1], p, state[0], mouse.prevState[0])
  <1>1. size \in Nat
    BY Sizes DEF IInv, TypeOK
  <1>2. met[0] = Desk /\ \A k \in 1 .. size : met[k] = Step(met[k - 1], k)
    BY <1>1, WalkSteps
  <1>3. /\ drag' = met[size].drag /\ grip' = met[size].grip /\ place' = met[size].place
        /\ focused' = met[size].focused /\ array' = met[size].array
        /\ Kept(Desk, met[size])
    BY PacketWalks
  <1>4. {array'[k] : k \in Entries} = Listed
    BY <1>3 DEF Kept, ListedIn, Listed, Desk
  <1>5. state[0] \in BOOLEAN /\ mouse.prevState[0] \in BOOLEAN
    BY DEF Packet, Slot, IInv, TypeOK
  <1>6. ASSUME mouse.prevState[0] PROVE \A d, k : Step(d, k) = Pulled(d, d.array[k - 1], p, state[0])
    BY <1>5, <1>6 DEF Pulled
  <1>7. ASSUME ~ mouse.prevState[0], state[0] PROVE \A d, k : Step(d, k) = Pressed(d, d.array[k - 1], p)
    BY <1>5, <1>7 DEF Pressed
  <1>8. ASSUME ~ mouse.prevState[0], ~ state[0] PROVE \A d, k : Step(d, k) = d
    BY <1>8 DEF Meet
  <1> HIDE DEF met, Step
  <1>9. /\ met[0] = Desk
        /\ mouse.prevState[0] =>
             \A k \in 1 .. size : met[k] = Pulled(met[k - 1], met[k - 1].array[k - 1], p, state[0])
        /\ ~ mouse.prevState[0] /\ state[0] =>
             \A k \in 1 .. size : met[k] = Pressed(met[k - 1], met[k - 1].array[k - 1], p)
        /\ ~ mouse.prevState[0] /\ ~ state[0] => \A k \in 1 .. size : met[k] = met[k - 1]
    BY <1>2, <1>6, <1>7, <1>8
  <1> QED
    BY <1>3, <1>4, <1>9

(* What a packet does to the drag and to the focus: with the button down   *)
(* before, as it goes down, and with the button up.                        *)
LEMMA PacketPulls ==
  ASSUME IInv, NEW p, NEW state, Packet(p, state), mouse.prevState[0]
  PROVE  /\ drag = NoWindow => drag' = NoWindow
         /\ drag \in Listed /\ ~ state[0] => drag' = NoWindow
         /\ drag \in Listed /\ state[0] =>
              drag' = drag /\ grip' = p /\ place'[drag] = Shifted(place[drag], grip, p)
  <1>1. size \in Nat /\ Fits /\ Desk \in Desktops /\ p \in Position /\ state[0] \in BOOLEAN
    BY Sizes, DeskIsOne DEF IInv, TypeOK, Packet, Slot
  <1>2. PICK met :
          /\ met[0] = Desk
          /\ \A k \in 1 .. size : met[k] = Pulled(met[k - 1], met[k - 1].array[k - 1], p, state[0])
          /\ drag' = met[size].drag /\ grip' = met[size].grip /\ place' = met[size].place
    BY PacketSteps
  <1>3. /\ drag = NoWindow => met[size].drag = NoWindow
        /\ drag \in Listed /\ ~ state[0] => met[size].drag = NoWindow
        /\ drag \in Listed /\ state[0] =>
             /\ met[size].drag = drag /\ met[size].grip = p
             /\ met[size].place[drag] = Shifted(place[drag], grip, p)
    BY <1>1, <1>2, PulledWalk
  <1> QED
    BY <1>2, <1>3

(* A packet whose left button goes down moves no window; it may take hold  *)
(* of one by its title, and raises the window on top under the pointer.    *)
LEMMA PacketPresses ==
  ASSUME IInv, NEW p, NEW state, Packet(p, state), ~ mouse.prevState[0], state[0]
  PROVE  /\ place' = place
         /\ \/ drag' = drag
            \/ grip' = p /\ Inside(p, place[drag'], TitleHeight)
         /\ Cardinality(Listed) = size /\ Small(Desk) =>
              \A m \in Entries :
                /\ Inside(p, place[array[m]], Height)
                /\ \A j \in Entries : Inside(p, place[array[j]], Height) => j <= m
                => focused' = array[m] /\ array'[size - 1] = array[m]
  <1>1. Fits /\ Desk \in Desktops /\ p \in Position
    BY DeskIsOne DEF Packet
  <1>2. PICK met :
          /\ met[0] = Desk
          /\ \A k \in 1 .. size : met[k] = Pressed(met[k - 1], met[k - 1].array[k - 1], p)
          /\ drag' = met[size].drag /\ grip' = met[size].grip /\ place' = met[size].place
          /\ focused' = met[size].focused /\ array' = met[size].array
    BY PacketSteps
  <1>3. /\ met[size].place = place
        /\ \/ met[size].drag = drag
           \/ met[size].grip = p /\ Inside(p, place[met[size].drag], TitleHeight)
    BY <1>1, <1>2, PressedWalk
  <1>4. ASSUME Cardinality(Listed) = size, Small(Desk), NEW m \in Entries,
               Inside(p, place[array[m]], Height),
               \A j \in Entries : Inside(p, place[array[j]], Height) => j <= m
        PROVE  met[size].focused = array[m] /\ met[size].array[size - 1] = array[m]
    BY <1>1, <1>2, <1>4, RaisingWalk
  <1> QED
    BY <1>2, <1>3, <1>4

(* With the button up before and after, a packet leaves the drag alone.    *)
LEMMA PacketRests ==
  ASSUME IInv, NEW p, NEW state, Packet(p, state), ~ mouse.prevState[0], ~ state[0]
  PROVE  drag' = drag
  <1>1. PICK met : /\ met[0] = Desk /\ drag' = met[size].drag
                   /\ \A k \in 1 .. size : met[k] = met[k - 1]
    BY PacketSteps
  <1> DEFINE S == {k \in 0 .. size : met[k] = Desk}
  <1>2. size \in Nat /\ size \in 0 .. size /\ 0 \in 0 .. size
    BY Sizes DEF IInv, TypeOK
  <1>3. 0 \in S /\ \A k \in 1 .. size : k - 1 \in S => k \in S
    BY <1>1, <1>2
  <1> HIDE DEF S
  <1>4. size \in S
    BY <1>2, <1>3, Ascent
  <1> QED
    BY <1>1, <1>4 DEF S, Desk

(* A dragged window follows the pointer, whatever the walk does to the     *)
(* list: while it is listed it stays under it by its title, and nothing is *)
(* held once the button is up.                                             *)
THEOREM DragFollows == Spec => DragKept
  <1>1. IInv /\ [Next]_vars => [Grabbed /\ drag \in Listed \cup {NoWindow} => Grabbed']_vars
    <2> SUFFICES ASSUME IInv, [Next]_vars, Grabbed, drag \in Listed \cup {NoWindow}
                 PROVE  Grabbed' \/ UNCHANGED vars
      OBVIOUS
    <2>1. CASE UNCHANGED <<place, drag, grip, mouse>>
      BY <2>1 DEF Grabbed, Inside
    <2>2. ASSUME NEW p, NEW state, Packet(p, state) PROVE Grabbed'
      <3>1. /\ mouse' = [x |-> p.x, y |-> p.y, prevState |-> state] /\ p \in Position
            /\ state[0] \in BOOLEAN /\ mouse.prevState[0] \in BOOLEAN
        BY <2>2 DEF Packet, Slot, IInv, TypeOK
      <3>2. p = [x |-> mouse'.x, y |-> mouse'.y] /\ mouse'.prevState = state
            /\ p.x = mouse'.x /\ p.y = mouse'.y
        BY <3>1 DEF Position
      <3>3. ASSUME drag' = NoWindow PROVE Grabbed'
        BY <3>3 DEF Grabbed
      <3>4. CASE mouse.prevState[0] /\ (drag = NoWindow \/ ~ state[0])
        BY <2>2, <3>3, <3>4, PacketPulls
      <3>5. CASE mouse.prevState[0] /\ drag # NoWindow /\ state[0]
        <4>1. drag' = drag /\ grip' = p /\ place'[drag] = Shifted(place[drag], grip, p)
          BY <2>2, <3>5, PacketPulls
        <4>2. Inside(mouse, place[drag], TitleHeight) /\ grip = [x |-> mouse.x, y |-> mouse.y]
          BY <3>5 DEF Grabbed
        <4>3. place[drag].x \in Int /\ place[drag].y \in Int /\ mouse.x \in Int /\ mouse.y \in Int
          <5>1. Entries \subseteq Filled /\ drag \in Window
            BY <3>5, Sizes DEF IInv, TypeOK, Filled, Entries
          <5>2. place[drag] \in Position /\ mouse.x \in 0 .. ScreenWidth /\ mouse.y \in 0 .. ScreenHeight
            BY <5>1 DEF IInv, TypeOK
          <5> QED
            BY <5>2 DEF Position
        <4>4. Inside(p, Shifted(place[drag], grip, p), TitleHeight)
          BY <3>1, <4>2, <4>3, Sizes DEF Inside, Shifted, Position
        <4>5. Inside(mouse', place'[drag'], TitleHeight)
          BY <3>2, <4>1, <4>4 DEF Inside
        <4> QED
          BY <3>2, <3>5, <4>1, <4>5 DEF Grabbed
      <3>6. CASE ~ mouse.prevState[0]
        <4>1. drag = NoWindow
          BY <3>6 DEF Grabbed
        <4>2. CASE ~ state[0]
          BY <2>2, <3>3, <3>6, <4>1, <4>2, PacketRests
        <4>3. CASE state[0]
          <5>1. place' = place /\ (drag' = drag \/ (grip' = p /\ Inside(p, place[drag'], TitleHeight)))
            BY <2>2, <3>6, <4>3, PacketPresses
          <5>2. CASE drag' = drag
            BY <3>3, <4>1, <5>2
          <5>3. CASE grip' = p /\ Inside(p, place[drag'], TitleHeight)
            <6>1. Inside(mouse', place'[drag'], TitleHeight)
              BY <3>2, <5>1, <5>3 DEF Inside
            <6> QED
              BY <3>2, <4>3, <5>3, <6>1 DEF Grabbed
          <5> QED
            BY <5>1, <5>2, <5>3
        <4> QED
          BY <4>2, <4>3
      <3> QED
        BY <3>1, <3>4, <3>5, <3>6
    <2>3. CASE GraphicsThread
      BY <2>1, <2>3 DEF GraphicsThread, CreateWindow, AddWindow, FocusWindow, SortControl, SortStore,
                        dragVars, inputVars
    <2>4. ASSUME NEW move \in Moves, NEW held \in Holds, MousePacket(move, held) PROVE Grabbed'
      BY <2>2, <2>4, PacketIsOne
    <2>5. ASSUME NEW k \in Key, NEW make \in BOOLEAN, KeyPress(k, make) PROVE Grabbed'
      <3>1. UNCHANGED <<place, drag, grip, mouse>>
        BY <2>5, Zenon DEF KeyPress, dragVars
      <3> QED
        BY <3>1 DEF Grabbed, Inside
    <2> QED
      BY <2>3, <2>4, <2>5 DEF Next
  <1> QED
    BY <1>1, Invariant, PTL DEF Spec, DragKept

(* A press on a list that is complete and at rest gives the focus to the   *)
(* window on top under the pointer and puts it on top of all; no window    *)
(* leaves the list.                                                        *)
THEOREM PressesRaise == Spec => PressRaises
  <1>1. IInv /\ [Next]_vars =>
          [AtRest /\ Cardinality(Listed) = size /\ ~ mouse.prevState[0] /\ mouse'.prevState[0] =>
             LET Under(k) == Inside(mouse', place[array[k]], Height)
             IN  /\ \A k \in Entries :
                      Under(k) /\ (\A j \in Entries : Under(j) => j <= k)
                        => focused' = array[k] /\ array'[size - 1] = array[k]
                 /\ Listed' = Listed]_vars
    <2> SUFFICES ASSUME IInv, Next, AtRest, Cardinality(Listed) = size,
                        ~ mouse.prevState[0], mouse'.prevState[0]
                 PROVE  /\ \A k \in Entries :
                             /\ Inside(mouse', place[array[k]], Height)
                             /\ \A j \in Entries : Inside(mouse', place[array[j]], Height) => j <= k
                             => focused' = array[k] /\ array'[size - 1] = array[k]
                        /\ Listed' = Listed
      OBVIOUS
    <2>1. PICK p, state : Packet(p, state)
      <3>1. mouse' # mouse
        OBVIOUS
      <3>2. ~ GraphicsThread
        BY <3>1 DEF GraphicsThread, CreateWindow, AddWindow, FocusWindow, SortControl, SortStore, inputVars
      <3>3. \A k \in Key, make \in BOOLEAN : ~ KeyPress(k, make)
        BY <3>1 DEF KeyPress
      <3> QED
        BY <3>2, <3>3, PacketIsOne DEF Next
    <2>2. mouse' = [x |-> p.x, y |-> p.y, prevState |-> state]
      BY <2>1 DEF Packet
    <2>3. state[0] /\ mouse'.x = p.x /\ mouse'.y = p.y
      BY <2>2
    <2>4. \A k : Inside(mouse', place[array[k]], Height) <=> Inside(p, place[array[k]], Height)
      BY <2>3 DEF Inside
    <2>5. Small(Desk)
      BY DEF IInv, Numbering, AtRest
    <2>6. \A m \in Entries :
            /\ Inside(p, place[array[m]], Height)
            /\ \A j \in Entries : Inside(p, place[array[j]], Height) => j <= m
            => focused' = array[m] /\ array'[size - 1] = array[m]
      BY <2>1, <2>3, <2>5, PacketPresses
    <2>7. Listed' = Listed
      <3>1. {array'[k] : k \in Entries} = Listed
        BY <2>1, PacketSteps
      <3>2. size' = size
        BY <2>1, PacketWalks
      <3> QED
        BY <3>1, <3>2 DEF Listed, Entries
    <2> QED
      BY <2>4, <2>6, <2>7
  <1> QED
    BY <1>1, Invariant, PTL DEF Spec, PressRaises

-----------------------------------------------------------------------------
(* The list and the windows that were opened.                              *)

(* There is room in the list for all the windows of the program.           *)
RoomForAll == Len(Opening) <= MaxWindows

Created(n) == {Opening[m] : m \in 1 .. n}

(* A window is counted in the list before it counts as opened.             *)
Counted ==
  /\ size = IF thread.pc \in {"raise", "focus"} \/ thread.after = "raise" THEN opened + 1 ELSE opened
  /\ thread.pc \in Opens \cup {"rest"} => thread.after = "rest"
  /\ Listed \subseteq Created(size)
  /\ At("grow") => array[size] = Opened
  /\ thread.pc \in Searching => thread.w1 \in Created(size)
  /\ thread.pc \in Searching \ {"below"} => thread.w2 \in Created(size)

(* The types that the steps below need.                                    *)
LEMMA ListTypes ==
  ASSUME IInv
  PROVE  /\ size \in Nat /\ opened \in Nat /\ Len(Opening) \in Nat /\ MaxWindows \in Nat
         /\ size <= MaxWindows /\ thread \in Threads /\ ThreadOK
         /\ array \in [0 .. MaxWindows - 1 -> Window \cup {NoWindow}] /\ zindex \in [Window -> Zindex]
         /\ \A k \in Entries : array[k] \in Window
         /\ \A k \in Entries : k \in 0 .. MaxWindows - 1
  <1>1. /\ size \in 0 .. MaxWindows /\ opened \in 0 .. Len(Opening)
        /\ thread \in Threads /\ ThreadOK
        /\ array \in [0 .. MaxWindows - 1 -> Window \cup {NoWindow}] /\ zindex \in [Window -> Zindex]
    BY DEF IInv, TypeOK, ThreadOK
  <1>2. Len(Opening) \in Nat /\ MaxWindows \in Nat
    BY Sizes, DesktopAssumption
  <1>3. \A k \in Entries : array[k] \in Window
    BY <1>1, <1>2 DEF IInv, Written, Filled, Entries
  <1> QED
    BY <1>1, <1>2, <1>3 DEF Entries

(* Creating a window takes up no entry before AddWindow writes one, and    *)
(* with room for all there is one to write.                                *)
LEMMA CreateCounted ==
  ASSUME RoomForAll, IInv, Counted, CreateWindow
  PROVE  Counted'
  <1>1. /\ thread.pc = "rest" /\ opened < Len(Opening)
        /\ thread' = [thread EXCEPT !.pc = IF size + 1 > MaxWindows THEN "raise" ELSE "append"]
        /\ UNCHANGED <<array, size, opened>>
    BY DEF CreateWindow, At, listVars
  <1>2. thread.after = "rest" /\ size = opened
    BY <1>1 DEF Counted
  <1>3. ~ (size + 1 > MaxWindows)
    BY <1>1, <1>2, ListTypes DEF RoomForAll
  <1>4. thread'.pc = "append" /\ thread'.after = "rest"
    BY <1>1, <1>2, <1>3, ListTypes DEF Threads
  <1> QED
    BY <1>1, <1>2, <1>4 DEF Counted, At, Searching, Opens, Listed, Entries

(* The window that is written is the next to be opened.                    *)
LEMMA AddCounted ==
  ASSUME IInv, Counted, AddWindow
  PROVE  Counted'
  <1>1. /\ size \in Nat /\ opened \in Nat /\ size < MaxWindows /\ thread \in Threads
        /\ array \in [0 .. MaxWindows - 1 -> Window \cup {NoWindow}]
        /\ thread.pc \in {"append", "grow"} /\ thread.after = "rest" /\ size = opened /\ opened' = opened
    BY ListTypes DEF AddWindow, At, ThreadOK, Counted, Opens
  <1>2. CASE At("append")
    <2>1. /\ array' = [array EXCEPT ![size] = Opened] /\ size' = size
          /\ thread' = [thread EXCEPT !.pc = "grow"]
      BY <1>2 DEF AddWindow, At
    <2>2. thread'.pc = "grow" /\ thread'.after = "rest"
      BY <1>1, <2>1 DEF Threads
    <2>3. \A k \in Entries : array'[k] = array[k]
      BY <1>1, <2>1, ListTypes DEF Entries
    <2>4. Listed' = Listed
      BY <2>1, <2>3 DEF Listed, Entries
    <2>5. array'[size'] = Opened'
      BY <1>1, <2>1, ListTypes DEF Opened
    <2> QED
      BY <1>1, <2>1, <2>2, <2>4, <2>5 DEF Counted, At, Searching, Opens, Created
  <1>3. CASE At("grow")
    <2>1. /\ array' = array /\ size' = size + 1
          /\ thread' = [thread EXCEPT !.pc = "sort", !.after = "raise"]
      BY <1>3 DEF AddWindow, At
    <2>2. thread'.pc = "sort" /\ thread'.after = "raise"
      BY <1>1, <2>1 DEF Threads
    <2>3. array[size] = Opening[size + 1]
      BY <1>1, <1>3 DEF Counted, Opened
    <2>4. Entries' = Entries \cup {size}
      BY <1>1, <2>1 DEF Entries
    <2>5. Listed' \subseteq Created(size')
      <3> SUFFICES ASSUME NEW k \in Entries' PROVE array[k] \in Created(size + 1)
        BY <2>1 DEF Listed
      <3>1. CASE k \in Entries
        <4>1. array[k] \in Created(size)
          BY <3>1 DEF Counted, Listed
        <4> QED
          BY <1>1, <4>1 DEF Created
      <3>2. CASE k = size
        BY <1>1, <2>3, <3>2 DEF Created
      <3> QED
        BY <2>4, <3>1, <3>2
    <2> QED
      BY <1>1, <2>1, <2>2, <2>5 DEF Counted, At, Searching, Opens
  <1> QED
    BY <1>2, <1>3 DEF AddWindow

(* FocusWindow opens the window.                                           *)
LEMMA FocusCounted ==
  ASSUME IInv, Counted, FocusWindow
  PROVE  Counted'
  <1>1. /\ size \in Nat /\ opened \in Nat /\ thread \in Threads /\ UNCHANGED <<array, size>>
        /\ thread.pc \in {"raise", "focus"} /\ thread.after = "rest" /\ size = opened + 1
    BY ListTypes DEF FocusWindow, At, Counted, Opens
  <1>2. CASE At("raise")
    <2>1. opened' = opened /\ thread' = [thread EXCEPT !.pc = "focus"]
      BY <1>2 DEF FocusWindow, At
    <2>2. thread'.pc = "focus" /\ thread'.after = "rest"
      BY <1>1, <2>1 DEF Threads
    <2> QED
      BY <1>1, <2>1, <2>2 DEF Counted, At, Searching, Opens, Listed, Entries
  <1>3. CASE At("focus")
    <2>1. opened' = opened + 1 /\ thread' = [thread EXCEPT !.pc = "sort", !.after = "rest"]
      BY <1>3 DEF FocusWindow, At
    <2>2. thread'.pc = "sort" /\ thread'.after = "rest"
      BY <1>1, <2>1 DEF Threads
    <2> QED
      BY <1>1, <2>1, <2>2 DEF Counted, At, Searching, Opens, Listed, Entries
  <1> QED
    BY <1>2, <1>3 DEF FocusWindow

(* The sort leaves with what it came for: back to rest or on to the focus. *)
LEMMA SortControlCounted ==
  ASSUME IInv, Counted, SortControl
  PROVE  Counted'
  <1>1. /\ size \in Nat /\ opened \in Nat /\ thread \in Threads /\ ThreadOK
        /\ UNCHANGED <<array, size, opened>>
        /\ thread.after \in {"rest", "raise"} /\ thread.again \in BOOLEAN
        /\ thread.pc \notin Opens \cup {"rest"}
    BY ListTypes DEF SortControl, At, listVars, Threads, Opens
  <1>2. /\ size = IF thread.after = "raise" THEN opened + 1 ELSE opened
        /\ Listed \subseteq Created(size)
        /\ thread.pc \in Searching => thread.w1 \in Created(size)
        /\ thread.pc \in Searching \ {"below"} => thread.w2 \in Created(size)
    BY <1>1 DEF Counted, Opens
  <1>3. Listed' = Listed /\ Created(size)' = Created(size)
    BY <1>1 DEF Listed, Entries, Created
  <1>4. ASSUME thread' = [Registers EXCEPT !.pc = thread.after] PROVE Counted'
    <2>1. thread'.pc = thread.after /\ thread'.after = "rest"
      BY <1>4 DEF Registers
    <2> QED
      BY <1>1, <1>2, <1>3, <2>1 DEF Counted, At, Searching, Opens
  <1>5. ASSUME thread'.after = thread.after, thread'.pc \in Sorting,
               thread'.pc \in Searching => thread'.w1 \in Created(size),
               thread'.pc \in Searching \ {"below"} => thread'.w2 \in Created(size)
        PROVE  Counted'
    BY <1>1, <1>2, <1>3, <1>5 DEF Counted, At, Searching, Sorting, Opens
  <1>6. \A k \in Entries : array[k] \in Created(size)
    BY <1>2 DEF Listed
  <1>7. CASE At("sort") \/ At("pass") \/ At("number")
    <2>1. \/ thread' = [Registers EXCEPT !.pc = thread.after]
          \/ thread' = [thread EXCEPT !.pc = "pass", !.again = TRUE]
          \/ thread' = [thread EXCEPT !.pc = "step", !.again = FALSE, !.i = size - 1]
          \/ thread' = [thread EXCEPT !.pc = "number", !.i = 0]
          \/ thread' = [thread EXCEPT !.pc = "assign", !.w1 = array[thread.i]]
      BY <1>7 DEF SortControl, At
    <2>2. \/ thread' = [Registers EXCEPT !.pc = thread.after]
          \/ thread'.after = thread.after /\ thread'.pc \in Sorting \ Searching
      BY <1>1, <2>1 DEF Threads, Sorting, Searching
    <2> QED
      BY <1>4, <1>5, <2>2
  <1>8. CASE At("step")
    <2>1. thread.pc = "step" /\ thread.i \in 0 .. size - 1
      BY <1>1, <1>8 DEF At, ThreadOK
    <2>2. CASE thread.i > 0
      <3>1. thread' = [thread EXCEPT !.pc = "below", !.w1 = array[thread.i]]
        BY <2>1, <2>2 DEF SortControl, At
      <3>2. /\ thread'.after = thread.after /\ thread'.pc = "below"
            /\ thread'.w1 = array[thread.i]
        BY <1>1, <3>1 DEF Threads
      <3>3. array[thread.i] \in Created(size)
        BY <1>6, <2>1 DEF Entries
      <3> QED
        BY <1>5, <3>2, <3>3 DEF Sorting, Searching
    <2>3. CASE ~ (thread.i > 0)
      <3>1. thread' = [thread EXCEPT !.pc = "pass"]
        BY <2>1, <2>3 DEF SortControl, At
      <3>2. thread'.after = thread.after /\ thread'.pc = "pass"
        BY <1>1, <3>1 DEF Threads
      <3> QED
        BY <1>5, <3>2 DEF Sorting, Searching
    <2> QED
      BY <2>2, <2>3
  <1>9. CASE At("below")
    <2>1. thread.pc = "below" /\ thread.i \in 1 .. size - 1
      BY <1>1, <1>9 DEF At, ThreadOK, Searching
    <2>2. thread' = [thread EXCEPT !.pc = "key", !.w2 = array[thread.i - 1]]
      BY <2>1 DEF SortControl, At
    <2>3. /\ thread'.after = thread.after /\ thread'.pc = "key"
          /\ thread'.w1 = thread.w1 /\ thread'.w2 = array[thread.i - 1]
      BY <1>1, <2>2 DEF Threads
    <2>4. array[thread.i - 1] \in Created(size)
      BY <1>1, <1>6, <2>1 DEF Entries
    <2> QED
      BY <1>2, <1>5, <2>1, <2>3, <2>4 DEF Sorting, Searching
  <1>10. CASE At("key") \/ At("compare")
    <2>1. thread.w1 \in Created(size) /\ thread.w2 \in Created(size)
      BY <1>2, <1>10 DEF At, Searching
    <2>2. \/ thread' = [thread EXCEPT !.pc = "compare", !.z1 = zindex[thread.w1]]
          \/ thread' = [thread EXCEPT !.pc = "swap"]
          \/ thread' = NextIndex(thread.again)
      BY <1>10 DEF SortControl, At
    <2>3. CASE thread' = NextIndex(thread.again)
      <3>1. thread'.after = thread.after /\ thread'.pc = "step"
        BY <2>3 DEF NextIndex, Registers
      <3> QED
        BY <1>5, <3>1 DEF Sorting, Searching
    <2>4. CASE thread' # NextIndex(thread.again)
      <3>1. /\ thread'.after = thread.after /\ thread'.pc \in {"compare", "swap"}
            /\ thread'.w1 = thread.w1 /\ thread'.w2 = thread.w2
        BY <1>1, <2>2, <2>4 DEF Threads
      <3> QED
        BY <1>5, <2>1, <3>1 DEF Sorting, Searching
    <2> QED
      BY <2>3, <2>4
  <1> QED
    BY <1>7, <1>8, <1>9, <1>10 DEF SortControl

(* An exchange stores nothing but windows that were in the list.           *)
LEMMA SortStoreCounted ==
  ASSUME IInv, Counted, SortStore
  PROVE  Counted'
  <1>1. /\ size \in Nat /\ opened \in Nat /\ thread \in Threads /\ ThreadOK
        /\ UNCHANGED <<size, opened>>
        /\ thread.pc \in {"swap", "swapped", "assign"}
        /\ array \in [0 .. MaxWindows - 1 -> Window \cup {NoWindow}]
    BY ListTypes DEF SortStore, At
  <1>2. /\ size = IF thread.after = "raise" THEN opened + 1 ELSE opened
        /\ thread.pc \in Searching => thread.w1 \in Created(size) /\ thread.w2 \in Created(size)
    BY <1>1 DEF Counted, Searching
  <1>3. \A k \in Entries : array[k] \in Created(size) /\ k \in 0 .. MaxWindows - 1
    BY ListTypes DEF Counted, Listed
  <1>4. ASSUME thread'.after = thread.after, thread'.pc \in {"swapped", "step", "number"},
               thread'.pc \in Searching => thread'.w1 \in Created(size) /\ thread'.w2 \in Created(size),
               \A k \in Entries : array'[k] \in Created(size)
        PROVE  Counted'
    <2>1. Listed' \subseteq Created(size)' /\ Created(size)' = Created(size)
      BY <1>1, <1>4 DEF Listed, Entries, Created
    <2> QED
      BY <1>1, <1>2, <1>4, <2>1 DEF Counted, At, Searching, Opens
  <1>5. CASE At("swap")
    <2>1. /\ array' = [array EXCEPT ![thread.i] = thread.w2]
          /\ thread' = [thread EXCEPT !.pc = "swapped"]
      BY <1>5 DEF SortStore, At
    <2>2. /\ thread'.pc = "swapped" /\ thread'.after = thread.after
          /\ thread'.w1 = thread.w1 /\ thread'.w2 = thread.w2
      BY <1>1, <2>1 DEF Threads
    <2>3. thread.w1 \in Created(size) /\ thread.w2 \in Created(size)
      BY <1>2, <1>5 DEF At, Searching
    <2>4. \A k \in Entries : array'[k] \in Created(size)
      BY <1>1, <1>3, <2>1, <2>3
    <2> QED
      BY <1>4, <2>2, <2>3, <2>4
  <1>6. CASE At("swapped")
    <2>1. /\ array' = [array EXCEPT ![thread.i - 1] = thread.w1]
          /\ thread' = NextIndex(TRUE)
      BY <1>6 DEF SortStore, At
    <2>2. thread'.pc = "step" /\ thread'.after = thread.after
      BY <2>1 DEF NextIndex, Registers
    <2>3. thread.w1 \in Created(size)
      BY <1>2, <1>6 DEF At, Searching
    <2>4. \A k \in Entries : array'[k] \in Created(size)
      BY <1>1, <1>3, <2>1, <2>3
    <2> QED
      BY <1>4, <2>2, <2>4 DEF Searching
  <1>7. CASE At("assign")
    <2>1. /\ array' = array
          /\ thread' = [thread EXCEPT !.pc = "number", !.i = @ + 1, !.w1 = NoWindow]
      BY <1>7 DEF SortStore, At
    <2>2. thread'.pc = "number" /\ thread'.after = thread.after
      BY <1>1, <2>1 DEF Threads
    <2> QED
      BY <1>3, <1>4, <2>1, <2>2 DEF Searching
  <1> QED
    BY <1>5, <1>6, <1>7 DEF SortStore

(* A packet leaves the list and its numbers as they are, or else every     *)
(* window of the list has the number of its last entry.                    *)
LEMMA PacketRearranges ==
  ASSUME IInv, NEW p, NEW state, Packet(p, state)
  PROVE  /\ UNCHANGED size /\ Listed' = Listed
         /\ \A k \in 0 .. MaxWindows - 1 : k \notin Entries => array'[k] = array[k]
         /\ \/ UNCHANGED <<array, zindex>>
            \/ size > 1 => \A k \in Entries : /\ zindex'[array'[k]] \in k .. size - 1
                                              /\ array'[zindex'[array'[k]]] = array'[k]
  <1> DEFINE d == Walk(p, state[0], mouse.prevState[0])[size]
  <1>1. array' = d.array /\ zindex' = d.zindex /\ UNCHANGED size /\ Kept(Desk, d)
    BY PacketWalks
  <1> HIDE DEF d
  <1>2. Listed' = Listed
    BY <1>1 DEF Kept, ListedIn, Listed, Desk, Entries
  <1>3. \A k \in 0 .. MaxWindows - 1 : k \notin Entries => array'[k] = array[k]
    BY <1>1 DEF Kept, Desk
  <1>4. \/ UNCHANGED <<array, zindex>>
        \/ Placed(d)
    BY <1>1 DEF Kept, Desk
  <1> QED
    BY <1>1, <1>2, <1>3, <1>4 DEF Placed

(* A click reorders the entries and leaves the thread where it is.         *)
LEMMA PacketCounted ==
  ASSUME IInv, Counted, NEW p, NEW state, Packet(p, state)
  PROVE  Counted'
  <1>1. UNCHANGED <<size, opened, thread>> /\ Listed' = Listed
    BY PacketRearranges DEF Packet
  <1>2. ASSUME At("grow") PROVE array'[size] = array[size]
    <2>1. size \in 0 .. MaxWindows - 1 /\ size \notin Entries
      BY <1>2, ListTypes DEF At, ThreadOK, Entries
    <2> QED
      BY <2>1, PacketRearranges
  <1>3. At("grow") => array[size] = Opened
    BY DEF Counted
  <1>4. Opened' = Opened /\ Created(size)' = Created(size)
    BY <1>1 DEF Opened, Created
  <1>5. At("grow")' => array'[size'] = Opened'
    BY <1>1, <1>2, <1>3, <1>4 DEF At
  <1> QED
    BY <1>1, <1>4, <1>5 DEF Counted

(* Every step keeps what is counted.                                       *)
LEMMA CountedStep ==
  ASSUME RoomForAll, IInv, Counted, [Next]_vars
  PROVE  Counted'
  <1>1. CASE GraphicsThread
    BY <1>1, CreateCounted, AddCounted, FocusCounted, SortControlCounted, SortStoreCounted
       DEF GraphicsThread
  <1>2. ASSUME NEW move \in Moves, NEW held \in Holds, MousePacket(move, held) PROVE Counted'
    BY <1>2, PacketIsOne, PacketCounted
  <1>3. ASSUME UNCHANGED <<array, size, opened, thread>> PROVE Counted'
    BY <1>3 DEF Counted, Listed, Entries, Created, At, Opened
  <1>4. ASSUME NEW k \in Key, NEW make \in BOOLEAN, KeyPress(k, make) PROVE Counted'
    BY <1>3, <1>4, Zenon DEF KeyPress, listVars
  <1>5. CASE UNCHANGED vars
    BY <1>3, <1>5 DEF vars, listVars
  <1> QED
    BY <1>1, <1>2, <1>4, <1>5 DEF Next

(* An empty list before anything is opened.                                *)
LEMMA CountedAtFirst == Init => Counted
  <1> SUFFICES ASSUME Init PROVE Counted
    OBVIOUS
  <1>1. /\ size = 0 /\ opened = 0 /\ Entries = {}
        /\ thread.pc = "rest" /\ thread.after = "rest"
    BY DEF Init, Registers, Entries
  <1> QED
    BY <1>1 DEF Counted, Listed, At, Searching, Opens

(* At rest the list has as many entries as windows were opened, and each   *)
(* entry is one of these windows, for any number of them.                  *)
THEOREM ListCounts ==
  ASSUME RoomForAll
  PROVE  Spec => [](AtRest => size = opened /\ Listed \subseteq {Opening[n] : n \in 1 .. opened})
  <1>1. IInv /\ Counted /\ [Next]_vars => (IInv /\ Counted)'
    BY CountedStep, StepHolds
  <1>2. Counted => (AtRest => size = opened /\ Listed \subseteq {Opening[n] : n \in 1 .. opened})
    BY DEF Counted, AtRest, At, Created, Opens
  <1> QED
    BY <1>1, <1>2, InitHolds, CountedAtFirst, PTL DEF Spec

-----------------------------------------------------------------------------
(* The order of two windows.                                               *)

(* UsermodeGraphics opens two windows.                                     *)
TwoAtMost == RoomForAll /\ Len(Opening) <= 2

InOrder == size > 1 => zindex[array[0]] <= zindex[array[1]]

(* When the thread has compared the two entries they are in order, or it   *)
(* holds in its registers what it takes to put them in order, or a click   *)
(* has numbered them.  In the same way it numbers them.                    *)
InTurn ==
  /\ At("rest") \/ At("number") \/ At("assign") => InOrder
  /\ ~ thread.again =>
       /\ At("pass") \/ (At("step") /\ thread.i = 0) => InOrder
       /\ At("below") => InOrder \/ thread.w1 = array[1]
       /\ At("key") => InOrder \/ (thread.w1 = array[1] /\ thread.w2 = array[0])
       /\ At("compare") =>
            InOrder \/ (thread.w1 = array[1] /\ thread.w2 = array[0] /\ thread.z1 = zindex[thread.w1])
  /\ At("number") /\ thread.i = 1 => zindex[array[0]] <= 1
  /\ At("assign") /\ thread.i = 0 => thread.w1 = array[0] \/ zindex[array[0]] = 0
  /\ At("assign") /\ thread.i = 1 =>
       zindex[array[0]] <= 1 /\ (thread.w1 = array[1] \/ zindex[array[1]] >= 1)
  /\ At("assign") => thread.w1 \in Listed

(* Two entries are sorted: the first and the second one.                   *)
LEMMA TwoEntries ==
  ASSUME TwoAtMost, IInv, Counted
  PROVE  /\ size <= 2
         /\ size > 1 => /\ size = 2 /\ Entries = {0, 1} /\ array[0] \in Window /\ array[1] \in Window
                        /\ zindex[array[0]] \in Nat /\ zindex[array[1]] \in Nat
                        /\ 0 \in 0 .. MaxWindows - 1 /\ 1 \in 0 .. MaxWindows - 1
         /\ thread.pc \in Sorting => size = 2
         /\ thread.pc \in Searching => thread.i = 1
         /\ thread.pc = "step" => thread.i \in {0, 1}
         /\ thread.pc = "assign" => thread.i \in {0, 1}
         /\ thread.pc = "number" => thread.i \in {0, 1, 2}
  <1>1. /\ size \in Nat /\ opened \in Nat /\ Len(Opening) \in Nat /\ MaxWindows \in Nat
        /\ size <= MaxWindows /\ ThreadOK /\ zindex \in [Window -> Zindex]
        /\ \A k \in Entries : array[k] \in Window
    BY ListTypes
  <1>2. opened <= Len(Opening) /\ (size = opened + 1 => opened < Len(Opening))
    BY <1>1 DEF IInv, TypeOK, ThreadOK, Counted, Opens
  <1>3. size <= 2
    BY <1>1, <1>2 DEF Counted, TwoAtMost
  <1>4. ASSUME size > 1
        PROVE  /\ size = 2 /\ Entries = {0, 1} /\ array[0] \in Window /\ array[1] \in Window
               /\ zindex[array[0]] \in Nat /\ zindex[array[1]] \in Nat
               /\ 0 \in 0 .. MaxWindows - 1 /\ 1 \in 0 .. MaxWindows - 1
    <2>1. size = 2 /\ Entries = {0, 1}
      BY <1>1, <1>3, <1>4 DEF Entries
    <2>2. array[0] \in Window /\ array[1] \in Window
      BY <1>1, <2>1
    <2>3. \A z \in Zindex : z \in Nat
      BY Sizes DEF Zindex
    <2> QED
      BY <1>1, <2>1, <2>2, <2>3
  <1>5. /\ thread.pc \in Sorting => size = 2
        /\ thread.pc \in Searching => thread.i = 1
        /\ thread.pc = "step" => thread.i \in {0, 1}
        /\ thread.pc = "assign" => thread.i \in {0, 1}
        /\ thread.pc = "number" => thread.i \in {0, 1, 2}
    BY <1>1, <1>3 DEF ThreadOK, Sorting, Searching
  <1> QED
    BY <1>3, <1>4, <1>5

(* A packet leaves two windows as they are, or in order and numbered.      *)
LEMMA PacketInTurn ==
  ASSUME TwoAtMost, IInv, Counted, InTurn, NEW p, NEW state, Packet(p, state)
  PROVE  InTurn'
  <1>1. /\ UNCHANGED <<size, thread>> /\ Listed' = Listed
        /\ \/ UNCHANGED <<array, zindex>>
           \/ size > 1 => \A k \in Entries : /\ zindex'[array'[k]] \in k .. size - 1
                                             /\ array'[zindex'[array'[k]]] = array'[k]
    BY PacketRearranges DEF Packet
  <1>2. CASE UNCHANGED <<array, zindex>>
    BY <1>1, <1>2 DEF InTurn, InOrder, At
  <1>3. CASE ~ (size > 1)
    <2>1. thread.pc \notin Sorting
      BY <1>3, TwoEntries
    <2>2. InOrder'
      BY <1>1, <1>3 DEF InOrder
    <2> QED
      BY <1>1, <2>1, <2>2 DEF InTurn, At, Sorting, Searching
  <1>4. CASE /\ size > 1
             /\ \A k \in Entries : /\ zindex'[array'[k]] \in k .. size - 1
                                   /\ array'[zindex'[array'[k]]] = array'[k]
    <2>1. size = 2 /\ Entries = {0, 1}
      BY <1>4, TwoEntries
    <2>2. /\ zindex'[array'[0]] \in {0, 1} /\ zindex'[array'[1]] = 1
          /\ zindex'[array'[0]] = 1 => array'[1] = array'[0]
      <3>1. zindex'[array'[0]] \in 0 .. 1 /\ zindex'[array'[1]] \in 1 .. 1
        BY <1>4, <2>1
      <3>2. array'[zindex'[array'[0]]] = array'[0]
        BY <1>4, <2>1
      <3> QED
        BY <3>1, <3>2
    <2>3. InOrder'
      BY <2>2 DEF InOrder
    <2>4. ASSUME zindex'[array'[0]] = 1, thread.w1 \in Listed
          PROVE  thread.w1 = array'[0]
      <3>1. Listed' = {array'[0], array'[1]}
        <4>1. Entries' = {0, 1}
          BY <1>1, <2>1 DEF Entries
        <4> QED
          BY <4>1 DEF Listed
      <3> QED
        BY <1>1, <2>2, <2>4, <3>1
    <2>5. zindex'[array'[0]] <= 1 /\ zindex'[array'[1]] >= 1
      BY <2>2
    <2>6. At("assign") => thread.w1 \in Listed
      BY DEF InTurn
    <2> QED
      BY <1>1, <2>2, <2>3, <2>4, <2>5, <2>6 DEF InTurn, At
  <1> QED
    BY <1>1, <1>2, <1>3, <1>4

(* Opening a window ends in a sort, whatever order it leaves.              *)
LEMMA OpeningInTurn ==
  ASSUME TwoAtMost, IInv, Counted, InTurn, CreateWindow \/ AddWindow \/ FocusWindow
  PROVE  InTurn'
  <1>1. thread \in Threads
    BY ListTypes
  <1>2. thread'.pc \in {"append", "grow", "raise", "focus"} \/ (thread'.pc = "sort")
    BY <1>1 DEF CreateWindow, AddWindow, FocusWindow, At, Threads
  <1> QED
    BY <1>2 DEF InTurn, At

(* The sort compares before it goes on, and numbers what is in order.      *)
LEMMA SortControlInTurn ==
  ASSUME TwoAtMost, IInv, Counted, InTurn, SortControl
  PROVE  InTurn'
  <1>1. /\ thread \in Threads /\ UNCHANGED <<array, size, zindex>>
        /\ thread.after \in {"rest", "raise"}
    BY ListTypes DEF SortControl, listVars, Threads
  <1>2. InOrder' <=> InOrder
    BY <1>1 DEF InOrder
  <1>3. ASSUME thread' = [Registers EXCEPT !.pc = thread.after], InOrder PROVE InTurn'
    <2>1. thread'.pc \in {"rest", "raise"}
      BY <1>1, <1>3 DEF Registers
    <2> QED
      BY <1>2, <1>3, <2>1 DEF InTurn, At
  <1>4. CASE At("sort")
    <2>1. CASE size <= 1
      <3>1. thread' = [Registers EXCEPT !.pc = thread.after] /\ InOrder
        BY <1>4, <2>1, ListTypes DEF SortControl, At, InOrder
      <3> QED
        BY <1>3, <3>1
    <2>2. CASE ~ (size <= 1)
      <3>1. thread' = [thread EXCEPT !.pc = "pass", !.again = TRUE]
        BY <1>4, <2>2 DEF SortControl, At
      <3>2. thread'.pc = "pass" /\ thread'.again
        BY <1>1, <3>1 DEF Threads
      <3> QED
        BY <3>2 DEF InTurn, At
    <2> QED
      BY <2>1, <2>2
  <1>5. CASE At("pass")
    <2>1. CASE thread.again
      <3>1. thread' = [thread EXCEPT !.pc = "step", !.again = FALSE, !.i = size - 1]
        BY <1>5, <2>1 DEF SortControl, At
      <3>2. thread'.pc = "step" /\ thread'.i = size - 1
        BY <1>1, <3>1 DEF Threads
      <3>3. size = 2
        BY <1>5, TwoEntries DEF At, Sorting
      <3> QED
        BY <3>2, <3>3 DEF InTurn, At
    <2>2. CASE ~ thread.again
      <3>1. thread' = [thread EXCEPT !.pc = "number", !.i = 0] /\ InOrder
        BY <1>5, <2>2 DEF SortControl, At, InTurn
      <3>2. thread'.pc = "number" /\ thread'.i = 0
        BY <1>1, <3>1 DEF Threads
      <3> QED
        BY <1>2, <3>1, <3>2 DEF InTurn, At
    <2> QED
      BY <2>1, <2>2
  <1>6. CASE At("step")
    <2>1. thread.i \in {0, 1} /\ size = 2
      BY <1>6, TwoEntries DEF At, Sorting
    <2>2. CASE thread.i = 1
      <3>1. thread' = [thread EXCEPT !.pc = "below", !.w1 = array[1]]
        BY <1>6, <2>2 DEF SortControl, At
      <3>2. thread'.pc = "below" /\ thread'.w1 = array'[1]
        BY <1>1, <3>1 DEF Threads
      <3> QED
        BY <3>2 DEF InTurn, At
    <2>3. CASE thread.i = 0
      <3>1. thread' = [thread EXCEPT !.pc = "pass"] /\ (~ thread.again => InOrder)
        BY <1>6, <2>3 DEF SortControl, At, InTurn
      <3>2. thread'.pc = "pass" /\ thread'.again = thread.again
        BY <1>1, <3>1 DEF Threads
      <3> QED
        BY <1>2, <3>1, <3>2 DEF InTurn, At
    <2> QED
      BY <2>1, <2>2, <2>3
  <1>7. CASE At("below")
    <2>1. thread.i = 1
      BY <1>7, TwoEntries DEF At, Searching
    <2>2. thread' = [thread EXCEPT !.pc = "key", !.w2 = array[0]]
      BY <1>7, <2>1 DEF SortControl, At
    <2>3. /\ thread'.pc = "key" /\ thread'.w1 = thread.w1 /\ thread'.w2 = array[0]
          /\ thread'.again = thread.again
      BY <1>1, <2>2 DEF Threads
    <2>4. ~ thread.again => InOrder \/ thread.w1 = array[1]
      BY <1>7 DEF InTurn
    <2> QED
      BY <1>1, <1>2, <2>3, <2>4 DEF InTurn, At
  <1>8. CASE At("key")
    <2>1. thread' = [thread EXCEPT !.pc = "compare", !.z1 = zindex[thread.w1]]
      BY <1>8 DEF SortControl, At
    <2>2. /\ thread'.pc = "compare" /\ thread'.w1 = thread.w1 /\ thread'.w2 = thread.w2
          /\ thread'.again = thread.again /\ thread'.z1 = zindex[thread.w1]
      BY <1>1, <2>1 DEF Threads
    <2>3. ~ thread.again => InOrder \/ (thread.w1 = array[1] /\ thread.w2 = array[0])
      BY <1>8 DEF InTurn
    <2> QED
      BY <1>1, <1>2, <2>2, <2>3 DEF InTurn, At
  <1>9. CASE At("compare")
    <2>1. CASE thread.z1 < zindex[thread.w2]
      <3>1. thread' = [thread EXCEPT !.pc = "swap"]
        BY <1>9, <2>1 DEF SortControl, At
      <3>2. thread'.pc = "swap"
        BY <1>1, <3>1 DEF Threads
      <3> QED
        BY <3>2 DEF InTurn, At
    <2>2. CASE ~ (thread.z1 < zindex[thread.w2])
      <3>1. thread' = NextIndex(thread.again)
        BY <1>9, <2>2 DEF SortControl, At
      <3>2. thread'.pc = "step" /\ thread'.again = thread.again
        BY <3>1 DEF NextIndex, Registers
      <3>3. ~ thread.again => InOrder
        <4>1. size = 2
          BY <1>9, TwoEntries DEF At, Sorting, Searching
        <4>2. zindex[array[0]] \in Nat /\ zindex[array[1]] \in Nat
          BY <4>1, TwoEntries
        <4>3. ~ thread.again => \/ InOrder
                                \/ /\ thread.w1 = array[1] /\ thread.w2 = array[0]
                                   /\ thread.z1 = zindex[thread.w1]
          BY <1>9 DEF InTurn
        <4> QED
          BY <2>2, <4>2, <4>3 DEF InOrder
      <3> QED
        BY <1>2, <3>2, <3>3 DEF InTurn, At
    <2> QED
      BY <2>1, <2>2
  <1>10. CASE At("number")
    <2>1. size = 2 /\ thread.i \in {0, 1, 2} /\ InOrder
      BY <1>10, TwoEntries DEF At, Sorting, InTurn
    <2>2. CASE thread.i < size
      <3>1. thread' = [thread EXCEPT !.pc = "assign", !.w1 = array[thread.i]]
        BY <1>10, <2>2 DEF SortControl, At
      <3>2. thread'.pc = "assign" /\ thread'.i = thread.i /\ thread'.w1 = array[thread.i]
        BY <1>1, <3>1 DEF Threads
      <3>3. thread.i \in {0, 1} /\ array[thread.i] \in Listed
        BY <2>1, <2>2, TwoEntries DEF Listed
      <3>4. Listed' = Listed
        BY <1>1 DEF Listed, Entries
      <3>5. thread.i = 1 => zindex[array[0]] <= 1
        BY <1>10 DEF InTurn
      <3> QED
        BY <1>1, <1>2, <2>1, <3>2, <3>3, <3>4, <3>5 DEF InTurn, At
    <2>3. CASE ~ (thread.i < size)
      <3>1. thread' = [Registers EXCEPT !.pc = thread.after]
        BY <1>10, <2>3 DEF SortControl, At
      <3> QED
        BY <1>3, <2>1, <3>1
    <2> QED
      BY <2>2, <2>3
  <1> QED
    BY <1>4, <1>5, <1>6, <1>7, <1>8, <1>9, <1>10 DEF SortControl

(* After an exchange the thread compares again; a number that it stores    *)
(* goes to the entry it was read from, or to two that a click has numbered.*)
LEMMA SortStoreInTurn ==
  ASSUME TwoAtMost, IInv, Counted, InTurn, SortStore
  PROVE  InTurn'
  <1>1. thread \in Threads /\ UNCHANGED size
    BY ListTypes DEF SortStore
  <1>2. CASE At("swap")
    <2>1. thread' = [thread EXCEPT !.pc = "swapped"]
      BY <1>2 DEF SortStore, At
    <2>2. thread'.pc = "swapped"
      BY <1>1, <2>1 DEF Threads
    <2> QED
      BY <2>2 DEF InTurn, At
  <1>3. CASE At("swapped")
    <2>1. thread' = NextIndex(TRUE)
      BY <1>3 DEF SortStore, At
    <2>2. thread'.pc = "step" /\ thread'.again
      BY <2>1 DEF NextIndex, Registers
    <2> QED
      BY <2>2 DEF InTurn, At
  <1>4. CASE At("assign")
    <2>1. /\ zindex' = [zindex EXCEPT ![thread.w1] = thread.i] /\ array' = array
          /\ thread' = [thread EXCEPT !.pc = "number", !.i = @ + 1, !.w1 = NoWindow]
      BY <1>4 DEF SortStore, At
    <2>2. thread'.pc = "number" /\ thread'.i = thread.i + 1
      BY <1>1, <2>1 DEF Threads
    <2>3. /\ size = 2 /\ thread.i \in {0, 1} /\ zindex \in [Window -> Zindex]
          /\ array[0] \in Window /\ array[1] \in Window
          /\ zindex[array[0]] \in Nat /\ zindex[array[1]] \in Nat
      <3>1. size = 2 /\ thread.i \in {0, 1}
        BY <1>4, TwoEntries DEF At, Sorting
      <3> QED
        BY <3>1, TwoEntries, ListTypes
    <2>4. \A w \in Window : zindex'[w] = IF w = thread.w1 THEN thread.i ELSE zindex[w]
      BY <2>1, <2>3
    <2>5. CASE thread.i = 0
      <3>1. thread.w1 = array[0] \/ zindex[array[0]] = 0
        BY <1>4, <2>5 DEF InTurn
      <3>2. zindex'[array[0]] = 0 /\ zindex'[array[1]] \in Nat
        BY <2>3, <2>4, <2>5, <3>1
      <3>3. zindex'[array'[0]] <= 1 /\ zindex'[array'[0]] <= zindex'[array'[1]]
        BY <2>1, <3>2
      <3> QED
        BY <2>2, <2>5, <3>3 DEF InTurn, InOrder, At
    <2>6. CASE thread.i = 1
      <3>1. zindex[array[0]] <= 1 /\ (thread.w1 = array[1] \/ zindex[array[1]] >= 1)
        BY <1>4, <2>6 DEF InTurn
      <3>2. zindex'[array[0]] <= 1 /\ zindex'[array[1]] >= 1 /\ zindex'[array[0]] \in Nat /\ zindex'[array[1]] \in Nat
        BY <2>3, <2>4, <2>6, <3>1
      <3>3. zindex'[array'[0]] <= zindex'[array'[1]]
        BY <2>1, <3>2
      <3> QED
        BY <2>2, <2>6, <3>3 DEF InTurn, InOrder, At
    <2> QED
      BY <2>3, <2>5, <2>6
  <1> QED
    BY <1>2, <1>3, <1>4 DEF SortStore

(* Every step keeps two windows in turn.                                   *)
LEMMA InTurnStep ==
  ASSUME TwoAtMost, IInv, Counted, InTurn, [Next]_vars
  PROVE  InTurn'
  <1>1. CASE GraphicsThread
    BY <1>1, OpeningInTurn, SortControlInTurn, SortStoreInTurn DEF GraphicsThread
  <1>2. ASSUME NEW move \in Moves, NEW held \in Holds, MousePacket(move, held) PROVE InTurn'
    BY <1>2, PacketIsOne, PacketInTurn
  <1>3. ASSUME UNCHANGED <<array, size, zindex, thread>> PROVE InTurn'
    BY <1>3 DEF InTurn, InOrder, Listed, Entries, At
  <1>4. ASSUME NEW k \in Key, NEW make \in BOOLEAN, KeyPress(k, make) PROVE InTurn'
    BY <1>3, <1>4, Zenon DEF KeyPress, listVars
  <1>5. CASE UNCHANGED vars
    BY <1>3, <1>5 DEF vars, listVars
  <1> QED
    BY <1>1, <1>2, <1>4, <1>5 DEF Next

(* Two windows are in the order of their zindexes whenever the thread is   *)
(* at rest, wherever clicks have reordered the list under its sorts.       *)
THEOREM TwoWindowsInOrder ==
  ASSUME TwoAtMost
  PROVE  Spec => []ListInOrder
  <1>1. Init => InTurn
    <2> SUFFICES ASSUME Init PROVE InTurn
      OBVIOUS
    <2>1. size = 0 /\ thread.pc = "rest"
      BY DEF Init, Registers
    <2> QED
      BY <2>1 DEF InTurn, InOrder, At
  <1>2. IInv /\ Counted /\ InTurn /\ [Next]_vars => (IInv /\ Counted /\ InTurn)'
    BY StepHolds, CountedStep, InTurnStep DEF TwoAtMost
  <1>3. IInv /\ Counted /\ InTurn => ListInOrder
    <2> SUFFICES ASSUME IInv, Counted, InTurn, AtRest PROVE ListInOrder
      BY DEF ListInOrder
    <2>1. size = opened /\ Listed \subseteq {Opening[n] : n \in 1 .. opened} /\ InOrder
      BY DEF Counted, InTurn, AtRest, At, Created, Opens
    <2>2. ASSUME NEW j \in Entries, NEW k \in Entries, j < k
          PROVE  zindex[array[j]] <= zindex[array[k]]
      <3>1. size \in Nat /\ size <= 2
        BY ListTypes, TwoEntries
      <3>2. j = 0 /\ k = 1 /\ size > 1
        BY <2>2, <3>1 DEF Entries
      <3> QED
        BY <2>1, <3>2 DEF InOrder
    <2> QED
      BY <2>1, <2>2 DEF ListInOrder
  <1> QED
    BY <1>1, <1>2, <1>3, InitHolds, CountedAtFirst, PTL DEF Spec

-----------------------------------------------------------------------------
(* What the window that has the focus was told.                            *)

(* Each CreateWindow makes a window of its own.                            *)
Distinct == \A m, n \in 1 .. Len(Opening) : Opening[m] = Opening[n] => m = n

(* A window that is met may get the focus, and only as the button goes     *)
(* down.                                                                   *)
LEMMA MeetFocuses ==
  ASSUME Fits, NEW d \in Desktops, NEW w \in Window, NEW p \in Position,
         NEW mouseDown \in BOOLEAN, NEW mouseWasDown \in BOOLEAN
  PROVE  LET e == Meet(d, w, p, mouseDown, mouseWasDown)
         IN  /\ e.focused \in {d.focused, w}
             /\ mouseWasDown \/ ~ mouseDown => e.focused = d.focused
  <1>1. CASE mouseWasDown
    <2> SUFFICES ASSUME NEW e, e = Pulled(d, w, p, mouseDown)
                 PROVE  e.focused = d.focused
      BY <1>1 DEF Pulled
    <2> QED
      BY MeetHeld
  <1>2. CASE ~ mouseWasDown /\ ~ mouseDown
    <2>1. Meet(d, w, p, mouseDown, mouseWasDown) = d
      BY <1>2 DEF Meet
    <2> QED
      BY <2>1
  <1>3. CASE ~ mouseWasDown /\ mouseDown
    <2>1. Pressed(d, w, p).focused \in {d.focused, w}
      BY MeetPressed
    <2> QED
      BY <1>3, <2>1 DEF Pressed
  <1> QED
    BY <1>1, <1>2, <1>3

(* So the focus goes to a window of the list or stays where it is, and     *)
(* moves only with a packet whose left button goes down.                   *)
LEMMA PacketFocuses ==
  ASSUME IInv, NEW p, NEW state, Packet(p, state)
  PROVE  /\ focused' \in Listed \cup {focused}
         /\ mouse.prevState[0] \/ ~ state[0] => focused' = focused
  <1> DEFINE was == mouse.prevState[0]
             met == Walk(p, state[0], was)
             Step(d, k) == Meet(d, d.array[k - 1], p, state[0], was)
             Fine(f) == f \in Listed \cup {focused} /\ (was \/ ~ state[0] => f = focused)
             S == {k \in 0 .. size : Fine(met[k].focused)}
  <1>1. /\ size \in Nat /\ Fits /\ Desk \in Desktops /\ p \in Position
        /\ state[0] \in BOOLEAN /\ was \in BOOLEAN
    BY Sizes, DeskIsOne DEF IInv, TypeOK, Packet, Slot
  <1>2. met[0] = Desk /\ \A k \in 1 .. size : met[k] = Step(met[k - 1], k)
    <2>1. size \in Nat
      BY <1>1
    <2> QED
      BY ONLY <2>1, WalkSteps, SMTT(30)
  <1>3. \A k \in 0 .. size : Kept(Desk, met[k]) /\ \A j \in Entries : met[k].array[j] \in Window
    BY <1>1, WalkKeeps
  <1>4. focused' = met[size].focused
    BY PacketWalks
  <1> HIDE DEF met, was
  <1>5. 0 \in S
    BY <1>1, <1>2 DEF Desk
  <1>6. ASSUME NEW k \in 1 .. size, k - 1 \in S PROVE k \in S
    <2> DEFINE d == met[k - 1]
               w == d.array[k - 1]
    <2>1. k - 1 \in Entries /\ k - 1 \in 0 .. size /\ k \in 0 .. size
      BY <1>1 DEF Entries
    <2>2. d \in Desktops /\ w \in Window /\ w \in Listed
      <3>1. Kept(Desk, d) /\ w \in Window
        BY <1>3, <2>1
      <3>2. w \in ListedIn(d) /\ ListedIn(Desk) = Listed
        BY <2>1 DEF ListedIn, Listed, Desk
      <3> QED
        BY <3>1, <3>2 DEF Kept
    <2>3. met[k] = Meet(d, w, p, state[0], was)
      BY <1>2
    <2>4. Fine(d.focused)
      BY <1>6
    <2> HIDE DEF d, w
    <2>5. /\ met[k].focused \in {d.focused, w}
          /\ was \/ ~ state[0] => met[k].focused = d.focused
      BY <1>1, <2>2, <2>3, MeetFocuses
    <2> QED
      BY <2>1, <2>2, <2>4, <2>5
  <1>7. size \in S
    <2> HIDE DEF S
    <2> QED
      BY <1>1, <1>5, <1>6, Ascent
  <1> QED
    BY <1>4, <1>7 DEF was

(* What the messages about a window leave down for each: told is what they *)
(* say so far.                                                             *)
After(told, w, pressed, released) ==
  IF w = NoWindow THEN told ELSE [told EXCEPT ![w] = (@ \cup pressed) \ released]

OneTold(after, told, w, pressed, released) ==
  \A v \in Window :
    after[v] = IF v = w THEN (told[v] \cup pressed) \ released ELSE told[v]

LEMMA ToldOne ==
  ASSUME NEW told \in [Window -> SUBSET (Button \cup Key)], NEW w \in Window \cup {NoWindow},
         NEW pressed \in SUBSET (Button \cup Key), NEW released \in SUBSET (Button \cup Key)
  PROVE  OneTold(After(told, w, pressed, released), told, w, pressed, released)
  <1> SUFFICES ASSUME NEW v \in Window
               PROVE  After(told, w, pressed, released)[v] =
                        IF v = w THEN (told[v] \cup pressed) \ released ELSE told[v]
    BY DEF OneTold
  <1>1. NoWindow \notin Window
    BY DesktopAssumption
  <1>2. CASE w = NoWindow
    BY <1>1, <1>2 DEF After
  <1>3. CASE w # NoWindow
    <2> DEFINE set == (told[w] \cup pressed) \ released
    <2>1. After(told, w, pressed, released) = [told EXCEPT ![w] = set]
      BY <1>3 DEF After
    <2> HIDE DEF set
    <2>2. After(told, w, pressed, released)[v] = IF v = w THEN set ELSE told[v]
      BY <2>1
    <2> QED
      BY <2>2 DEF set
  <1> QED
    BY <1>2, <1>3

(* A packet tells of the left button what it is: that it is down, or that  *)
(* it no longer is.  The keys it leaves alone.                             *)
LEMMA PacketTells ==
  ASSUME IInv, NEW p, NEW state, Packet(p, state)
  PROVE  /\ \A w \in Window : w # focused' => down'[w] = down[w]
         /\ \A w \in Window : w = focused' =>
              /\ "left" \in down'[w] <=> \/ state[0]
                                         \/ "left" \in down[w] /\ ~ mouse.prevState[0]
              /\ \A k \in Key : k \in down'[w] <=> k \in down[w]
         /\ mouse'.prevState[0] = state[0] /\ mouse'.prevState[0] \in BOOLEAN
         /\ UNCHANGED <<keymap, opened, size, thread>>
  <1>1. /\ focused' \in Window \cup {NoWindow} /\ UNCHANGED size
        /\ down' = Told(focused', Pushed(state), Released(state))
        /\ mouse'.prevState = state /\ UNCHANGED <<keymap, opened, thread>>
        /\ state[0] \in BOOLEAN
    BY MousePacketStep, PacketWalks DEF Packet, IInv, TypeOK, Slot
  <1>2. \A w \in Window : down'[w] =
          IF w = focused' THEN (down[w] \cup Pushed(state)) \ Released(state) ELSE down[w]
    <2>1. down \in [Window -> SUBSET (Button \cup Key)]
      BY DEF IInv, TypeOK
    <2>2. down' = After(down, focused', Pushed(state), Released(state))
      BY <1>1 DEF Told, After
    <2>3. Pushed(state) \in SUBSET (Button \cup Key) /\ Released(state) \in SUBSET (Button \cup Key)
      BY DEF Pushed, Released
    <2> DEFINE new == focused'
    <2>4. new \in Window \cup {NoWindow} /\ down' = After(down, new, Pushed(state), Released(state))
      BY <1>1, <2>2
    <2> HIDE DEF new
    <2>5. OneTold(After(down, new, Pushed(state), Released(state)), down, new,
                  Pushed(state), Released(state))
      BY <2>1, <2>3, <2>4, ToldOne
    <2> QED
      BY <2>4, <2>5 DEF new, OneTold
  <1>3. /\ "left" \in Pushed(state) <=> state[0]
        /\ "left" \in Released(state) <=> ~ state[0] /\ mouse.prevState[0]
        /\ \A k \in Key : k \notin Pushed(state) /\ k \notin Released(state)
    BY DesktopAssumption DEF Pushed, Released, Button, Stored, Tested
  <1> QED
    BY <1>1, <1>2, <1>3

(* The code of a key tells what has become of this key.                    *)
LEMMA KeyTells ==
  ASSUME IInv, NEW k \in Key, NEW make \in BOOLEAN, KeyPress(k, make)
  PROVE  /\ \A w \in Window : w # focused => down'[w] = down[w]
         /\ \A w \in Window : w = focused =>
              /\ \A b : b # k => (b \in down'[w] <=> b \in down[w])
              /\ k \in down'[w] <=> make \/ (k \in down[w] /\ ~ keymap[k].bPressed)
         /\ keymap'[k].bPressed = make
         /\ \A b \in Key : b # k => keymap'[b] = keymap[b]
         /\ UNCHANGED <<focused, mouse, opened, size, thread>>
  <1> DEFINE pressed == IF make THEN {k} ELSE {}
             released == IF ~ make /\ keymap[k].bPressed THEN {k} ELSE {}
  <1>1. /\ keymap' = [keymap EXCEPT ![k] = [bPressed |-> make, bPressedPrev |-> @.bPressed]]
        /\ down' = Told(focused, pressed, released)
        /\ UNCHANGED <<focused, mouse, opened, size, thread>>
    BY DEF KeyPress, listVars
  <1>2. /\ keymap \in [Key -> [bPressed : BOOLEAN, bPressedPrev : BOOLEAN]]
        /\ focused \in Window \cup {NoWindow}
    BY DEF IInv, TypeOK
  <1>3. \A w \in Window : down'[w] =
          IF w = focused THEN (down[w] \cup pressed) \ released ELSE down[w]
    <2> HIDE DEF pressed, released
    <2>1. down \in [Window -> SUBSET (Button \cup Key)]
      BY DEF IInv, TypeOK
    <2>2. down' = After(down, focused, pressed, released)
      BY <1>1 DEF Told, After
    <2>3. pressed \in SUBSET (Button \cup Key) /\ released \in SUBSET (Button \cup Key)
      BY DEF pressed, released
    <2>4. OneTold(After(down, focused, pressed, released), down, focused, pressed, released)
      BY <1>2, <2>1, <2>3, ToldOne
    <2> QED
      BY <2>2, <2>4 DEF OneTold
  <1>4. /\ \A b : b # k => b \notin pressed /\ b \notin released
        /\ k \in pressed <=> make
        /\ k \in released <=> ~ make /\ keymap[k].bPressed
    OBVIOUS
  <1>5. keymap'[k].bPressed = make /\ \A b \in Key : b # k => keymap'[b] = keymap[b]
    BY <1>1, <1>2
  <1> HIDE DEF pressed, released
  <1> QED
    BY <1>1, <1>3, <1>4, <1>5

(* A window that was told the left button is down and lost the focus since *)
(* gets it back with a press only: it was opened before.  One that has it  *)
(* before it is opened, by a click, still has it when it is.               *)
LeftDown(w) == "left" \in down[w]

LeftHeard ==
  /\ focused \in Created(size) \cup {NoWindow}
  /\ \A w \in Window : LeftDown(w) =>
       /\ w \in Created(size)
       /\ w = focused => mouse.prevState[0]
       /\ w \notin Created(opened) => w = focused

(* No window exists and nothing is down before the first press.           *)
LEMMA LeftAtFirst == Init => LeftHeard
  BY DEF Init, LeftHeard, LeftDown

(* What a step of the thread changes of all this: it opens a window and    *)
(* gives it the focus, or only adds one to the list.                       *)
LEMMA ThreadTells ==
  ASSUME IInv, Counted, GraphicsThread
  PROVE  /\ UNCHANGED <<mouse, keymap, down>>
         /\ \/ /\ opened < Len(Opening) /\ size = opened + 1
               /\ focused' = Opening[opened + 1]
               /\ opened' = opened + 1 /\ size' = size
            \/ UNCHANGED <<focused, opened>> /\ size' \in {size, size + 1}
  <1>1. UNCHANGED <<mouse, keymap, down>>
    BY DEF GraphicsThread, CreateWindow, AddWindow, FocusWindow, SortControl, SortStore, inputVars
  <1>2. CASE FocusWindow /\ At("focus")
    <2>1. focused' = Opened /\ opened' = opened + 1 /\ size' = size
      BY <1>2 DEF FocusWindow, At
    <2>2. opened < Len(Opening) /\ size = opened + 1
      BY <1>2, ListTypes DEF At, ThreadOK, Opens, Counted
    <2> QED
      BY <1>1, <2>1, <2>2 DEF Opened
  <1>3. CASE ~ (FocusWindow /\ At("focus"))
    BY <1>1, <1>3 DEF GraphicsThread, CreateWindow, AddWindow, FocusWindow, SortControl, SortStore,
                      listVars
  <1> QED
    BY <1>2, <1>3

(* The thread takes the focus to a window that is not opened yet: if the   *)
(* left button is down for it, it has the focus already.                   *)
LEMMA ThreadLeft ==
  ASSUME Distinct, IInv, Counted, LeftHeard, GraphicsThread
  PROVE  LeftHeard'
  <1>1. size \in Nat /\ opened \in Nat /\ Len(Opening) \in Nat
    BY ListTypes
  <1>2. UNCHANGED <<mouse, down>> /\ \A w \in Window : LeftDown(w)' <=> LeftDown(w)
    BY ThreadTells DEF LeftDown
  <1>3. CASE /\ opened < Len(Opening) /\ size = opened + 1
             /\ focused' = Opening[opened + 1] /\ opened' = opened + 1 /\ size' = size
    <2>1. Created(size)' = Created(size) /\ Created(opened)' = Created(size)
      BY <1>3 DEF Created
    <2>2. focused' \in Created(size)
      BY <1>1, <1>3 DEF Created
    <2>3. focused' \notin Created(opened)
      BY <1>1, <1>3 DEF Created, Distinct
    <2>4. ASSUME NEW w \in Window, LeftDown(w)
          PROVE  /\ w \in Created(size)
                 /\ w = focused' => mouse.prevState[0]
      BY <2>3, <2>4 DEF LeftHeard
    <2> QED
      BY <1>2, <2>1, <2>2, <2>4 DEF LeftHeard
  <1>4. CASE UNCHANGED <<focused, opened>> /\ size' \in {size, size + 1}
    <2>1. Created(opened)' = Created(opened) /\ Created(size) \subseteq Created(size)'
      BY <1>1, <1>4 DEF Created
    <2> QED
      BY <1>2, <1>4, <2>1 DEF LeftHeard
  <1> QED
    BY <1>3, <1>4, ThreadTells

(* A packet takes the focus from a window only as the button goes down:    *)
(* none is left that was told so and is not opened.                        *)
LEMMA PacketLeft ==
  ASSUME IInv, Counted, LeftHeard, NEW p, NEW state, Packet(p, state)
  PROVE  LeftHeard'
  <1>1. /\ UNCHANGED <<opened, size>>
        /\ mouse'.prevState[0] = state[0] /\ mouse'.prevState[0] \in BOOLEAN
        /\ \A w \in Window : w # focused' => (LeftDown(w)' <=> LeftDown(w))
        /\ \A w \in Window : w = focused' =>
             (LeftDown(w)' <=> state[0] \/ (LeftDown(w) /\ ~ mouse.prevState[0]))
    BY PacketTells DEF LeftDown
  <1>2. /\ focused' \in Listed \cup {focused}
        /\ mouse.prevState[0] \/ ~ state[0] => focused' = focused
    BY PacketFocuses
  <1>3. Created(size)' = Created(size) /\ Created(opened)' = Created(opened)
    BY <1>1 DEF Created
  <1>4. focused' \in Created(size) \cup {NoWindow}
    BY <1>2 DEF LeftHeard, Counted
  <1>5. NoWindow \notin Window
    BY DesktopAssumption
  <1>6. ASSUME NEW w \in Window, LeftDown(w)', w = focused'
        PROVE  w \in Created(size) /\ mouse'.prevState[0]
    BY <1>1, <1>2, <1>4, <1>5, <1>6 DEF LeftHeard
  <1>7. ASSUME NEW w \in Window, LeftDown(w)', w # focused'
        PROVE  w \in Created(size) /\ w \in Created(opened)
    BY <1>1, <1>2, <1>7 DEF LeftHeard
  <1>8. \A w \in Window : LeftDown(w)' =>
          /\ w \in Created(size)
          /\ w = focused' => mouse'.prevState[0]
          /\ w \notin Created(opened) => w = focused'
    BY <1>6, <1>7
  <1> QED
    BY <1>3, <1>4, <1>8 DEF LeftHeard

(* Every step keeps what the windows know of the left button.              *)
LEMMA LeftStep ==
  ASSUME Distinct, IInv, Counted, LeftHeard, [Next]_vars
  PROVE  LeftHeard'
  <1>1. CASE GraphicsThread
    BY <1>1, ThreadLeft
  <1>2. ASSUME NEW move \in Moves, NEW held \in Holds, MousePacket(move, held) PROVE LeftHeard'
    BY <1>2, PacketIsOne, PacketLeft
  <1>3. ASSUME NEW k \in Key, NEW make \in BOOLEAN, KeyPress(k, make) PROVE LeftHeard'
    <2>1. UNCHANGED <<focused, mouse, opened, size>>
      BY <1>3, KeyTells
    <2>2. k # "left"
      BY DesktopAssumption
    <2>3. \A w \in Window : LeftDown(w)' <=> LeftDown(w)
      BY <1>3, <2>2, KeyTells DEF LeftDown
    <2> QED
      BY <2>1, <2>3 DEF LeftHeard, Created
  <1>4. CASE UNCHANGED vars
    BY <1>4 DEF vars, listVars, inputVars, LeftHeard, LeftDown, Created
  <1> QED
    BY <1>1, <1>2, <1>3, <1>4 DEF Next

(* After a change of the left button or of a key the window that has the   *)
(* focus knows of it, and what it knows it goes on knowing.                *)
LEMMA HearsStep ==
  ASSUME IInv, Counted, Next, NEW b \in Key \cup {"left"}, focused' # NoWindow,
         (Knows(b) /\ focused' = focused) \/ HeldDown(b)' # HeldDown(b)
  PROVE  Knows(b)'
  <1>1. focused' \in Window
    BY StepHolds DEF IInv, TypeOK
  <1>2. "left" \notin Key /\ Stored["left"] = 0
    BY DesktopAssumption DEF Stored
  <1>3. CASE GraphicsThread
    <2>1. UNCHANGED <<mouse, keymap, down>>
      BY <1>3, ThreadTells
    <2>2. HeldDown(b)' = HeldDown(b)
      BY <2>1 DEF HeldDown
    <2> QED
      BY <2>1, <2>2 DEF Knows
  <1>4. ASSUME NEW p, NEW state, Packet(p, state) PROVE Knows(b)'
    <2> DEFINE w == focused'
    <2>1. /\ "left" \in down'[w] <=> \/ state[0]
                                     \/ "left" \in down[w] /\ ~ mouse.prevState[0]
          /\ \A k \in Key : k \in down'[w] <=> k \in down[w]
          /\ mouse'.prevState[0] = state[0] /\ mouse'.prevState[0] \in BOOLEAN
          /\ UNCHANGED keymap
      BY <1>1, <1>4, PacketTells
    <2>2. CASE b \in Key
      <3>1. HeldDown(b)' = HeldDown(b)
        BY <2>1, <2>2 DEF HeldDown
      <3> QED
        BY <2>1, <2>2, <3>1 DEF Knows
    <2>3. CASE b = "left"
      <3>1. HeldDown(b)' = state[0] /\ HeldDown(b) = mouse.prevState[0]
        BY <1>2, <2>1, <2>3 DEF HeldDown
      <3>2. mouse.prevState[0] \in BOOLEAN /\ state[0] \in BOOLEAN
        BY <2>1 DEF IInv, TypeOK, Slot
      <3>3. CASE state[0] # mouse.prevState[0]
        BY <2>1, <2>3, <3>1, <3>2, <3>3 DEF Knows
      <3>4. CASE state[0] = mouse.prevState[0]
        BY <2>1, <2>3, <3>1, <3>2, <3>4 DEF Knows
      <3> QED
        BY <3>3, <3>4
    <2> QED
      BY <2>2, <2>3
  <1>5. ASSUME NEW move \in Moves, NEW held \in Holds, MousePacket(move, held) PROVE Knows(b)'
    BY <1>4, <1>5, PacketIsOne
  <1>6. ASSUME NEW k \in Key, NEW make \in BOOLEAN, KeyPress(k, make) PROVE Knows(b)'
    <2>1. /\ focused' = focused /\ focused \in Window /\ mouse' = mouse
          /\ keymap'[k].bPressed = make
          /\ \A c \in Key : c # k => keymap'[c] = keymap[c]
          /\ \A c : c # k => (c \in down'[focused] <=> c \in down[focused])
          /\ k \in down'[focused] <=> make \/ (k \in down[focused] /\ ~ keymap[k].bPressed)
      BY <1>1, <1>6, KeyTells
    <2>2. CASE b # k
      <3>1. HeldDown(b)' = HeldDown(b)
        BY <2>1, <2>2 DEF HeldDown
      <3> QED
        BY <2>1, <2>2, <3>1 DEF Knows
    <2>3. CASE b = k
      <3>1. HeldDown(b)' = make /\ HeldDown(b) = keymap[k].bPressed
        BY <2>1, <2>3 DEF HeldDown
      <3>2. keymap[k].bPressed \in BOOLEAN
        BY DEF IInv, TypeOK
      <3>3. CASE make # keymap[k].bPressed
        BY <2>1, <2>3, <3>1, <3>2, <3>3 DEF Knows
      <3>4. CASE make = keymap[k].bPressed
        BY <2>1, <2>3, <3>1, <3>2, <3>4 DEF Knows
      <3> QED
        BY <3>3, <3>4
    <2> QED
      BY <2>2, <2>3
  <1> QED
    BY <1>3, <1>5, <1>6 DEF Next

(* The window that has the focus after a change of the left button or of a *)
(* key hears of it and goes on knowing it while it keeps the focus, and    *)
(* the left button is never down for it after its release, wherever the    *)
(* thread takes the focus while it is held.                                *)
THEOREM FocusedWindowHears ==
  ASSUME RoomForAll, Distinct
  PROVE  Spec => FocusedHears
  <1>1. IInv /\ Counted /\ LeftHeard /\ [Next]_vars => (IInv /\ Counted /\ LeftHeard)'
    BY StepHolds, CountedStep, LeftStep
  <1>2. IInv /\ LeftHeard => (focused # NoWindow /\ "left" \in down[focused] => HeldDown("left"))
    <2> SUFFICES ASSUME IInv, LeftHeard, focused # NoWindow, "left" \in down[focused]
                 PROVE  HeldDown("left")
      OBVIOUS
    <2>1. focused \in Window
      BY DEF IInv, TypeOK
    <2>2. "left" \notin Key /\ Stored["left"] = 0
      BY DesktopAssumption DEF Stored
    <2>3. mouse.prevState[0]
      BY <2>1 DEF LeftHeard, LeftDown
    <2> QED
      BY <2>2, <2>3 DEF HeldDown
  <1>3. IInv /\ Counted /\ [Next]_vars =>
          [\A b \in Key \cup {"left"} :
             /\ focused' # NoWindow
             /\ (Knows(b) /\ focused' = focused) \/ HeldDown(b)' # HeldDown(b)
             => Knows(b)']_vars
    BY HearsStep
  <1> QED
    BY <1>1, <1>2, <1>3, InitHolds, CountedAtFirst, LeftAtFirst, PTL DEF Spec, FocusedHears

=============================================================================
