-------------------------- MODULE FlushRotateProofs --------------------------
(***************************************************************************)
(* FlushRotate for every set of areas and colours: the copies go into the  *)
(* hidden buffer, whatever animations do; and, as long as no animation     *)
(* falls due inside a flush, both frame buffers are kept up to date and    *)
(* the display shows each screen whole, when it was handed over.  Behind   *)
(* it, RotateCopy: what one of those copies does.                          *)
(***************************************************************************)
EXTENDS FlushRotate, RotateCopy, TLAPS

\* Which of the two buffers is whose.
Places ==
    /\ task \in {"idle", "again"} =>
          scan = cur /\ (next_fb = cur \/ (next_fb = "NULL" /\ cur = "fb0"))
    /\ task \in {"copy", "other"} => scan = cur /\ next_fb = Toggle(cur)
    /\ task \in {"take", "blocked", "woken"} => next_fb = cur
    /\ task = "woken" => scan = cur

PlacesInv == TypeOK /\ Places

\* Buffer b is right in all areas but those of D.
RightBut(b, D) == \A a \in Areas \ D : fb[b][a] = screen[a]

\* How far LVGL's buffer and the two frame buffers are behind the screen.
Pictures ==
    /\ \A a \in Areas : (task = "idle" /\ a \in dirty) \/ lv[a] = screen[a]
    /\ fb[cur] = handed
    /\ task = "idle" => RightBut(cur, dirty)
    /\ task = "idle" /\ prev_status = "PART" => fb["fb0"] = fb["fb1"]
    /\ task \in {"again", "copy"} => RightBut(cur, dirty_area)
    /\ task \in {"copy", "other"} => RightBut(next_fb, todo)
    /\ task \in {"take", "blocked", "woken"} => RightBut(Toggle(cur), dirty_area)
    /\ task \in {"take", "blocked", "woken", "other"} => handed = screen
    /\ probe_result = "SKIP_COPY" => prev_status = "FULL"

IInv == PlacesInv /\ Pictures


-----------------------------------------------------------------------------
LEMMA ToggleTwo == \A b \in fbs : Toggle(b) \in fbs /\ Toggle(b) # b /\ Toggle(Toggle(b)) = b
BY DEF fbs, Toggle

LEMMA InitTypes == Init => TypeOK
<1> SUFFICES ASSUME Init PROVE TypeOK
    OBVIOUS
<1>1. Nothing \in Contents
    BY DEF Nothing, Contents
<1>2. fb \in [fbs -> Contents] /\ cur \in fbs /\ scan \in fbs
    BY <1>1 DEF Init, fbs
<1>3. QED
    BY <1>1, <1>2 DEF Init, TypeOK

LEMMA NextFbType == TypeOK => NextFrameBuffer \in fbs
BY DEF TypeOK, NextFrameBuffer, Toggle, fbs

LEMMA NextIsOther == next_fb \in fbs => NextFrameBuffer = Toggle(next_fb)
BY DEF NextFrameBuffer, fbs

\* Before a flush the buffer fetched is the hidden one.
LEMMA NextIsHidden ==
    ASSUME cur \in fbs, next_fb = cur \/ (next_fb = "NULL" /\ cur = "fb0")
    PROVE  NextFrameBuffer = Toggle(cur)
BY DEF NextFrameBuffer, Toggle, fbs

LEMMA DrawnType ==
    ASSUME TypeOK, NEW s \in Screens, NEW D
    PROVE  Drawn(s, D) \in Contents
BY DEF TypeOK, Drawn, Screens, Contents

\* Only in its place is next_fb known to be a buffer.
LEMMA NextTypes == PlacesInv /\ [Next]_vars => TypeOK'
<1> SUFFICES ASSUME TypeOK, Places, [Next]_vars
             PROVE  TypeOK'
    BY DEF PlacesInv
<1> USE DEF TypeOK, lvglVars, probeVars, panelVars
<1>1. ASSUME NEW a \in Areas, Change(a)
      PROVE  TypeOK'
    <2>1. screen' \in Screens
        BY <1>1 DEF Change, Screens
    <2>2. QED
        BY <1>1, <2>1 DEF Change
<1>2. CASE Refresh
    <2>1. lv' \in Contents
        BY <1>2, DrawnType DEF Refresh
    <2>2. next_fb' \in fbs \cup {"NULL"} /\ todo' \subseteq Areas /\ task' \in {"again", "copy"}
        BY <1>2, NextFbType DEF Refresh
    <2>3. prev_status' \in {"PART", "FULL"} /\ probe_result' \in {"PART_COPY", "SKIP_COPY", "FULL_COPY"}
        BY <1>2 DEF Refresh, Status, Probe
    <2>4. QED
        BY <1>2, <2>1, <2>2, <2>3 DEF Refresh
<1>3. CASE RefreshNow
    <2>1. screen' \in Screens
        BY <1>3 DEF RefreshNow
    <2>2. lv' \in Contents
        BY <1>3, <2>1, DrawnType DEF RefreshNow
    <2>3. QED
        BY <1>3, <2>1, <2>2, NextFbType DEF RefreshNow
<1>4. ASSUME NEW a \in Areas, Copy(a)
      PROVE  TypeOK'
    <2>1. fb' = [fb EXCEPT ![next_fb] = [fb[next_fb] EXCEPT ![a] = lv[a]]]
        BY <1>4 DEF Copy
    <2>2. next_fb \in fbs => [fb[next_fb] EXCEPT ![a] = lv[a]] \in Contents
        BY DEF Contents
    <2>3. fb' \in [fbs -> Contents]
        BY <2>1, <2>2
    <2>4. QED
        BY <1>4, <2>3 DEF Copy
<1>5. CASE Switch
    <2>1. handed' \in Contents
        BY <1>5 DEF Switch, Screens, Contents
    <2>2. next_fb \in fbs
        BY <1>5, ToggleTwo DEF Switch, Places
    <2>3. QED
        BY <1>5, <2>1, <2>2 DEF Switch
<1>6. CASE WaitVsync
    BY <1>6 DEF WaitVsync
<1>7. CASE Vsync
    BY <1>7 DEF Vsync
<1>8. CASE FlushOther
    BY <1>8, NextFbType DEF FlushOther
<1>9. CASE FlushReady
    BY <1>9, NextFbType DEF FlushReady
<1>10. CASE UNCHANGED vars
    BY <1>10 DEF vars
<1>11. QED
    BY <1>1, <1>2, <1>3, <1>4, <1>5, <1>6, <1>7, <1>8, <1>9, <1>10 DEF Next, TaskRuns

LEMMA InitPlaces == Init => PlacesInv
BY InitTypes DEF Init, PlacesInv, Places

LEMMA NextPlaces == PlacesInv /\ [Next]_vars => PlacesInv'
<1> SUFFICES ASSUME PlacesInv, [Next]_vars
             PROVE  PlacesInv'
    OBVIOUS
<1>0. TypeOK'
    BY NextTypes
<1> SUFFICES Places'
    BY <1>0 DEF PlacesInv
<1> USE DEF PlacesInv, Places, TypeOK, lvglVars, probeVars, panelVars
<1>1. ASSUME NEW a \in Areas, Change(a)
      PROVE  Places'
    BY <1>1 DEF Change
<1>2. CASE Refresh
    <2>1. task = "idle" /\ UNCHANGED <<cur, scan>>
        BY <1>2 DEF Refresh
    <2>2. \/ task' = "again" /\ next_fb' = next_fb
          \/ task' = "copy" /\ next_fb' = NextFrameBuffer
        BY <1>2 DEF Refresh
    <2>3. NextFrameBuffer = Toggle(cur)
        BY <2>1, NextIsHidden
    <2>4. QED
        BY <2>1, <2>2, <2>3
<1>3. CASE RefreshNow
    <2>1. task = "again" /\ task' = "copy" /\ next_fb' = NextFrameBuffer /\ UNCHANGED <<cur, scan>>
        BY <1>3 DEF RefreshNow
    <2>2. NextFrameBuffer = Toggle(cur)
        BY <2>1, NextIsHidden
    <2>3. QED
        BY <2>1, <2>2
<1>4. ASSUME NEW a \in Areas, Copy(a)
      PROVE  Places'
    BY <1>4 DEF Copy
<1>5. CASE Switch
    BY <1>5 DEF Switch
<1>6. CASE WaitVsync
    BY <1>6 DEF WaitVsync
<1>7. CASE Vsync
    BY <1>7 DEF Vsync
<1>8. CASE FlushOther
    <2>1. task' = "other" /\ UNCHANGED <<cur, scan>> /\ task = "woken" /\ next_fb' = NextFrameBuffer
        BY <1>8 DEF FlushOther
    <2>2. next_fb' = Toggle(cur)
        BY <2>1, NextIsOther
    <2>3. QED
        BY <2>1, <2>2
<1>9. CASE FlushReady
    <2>1. task' = "idle" /\ UNCHANGED <<cur, scan>>
        BY <1>9 DEF FlushReady
    <2>2. scan = cur
        BY <1>9 DEF FlushReady
    <2>3. next_fb' = cur
        <3>1. CASE task = "woken"
            BY <1>9, <3>1 DEF FlushReady
        <3>2. CASE task = "other"
            BY <1>9, <3>2, NextIsOther, ToggleTwo DEF FlushReady
        <3>3. QED
            BY <1>9, <3>1, <3>2 DEF FlushReady
    <2>4. QED
        BY <2>1, <2>2, <2>3
<1>10. CASE UNCHANGED vars
    BY <1>10 DEF vars
<1>11. QED
    BY <1>1, <1>2, <1>3, <1>4, <1>5, <1>6, <1>7, <1>8, <1>9, <1>10 DEF Next, TaskRuns

\* Whatever animations do, every variable keeps its type; in particular a frame
\* buffer has been fetched whenever one is copied to or shown.
THEOREM TypeCorrect == Spec => []TypeOK
<1>1. PlacesInv => TypeOK
    BY DEF PlacesInv
<1>2. QED
    BY <1>1, InitPlaces, NextPlaces, PTL DEF Spec

\* The copies of flush_callback() never go into a buffer on the screen or about
\* to be, with or without animations.
THEOREM CopiesHidden == Spec => []WritesHidden
<1>1. PlacesInv => WritesHidden
    BY ToggleTwo DEF PlacesInv, TypeOK, Places, WritesHidden
<1>2. QED
    BY <1>1, InitPlaces, NextPlaces, PTL DEF Spec

-----------------------------------------------------------------------------
(***************************************************************************)
(* The pictures in the buffers, without animations.                        *)
(***************************************************************************)
LEMMA InitPictures == Init => Pictures
BY DEF Init, Pictures, RightBut, fbs

LEMMA NextPictures == ~Animated /\ IInv /\ [Next]_vars => Pictures'
<1> SUFFICES ASSUME ~Animated, IInv, [Next]_vars
             PROVE  Pictures'
    OBVIOUS
<1>q. TypeOK /\ Places /\ Pictures
    BY DEF IInv, PlacesInv
<1> USE DEF lvglVars, probeVars, panelVars
<1>1. ASSUME NEW a \in Areas, Change(a)
      PROVE  Pictures'
    <2>1. \A b \in Areas \ dirty' : screen'[b] = screen[b]
        BY <1>1, <1>q DEF Change, TypeOK, Screens
    <2>2. QED
        BY <1>1, <1>q, <2>1 DEF Change, Pictures, RightBut
<1>2. CASE Refresh
    <2>1. \A a \in Areas : lv'[a] = screen[a]
        BY <1>2, <1>q DEF Refresh, Drawn, Pictures
    <2>2. UNCHANGED <<screen, fb, cur, handed>> /\ dirty_area' = dirty /\ task = "idle"
        BY <1>2 DEF Refresh
    <2>3. RightBut(cur, dirty)
        BY <1>q, <2>2 DEF Pictures
    <2>4. probe_result' = "SKIP_COPY" => prev_status' = "FULL" /\ dirty = Areas
        BY <1>2 DEF Refresh, Status, Probe
    <2>5. ASSUME task' = "copy"
          PROVE  RightBut(next_fb, todo)'
        <3>1. next_fb' = NextFrameBuffer /\ todo' = dirty /\ probe_result' # "FULL_COPY"
            BY <1>2, <2>5 DEF Refresh
        <3>2. next_fb' \in {"fb0", "fb1"}
            BY <3>1, <1>q, NextFbType DEF fbs
        <3>3. CASE dirty = Areas
            BY <3>1, <3>3 DEF RightBut
        <3>4. CASE prev_status = "PART"
            <4>1. fb[next_fb'] = fb[cur]
                BY <1>q, <2>2, <3>2, <3>4 DEF Pictures, TypeOK, fbs
            <4>2. QED
                BY <2>2, <2>3, <3>1, <4>1 DEF RightBut
        <3>5. prev_status = "PART" \/ dirty = Areas
            BY <1>2, <1>q, <3>1 DEF Refresh, Status, Probe, TypeOK
        <3>6. QED
            BY <3>3, <3>4, <3>5
    <2>6. task' \in {"again", "copy"}
        BY <1>2 DEF Refresh
    <2>7. QED
        BY <1>q, <2>1, <2>2, <2>3, <2>4, <2>5, <2>6 DEF Pictures, RightBut
<1>3. CASE RefreshNow
    <2>1. screen' = screen
        BY <1>3 DEF RefreshNow
    <2>2. \A a \in Areas : lv'[a] = screen[a]
        BY <1>3, <2>1 DEF RefreshNow, Drawn
    <2>3. QED
        BY <1>3, <1>q, <2>1, <2>2 DEF RefreshNow, Pictures, RightBut
<1>4. ASSUME NEW a \in Areas, Copy(a)
      PROVE  Pictures'
    <2>1. next_fb \in fbs /\ cur \in fbs /\ next_fb # cur
        BY <1>4, <1>q, ToggleTwo DEF Copy, TypeOK, Places
    <2>2. fb'[cur] = fb[cur] /\ fb'[next_fb] = [fb[next_fb] EXCEPT ![a] = lv[a]]
        BY <1>4, <1>q, <2>1 DEF Copy, TypeOK
    <2>3. fb[next_fb] \in [Areas -> Colors \cup {Black}]
        BY <1>q, <2>1 DEF TypeOK, Contents
    <2>4. lv[a] = screen[a]
        BY <1>4, <1>q DEF Copy, Pictures
    <2>5. \A b \in Areas \ (todo \ {a}) : fb'[next_fb][b] = screen[b]
        BY <1>4, <1>q, <2>2, <2>3, <2>4 DEF Copy, Pictures, RightBut
    <2>6. QED
        BY <1>4, <1>q, <2>2, <2>5 DEF Copy, Pictures, RightBut
<1>5. CASE Switch
    <2>1. next_fb \in fbs /\ cur \in fbs /\ Toggle(next_fb) = cur
        BY <1>5, <1>q, ToggleTwo DEF Switch, TypeOK, Places
    <2>2. \A a \in Areas : fb[next_fb][a] = screen[a]
        BY <1>5, <1>q DEF Switch, Pictures, RightBut
    <2>3. fb[next_fb] = screen
        BY <1>q, <2>1, <2>2 DEF TypeOK, Contents, Screens
    <2>4. QED
        BY <1>5, <1>q, <2>1, <2>3 DEF Switch, Pictures, RightBut
<1>6. CASE WaitVsync
    BY <1>6, <1>q DEF WaitVsync, Pictures, RightBut
<1>7. CASE Vsync
    BY <1>7, <1>q DEF Vsync, Pictures, RightBut
<1>8. CASE FlushOther
    <2>1. next_fb' = Toggle(cur)
        BY <1>8, <1>q DEF FlushOther, NextFrameBuffer, Places, TypeOK, fbs
    <2>2. QED
        BY <1>8, <1>q, <2>1 DEF FlushOther, Pictures, RightBut
<1>9. CASE FlushReady
    <2>1. fb[cur] = screen /\ handed = screen
        BY <1>9, <1>q DEF FlushReady, Pictures
    <2>2. prev_status = "PART" => fb["fb0"] = fb["fb1"]
        <3>1. SUFFICES ASSUME prev_status = "PART" PROVE fb["fb0"] = fb["fb1"]
            OBVIOUS
        <3>2. task = "other" /\ todo = {}
            BY <1>9, <1>q, <3>1 DEF FlushReady, Pictures
        <3>3. next_fb \in fbs /\ cur \in fbs /\ next_fb # cur
            BY <1>q, <3>2, ToggleTwo DEF TypeOK, Places
        <3>4. \A a \in Areas : fb[next_fb][a] = screen[a]
            BY <1>q, <3>2 DEF Pictures, RightBut
        <3>5. fb[next_fb] = screen
            BY <1>q, <3>3, <3>4 DEF TypeOK, Contents, Screens
        <3>6. QED
            BY <2>1, <3>3, <3>5 DEF fbs
    <2>3. QED
        BY <1>9, <1>q, <2>1, <2>2 DEF FlushReady, Pictures, RightBut
<1>10. CASE UNCHANGED vars
    BY <1>10, <1>q DEF vars, Pictures, RightBut
<1>11. QED
    BY <1>1, <1>2, <1>3, <1>4, <1>5, <1>6, <1>7, <1>8, <1>9, <1>10 DEF Next, TaskRuns

LEMMA InitIInv == Init => IInv
BY InitPlaces, InitPictures DEF IInv

LEMMA NextIInv == ~Animated /\ IInv /\ [Next]_vars => IInv'
BY NextPlaces, NextPictures DEF IInv

\* Without animations the copies the code makes are enough: after a flush both
\* frame buffers show the screen, or the hidden one is known to be behind.
THEOREM Agree ==
    ASSUME ~Animated
    PROVE  Spec => []BuffersAgree
<1>1. IInv => BuffersAgree
    BY DEF IInv, PlacesInv, TypeOK, Pictures, BuffersAgree, Toggle, fbs
<1>2. IInv /\ [Next]_vars => IInv'
    BY NextIInv
<1>3. QED
    BY <1>1, <1>2, InitIInv, PTL DEF Spec

-----------------------------------------------------------------------------
(***************************************************************************)
(* The refinement.                                                         *)
(***************************************************************************)
LEMMA InitRefines == Init => Promise!Init
BY DEF Init, Promise!Init, visible, fbs

LEMMA StepRefines == IInv /\ [Next]_vars => [Promise!Next]_(Promise!vars)
<1> SUFFICES ASSUME IInv, [Next]_vars
             PROVE  [Promise!Next]_(Promise!vars)
    OBVIOUS
<1>q. TypeOK /\ Places /\ Pictures
    BY DEF IInv, PlacesInv
<1> USE DEF lvglVars, probeVars, panelVars
<1>1. CASE Switch
    <2>1. handed' \in Screens /\ visible' = visible
        BY <1>1, <1>q DEF Switch, TypeOK, visible
    <2>2. QED
        BY <2>1 DEF Promise!Next, Promise!Hand
<1>2. CASE Vsync
    <2>1. visible' = handed /\ handed' = handed
        BY <1>2, <1>q DEF Vsync, Pictures, visible
    <2>2. QED
        BY <2>1 DEF Promise!Next, Promise!Present
<1>3. ASSUME NEW a \in Areas, Copy(a)
      PROVE  UNCHANGED <<handed, visible>>
    <2>1. next_fb \in fbs /\ scan \in fbs /\ next_fb # scan
        BY <1>3, <1>q, ToggleTwo DEF Copy, TypeOK, Places
    <2>2. QED
        BY <1>3, <1>q, <2>1 DEF Copy, TypeOK, visible
<1>4. ASSUME NEW a \in Areas, Change(a)
      PROVE  UNCHANGED <<handed, visible>>
    BY <1>4 DEF Change, visible
<1>5. CASE Refresh \/ RefreshNow \/ WaitVsync \/ FlushOther \/ FlushReady \/ UNCHANGED vars
    BY <1>5 DEF Refresh, RefreshNow, WaitVsync, FlushOther, FlushReady, vars, visible, Promise!vars
<1>6. QED
    BY <1>1, <1>2, <1>3, <1>4, <1>5 DEF Next, TaskRuns, Promise!vars

\* Without animations, what is seen is always one whole screen that was handed
\* over, for any areas and colours.
THEOREM Refines ==
    ASSUME ~Animated
    PROVE  Spec => Promise!Safety
<1>1. IInv /\ [Next]_vars => IInv'
    BY NextIInv
<1>2. QED
    BY <1>1, InitIInv, InitRefines, StepRefines, PTL DEF Spec, Promise!Safety

-----------------------------------------------------------------------------
(***************************************************************************)
(* Inside a copy: rotate_copy_pixel(), for every size of the screen, every *)
(* rectangle and every rotation.                                           *)
(*                                                                         *)
(* Rows of length k, one after the other, do not overlap and fill n * k    *)
(* places.                                                                 *)
(***************************************************************************)
LEMMA RowsOrdered ==
    ASSUME NEW k \in Nat, NEW a \in Nat, NEW c \in Nat, a < c
    PROVE  a * k + k <= c * k
<1>1. PICK d \in Nat : c = a + 1 + d
  <2>1. c - a - 1 \in Nat /\ c = a + 1 + (c - a - 1)
    OBVIOUS
  <2> QED  BY <2>1
<1>2. c * k = a * k + k + d * k
  BY <1>1
<1>3. d * k \in Nat
  BY <1>1
<1>4. a * k \in Nat /\ c * k \in Nat
  OBVIOUS
<1> QED  BY <1>2, <1>3, <1>4

LEMMA RowMajorInRange ==
    ASSUME NEW n \in Nat, NEW k \in Nat, NEW a \in 0..(n - 1), NEW b \in 0..(k - 1)
    PROVE  a * k + b \in 0..(n * k - 1)
<1>1. a * k + k <= n * k
  BY RowsOrdered
<1>2. a * k \in Nat /\ n * k \in Nat
  OBVIOUS
<1> QED  BY <1>1, <1>2

LEMMA RowMajorInjective ==
    ASSUME NEW k \in Nat,
           NEW a \in Nat, NEW b \in 0..(k - 1),
           NEW c \in Nat, NEW d \in 0..(k - 1),
           a * k + b = c * k + d
    PROVE  a = c /\ b = d
<1>1. a * k \in Nat /\ c * k \in Nat
  OBVIOUS
<1>2. ~ (a < c)
  BY RowsOrdered, <1>1
<1>3. ~ (c < a)
  BY RowsOrdered, <1>1
<1> QED  BY <1>1, <1>2, <1>3

LEMMA QuotientRemainder ==
    ASSUME NEW n \in Nat, NEW k \in Nat, k > 0
    PROVE  /\ n \div k \in Nat
           /\ n % k \in 0..(k - 1)
           /\ n = (n \div k) * k + (n % k)
<1>1. n \div k \in Int /\ n \div k >= 0 /\ n % k \in 0..(k - 1)
  OBVIOUS
<1>2. n = k * (n \div k) + (n % k)
  OBVIOUS
<1>3. k * (n \div k) = (n \div k) * k
  BY <1>1
<1> QED  BY <1>1, <1>2, <1>3

LEMMA RowMajorDivides ==
    ASSUME NEW k \in Nat, k > 0, NEW a \in Nat, NEW b \in 0..(k - 1)
    PROVE  (a * k + b) % k = b /\ (a * k + b) \div k = a
<1> DEFINE n == a * k + b
<1>1. n \in Nat
  <2>1. a * k \in Nat
    OBVIOUS
  <2> QED  BY <2>1
<1>2. PICK q \in Nat, r \in 0..(k - 1) : q = n \div k /\ r = n % k /\ n = q * k + r
  <2> HIDE DEF n
  <2> QED  BY <1>1, QuotientRemainder
<1>3. a * k + b = q * k + r
  BY <1>2
<1>4. a = q /\ b = r
  BY <1>3, RowMajorInjective
<1> QED  BY <1>2, <1>4

(***************************************************************************)
(* The reference in the form the code computes it, and its two properties. *)
(***************************************************************************)
LEMMA DestForm ==
    ASSUME rotation \in {90, 180, 270}, NEW x \in Int, NEW y \in Int
    PROVE  /\ rotation = 90 => Dest(x, y) = (W - 1 - x) * H + y
           /\ rotation = 180 => Dest(x, y) = (H - 1 - y) * W + (W - 1 - x)
           /\ rotation = 270 => Dest(x, y) = x * H + (H - 1 - y)
<1>1. W \in Nat /\ H \in Nat
  BY SizeAssumption
<1>2. W - 1 - (W - 1 - x) = x
  BY <1>1
<1> QED  BY <1>1, <1>2 DEF Dest, Turned, Quarter

LEMMA DestInRange ==
    ASSUME rotation \in {90, 180, 270}, NEW x \in Columns, NEW y \in Rows
    PROVE  Dest(x, y) \in Cells
<1>1. W \in Nat /\ H \in Nat /\ x \in Int /\ y \in Int
  BY SizeAssumption DEF Columns, Rows
<1>2. /\ x \in 0..(W - 1) /\ W - 1 - x \in 0..(W - 1)
      /\ y \in 0..(H - 1) /\ H - 1 - y \in 0..(H - 1)
  BY <1>1 DEF Columns, Rows
<1>3. (W - 1 - x) * H + y \in 0..(W * H - 1)
  BY <1>1, <1>2, RowMajorInRange
<1>4. (H - 1 - y) * W + (W - 1 - x) \in 0..(H * W - 1)
  BY <1>1, <1>2, RowMajorInRange
<1>5. x * H + (H - 1 - y) \in 0..(W * H - 1)
  BY <1>1, <1>2, RowMajorInRange
<1>6. H * W = W * H
  BY <1>1
<1> QED  BY <1>1, <1>3, <1>4, <1>5, <1>6, DestForm DEF Cells

LEMMA DestInjective ==
    ASSUME rotation \in {90, 180, 270},
           NEW x1 \in Columns, NEW y1 \in Rows,
           NEW x2 \in Columns, NEW y2 \in Rows,
           Dest(x1, y1) = Dest(x2, y2)
    PROVE  x1 = x2 /\ y1 = y2
<1>1. /\ W \in Nat /\ H \in Nat
      /\ x1 \in 0..(W - 1) /\ x2 \in 0..(W - 1) /\ y1 \in 0..(H - 1) /\ y2 \in 0..(H - 1)
      /\ x1 \in Int /\ x2 \in Int /\ y1 \in Int /\ y2 \in Int
  BY SizeAssumption DEF Columns, Rows
<1>2. /\ W - 1 - x1 \in 0..(W - 1) /\ W - 1 - x2 \in 0..(W - 1)
      /\ H - 1 - y1 \in 0..(H - 1) /\ H - 1 - y2 \in 0..(H - 1)
      /\ W - 1 - x1 \in Nat /\ W - 1 - x2 \in Nat /\ H - 1 - y1 \in Nat /\ H - 1 - y2 \in Nat
      /\ x1 \in Nat /\ x2 \in Nat
  BY <1>1
<1>3. CASE rotation = 90
  <2>1. (W - 1 - x1) * H + y1 = (W - 1 - x2) * H + y2
    <3>1. Dest(x1, y1) = (W - 1 - x1) * H + y1
      BY <1>1, <1>3, DestForm, Zenon
    <3>2. Dest(x2, y2) = (W - 1 - x2) * H + y2
      BY <1>1, <1>3, DestForm, Zenon
    <3> QED  BY <3>1, <3>2
  <2>2. W - 1 - x1 = W - 1 - x2 /\ y1 = y2
    BY <1>1, <1>2, <2>1, RowMajorInjective
  <2> QED  BY <1>1, <2>2
<1>4. CASE rotation = 180
  <2>1. (H - 1 - y1) * W + (W - 1 - x1) = (H - 1 - y2) * W + (W - 1 - x2)
    <3>1. Dest(x1, y1) = (H - 1 - y1) * W + (W - 1 - x1)
      BY <1>1, <1>4, DestForm, Zenon
    <3>2. Dest(x2, y2) = (H - 1 - y2) * W + (W - 1 - x2)
      BY <1>1, <1>4, DestForm, Zenon
    <3> QED  BY <3>1, <3>2
  <2>2. H - 1 - y1 = H - 1 - y2 /\ W - 1 - x1 = W - 1 - x2
    BY <1>1, <1>2, <2>1, RowMajorInjective
  <2> QED  BY <1>1, <2>2
<1>5. CASE rotation = 270
  <2>1. x1 * H + (H - 1 - y1) = x2 * H + (H - 1 - y2)
    <3>1. Dest(x1, y1) = x1 * H + (H - 1 - y1)
      BY <1>1, <1>5, DestForm, Zenon
    <3>2. Dest(x2, y2) = x2 * H + (H - 1 - y2)
      BY <1>1, <1>5, DestForm, Zenon
    <3> QED  BY <3>1, <3>2
  <2>2. x1 = x2 /\ H - 1 - y1 = H - 1 - y2
    BY <1>1, <1>2, <2>1, RowMajorInjective
  <2> QED  BY <1>1, <2>2
<1> QED  BY <1>3, <1>4, <1>5

LEMMA RowStartIsDest ==
    ASSUME rotation \in {90, 180, 270}, x_start \in Int, NEW y \in Int
    PROVE  RowStart(y) = Dest(x_start, y)
<1>1. W \in Nat /\ H \in Nat
  BY SizeAssumption
<1>2. (H * W - x_start - 1) - y * W = (H - 1 - y) * W + (W - 1 - x_start)
  BY <1>1
<1>3. ((x_start + 1) * H - 1) - y = x_start * H + (H - 1 - y)
  BY <1>1
<1>4. (W - x_start - 1) * H + y = (W - 1 - x_start) * H + y
  BY <1>1
<1>5. CASE rotation = 90
  <2>1. Dest(x_start, y) = (W - 1 - x_start) * H + y
    BY <1>5, DestForm, Zenon
  <2>2. RowStart(y) = (W - x_start - 1) * H + y
    BY <1>5 DEF RowStart
  <2> QED  BY <1>4, <2>1, <2>2
<1>6. CASE rotation = 180
  BY <1>2, <1>6, DestForm DEF RowStart
<1>7. CASE rotation = 270
  BY <1>3, <1>7, DestForm DEF RowStart
<1> QED  BY <1>5, <1>6, <1>7

LEMMA StepIsDest ==
    ASSUME rotation \in {90, 180, 270}, NEW x \in Int, NEW y \in Int
    PROVE  Dest(x + 1, y) = Dest(x, y) + Step
<1>1. W \in Nat /\ H \in Nat /\ x + 1 \in Int
  BY SizeAssumption
<1>2. CASE rotation = 90
  <2>1. Dest(x + 1, y) = (W - 1 - (x + 1)) * H + y /\ Dest(x, y) = (W - 1 - x) * H + y
    BY <1>1, <1>2, DestForm, Zenon
  <2>2. (W - 1 - (x + 1)) * H + y = ((W - 1 - x) * H + y) + (-H)
    BY <1>1
  <2> QED  BY <1>2, <2>1, <2>2 DEF Step
<1>3. CASE rotation = 180
  <2>1. /\ Dest(x + 1, y) = (H - 1 - y) * W + (W - 1 - (x + 1))
        /\ Dest(x, y) = (H - 1 - y) * W + (W - 1 - x)
    BY <1>1, <1>3, DestForm, Zenon
  <2>2. (H - 1 - y) * W + (W - 1 - (x + 1)) = ((H - 1 - y) * W + (W - 1 - x)) + (-1)
    BY <1>1
  <2> QED  BY <1>3, <2>1, <2>2 DEF Step
<1>4. CASE rotation = 270
  <2>1. Dest(x + 1, y) = (x + 1) * H + (H - 1 - y) /\ Dest(x, y) = x * H + (H - 1 - y)
    BY <1>1, <1>4, DestForm, Zenon
  <2>2. (x + 1) * H + (H - 1 - y) = (x * H + (H - 1 - y)) + H
    BY <1>1
  <2> QED  BY <1>4, <2>1, <2>2 DEF Step
<1> QED  BY <1>2, <1>3, <1>4

-----------------------------------------------------------------------------
(***************************************************************************)
(* The invariant: the running indices are those of the pixel the loop is   *)
(* at, so that each pixel is read and written inside its buffer.           *)
(***************************************************************************)
LoopInv == CopyTypes /\ IndexInv

LEMMA IndicesInBuffers ==
    ASSUME LoopInv, loop = "pixel", from_x <= x_end
    PROVE  /\ from_x \in Columns /\ from_y \in Rows
           /\ from_index \in Cells /\ to_index \in Cells
<1>1. /\ from_x \in Columns /\ from_y \in Rows
      /\ W \in Nat /\ H \in Nat
      /\ from_index = from_y * W + from_x
      /\ to_index = Dest(from_x, from_y)
      /\ rotation \in {90, 180, 270}
  BY SizeAssumption DEF LoopInv, CopyTypes, IndexInv, Columns, Rows
<1>2. to_index \in Cells
  BY <1>1, DestInRange
<1>3. from_y * W + from_x \in 0..(H * W - 1)
  BY <1>1, RowMajorInRange DEF Columns, Rows
<1>4. H * W = W * H
  BY <1>1
<1> QED  BY <1>1, <1>2, <1>3, <1>4 DEF Cells

LEMMA InitLoop == CopyInit => LoopInv
BY SizeAssumption DEF CopyInit, LoopInv, CopyTypes, IndexInv, Columns, Rows, Cells

LEMMA NextLoop == LoopInv /\ [CopyNext]_copyVars => LoopInv'
<1> SUFFICES ASSUME LoopInv, [CopyNext]_copyVars PROVE LoopInv'
  OBVIOUS
<1> USE SizeAssumption
<1>0. /\ rotation \in {90, 180, 270}
      /\ x_start \in Int /\ x_end \in Int /\ y_start \in Int /\ y_end \in Int
      /\ from_x \in Int /\ from_y \in Int
      /\ W \in Nat /\ H \in Nat
  BY DEF LoopInv, CopyTypes, Columns, Rows
<1>1. CASE StartRow
  <2>1. RowStart(from_y) = Dest(x_start, from_y)
    BY <1>0, RowStartIsDest
  <2>2. Dest(x_start, from_y) \in Int
    <3>1. Dest(x_start, from_y) \in Cells
      BY <1>0, <1>1, DestInRange DEF LoopInv, CopyTypes, IndexInv, StartRow, Columns, Rows
    <3> QED  BY <1>0, <3>1 DEF Cells
  <2>3. Dest(from_x, from_y)' = Dest(x_start, from_y)
    BY <1>1 DEF StartRow, args, Dest, Turned, Quarter
  <2>4. from_y * W + x_start \in Int
    BY <1>0
  <2>5. CopyTypes'
    BY <1>0, <1>1, <2>1, <2>2, <2>4 DEF LoopInv, CopyTypes, StartRow, args, Columns, Rows
  <2>6. IndexInv'
    BY <1>0, <1>1, <2>1, <2>3 DEF LoopInv, CopyTypes, StartRow, args, IndexInv
  <2> QED  BY <2>5, <2>6 DEF LoopInv
<1>2. CASE CopyPixel
  <2>1. loop = "pixel" /\ from_x <= x_end
    BY <1>0, <1>2 DEF CopyPixel
  <2>2. from_index \in Cells /\ to_index \in Cells
    BY <2>1, IndicesInBuffers
  <2>3. to' \in [Cells -> Cells \cup {Old}]
    BY <1>2, <2>2 DEF LoopInv, CopyTypes, CopyPixel
  <2>4. from_index' \in Int /\ to_index' \in Int
    BY <1>0, <1>2, <2>2 DEF CopyPixel, Cells, Step
  <2>5. CopyTypes'
    BY <1>0, <1>2, <2>1, <2>3, <2>4 DEF LoopInv, CopyTypes, CopyPixel, args, Columns, Rows
  <2>6. Dest(from_x, from_y)' = Dest(from_x + 1, from_y)
    BY <1>2 DEF CopyPixel, args, Dest, Turned, Quarter
  <2>7. Dest(from_x + 1, from_y) = Dest(from_x, from_y) + Step
    BY <1>0, StepIsDest
  <2>8. to_index' = Dest(from_x, from_y)'
    BY <1>2, <2>1, <2>6, <2>7 DEF LoopInv, IndexInv, CopyPixel
  <2>9. from_index' = from_y' * W + from_x'
    <3>1. from_index = from_y * W + from_x /\ from_index' = from_index + 1
          /\ from_x' = from_x + 1 /\ from_y' = from_y
      BY <1>2, <2>1 DEF LoopInv, IndexInv, CopyPixel
    <3> QED  BY <1>0, <3>1
  <2>10. IndexInv'
    BY <1>2, <2>1, <2>8, <2>9 DEF LoopInv, IndexInv, CopyPixel, args
  <2> QED  BY <2>5, <2>10 DEF LoopInv
<1>3. CASE EndRow
  BY <1>0, <1>3 DEF LoopInv, CopyTypes, IndexInv, EndRow, args, Columns, Rows
<1>4. CASE UNCHANGED copyVars
  <2>1. CopyTypes'
    BY <1>4 DEF LoopInv, CopyTypes, copyVars, args
  <2>2. Dest(from_x, from_y)' = Dest(from_x, from_y)
    BY <1>4 DEF copyVars, args, Dest, Turned, Quarter
  <2>3. IndexInv'
    BY <1>4, <2>2 DEF LoopInv, IndexInv, copyVars, args
  <2> QED  BY <2>1, <2>3 DEF LoopInv
<1> QED  BY <1>1, <1>2, <1>3, <1>4 DEF CopyNext

LEMMA LoopAlways == CopySpec => []LoopInv
BY InitLoop, NextLoop, PTL DEF CopySpec

\* All variables keep their types, the indices their integers.
THEOREM CopyTypeCorrect == CopySpec => []CopyTypes
<1>1. LoopInv => CopyTypes
  BY DEF LoopInv
<1> QED  BY LoopAlways, <1>1, PTL

\* No pixel is read or written outside its buffer, for any screen, rectangle
\* and rotation.
THEOREM NoOverrun == CopySpec => []InBuffers
<1>1. LoopInv => InBuffers
  BY IndicesInBuffers DEF InBuffers
<1> QED  BY LoopAlways, <1>1, PTL

-----------------------------------------------------------------------------
(***************************************************************************)
(* What is copied: two pixels never meet in the destination.               *)
(***************************************************************************)
LEMMA InitCopied == CopyInit => CopiedTurned
<1> SUFFICES ASSUME CopyInit PROVE CopiedTurned
  OBVIOUS
<1>1. ASSUME NEW x \in Columns, NEW y \in Rows
      PROVE  to[Dest(x, y)] = IF Passed(x, y) THEN y * W + x ELSE Old
  <2>1. ~Passed(x, y)
    BY SizeAssumption DEF CopyInit, Passed, Rows, Columns
  <2>2. Dest(x, y) \in Cells
    BY DestInRange DEF CopyInit
  <2> QED  BY <2>1, <2>2 DEF CopyInit
<1> QED  BY <1>1 DEF CopiedTurned, CopyInit

LEMMA NextCopied == LoopInv /\ CopiedTurned /\ [CopyNext]_copyVars => CopiedTurned'
<1> SUFFICES ASSUME LoopInv, CopiedTurned, [CopyNext]_copyVars PROVE CopiedTurned'
  OBVIOUS
<1>0. LoopInv'
  BY NextLoop
<1>1. rotation' = rotation
  BY DEF CopyNext, StartRow, CopyPixel, EndRow, copyVars, args
<1>2. ASSUME NEW x \in Columns, NEW y \in Rows
      PROVE  to'[Dest(x, y)] = IF Passed(x, y)' THEN y * W + x ELSE Old
  <2>0. /\ x \in Int /\ y \in Int /\ W \in Nat /\ H \in Nat
        /\ x_start \in Int /\ x_end \in Int /\ y_start \in Int /\ y_end \in Int
        /\ from_x \in x_start..(x_end + 1) /\ from_y \in y_start..(y_end + 1)
        /\ from_x \in Int /\ from_y \in Int
        /\ rotation \in {90, 180, 270}
    BY SizeAssumption DEF LoopInv, CopyTypes, Columns, Rows
  <2>1. to[Dest(x, y)] = IF Passed(x, y) THEN y * W + x ELSE Old
    BY DEF CopiedTurned
  <2>2. CASE StartRow
    <3>1. Passed(x, y)' <=> Passed(x, y)
      BY <2>0, <2>2 DEF Passed, StartRow, args
    <3> QED  BY <2>1, <2>2, <3>1 DEF StartRow
  <2>3. CASE EndRow
    <3>1. Passed(x, y)' <=> Passed(x, y)
      BY <2>0, <2>3 DEF Passed, EndRow, args
    <3> QED  BY <2>1, <2>3, <3>1 DEF EndRow
  <2>4. CASE CopyPixel
    <3>1. loop = "pixel" /\ from_x <= x_end /\ from_y <= y_end
      BY <2>0, <2>4 DEF CopyPixel, LoopInv, IndexInv
    <3>2. /\ from_x \in Columns /\ from_y \in Rows
          /\ from_index = from_y * W + from_x
          /\ to_index = Dest(from_x, from_y)
          /\ to_index \in Cells
      BY <3>1, IndicesInBuffers DEF LoopInv, IndexInv
    <3>3. to' = [to EXCEPT ![to_index] = from_index] /\ to \in [Cells -> Cells \cup {Old}]
      BY <2>4 DEF CopyPixel, LoopInv, CopyTypes
    <3>4. Dest(x, y) \in Cells
      BY <2>0, DestInRange
    <3>5. CASE x = from_x /\ y = from_y
      <4>1. to'[Dest(x, y)] = y * W + x
        BY <3>2, <3>3, <3>5
      <4>2. Passed(x, y)'
        BY <2>0, <2>4, <3>1, <3>5 DEF Passed, CopyPixel, args
      <4> QED  BY <4>1, <4>2
    <3>6. CASE ~(x = from_x /\ y = from_y)
      <4>1. Dest(x, y) # to_index
        BY <2>0, <3>2, <3>6, DestInjective
      <4>2. to'[Dest(x, y)] = to[Dest(x, y)]
        BY <3>3, <3>4, <4>1
      <4>3. Passed(x, y)' <=> Passed(x, y)
        BY <2>0, <2>4, <3>1, <3>6 DEF Passed, CopyPixel, args
      <4> QED  BY <2>1, <4>2, <4>3
    <3> QED  BY <3>5, <3>6
  <2>5. CASE UNCHANGED copyVars
    BY <2>1, <2>5 DEF copyVars, args, Passed
  <2> QED  BY <2>2, <2>3, <2>4, <2>5 DEF CopyNext
<1>3. ASSUME NEW x \in Columns, NEW y \in Rows
      PROVE  Dest(x, y)' = Dest(x, y)
  BY <1>1 DEF Dest, Turned, Quarter
<1>4. (loop = "done" => from_y = y_end + 1)'
  BY <1>0 DEF LoopInv, IndexInv
<1> QED  BY <1>2, <1>3, <1>4 DEF CopiedTurned

\* At every moment the destination holds each pixel already passed where the
\* turn puts it, and nothing else has changed.
THEOREM TurnedRight == CopySpec => []CopiedTurned
<1>1. LoopInv /\ LoopInv' /\ CopiedTurned /\ [CopyNext]_copyVars => CopiedTurned'
  BY NextCopied
<1> QED  BY InitCopied, <1>1, LoopAlways, PTL DEF CopySpec

-----------------------------------------------------------------------------
(***************************************************************************)
(* The touch panel reports the column and row of the place written.        *)
(***************************************************************************)
LEMMA WrittenAt ==
    ASSUME LoopInv, loop = "pixel", from_x <= x_end
    PROVE  /\ rotation = 90 => /\ to_index % PanelW = from_y
                               /\ to_index \div PanelW = W - 1 - from_x
           /\ rotation = 180 => /\ to_index % PanelW = W - 1 - from_x
                                /\ to_index \div PanelW = H - 1 - from_y
           /\ rotation = 270 => /\ to_index % PanelW = H - 1 - from_y
                                /\ to_index \div PanelW = from_x
<1>1. /\ W \in Nat /\ H \in Nat /\ W > 0 /\ H > 0
      /\ rotation \in {90, 180, 270}
      /\ from_x \in 0..(W - 1) /\ from_y \in 0..(H - 1)
      /\ to_index = Dest(from_x, from_y)
  BY IndicesInBuffers, SizeAssumption DEF LoopInv, CopyTypes, IndexInv, Columns, Rows
<1>2. /\ from_x \in Int /\ from_y \in Int /\ from_x \in Nat
      /\ W - 1 - from_x \in Nat /\ W - 1 - from_x \in 0..(W - 1)
      /\ H - 1 - from_y \in Nat /\ H - 1 - from_y \in 0..(H - 1)
  BY <1>1
<1>3. CASE rotation = 90
  <2>1. to_index = (W - 1 - from_x) * H + from_y
    BY <1>1, <1>2, <1>3, DestForm, Zenon
  <2>2. /\ ((W - 1 - from_x) * H + from_y) % H = from_y
        /\ ((W - 1 - from_x) * H + from_y) \div H = W - 1 - from_x
    BY <1>1, <1>2, RowMajorDivides
  <2>3. PanelW = H
    BY <1>3 DEF PanelW
  <2> QED  BY <1>3, <2>1, <2>2, <2>3
<1>4. CASE rotation = 180
  <2>1. to_index = (H - 1 - from_y) * W + (W - 1 - from_x) /\ PanelW = W
    BY <1>1, <1>2, <1>4, DestForm, Zenon DEF PanelW
  <2>2. /\ ((H - 1 - from_y) * W + (W - 1 - from_x)) % W = W - 1 - from_x
        /\ ((H - 1 - from_y) * W + (W - 1 - from_x)) \div W = H - 1 - from_y
    BY <1>1, <1>2, RowMajorDivides
  <2> QED  BY <1>4, <2>1, <2>2
<1>5. CASE rotation = 270
  <2>1. to_index = from_x * H + (H - 1 - from_y)
    BY <1>1, <1>2, <1>5, DestForm, Zenon
  <2>2. /\ (from_x * H + (H - 1 - from_y)) % H = H - 1 - from_y
        /\ (from_x * H + (H - 1 - from_y)) \div H = from_x
    BY <1>1, <1>2, RowMajorDivides
  <2>3. PanelW = H
    BY <1>5 DEF PanelW
  <2> QED  BY <1>5, <2>1, <2>2, <2>3
<1> QED  BY <1>1, <1>3, <1>4, <1>5

LEMMA TouchFollows ==
    ASSUME LoopInv
    PROVE  TouchMatchesPicture
<1> SUFFICES ASSUME loop = "pixel", from_x <= x_end
             PROVE  LET t == Touch(to_index % PanelW, to_index \div PanelW)
                    IN  t[1] - from_x \in {0, 1} /\ t[2] - from_y \in {0, 1}
  BY DEF TouchMatchesPicture
<1>1. /\ W \in Nat /\ H \in Nat /\ rotation \in {90, 180, 270}
      /\ from_x \in Int /\ from_y \in Int
  BY SizeAssumption DEF LoopInv, CopyTypes, Columns, Rows
<1>2. CASE rotation = 90
  <2>1. Touch(from_y, W - 1 - from_x) = <<PanelH - (W - 1 - from_x), from_y>> /\ PanelH = W
    BY <1>2 DEF Touch, TouchSetup, PanelH
  <2> QED  BY <1>1, <1>2, <2>1, WrittenAt
<1>3. CASE rotation = 180
  <2>1. /\ Touch(W - 1 - from_x, H - 1 - from_y)
              = <<PanelW - (W - 1 - from_x), PanelH - (H - 1 - from_y)>>
        /\ PanelW = W /\ PanelH = H
    BY <1>3 DEF Touch, TouchSetup, PanelW, PanelH
  <2> QED  BY <1>1, <1>3, <2>1, WrittenAt
<1>4. CASE rotation = 270
  <2>1. Touch(H - 1 - from_y, from_x) = <<from_x, PanelW - (H - 1 - from_y)>> /\ PanelW = H
    BY <1>4 DEF Touch, TouchSetup, PanelW
  <2> QED  BY <1>1, <1>4, <2>1, WrittenAt
<1> QED  BY <1>1, <1>2, <1>3, <1>4

\* A finger on any pixel of the turned picture reaches LVGL as the place LVGL
\* drew it for or the next one, for every screen and every rotation.
THEOREM TouchFollowsPicture == CopySpec => []TouchMatchesPicture
BY LoopAlways, TouchFollows, PTL

=============================================================================
