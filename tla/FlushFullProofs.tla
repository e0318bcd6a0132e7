--------------------------- MODULE FlushFullProofs ---------------------------
(***************************************************************************)
(* FlushFull for every set of areas, of screens and of builds, at any pace *)
(* of LVGL and of the panel: where the buffers are, whatever the order in  *)
(* which the task and the interrupt touch the pointers, as long as they do *)
(* not do it at the same time; and from it that LVGL draws where it cannot *)
(* be seen, and that every undisturbed step keeps the promise of Display.  *)
(***************************************************************************)
EXTENDS FlushFull, TLAPS

Pair == {"fb0", "fb1"}

\* With two buffers LVGL and the panel have one each, but for the first screen.
Swapping ==
    /\ task \in {"idle", "draw", "take", "blocked", "ready"}
    /\ buf_act \in Pair /\ cur \in Pair /\ scan \in Pair
    /\ task \in {"idle", "draw"} =>
          IF handed = Nothing THEN buf_act = cur /\ scan = cur
          ELSE buf_act = Toggle(cur) /\ scan = cur
    /\ task \in {"take", "blocked", "ready"} => buf_act = cur /\ handed # Nothing
    /\ task = "ready" => scan = cur

\* With rotation LVGL has the third buffer, and the panel two.
Copying ==
    /\ task \in {"idle", "draw", "copy"}
    /\ buf_act = "fb2" /\ cur \in Pair /\ scan \in Pair
    /\ task \in {"idle", "draw"} => next_fb = cur \/ (next_fb = "NULL" /\ cur = "fb0")
    /\ task = "copy" => next_fb = Toggle(cur)

\* With three buffers, between two flushes: LVGL has one of its own, until the
\* interrupt has noticed the last flush; the pointers may be in four positions.
Between ==
    task \in {"idle", "draw"} =>
        /\ cur = rgb_next
        /\ buf_act \notin {rgb_last, rgb_next, scan}
        /\ isr = "idle" => scan = rgb_last
        /\ isr # "idle" => scan = rgb_next
        /\ isr \in {"idle", "compare"} =>
              IF rgb_last = rgb_next THEN flush_next \notin {rgb_next, buf_act}
              ELSE flush_next = rgb_next
        /\ isr \in {"free", "last"} => rgb_last # rgb_next /\ isr_next = rgb_next
        /\ isr = "free" => flush_next = rgb_next
        /\ isr = "last" => flush_next = rgb_last

\* During a flush that no interrupt meets.
Within ==
    Flushing =>
        /\ isr = "idle"
        /\ scan = rgb_last
        /\ buf1 = buf_act
        /\ buf_act \notin {rgb_last, rgb_next}
        /\ buf2 \notin {buf_act, rgb_last}
        /\ task \in {"switch", "next"} => flush_next = buf_act
        /\ task \in {"give", "switch"} => cur = rgb_next
        /\ task = "next" => cur = buf_act

Exchanging == task \in {"idle", "draw", "give", "switch", "next"} /\ Between /\ Within

Places ==
    /\ build = "two" => Swapping /\ isr = "idle"
    /\ build = "turned" => Copying /\ isr = "idle"
    /\ build = "three" => task \in {"idle", "draw", "give", "switch", "next"}

\* Histories: only three buffers let flush and interrupt meet.
Histories ==
    /\ build # "three" => ~met
    /\ build = "three" => met \/ Exchanging
    /\ task = "copy" /\ next_fb = scan => early

\* Nothing is not a screen to be drawn.
Begun == task # "idle" => screen \in Screens

PlacesInv == TypeOK /\ Begun /\ Places /\ Histories

Plain(f, s) == \A a \in Areas : f[a] = s

\* Does what is seen count yet?
Counts == build # "two" \/ handed # Nothing

\* What the buffers hold.
Pictures ==
    /\ task = "draw" => \A a \in Areas \ todo : fb[buf_act][a] = screen
    /\ task \in {"copy", "give", "switch"} => Plain(fb[buf_act], screen)
    /\ task = "copy" => \A a \in Areas \ todo : fb[next_fb][a] = screen
    /\ Counts => Plain(fb[cur], handed)
    /\ Counts => \/ task = "copy" /\ next_fb = scan
                 \/ \E s \in Screens \cup {Nothing} : Plain(fb[scan], s)

IInv == PlacesInv /\ (met \/ Pictures)

-----------------------------------------------------------------------------
LEMMA ToggleTwo == \A b \in Pair : Toggle(b) \in Pair /\ Toggle(b) # b /\ Toggle(Toggle(b)) = b
BY DEF Pair, Toggle

LEMMA PairIsPart == Pair \subseteq fbs /\ "fb2" \notin Pair
BY DEF Pair, fbs

LEMMA ThreeBuilds == TypeOK => build \in {"two", "turned", "three"}
BY FullAssumption DEF TypeOK

\* Before a flush the buffer fetched is the one that was not asked for.
LEMMA NextIsOther ==
    ASSUME cur \in Pair, next_fb = cur \/ (next_fb = "NULL" /\ cur = "fb0")
    PROVE  NextFrameBuffer = Toggle(cur)
BY DEF NextFrameBuffer, Toggle, Pair

LEMMA Fixed == [Next]_vars => build' = build
BY DEF Next, TaskRuns, Interrupt, Refresh, Draw, FlushCopy, FlushSwitch, FlushTake, FlushReady,
       FlushNext, FlushShow, TripleTake, TripleGive, TripleSwitch, TripleReady,
       Vsync, IsrCompare, IsrFree, IsrLast, vars

\* A meeting is not forgotten.
LEMMA Remembered == [Next]_vars /\ met => met'
<1> SUFFICES ASSUME [Next]_vars, met PROVE met'
    OBVIOUS
<1>1. CASE TripleTake \/ Vsync
    BY <1>1, Zenon DEF TripleTake, Vsync
<1>2. CASE UNCHANGED met
    BY <1>2
<1>3. TripleTake \/ Vsync \/ UNCHANGED met
    BY DEF Next, TaskRuns, Interrupt, Refresh, Draw, FlushCopy, FlushSwitch, FlushTake, FlushReady,
       FlushNext, FlushShow, TripleGive, TripleSwitch, TripleReady, IsrCompare, IsrFree, IsrLast,
       tripleVars, vars
<1>4. QED
    BY <1>1, <1>2, <1>3, Zenon

-----------------------------------------------------------------------------
LEMMA InitPlaces == Init => PlacesInv
<1> SUFFICES ASSUME Init PROVE PlacesInv
    OBVIOUS
<1>b. build \in {"two", "turned", "three"}
    BY FullAssumption DEF Init
<1>1. buf_act = (IF build = "two" THEN "fb0" ELSE IF build = "turned" THEN "fb2" ELSE "fb1")
    BY <1>b DEF Init
<1>2. {buf_act, cur, scan, buf1, buf2, rgb_last, rgb_next, flush_next, isr_next} \subseteq fbs
    BY <1>1 DEF Init, Buffers, fbs
<1>3. fb \in [fbs -> [Areas -> Screens \cup {Nothing}]]
    BY DEF Init
<1>4. early \in BOOLEAN /\ met \in BOOLEAN /\ ~met
    BY Zenon DEF Init
<1>5. TypeOK
    BY <1>2, <1>3, <1>4 DEF Init, TypeOK
<1>6. build = "two" => Swapping
    BY <1>1 DEF Init, Swapping, Pair
<1>7. build = "turned" => Copying
    BY <1>1 DEF Init, Copying, Pair
<1>8. build = "three" => Exchanging
    BY <1>1 DEF Init, Buffers, Exchanging, Between, Within, Flushing
<1>9. Places
    BY <1>6, <1>7 DEF Init, Places
<1>10. Begun /\ task # "copy"
    BY DEF Init, Begun
<1>11. Histories
    BY <1>4, <1>8, <1>10, Zenon DEF Histories
<1>12. QED
    BY <1>5, <1>9, <1>10, <1>11 DEF PlacesInv

\* A frame buffer has been fetched whenever one is copied to or shown.
LEMMA Fetched == TypeOK /\ Places /\ task = "copy" => next_fb \in Pair /\ build = "turned"
<1> SUFFICES ASSUME TypeOK, Places, task = "copy"
             PROVE  next_fb \in Pair /\ build = "turned"
    OBVIOUS
<1>1. build = "turned"
    BY ThreeBuilds DEF Places, Swapping
<1>2. QED
    BY <1>1, ToggleTwo DEF Places, Copying

\* The histories and the place of the interrupt apart, for they are Boolean.
LEMMA NextHistoryTypes ==
    TypeOK /\ [Next]_vars => early' \in BOOLEAN /\ met' \in BOOLEAN
<1> SUFFICES ASSUME TypeOK, [Next]_vars PROVE early' \in BOOLEAN /\ met' \in BOOLEAN
    OBVIOUS
<1>1. early' = early \/ early' = (scan # cur)
    BY DEF Next, TaskRuns, Interrupt, Refresh, Draw, FlushCopy, FlushSwitch, FlushTake, FlushReady,
       FlushNext, FlushShow, TripleTake, TripleGive, TripleSwitch, TripleReady, Vsync, IsrCompare,
       IsrFree, IsrLast, turnedVars, vars
<1>2. met' = met \/ met' = (met \/ isr # "idle") \/ met' = (met \/ Flushing)
    BY DEF Next, TaskRuns, Interrupt, Refresh, Draw, FlushCopy, FlushSwitch, FlushTake, FlushReady,
       FlushNext, FlushShow, TripleTake, TripleGive, TripleSwitch, TripleReady, Vsync, IsrCompare,
       IsrFree, IsrLast, tripleVars, vars
<1>3. early \in BOOLEAN /\ met \in BOOLEAN
    BY DEF TypeOK
<1>4. early' \in BOOLEAN
    BY <1>1, <1>3, Zenon
<1>5. met' \in BOOLEAN
    BY <1>2, <1>3, Zenon
<1>6. QED
    BY <1>4, <1>5

LEMMA NextTypes == TypeOK /\ Places /\ [Next]_vars => TypeOK'
<1> SUFFICES ASSUME TypeOK, Places, [Next]_vars
             PROVE  TypeOK'
    OBVIOUS
<1> DEFINE Rest == /\ task' \in {"idle", "draw", "take", "blocked", "ready", "copy", "give", "switch", "next"}
                   /\ screen' \in Screens \cup {Nothing}
                   /\ todo' \subseteq Areas
                   /\ {buf_act', cur', scan', buf1', buf2', rgb_last', rgb_next', flush_next', isr_next'} \subseteq fbs
                   /\ fb' \in [fbs -> [Areas -> Screens \cup {Nothing}]]
                   /\ handed' \in Screens \cup {Nothing}
                   /\ next_fb' \in {"NULL", "fb0", "fb1"}
                   /\ isr' \in {"idle", "compare", "free", "last"}
<1>0. SUFFICES Rest
    BY NextHistoryTypes, Fixed DEF TypeOK
<1>q. /\ task \in {"idle", "draw", "take", "blocked", "ready", "copy", "give", "switch", "next"}
      /\ screen \in Screens \cup {Nothing}
      /\ todo \subseteq Areas
      /\ {buf_act, cur, scan, buf1, buf2, rgb_last, rgb_next, flush_next, isr_next} \subseteq fbs
      /\ fb \in [fbs -> [Areas -> Screens \cup {Nothing}]]
      /\ handed \in Screens \cup {Nothing}
      /\ next_fb \in {"NULL", "fb0", "fb1"}
      /\ isr \in {"idle", "compare", "free", "last"}
    BY DEF TypeOK
<1> USE DEF turnedVars, drawBufs, isrVars, tripleVars, vars
<1>1. CASE Refresh
    BY <1>1, <1>q DEF Refresh
<1>2. ASSUME NEW a \in Areas, Draw(a)
      PROVE  Rest
    <2>1. fb' = [fb EXCEPT ![buf_act] = [fb[buf_act] EXCEPT ![a] = screen]]
        BY <1>2 DEF Draw
    <2>2. fb' \in [fbs -> [Areas -> Screens \cup {Nothing}]]
        BY <1>q, <2>1
    <2>3. QED
        BY <1>2, <1>q, <2>2 DEF Draw
<1>3. ASSUME NEW a \in Areas, FlushCopy(a)
      PROVE  Rest
    <2>1. fb' = [fb EXCEPT ![next_fb] = [fb[next_fb] EXCEPT ![a] = fb[buf_act][a]]]
        BY <1>3 DEF FlushCopy
    <2>2. next_fb \in fbs
        BY <1>3, Fetched, PairIsPart DEF FlushCopy
    <2>3. fb[next_fb] \in [Areas -> Screens \cup {Nothing}] /\ fb[buf_act][a] \in Screens \cup {Nothing}
        BY <1>q, <2>2
    <2>4. fb' \in [fbs -> [Areas -> Screens \cup {Nothing}]]
        BY <1>q, <2>1, <2>2, <2>3
    <2>5. QED
        BY <1>3, <1>q, <2>4 DEF FlushCopy
<1>4. CASE FlushSwitch
    BY <1>4, <1>q DEF FlushSwitch
<1>5. CASE FlushTake
    BY <1>5, <1>q DEF FlushTake
<1>6. CASE FlushReady
    BY <1>6, <1>q DEF FlushReady, Toggle, fbs
<1>7. CASE FlushNext
    BY <1>7, <1>q DEF FlushNext, NextFrameBuffer, Toggle
<1>8. CASE FlushShow
    <2>1. next_fb \in fbs
        BY <1>8, Fetched, PairIsPart DEF FlushShow
    <2>2. QED
        BY <1>8, <1>q, <2>1 DEF FlushShow
<1>9. CASE TripleTake
    BY <1>9, <1>q DEF TripleTake
<1>10. CASE TripleGive
    BY <1>10, <1>q DEF TripleGive
<1>11. CASE TripleSwitch
    BY <1>11, <1>q DEF TripleSwitch
<1>12. CASE TripleReady
    BY <1>12, <1>q DEF TripleReady
<1>13. CASE Vsync
    BY <1>13, <1>q DEF Vsync
<1>14. CASE IsrCompare
    BY <1>14, <1>q DEF IsrCompare
<1>15. CASE IsrFree
    BY <1>15, <1>q DEF IsrFree
<1>16. CASE IsrLast
    BY <1>16, <1>q DEF IsrLast
<1>17. CASE UNCHANGED vars
    BY <1>17, <1>q
<1>18. QED
    BY <1>1, <1>2, <1>3, <1>4, <1>5, <1>6, <1>7, <1>8, <1>9, <1>10, <1>11, <1>12, <1>13, <1>14,
       <1>15, <1>16, <1>17 DEF Next, TaskRuns, Interrupt

LEMMA NextBegun == Begun /\ [Next]_vars => Begun'
BY DEF Begun, Drawn, Next, TaskRuns, Interrupt, Refresh, Draw, FlushCopy, FlushSwitch, FlushTake, FlushReady,
       FlushNext, FlushShow, TripleTake, TripleGive, TripleSwitch, TripleReady,
       Vsync, IsrCompare, IsrFree, IsrLast, vars

LEMMA NextSwapping ==
    ASSUME build = "two", isr = "idle", Begun, Swapping, [Next]_vars
    PROVE  Swapping' /\ isr' = "idle"
<1> USE DEF Swapping
<1>1. CASE Refresh
    BY <1>1 DEF Refresh, tripleVars, isrVars
<1>2. ASSUME NEW a \in Areas, Draw(a)
      PROVE  Swapping' /\ isr' = "idle"
    BY <1>2 DEF Draw, tripleVars, isrVars
<1>3. CASE FlushSwitch
    <2>1. handed' # Nothing
        BY <1>3, FullAssumption DEF FlushSwitch, Begun, Drawn
    <2>2. QED
        BY <1>3, <2>1 DEF FlushSwitch, Drawn, tripleVars, isrVars
<1>4. CASE FlushTake
    BY <1>4 DEF FlushTake, tripleVars, isrVars
<1>5. CASE FlushReady
    BY <1>5, ToggleTwo DEF FlushReady, tripleVars, isrVars
<1>6. CASE Vsync
    BY <1>6 DEF Vsync
<1>7. CASE UNCHANGED vars
    BY <1>7 DEF vars, tripleVars, isrVars
<1>8. CASE (\E a \in Areas : FlushCopy(a)) \/ FlushNext \/ FlushShow \/ TripleTake \/ TripleGive
           \/ TripleSwitch \/ TripleReady \/ IsrCompare \/ IsrFree \/ IsrLast
    BY <1>8 DEF FlushCopy, FlushNext, FlushShow, TripleTake, TripleGive, TripleSwitch, TripleReady,
                IsrCompare, IsrFree, IsrLast
<1>9. QED
    BY <1>1, <1>2, <1>3, <1>4, <1>5, <1>6, <1>7, <1>8 DEF Next, TaskRuns, Interrupt

LEMMA NextCopying ==
    ASSUME build = "turned", isr = "idle", Copying, [Next]_vars
    PROVE  Copying' /\ isr' = "idle"
<1> USE DEF Copying
<1>1. CASE Refresh
    BY <1>1 DEF Refresh, turnedVars, tripleVars, isrVars
<1>2. ASSUME NEW a \in Areas, Draw(a) \/ FlushCopy(a)
      PROVE  Copying' /\ isr' = "idle"
    BY <1>2 DEF Draw, FlushCopy, turnedVars, tripleVars, isrVars
<1>3. CASE FlushNext
    <2>1. task = "draw" /\ task' = "copy" /\ next_fb' = NextFrameBuffer
          /\ UNCHANGED <<buf_act, cur, scan, isr>>
        BY <1>3 DEF FlushNext, Drawn, tripleVars, isrVars
    <2>2. NextFrameBuffer = Toggle(cur)
        BY <2>1, NextIsOther
    <2>3. QED
        BY <2>1, <2>2
<1>4. CASE FlushShow
    BY <1>4, ToggleTwo DEF FlushShow, turnedVars, tripleVars, isrVars
<1>5. CASE Vsync
    BY <1>5 DEF Vsync, turnedVars
<1>6. CASE UNCHANGED vars
    BY <1>6 DEF vars, turnedVars, tripleVars, isrVars
<1>7. CASE FlushSwitch \/ FlushTake \/ FlushReady \/ TripleTake \/ TripleGive
           \/ TripleSwitch \/ TripleReady \/ IsrCompare \/ IsrFree \/ IsrLast
    BY <1>7 DEF FlushSwitch, FlushTake, FlushReady, TripleTake, TripleGive, TripleSwitch, TripleReady,
                IsrCompare, IsrFree, IsrLast
<1>8. QED
    BY <1>1, <1>2, <1>3, <1>4, <1>5, <1>6, <1>7 DEF Next, TaskRuns, Interrupt

LEMMA NextTripling ==
    ASSUME build = "three", task \in {"idle", "draw", "give", "switch", "next"}, [Next]_vars
    PROVE  task' \in {"idle", "draw", "give", "switch", "next"}
BY DEF Next, TaskRuns, Interrupt, Refresh, Draw, FlushCopy, FlushSwitch, FlushTake, FlushReady,
       FlushNext, FlushShow, TripleTake, TripleGive, TripleSwitch, TripleReady,
       Vsync, IsrCompare, IsrFree, IsrLast, vars

LEMMA NextPlaces == TypeOK /\ Begun /\ Places /\ [Next]_vars => Places'
<1> SUFFICES ASSUME TypeOK, Begun, Places, [Next]_vars PROVE Places'
    OBVIOUS
<1>1. build' = build /\ build \in {"two", "turned", "three"}
    BY Fixed, ThreeBuilds
<1>2. build = "two" => Swapping' /\ isr' = "idle"
    BY NextSwapping DEF Places
<1>3. build = "turned" => Copying' /\ isr' = "idle"
    BY NextCopying DEF Places
<1>4. build = "three" => task' \in {"idle", "draw", "give", "switch", "next"}
    BY NextTripling DEF Places
<1>5. QED
    BY <1>1, <1>2, <1>3, <1>4, Zenon DEF Places

-----------------------------------------------------------------------------
(***************************************************************************)
(* The exchange of pointers, without a meeting.                            *)
(***************************************************************************)
\* What a step that leaves met FALSE may not be.
LEMMA NoMeeting ==
    ASSUME [Next]_vars, ~met'
    PROVE  /\ TripleTake => isr = "idle"
           /\ Vsync => ~Flushing
<1>1. TripleTake => isr = "idle"
    BY Zenon DEF TripleTake
<1>2. Vsync => ~Flushing
    BY Zenon DEF Vsync
<1>3. QED
    BY <1>1, <1>2

LEMMA NextExchanging ==
    ASSUME TypeOK, build = "three", Exchanging, [Next]_vars,
           TripleTake => isr = "idle", Vsync => ~Flushing
    PROVE  Exchanging'
<1> USE DEF Exchanging, Between, Within, Flushing
<1> USE DEF turnedVars, drawBufs, isrVars, tripleVars
<1>1. CASE Refresh
    BY <1>1 DEF Refresh
<1>2. ASSUME NEW a \in Areas, Draw(a)
      PROVE  Exchanging'
    BY <1>2 DEF Draw
<1>3. CASE TripleTake
    BY <1>3 DEF TripleTake, Drawn
<1>4. CASE TripleGive
    BY <1>4 DEF TripleGive
<1>5. CASE TripleSwitch
    BY <1>5 DEF TripleSwitch
<1>6. CASE TripleReady
    BY <1>6 DEF TripleReady
<1>7. CASE Vsync
    BY <1>7 DEF Vsync
<1>8. CASE IsrCompare
    BY <1>8 DEF IsrCompare, TypeOK
<1>9. CASE IsrFree
    BY <1>9 DEF IsrFree, TypeOK
<1>10. CASE IsrLast
    BY <1>10 DEF IsrLast, TypeOK
<1>11. CASE UNCHANGED vars
    BY <1>11 DEF vars
<1>12. CASE (\E a \in Areas : FlushCopy(a)) \/ FlushSwitch \/ FlushTake \/ FlushReady \/ FlushNext \/ FlushShow
    BY <1>12 DEF FlushCopy, FlushSwitch, FlushTake, FlushReady, FlushNext, FlushShow
<1>13. QED
    BY <1>1, <1>2, <1>3, <1>4, <1>5, <1>6, <1>7, <1>8, <1>9, <1>10, <1>11, <1>12
       DEF Next, TaskRuns, Interrupt

\* Only three buffers make a meeting possible.
LEMMA NeverMet == TypeOK /\ Places /\ build # "three" /\ ~met /\ [Next]_vars => ~met'
<1> SUFFICES ASSUME TypeOK, Places, build # "three", ~met, [Next]_vars PROVE ~met'
    OBVIOUS
<1>1. ~Flushing
    BY ThreeBuilds DEF Places, Swapping, Copying, Flushing
<1>2. CASE Vsync
    BY <1>1, <1>2, Zenon DEF Vsync
<1>3. CASE UNCHANGED met
    BY <1>3
<1>4. ~TripleTake
    BY DEF TripleTake
<1>5. TripleTake \/ Vsync \/ UNCHANGED met
    BY DEF Next, TaskRuns, Interrupt, Refresh, Draw, FlushCopy, FlushSwitch, FlushTake, FlushReady,
       FlushNext, FlushShow, TripleGive, TripleSwitch, TripleReady, IsrCompare, IsrFree, IsrLast,
       tripleVars, vars
<1>6. QED
    BY <1>2, <1>3, <1>4, <1>5, Zenon

\* A copy goes into the buffer on the screen only if its flush began early.
LEMMA NextEarly ==
    TypeOK /\ Places /\ (task = "copy" /\ next_fb = scan => early) /\ [Next]_vars
        => (task = "copy" /\ next_fb = scan => early)'
<1> SUFFICES ASSUME TypeOK, Places, task = "copy" /\ next_fb = scan => early, [Next]_vars,
                    task' = "copy", next_fb' = scan'
             PROVE  early'
    OBVIOUS
<1>1. CASE FlushNext
    <2>1. build = "turned" /\ task = "draw" /\ early' = (scan # cur) /\ next_fb' = NextFrameBuffer /\ scan' = scan
        BY <1>1 DEF FlushNext, Drawn
    <2>2. Copying
        BY <2>1 DEF Places
    <2>3. NextFrameBuffer = Toggle(cur) /\ Toggle(cur) # cur
        BY <2>1, <2>2, NextIsOther, ToggleTwo DEF Copying
    <2>4. scan # cur
        BY <2>1, <2>3
    <2>5. QED
        BY <2>1, <2>4, Zenon
<1>2. CASE Vsync
    <2>1. task = "copy" /\ next_fb' = next_fb /\ scan' = cur
        BY <1>2 DEF Vsync, turnedVars
    <2>2. build = "turned"
        BY <2>1, Fetched
    <2>3. next_fb # cur
        BY <2>1, <2>2, ToggleTwo DEF Places, Copying
    <2>4. QED
        BY <2>1, <2>3
<1>3. CASE ~FlushNext /\ ~Vsync
    <2>1. task = "copy" /\ UNCHANGED <<next_fb, scan, early>>
        BY <1>3 DEF Next, TaskRuns, Interrupt, Refresh, Draw, FlushCopy, FlushSwitch, FlushTake, FlushReady,
           FlushShow, TripleTake, TripleGive, TripleSwitch, TripleReady, IsrCompare, IsrFree, IsrLast,
           turnedVars, vars
    <2>2. early
        BY <2>1
    <2>3. QED
        BY <2>1, <2>2
<1>4. QED
    BY <1>1, <1>2, <1>3

LEMMA NextHistories == PlacesInv /\ [Next]_vars => Histories'
<1> SUFFICES ASSUME PlacesInv, [Next]_vars PROVE Histories'
    OBVIOUS
<1>q. TypeOK /\ Begun /\ Places /\ Histories
    BY DEF PlacesInv
<1>1. build' = build
    BY Fixed
<1>2. build # "three" => ~met'
    BY <1>q, NeverMet, Zenon DEF Histories
<1>3. ASSUME build = "three", ~met' PROVE Exchanging'
    <2>1. ~met
        BY <1>3, Remembered, Zenon
    <2>2. Exchanging
        BY <1>q, <1>3, <2>1, Zenon DEF Histories
    <2>3. (TripleTake => isr = "idle") /\ (Vsync => ~Flushing)
        BY <1>3, NoMeeting, Zenon
    <2>4. QED
        BY <1>q, <1>3, <2>2, <2>3, NextExchanging
<1>4. (task = "copy" /\ next_fb = scan => early)'
    BY <1>q, NextEarly, Zenon DEF Histories
<1>5. QED
    BY <1>1, <1>2, <1>3, <1>4, Zenon DEF Histories

LEMMA NextPlacesInv == PlacesInv /\ [Next]_vars => PlacesInv'
BY NextTypes, NextBegun, NextPlaces, NextHistories DEF PlacesInv

-----------------------------------------------------------------------------
\* Every variable keeps its type, in every build and at any pace; in particular
\* a frame buffer has been fetched whenever one is copied to or shown.
THEOREM TypeCorrect == Spec => []TypeOK
<1>1. PlacesInv => TypeOK
    BY DEF PlacesInv
<1>2. QED
    BY <1>1, InitPlaces, NextPlacesInv, PTL DEF Spec

\* At any pace of the panel, neither LVGL with two buffers or with a rotation nor
\* the turned copy writes where it can be seen, but for the very first screen and
\* for the copy of a flush that began before the last one was on the screen.
THEOREM Hidden == Spec => []WritesHidden
<1>1. PlacesInv => WritesHidden
    <2> SUFFICES ASSUME PlacesInv PROVE WritesHidden
        OBVIOUS
    <2>q. TypeOK /\ Places /\ Histories
        BY DEF PlacesInv
    <2>1. task = "draw" /\ build = "turned" => buf_act \notin {scan, cur}
        BY <2>q, PairIsPart DEF Places, Copying
    <2>2. task = "draw" /\ build = "two" /\ handed # Nothing => buf_act \notin {scan, cur}
        BY <2>q, ToggleTwo DEF Places, Swapping
    <2>3. task = "copy" => next_fb # cur
        BY <2>q, Fetched, ToggleTwo DEF Places, Copying
    <2>4. task = "copy" /\ next_fb = scan => early
        BY <2>q DEF Histories
    <2>5. QED
        BY <2>1, <2>2, <2>3, <2>4, Zenon DEF WritesHidden
<1>2. QED
    BY <1>1, InitPlaces, NextPlacesInv, PTL DEF Spec

\* With three buffers, at any pace of LVGL and of the panel and in every
\* interleaving of the task and the interrupt in which a flush and an interrupt
\* were not under way together, LVGL never draws into a buffer that is on the
\* screen or about to be.
THEOREM RenderFree == Spec => []FreeUnlessMet
<1>1. PlacesInv => FreeUnlessMet
    <2> SUFFICES ASSUME PlacesInv, ~met PROVE RenderBufferFree
        BY DEF FreeUnlessMet
    <2>1. build = "three" => Exchanging
        BY Zenon DEF PlacesInv, Histories
    <2>2. QED
        BY <2>1 DEF Exchanging, Between, RenderBufferFree
<1>2. QED
    BY <1>1, InitPlaces, NextPlacesInv, PTL DEF Spec

-----------------------------------------------------------------------------
(***************************************************************************)
(* The pictures in the buffers.                                            *)
(***************************************************************************)
LEMMA InitPictures == Init => Pictures
<1> SUFFICES ASSUME Init PROVE Pictures
    OBVIOUS
<1>1. Plain(fb["fb0"], Nothing)
    BY DEF Init, fbs, Plain
<1>2. QED
    BY <1>1 DEF Init, Pictures

\* Where what is drawn or copied does not show.
LEMMA Apart ==
    ASSUME PlacesInv, ~met
    PROVE  /\ task = "draw" /\ Counts => buf_act \notin {cur, scan}
           /\ task = "copy" => build = "turned" /\ next_fb \notin {cur, buf_act} /\ next_fb \in fbs
           /\ build = "three" => Exchanging
<1>1. build = "three" => Exchanging
    BY Zenon DEF PlacesInv, Histories
<1>2. TypeOK /\ Places
    BY DEF PlacesInv
<1>3. build \in {"two", "turned", "three"}
    BY <1>2, ThreeBuilds
<1>4. task = "draw" /\ Counts => buf_act \notin {cur, scan}
    <2>1. CASE build = "two"
        BY <1>2, <2>1, ToggleTwo DEF Places, Swapping, Counts
    <2>2. CASE build = "turned"
        BY <1>2, <2>2, PairIsPart DEF Places, Copying
    <2>3. CASE build = "three"
        BY <1>1, <2>3 DEF Exchanging, Between
    <2>4. QED
        BY <1>3, <2>1, <2>2, <2>3
<1>5. task = "copy" => build = "turned" /\ next_fb \notin {cur, buf_act} /\ next_fb \in fbs
    BY <1>2, Fetched, ToggleTwo, PairIsPart DEF Places, Copying
<1>6. QED
    BY <1>1, <1>4, <1>5

LEMMA NextPictures ==
    ASSUME PlacesInv, ~met, Pictures, [Next]_vars, Vsync => ~Flushing
    PROVE  Pictures'
<1>q. TypeOK /\ Begun /\ Places
    BY DEF PlacesInv
<1>p. /\ task = "draw" => \A b \in Areas \ todo : fb[buf_act][b] = screen
      /\ task \in {"copy", "give", "switch"} => Plain(fb[buf_act], screen)
      /\ task = "copy" => \A b \in Areas \ todo : fb[next_fb][b] = screen
      /\ Counts => Plain(fb[cur], handed)
      /\ Counts => \/ task = "copy" /\ next_fb = scan
                   \/ \E s \in Screens \cup {Nothing} : Plain(fb[scan], s)
    BY DEF Pictures
<1>a. /\ task = "draw" /\ Counts => buf_act \notin {cur, scan}
      /\ task = "copy" => build = "turned" /\ next_fb \notin {cur, buf_act} /\ next_fb \in fbs
      /\ build = "three" => Exchanging
    BY Apart
<1>b. build' = build
    BY Fixed
<1>c. ASSUME UNCHANGED handed PROVE Counts' = Counts
    BY <1>b, <1>c DEF Counts
<1> USE DEF turnedVars
<1>1. CASE Refresh
    BY <1>1, <1>p, <1>c DEF Refresh, Pictures, Plain
<1>2. ASSUME NEW a \in Areas, Draw(a)
      PROVE  Pictures'
    <2>0. UNCHANGED <<task, screen, buf_act, cur, scan, handed, next_fb>> /\ task = "draw" /\ todo' = todo \ {a} /\ Counts' = Counts
        BY <1>2, <1>c DEF Draw
    <2>1. fb[buf_act] \in [Areas -> Screens \cup {Nothing}]
        BY <1>q DEF TypeOK
    <2>2. fb'[buf_act] = [fb[buf_act] EXCEPT ![a] = screen]
        BY <1>2, <1>q DEF Draw, TypeOK
    <2>3. ASSUME Counts PROVE fb'[cur] = fb[cur] /\ fb'[scan] = fb[scan]
        <3>1. buf_act \notin {cur, scan}
            BY <1>a, <2>0, <2>3
        <3>2. QED
            BY <1>2, <1>q, <3>1 DEF Draw, TypeOK
    <2>4. \A b \in Areas \ (todo \ {a}) : fb'[buf_act][b] = screen
        BY <1>p, <2>0, <2>1, <2>2
    <2>5. QED
        BY <1>p, <2>0, <2>3, <2>4 DEF Pictures, Plain
<1>3. ASSUME NEW a \in Areas, FlushCopy(a)
      PROVE  Pictures'
    <2>0. UNCHANGED <<task, screen, buf_act, cur, scan, handed, next_fb>> /\ task = "copy" /\ todo' = todo \ {a} /\ Counts' = Counts
        BY <1>3, <1>c DEF FlushCopy
    <2>1. next_fb \notin {cur, buf_act} /\ next_fb \in fbs
        BY <2>0, <1>a
    <2>2. fb[next_fb] \in [Areas -> Screens \cup {Nothing}] /\ fb[buf_act][a] = screen
        BY <1>q, <1>p, <2>0, <2>1 DEF TypeOK, Plain
    <2>3. fb'[next_fb] = [fb[next_fb] EXCEPT ![a] = screen]
        BY <1>3, <1>q, <2>1, <2>2 DEF FlushCopy, TypeOK
    <2>4. fb'[cur] = fb[cur] /\ fb'[buf_act] = fb[buf_act]
        BY <1>3, <1>q, <2>1 DEF FlushCopy, TypeOK
    <2>5. next_fb # scan => fb'[scan] = fb[scan]
        BY <1>3, <1>q, <2>1 DEF FlushCopy, TypeOK
    <2>6. \A b \in Areas \ (todo \ {a}) : fb'[next_fb][b] = screen
        BY <1>p, <2>0, <2>2, <2>3
    <2>7. QED
        BY <1>p, <2>0, <2>4, <2>5, <2>6 DEF Pictures, Plain
<1>4. CASE FlushSwitch
    <2>1. Plain(fb[buf_act], screen) /\ task = "draw" /\ build = "two"
        BY <1>4, <1>p DEF FlushSwitch, Drawn, Plain
    <2>2. screen \in Screens
        BY <2>1, <1>q DEF Begun
    <2>3. \E s \in Screens \cup {Nothing} : Plain(fb[scan], s)
        <3>1. CASE handed = Nothing
            <4>1. scan = buf_act
                BY <1>q, <2>1, <3>1 DEF Places, Swapping
            <4>2. QED
                BY <2>1, <2>2, <4>1
        <3>2. CASE handed # Nothing
            BY <1>p, <2>1, <3>2 DEF Counts
        <3>3. QED
            BY <3>1, <3>2
    <2>4. QED
        BY <1>4, <2>1, <2>3 DEF FlushSwitch, Pictures
<1>5. CASE FlushTake \/ FlushReady
    <2>1. UNCHANGED <<fb, cur, scan, handed>> /\ task \in {"take", "ready"} /\ task' \in {"blocked", "idle"}
        BY <1>5 DEF FlushTake, FlushReady
    <2>2. QED
        BY <1>p, <1>c, <2>1 DEF Pictures
<1>6. CASE FlushNext
    <2>1. Plain(fb[buf_act], screen)
        BY <1>6, <1>p DEF FlushNext, Drawn, Plain
    <2>2. UNCHANGED <<fb, buf_act, screen, cur, scan, handed>> /\ task = "draw" /\ task' = "copy" /\ todo' = Areas
        BY <1>6 DEF FlushNext, Drawn
    <2>3. QED
        BY <1>p, <1>c, <2>1, <2>2 DEF Pictures
<1>7. CASE FlushShow
    <2>1. build = "turned" /\ Counts /\ Counts'
        BY <1>7, <1>a, <1>b DEF FlushShow, Counts
    <2>2. Plain(fb[next_fb], screen) /\ screen \in Screens
        BY <1>7, <1>p, <1>q DEF FlushShow, Plain, Begun
    <2>3. \E s \in Screens \cup {Nothing} : Plain(fb[scan], s)
        BY <1>p, <2>1, <2>2
    <2>4. QED
        BY <1>7, <2>1, <2>2, <2>3 DEF FlushShow, Pictures
<1>8. CASE TripleTake
    <2>1. Plain(fb[buf_act], screen)
        BY <1>8, <1>p DEF TripleTake, Drawn, Plain
    <2>2. UNCHANGED <<fb, buf_act, screen, cur, scan, handed>> /\ task = "draw" /\ task' = "give"
        BY <1>8 DEF TripleTake, Drawn
    <2>3. QED
        BY <1>p, <1>c, <2>1, <2>2 DEF Pictures
<1>9. CASE TripleGive
    BY <1>9, <1>p, <1>c DEF TripleGive, Pictures
<1>10. CASE TripleSwitch
    <2>1. Plain(fb[buf_act], screen) /\ UNCHANGED <<fb, screen, scan>> /\ cur' = buf_act /\ handed' = screen
          /\ task = "switch" /\ task' = "next"
        BY <1>10, <1>p DEF TripleSwitch
    <2>2. Counts
        BY <1>q, <2>1, ThreeBuilds DEF Counts, Places, Swapping
    <2>3. QED
        BY <1>p, <2>1, <2>2 DEF Pictures
<1>11. CASE TripleReady
    <2>1. UNCHANGED <<fb, cur, scan, handed>> /\ task = "next" /\ task' = "idle"
        BY <1>11 DEF TripleReady
    <2>2. QED
        BY <1>p, <1>c, <2>1 DEF Pictures
<1>12. CASE Vsync
    <2>1. handed \in Screens \cup {Nothing}
        BY <1>q DEF TypeOK
    <2>2. UNCHANGED <<fb, buf_act, screen, todo, cur, handed, next_fb>> /\ scan' = cur
          /\ task' = (IF task = "blocked" THEN "ready" ELSE task)
        BY <1>12 DEF Vsync
    <2>3. QED
        BY <1>p, <1>c, <2>1, <2>2 DEF Pictures
<1>13. CASE IsrCompare \/ IsrFree \/ IsrLast \/ UNCHANGED vars
    <2>1. UNCHANGED <<task, screen, todo, buf_act, fb, cur, scan, handed, next_fb>>
        BY <1>13 DEF IsrCompare, IsrFree, IsrLast, vars
    <2>2. QED
        BY <1>p, <1>c, <2>1 DEF Pictures
<1>14. QED
    BY <1>1, <1>2, <1>3, <1>4, <1>5, <1>6, <1>7, <1>8, <1>9, <1>10, <1>11, <1>12, <1>13
       DEF Next, TaskRuns, Interrupt

LEMMA InitIInv == Init => IInv
BY InitPlaces, InitPictures DEF IInv

LEMMA NextIInv == IInv /\ [Next]_vars => IInv'
<1> SUFFICES ASSUME IInv, [Next]_vars PROVE IInv'
    OBVIOUS
<1>1. PlacesInv /\ PlacesInv'
    BY NextPlacesInv DEF IInv
<1>2. ASSUME ~met' PROVE Pictures'
    <2>1. ~met
        BY <1>2, Remembered, Zenon
    <2>2. Pictures
        BY <2>1, Zenon DEF IInv
    <2>3. Vsync => ~Flushing
        BY <1>2, NoMeeting, Zenon
    <2>4. QED
        BY <1>1, <2>1, <2>2, <2>3, NextPictures
<1>3. QED
    BY <1>1, <1>2, Zenon DEF IInv

-----------------------------------------------------------------------------
(***************************************************************************)
(* The promise of the display.                                             *)
(***************************************************************************)
\* A buffer that shows one screen in all areas is seen as that screen.
LEMMA Seen ==
    ASSUME NEW s \in Screens \cup {Nothing}, NEW f, f = [a \in Areas |-> s]
    PROVE  Whole(f) /\ (CHOOSE t \in Screens \cup {Nothing} : f = [a \in Areas |-> t]) = s
<1>1. PICK a \in Areas : TRUE
    BY FullAssumption
<1>2. \A t \in Screens \cup {Nothing} : f = [x \in Areas |-> t] => t = s
    BY <1>1
<1>3. QED
    BY <1>2 DEF Whole

LEMMA InitPromise == Init => Promise!Init
<1> SUFFICES ASSUME Init PROVE Promise!Init
    OBVIOUS
<1>1. fb[scan] = [a \in Areas |-> Nothing]
    BY DEF Init, fbs
<1>2. visible = Nothing
    BY <1>1, Seen DEF visible
<1>3. QED
    BY <1>2 DEF Init, Promise!Init

LEMMA UndisturbedStep ==
    ASSUME PlacesInv, ~met, Pictures, [Next]_vars, ~(task' = "copy" /\ next_fb' = scan')
    PROVE  Promise!Next \/ UNCHANGED Promise!vars
<1>q. TypeOK /\ Begun /\ Places
    BY DEF PlacesInv
<1>p. /\ task = "draw" => \A b \in Areas \ todo : fb[buf_act][b] = screen
      /\ Counts => Plain(fb[cur], handed)
    BY DEF Pictures
<1>a. /\ task = "draw" /\ Counts => buf_act \notin {cur, scan}
      /\ task = "copy" => build = "turned" /\ next_fb \notin {cur, buf_act} /\ next_fb \in fbs
    BY Apart
<1>r. build' = build
    BY Fixed
<1>0. ASSUME UNCHANGED handed, fb'[scan'] = fb[scan]
      PROVE  UNCHANGED <<handed, visible>>
    BY <1>0, <1>r DEF visible, Whole
<1>1. CASE FlushSwitch
    <2>1. /\ screen \in Screens /\ handed' = screen /\ handed' # Nothing
          /\ build = "two" /\ task = "draw" /\ todo = {} /\ UNCHANGED <<fb, scan>>
        BY <1>1, <1>q, FullAssumption DEF FlushSwitch, Drawn, Begun
    <2>2. CASE handed = Nothing
        <3>1. scan = buf_act
            BY <1>q, <2>1, <2>2 DEF Places, Swapping
        <3>2. fb[buf_act] = [a \in Areas |-> screen]
            BY <1>q, <1>p, <2>1 DEF TypeOK
        <3>3. fb'[scan'] = [a \in Areas |-> screen]
            BY <2>1, <3>1, <3>2
        <3>4. visible' = handed'
            BY <2>1, <3>3, Seen DEF visible
        <3>5. QED
            BY <2>1, <3>4 DEF Promise!Next, Promise!Hand
    <2>3. CASE handed # Nothing
        <3>1. visible' = visible
            BY <1>r, <2>1, <2>3 DEF visible, Whole
        <3>2. QED
            BY <2>1, <3>1 DEF Promise!Next, Promise!Hand
    <2>4. QED
        BY <2>2, <2>3
<1>2. CASE FlushShow
    <2>1. screen \in Screens /\ handed' = screen /\ build = "turned" /\ UNCHANGED <<fb, scan>>
        BY <1>2, <1>q, <1>a DEF FlushShow, Begun
    <2>2. visible' = visible
        BY <1>r, <2>1 DEF visible, Whole
    <2>3. QED
        BY <2>1, <2>2 DEF Promise!Next, Promise!Hand
<1>3. CASE TripleSwitch
    <2>1. task = "switch" /\ handed' = screen /\ UNCHANGED <<fb, scan>>
        BY <1>3 DEF TripleSwitch
    <2>2. screen \in Screens /\ build # "two"
        BY <1>q, <2>1 DEF Begun, Places, Swapping
    <2>3. visible' = visible
        BY <1>r, <2>1, <2>2 DEF visible, Whole
    <2>4. QED
        BY <2>1, <2>2, <2>3 DEF Promise!Next, Promise!Hand
<1>4. CASE Vsync
    <2>1. handed' = handed /\ scan' = cur /\ fb' = fb
        BY <1>4 DEF Vsync
    <2>2. CASE ~Counts
        <3>1. visible' = handed
            BY <1>r, <2>1, <2>2 DEF visible, Counts
        <3>2. QED
            BY <2>1, <3>1 DEF Promise!Next, Promise!Present
    <2>3. CASE Counts
        <3>1. handed \in Screens \cup {Nothing} /\ fb[cur] = [a \in Areas |-> handed]
            BY <1>q, <1>p, <2>3 DEF TypeOK, Plain
        <3>2. fb'[scan'] = [a \in Areas |-> handed]
            BY <2>1, <3>1
        <3>3. visible' = handed
            BY <1>r, <2>1, <2>3, <3>1, <3>2, Seen DEF visible, Counts
        <3>4. QED
            BY <2>1, <3>3 DEF Promise!Next, Promise!Present
    <2>4. QED
        BY <2>2, <2>3
<1>5. ASSUME NEW a \in Areas, Draw(a)
      PROVE  UNCHANGED <<handed, visible>>
    <2>1. UNCHANGED <<handed, scan>> /\ task = "draw"
        BY <1>5 DEF Draw
    <2>2. CASE Counts
        <3>1. buf_act # scan
            BY <1>a, <2>1, <2>2
        <3>2. fb'[scan] = fb[scan]
            BY <1>5, <1>q, <3>1 DEF Draw, TypeOK
        <3>3. QED
            BY <1>0, <2>1, <3>2
    <2>3. CASE ~Counts
        BY <1>r, <2>1, <2>3 DEF visible, Counts
    <2>4. QED
        BY <2>2, <2>3
<1>6. ASSUME NEW a \in Areas, FlushCopy(a)
      PROVE  UNCHANGED <<handed, visible>>
    <2>1. UNCHANGED <<handed, scan, task, next_fb>> /\ task = "copy"
        BY <1>6 DEF FlushCopy, turnedVars
    <2>2. next_fb # scan /\ next_fb \in fbs
        BY <2>1, <1>a
    <2>3. fb'[scan] = fb[scan]
        BY <1>6, <1>q, <2>2 DEF FlushCopy, TypeOK
    <2>4. QED
        BY <1>0, <2>1, <2>3
<1>7. CASE Refresh \/ FlushTake \/ FlushReady \/ FlushNext \/ TripleTake \/ TripleGive \/ TripleReady
           \/ IsrCompare \/ IsrFree \/ IsrLast \/ UNCHANGED vars
    <2>1. UNCHANGED <<fb, scan, handed>>
        BY <1>7 DEF Refresh, FlushTake, FlushReady, FlushNext, TripleTake, TripleGive, TripleReady,
                    IsrCompare, IsrFree, IsrLast, vars
    <2>2. UNCHANGED <<handed, visible>>
        BY <1>0, <2>1
    <2>3. QED
        BY <2>2 DEF Promise!vars
<1>8. QED
    BY <1>1, <1>2, <1>3, <1>4, <1>5, <1>6, <1>7 DEF Next, TaskRuns, Interrupt, Promise!vars

LEMMA StepPromise == IInv /\ [Next]_vars => [Promise!Next \/ Disturbed']_(Promise!vars)
<1> SUFFICES ASSUME IInv, [Next]_vars, ~Disturbed'
             PROVE  Promise!Next \/ UNCHANGED Promise!vars
    OBVIOUS
<1>1. ~met' /\ ~(task' = "copy" /\ next_fb' = scan')
    BY Zenon DEF Disturbed
<1>2. ~met
    BY <1>1, Remembered, Zenon
<1>3. PlacesInv /\ Pictures
    BY <1>2, Zenon DEF IInv
<1>4. QED
    BY <1>1, <1>2, <1>3, UndisturbedStep

\* In every build and at any pace, what is seen is one whole screen that was handed
\* over after the other, but for turned copies into the buffer on the screen and for
\* what follows a meeting of flush and interrupt.
THEOREM PromiseKept == Spec => StepsKeepPromise
BY InitIInv, NextIInv, InitPromise, StepPromise, PTL DEF Spec, StepsKeepPromise

\* With two buffers the "but" falls away: the mode implements Display.
THEOREM TwoBuffersKeepPromise ==
    ASSUME Builds = {"two"}
    PROVE  Spec => Promise!Safety
<1>1. PlacesInv => ~Disturbed
    <2> SUFFICES ASSUME PlacesInv PROVE ~Disturbed
        OBVIOUS
    <2>1. build = "two"
        BY DEF PlacesInv, TypeOK
    <2>2. task # "copy"
        BY <2>1 DEF PlacesInv, Places, Swapping
    <2>3. ~met
        BY <2>1 DEF PlacesInv, Histories
    <2>4. QED
        BY <2>2, <2>3, Zenon DEF Disturbed
<1>2. Init => PlacesInv
    BY InitPlaces
<1>3. Spec => []~Disturbed
    BY <1>1, <1>2, NextPlacesInv, PTL DEF Spec
<1>4. IInv /\ [Next]_vars => [Promise!Next \/ Disturbed']_(Promise!vars)
    BY StepPromise
<1>5. ASSUME ~Disturbed', [Promise!Next \/ Disturbed']_(Promise!vars)
      PROVE  [Promise!Next]_(Promise!vars)
    BY <1>5, Zenon
<1>6. QED
    BY <1>3, <1>4, <1>5, InitIInv, NextIInv, InitPromise, PTL DEF Spec, Promise!Safety

=============================================================================
