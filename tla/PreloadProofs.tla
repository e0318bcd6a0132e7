---------------------------- MODULE PreloadProofs ----------------------------
(***************************************************************************)
(* Proofs about the preload, for tables, limits, memories and directories  *)
(* of every size.  The invariant has three layers: the types, what is held *)
(* at each place of the loop (HeapInv), and what has become of the entries *)
(* read so far (AccountInv).                                               *)
(***************************************************************************)
EXTENDS Preload, TLAPS

(***************************************************************************)
(* The entry read last is an entry of the directory.                       *)
(***************************************************************************)
LEMMA EntryType ==
    ASSUME directory \in Directories, NEW i \in DOMAIN directory
    PROVE  /\ i \in 1..MaxEntries
           /\ directory[i].picture \in BOOLEAN
           /\ directory[i].size \in 0..(Word - 1)
<1>1. PICK n \in 0..MaxEntries : directory \in [1..n -> Entries]
    BY DEF Directories
<1>2. i \in 1..n /\ n <= MaxEntries /\ n \in Nat
    BY <1>1, PreloadAssumption
<1>3. directory[i] \in Entries
    BY <1>1, <1>2
<1>4. directory[i].picture \in BOOLEAN /\ directory[i].size \in FileSizes
    BY <1>3 DEF Entries
<1>5. i \in 1..MaxEntries
    BY <1>2, PreloadAssumption
<1>6. directory[i].size \in 0..(Word - 1)
    BY <1>4, PreloadAssumption
<1>7. QED
    BY <1>4, <1>5, <1>6

LEMMA PastTheEnd ==
    ASSUME directory \in Directories, NEW p \in Nat \ {0}, p \notin DOMAIN directory
    PROVE  \A i \in DOMAIN directory : i \in Nat /\ i < p
<1>1. PICK n \in 0..MaxEntries : directory \in [1..n -> Entries]
    BY DEF Directories
<1>2. DOMAIN directory = 1..n /\ n \in Nat
    BY <1>1, PreloadAssumption
<1>3. QED
    BY <1>2

(***************************************************************************)
(* A size that does not look negative is below half a word, and the sum    *)
(* with a total within the limit does not wrap.                            *)
(***************************************************************************)
LEMMA SignedRange ==
    ASSUME NEW n \in 0..(Word - 1)
    PROVE  /\ Signed(n) \in Int
           /\ Signed(n) > 0 => Signed(n) \in 1..(Word - 1) /\ 2 * Signed(n) < Word
BY PreloadAssumption DEF Signed

LEMMA NoWrap ==
    ASSUME NEW t \in Nat, t <= TOTAL_PRELOAD_LIMIT, NEW n \in Nat, 2 * n < Word
    PROVE  (t + n) % Word = t + n
<1>1. t + n \in 0..(Word - 1)
    BY PreloadAssumption
<1>2. Word \in Nat \ {0}
    BY <1>1, PreloadAssumption
<1>3. QED
    BY <1>1, <1>2

-----------------------------------------------------------------------------
(***************************************************************************)
(* Types and what is held, which need each other: the table has room for a *)
(* file being read, and the size of that file keeps to the limit.          *)
(***************************************************************************)
LoopInv == TypeOK /\ HeapInv

LEMMA InitLoop == Init => LoopInv
<1> SUFFICES ASSUME Init
             PROVE  LoopInv
    OBVIOUS
<1>1. 0 \in 0..(Word - 1) /\ 0 \in 0..MAX_IMAGES /\ 1 \in 1..(MaxEntries + 1)
    BY PreloadAssumption
<1>2. TypeOK
    BY <1>1 DEF Init, TypeOK, Places
<1>3. HeapInv
    BY PreloadAssumption DEF Init, HeapInv, InFile, Loading
<1>4. QED
    BY <1>2, <1>3 DEF LoopInv

LEMMA NextLoop == LoopInv /\ [Next]_vars => LoopInv'
<1> SUFFICES ASSUME TypeOK, HeapInv, [Next]_vars
             PROVE  TypeOK' /\ HeapInv'
    BY DEF LoopInv
<1> USE PreloadAssumption DEF HeapInv, TypeOK, Places, InFile, Loading
<1>g. ASSUME NEW freed, GiveUp(freed)
      PROVE  /\ held' \subseteq {"dir", "path", "file", "buffer"}
             /\ place' = "next"
             /\ lost' \subseteq Nat
    <2>1. held' \subseteq {"dir", "path", "file", "buffer"} /\ place' = "next"
        BY <1>g DEF GiveUp
    <2>2. pos - 1 \in Nat
        OBVIOUS
    <2>3. lost' \subseteq Nat
        BY <1>g, <2>2 DEF GiveUp
    <2>4. QED
        BY <2>1, <2>3
<1>1. CASE OpenDir
    <2>1. /\ UNCHANGED <<directory, pos, st_size, total, g_image_count, heap, loaded, lost>>
          /\ place = "opendir" /\ place' \in {"next", "done"}
        BY <1>1 DEF OpenDir
    <2>2. held' \subseteq {"dir", "path", "file", "buffer"}
        BY <1>1 DEF OpenDir
    <2>3. QED
        BY <2>1, <2>2
<1>2. CASE ReadDir
    <2>1. /\ UNCHANGED <<directory, st_size, total, g_image_count, heap, held, loaded, lost>>
          /\ place = "next"
        BY <1>2 DEF ReadDir
    <2>2. CASE pos \in DOMAIN directory
        <3>1. pos \in 1..MaxEntries
            BY <2>2, EntryType
        <3>2. pos' = pos + 1
            BY <1>2, <2>2 DEF ReadDir
        <3>3. pos' \in 1..(MaxEntries + 1) /\ pos' - 1 = pos
            BY <3>1, <3>2
        <3>4. \/ place' \in {"close", "next"}
              \/ place' = "path" /\ ~(g_image_count >= MAX_IMAGES)
            BY <1>2, <2>2 DEF ReadDir
        <3>5. QED
            BY <2>1, <2>2, <3>3, <3>4
    <2>3. CASE pos \notin DOMAIN directory
        <3>1. pos' = pos /\ place' = "close"
            BY <1>2, <2>3 DEF ReadDir
        <3>2. QED
            BY <2>1, <3>1
    <2>4. QED
        BY <2>2, <2>3
<1>3. CASE AllocPath
    <2>1. /\ UNCHANGED <<directory, pos, st_size, total, g_image_count, heap, loaded>>
          /\ place = "path"
        BY <1>3 DEF AllocPath
    <2>2. CASE GiveUp({})
        BY <1>g, <2>1, <2>2
    <2>3. CASE held' = held \cup {"path"} /\ place' = "stat" /\ UNCHANGED lost
        BY <2>1, <2>3
    <2>4. QED
        BY <1>3, <2>2, <2>3 DEF AllocPath
<1>4. CASE Stat
    <2>1. /\ UNCHANGED <<directory, pos, total, g_image_count, heap, loaded>>
          /\ place = "stat"
        BY <1>4 DEF Stat
    <2>2. CASE GiveUp({"path"}) /\ UNCHANGED st_size
        BY <1>g, <2>1, <2>2
    <2>3. CASE /\ Signed(Entry.size) > 0
               /\ st_size' = Signed(Entry.size)
               /\ \/ With(st_size') > TOTAL_PRELOAD_LIMIT /\ place' = "close"
                       /\ held' = held \ {"path"}
                  \/ With(st_size') <= TOTAL_PRELOAD_LIMIT /\ place' = "fopen" /\ UNCHANGED held
               /\ UNCHANGED lost
        <3>1. pos - 1 \in DOMAIN directory
            BY <2>1
        <3>2. st_size' \in 1..(Word - 1) /\ 2 * st_size' < Word
            BY <2>3, <3>1, EntryType, SignedRange DEF Entry
        <3>3. With(st_size') = total + st_size'
            <4>1. total \in Nat /\ total <= TOTAL_PRELOAD_LIMIT /\ st_size' \in Nat
                BY <3>2
            <4>2. QED
                BY <3>2, <4>1, NoWrap DEF With
        <3>4. held' \subseteq {"dir", "path", "file", "buffer"}
            BY <2>3
        <3>5. \/ place' = "close"
              \/ place' = "fopen" /\ total + st_size' <= TOTAL_PRELOAD_LIMIT
            BY <2>3, <3>3
        <3>6. QED
            BY <2>1, <2>3, <3>2, <3>4, <3>5
    <2>4. QED
        BY <1>4, <2>2, <2>3 DEF Stat
<1>5. CASE LoadOpen
    <2>1. /\ UNCHANGED <<directory, pos, st_size, total, g_image_count, heap, loaded>>
          /\ place = "fopen"
        BY <1>5 DEF LoadOpen
    <2>2. CASE GiveUp({"path"})
        BY <1>g, <2>1, <2>2
    <2>3. CASE held' = held \cup {"file"} /\ place' = "malloc" /\ UNCHANGED lost
        BY <2>1, <2>3
    <2>4. QED
        BY <1>5, <2>2, <2>3 DEF LoadOpen
<1>6. CASE LoadAlloc
    <2>1. /\ UNCHANGED <<directory, pos, st_size, total, g_image_count, loaded>>
          /\ place = "malloc"
        BY <1>6 DEF LoadAlloc
    <2>2. CASE GiveUp({"file", "path"}) /\ UNCHANGED heap
        BY <1>g, <2>1, <2>2
    <2>3. CASE /\ heap' = heap + st_size + 1
               /\ held' = held \cup {"buffer"}
               /\ place' = "fread"
               /\ UNCHANGED lost
        BY <2>1, <2>3
    <2>4. QED
        BY <1>6, <2>2, <2>3 DEF LoadAlloc
<1>7. CASE LoadRead
    <2>1. /\ UNCHANGED <<directory, pos, st_size>>
          /\ place = "fread"
        BY <1>7 DEF LoadRead
    <2>2. CASE /\ GiveUp({"buffer", "file", "path"})
               /\ heap' = heap - (st_size + 1)
               /\ UNCHANGED <<total, g_image_count, loaded>>
        <3>1. heap' = total + g_image_count
            BY <2>1, <2>2
        <3>2. QED
            BY <1>g, <2>1, <2>2, <3>1
    <2>3. CASE LoadDone
        <3>1. With(st_size) = total + st_size
            BY <2>1, NoWrap DEF With
        <3>2. total' = total + st_size /\ g_image_count' = g_image_count + 1 /\ place' = "next"
            BY <2>3, <3>1 DEF LoadDone
        <3>3. /\ UNCHANGED <<heap, lost>>
              /\ held' \subseteq {"dir", "path", "file", "buffer"}
              /\ loaded' \subseteq Nat
            BY <2>3 DEF LoadDone
        <3>4. total' \in 0..(Word - 1) /\ g_image_count' \in 0..MAX_IMAGES
            BY <2>1, <3>2
        <3>5. heap' = total' + g_image_count'
            BY <2>1, <3>2, <3>3
        <3>6. QED
            BY <2>1, <3>2, <3>3, <3>4, <3>5
    <2>4. QED
        BY <1>7, <2>2, <2>3 DEF LoadRead
<1>8. CASE CloseDir
    BY <1>8 DEF CloseDir
<1>9. CASE UNCHANGED vars
    BY <1>9 DEF vars
<1>10. QED
    BY <1>1, <1>2, <1>3, <1>4, <1>5, <1>6, <1>7, <1>8, <1>9 DEF Next, Finished

\* Every variable has its type; the table of pictures never overflows.
THEOREM TypeCorrect == Spec => []TypeOK
<1>1. LoopInv => TypeOK
    BY DEF LoopInv
<1>2. QED
    BY <1>1, InitLoop, NextLoop, PTL DEF Spec

\* The limit holds, and the sum that is held against it never wraps.
THEOREM LimitKept == Spec => []WithinLimit
<1>1. LoopInv => WithinLimit
    BY PreloadAssumption DEF LoopInv, TypeOK, Places, HeapInv, InFile, Loading, WithinLimit
<1>2. QED
    BY <1>1, InitLoop, NextLoop, PTL DEF Spec

-----------------------------------------------------------------------------
(***************************************************************************)
(* What is held at each place.                                             *)
(***************************************************************************)
LEMMA InitHeld == Init => HeldInv
BY DEF Init, HeldInv

LEMMA NextHeld == HeldInv /\ [Next]_vars => HeldInv'
<1> SUFFICES ASSUME HeldInv, [Next]_vars
             PROVE  HeldInv'
    OBVIOUS
<1> USE DEF HeldInv
<1>1. CASE OpenDir
    BY <1>1 DEF OpenDir
<1>2. CASE ReadDir
    BY <1>2 DEF ReadDir
<1>3. CASE AllocPath
    BY <1>3 DEF AllocPath, GiveUp
<1>4. CASE Stat
    BY <1>4 DEF Stat, GiveUp
<1>5. CASE LoadOpen
    BY <1>5 DEF LoadOpen, GiveUp
<1>6. CASE LoadAlloc
    BY <1>6 DEF LoadAlloc, GiveUp
<1>7. CASE LoadRead
    BY <1>7 DEF LoadRead, LoadDone, GiveUp
<1>8. CASE CloseDir
    BY <1>8 DEF CloseDir
<1>9. CASE UNCHANGED vars
    BY <1>9 DEF vars
<1>10. QED
    BY <1>1, <1>2, <1>3, <1>4, <1>5, <1>6, <1>7, <1>8, <1>9 DEF Next, Finished

\* No memory, file or directory is left behind, however files fail.
THEOREM LeakFree == Spec => []NothingLeaks
<1>1. TypeOK /\ HeapInv /\ HeldInv => NothingLeaks
    BY DEF TypeOK, HeapInv, HeldInv, NothingLeaks
<1>2. QED
    BY <1>1, InitLoop, NextLoop, InitHeld, NextHeld, PTL DEF Spec, LoopInv

-----------------------------------------------------------------------------
(***************************************************************************)
(* What became of the entries read.                                        *)
(***************************************************************************)
LEMMA InitAccount == Init => AccountInv
BY DEF Init, AccountInv, InFile, Loading

LEMMA NextAccount == LoopInv /\ AccountInv /\ [Next]_vars => AccountInv'
<1> SUFFICES ASSUME TypeOK, HeapInv, AccountInv, [Next]_vars
             PROVE  AccountInv'
    BY DEF LoopInv
<1> USE DEF AccountInv, InFile, Loading, Settled
<1>t. /\ pos \in Nat \ {0} /\ directory \in Directories
      /\ loaded \subseteq Nat /\ lost \subseteq Nat
    BY PreloadAssumption DEF TypeOK
<1>d. \A i \in DOMAIN directory : i \in Nat /\ i > 0
    BY <1>t, EntryType
<1>f. ASSUME place \in InFile, place' = "next", UNCHANGED <<directory, pos>>,
             \/ loaded' = loaded \cup {pos - 1} /\ lost' = lost
             \/ lost' = lost \cup {pos - 1} /\ loaded' = loaded
      PROVE  AccountInv'
    <2>1. (loaded \cup lost)' = loaded \cup lost \cup {pos - 1}
        BY <1>f
    <2>2. \A i \in DOMAIN directory : i < pos => i < pos - 1 \/ i = pos - 1
        BY <1>t, <1>d
    <2>3. Settled(pos)'
        BY <1>f, <2>1, <2>2
    <2>4. \A i \in loaded \cup lost : i < pos
        <3>1. \A i \in loaded \cup lost : i \in Nat /\ i < pos - 1
            BY <1>f, <1>t
        <3>2. QED
            BY <1>t, <3>1
    <2>5. \A i \in (loaded \cup lost)' : i < pos
        <3>1. pos - 1 < pos
            BY <1>t
        <3>2. \A i \in (loaded \cup lost)' : i \in loaded \cup lost \/ i = pos - 1
            BY <2>1, Zenon
        <3>3. QED
            BY <2>4, <3>1, <3>2
    <2>6. QED
        BY <1>f, <2>3, <2>5
<1>1. CASE OpenDir
    <2>1. UNCHANGED <<directory, pos, loaded, lost>> /\ place' \in {"next", "done"}
        BY <1>1 DEF OpenDir
    <2>2. pos = 1 /\ loaded = {} /\ lost = {}
        BY <1>1 DEF OpenDir
    <2>3. QED
        BY <1>d, <2>1, <2>2
<1>2. CASE ReadDir
    <2>1. /\ UNCHANGED <<directory, total, g_image_count, loaded, lost>>
          /\ place = "next"
        BY <1>2 DEF ReadDir
    <2>2. CASE pos \in DOMAIN directory
        <3>1. pos' = pos + 1 /\ pos' - 1 = pos
            BY <1>2, <1>t, <2>2 DEF ReadDir
        <3>2. CASE g_image_count >= MAX_IMAGES
            <4>1. g_image_count' = MAX_IMAGES /\ place' = "close"
                BY <1>2, <2>1, <2>2, <3>2, PreloadAssumption DEF ReadDir, TypeOK
            <4>2. QED
                BY <4>1
        <3>3. CASE g_image_count < MAX_IMAGES /\ directory[pos].picture
            <4>1. place' = "path"
                BY <1>2, <2>2, <3>3, PreloadAssumption DEF ReadDir, TypeOK
            <4>2. QED
                BY <2>1, <3>1, <3>3, <4>1
        <3>4. CASE g_image_count < MAX_IMAGES /\ ~directory[pos].picture
            <4>1. place' = "next"
                BY <1>2, <2>2, <3>4, PreloadAssumption DEF ReadDir, TypeOK
            <4>2. \A i \in DOMAIN directory : i < pos' => i < pos \/ i = pos
                BY <1>t, <1>d, <3>1
            <4>3. Settled(pos)'
                BY <2>1, <3>4, <4>2
            <4>4. \A i \in (loaded \cup lost)' : i < pos'
                BY <1>t, <2>1, <3>1
            <4>5. QED
                BY <4>1, <4>3, <4>4
        <3>5. QED
            BY <3>2, <3>3, <3>4, PreloadAssumption DEF TypeOK
    <2>3. CASE pos \notin DOMAIN directory
        <3>1. pos' = pos /\ place' = "close"
            BY <1>2, <2>3 DEF ReadDir
        <3>2. QED
            BY <2>1, <2>3, <3>1
    <2>4. QED
        BY <2>2, <2>3
<1>3. CASE AllocPath
    <2>1. UNCHANGED <<directory, pos, loaded>> /\ place = "path"
        BY <1>3 DEF AllocPath
    <2>2. CASE GiveUp({})
        BY <1>f, <2>1, <2>2 DEF GiveUp
    <2>3. CASE place' = "stat" /\ UNCHANGED lost
        BY <2>1, <2>3
    <2>4. QED
        BY <1>3, <2>2, <2>3 DEF AllocPath
<1>4. CASE Stat
    <2>1. UNCHANGED <<directory, pos, loaded, total>> /\ place = "stat"
        BY <1>4 DEF Stat
    <2>2. CASE GiveUp({"path"})
        BY <1>f, <2>1, <2>2 DEF GiveUp
    <2>3. CASE place' = "fopen" /\ UNCHANGED lost
        BY <2>1, <2>3
    <2>4. CASE /\ Signed(Entry.size) > 0
               /\ st_size' = Signed(Entry.size)
               /\ With(st_size') > TOTAL_PRELOAD_LIMIT
               /\ place' = "close" /\ UNCHANGED lost
        <3>1. pos - 1 \in DOMAIN directory
            BY <2>1 DEF HeapInv
        <3>2. st_size' \in Nat /\ 2 * st_size' < Word
            BY <1>t, <2>4, <3>1, EntryType, SignedRange, PreloadAssumption DEF Entry
        <3>3. total \in Nat /\ total <= TOTAL_PRELOAD_LIMIT
            BY PreloadAssumption DEF TypeOK, HeapInv
        <3>4. With(st_size') = total + st_size'
            BY <3>2, <3>3, NoWrap DEF With
        <3>5. total + Signed(directory[pos - 1].size) > TOTAL_PRELOAD_LIMIT
            BY <2>4, <3>4 DEF Entry
        <3>6. pos - 1 \notin loaded \cup lost
            BY <1>t, <2>1
        <3>7. QED
            BY <2>1, <2>4, <3>1, <3>5, <3>6 DEF Entry
    <2>5. QED
        BY <1>4, <2>2, <2>3, <2>4 DEF Stat
<1>5. CASE LoadOpen
    <2>1. UNCHANGED <<directory, pos, loaded>> /\ place = "fopen"
        BY <1>5 DEF LoadOpen
    <2>2. CASE GiveUp({"path"})
        BY <1>f, <2>1, <2>2 DEF GiveUp
    <2>3. CASE place' = "malloc" /\ UNCHANGED lost
        BY <2>1, <2>3
    <2>4. QED
        BY <1>5, <2>2, <2>3 DEF LoadOpen
<1>6. CASE LoadAlloc
    <2>1. UNCHANGED <<directory, pos, loaded>> /\ place = "malloc"
        BY <1>6 DEF LoadAlloc
    <2>2. CASE GiveUp({"file", "path"})
        BY <1>f, <2>1, <2>2 DEF GiveUp
    <2>3. CASE place' = "fread" /\ UNCHANGED lost
        BY <2>1, <2>3
    <2>4. QED
        BY <1>6, <2>2, <2>3 DEF LoadAlloc
<1>7. CASE LoadRead
    <2>1. UNCHANGED <<directory, pos>> /\ place = "fread" /\ place' = "next"
        BY <1>7 DEF LoadRead, LoadDone, GiveUp
    <2>2. \/ loaded' = loaded \cup {pos - 1} /\ lost' = lost
          \/ lost' = lost \cup {pos - 1} /\ loaded' = loaded
        BY <1>7 DEF LoadRead, LoadDone, GiveUp
    <2>3. QED
        BY <1>f, <2>1, <2>2
<1>8. CASE CloseDir
    BY <1>8 DEF CloseDir
<1>9. CASE UNCHANGED vars
    BY <1>9 DEF vars
<1>10. QED
    BY <1>1, <1>2, <1>3, <1>4, <1>5, <1>6, <1>7, <1>8, <1>9 DEF Next, Finished

\* No picture is forgotten.
THEOREM AllAccounted == Spec => []NoneForgotten
<1>1. ASSUME TypeOK, AccountInv
      PROVE  NoneForgotten
    <2>1. SUFFICES ASSUME place = "close", Rest # {}, g_image_count < MAX_IMAGES
                   PROVE  \E first \in Rest :
                            /\ \A i \in Rest : first <= i
                            /\ Signed(directory[first].size) > 0
                            /\ total + Signed(directory[first].size) > TOTAL_PRELOAD_LIMIT
        BY DEF NoneForgotten
    <2>2. pos \in Nat \ {0} /\ directory \in Directories
        BY <1>1, PreloadAssumption DEF TypeOK
    <2>3. g_image_count # MAX_IMAGES
        BY <1>1, <2>1, PreloadAssumption DEF TypeOK
    <2>4. ~(pos \notin DOMAIN directory /\ Settled(pos))
        BY <2>1, <2>2, PastTheEnd DEF Settled, Rest
    <2>5. /\ pos - 1 \in DOMAIN directory /\ directory[pos - 1].picture
          /\ Settled(pos - 1) /\ pos - 1 \notin loaded \cup lost
          /\ Signed(directory[pos - 1].size) > 0
          /\ total + Signed(directory[pos - 1].size) > TOTAL_PRELOAD_LIMIT
        BY <1>1, <2>1, <2>3, <2>4 DEF AccountInv
    <2>6. pos - 1 \in Rest
        BY <2>5 DEF Rest
    <2>7. \A i \in Rest : i \in Nat /\ ~(i < pos - 1)
        BY <2>2, <2>5, EntryType DEF Rest, Settled
    <2>8. \A i \in Rest : pos - 1 <= i
        BY <2>2, <2>7
    <2>9. QED
        BY <2>5, <2>6, <2>8
<1>2. QED
    BY <1>1, InitLoop, NextLoop, InitAccount, NextAccount, PTL DEF Spec, LoopInv

-----------------------------------------------------------------------------
(***************************************************************************)
(* The preload of Boot.  Seen from there, a preload opens the directory or *)
(* fails to, adds a picture at a time while the table has room, and ends;  *)
(* the rest of the boot stands still, as the mount has left it.            *)
(***************************************************************************)
sdPlace == IF place = "opendir" THEN "mount" ELSE IF place = "done" THEN "judge" ELSE "preload"

InBoot == INSTANCE Boot WITH
    Faults <- {"opendir"}, SD_MOUNT_RETRIES <- 1,
    ref_cnt <- 1, driver <- TRUE,
    held <- [u \in {"storage", "lcd", "backlight"} |-> IF u = "storage" THEN 1 ELSE 0],
    stage <- "idle", ret <- "ok", spi <- "device", is_mounted <- TRUE, exio <- [cs |-> 0, bl |-> 0],
    app <- "receive", sd <- sdPlace, attempt <- 1, evt <- [ok |-> FALSE, msg |-> ""],
    queue <- <<>>, ui_evt_q <- TRUE, sd_evt <- [ok |-> FALSE, msg |-> ""],
    lvgl_mux <- FALSE, screen <- "blank"

\* The preload of Boot, begun with an empty table after a mount.
BootPreload ==
    /\ sdPlace = "mount" /\ g_image_count = 0
    /\ [][InBoot!SdOpenDir \/ InBoot!SdLoadFile \/ InBoot!SdPreloaded]_<<sdPlace, g_image_count>>

EmptyBefore == place = "opendir" => g_image_count = 0

LEMMA Frozen == UNCHANGED <<InBoot!busVars, InBoot!mountVars, InBoot!queueVars, InBoot!appVars>>
BY DEF InBoot!busVars, InBoot!mountVars, InBoot!queueVars, InBoot!appVars, InBoot!uiVars

LEMMA NextEmptyBefore == EmptyBefore /\ [Next]_vars => EmptyBefore'
BY DEF EmptyBefore, Next, OpenDir, ReadDir, AllocPath, Stat, LoadOpen, LoadAlloc, LoadRead, LoadDone,
       GiveUp, CloseDir, Finished, vars

LEMMA NextInBoot ==
    ASSUME LoopInv, EmptyBefore, [Next]_vars
    PROVE  [InBoot!SdOpenDir \/ InBoot!SdLoadFile \/ InBoot!SdPreloaded]_<<sdPlace, g_image_count>>
<1>1. CASE OpenDir
    <2>1. sdPlace = "mount" /\ g_image_count = 0 /\ UNCHANGED g_image_count
          /\ sdPlace' \in {"preload", "judge"}
        BY <1>1 DEF OpenDir, EmptyBefore, sdPlace
    <2>2. InBoot!SdOpenDir
        BY <2>1, Frozen DEF InBoot!SdOpenDir, InBoot!MayFail
    <2>3. QED
        BY <2>2
<1>2. CASE ReadDir \/ AllocPath \/ Stat \/ LoadOpen \/ LoadAlloc
    <2>1. place \in {"next", "path", "stat", "fopen", "malloc"}
          /\ place' \in {"next", "path", "stat", "fopen", "malloc", "fread", "close"}
          /\ UNCHANGED g_image_count
        BY <1>2 DEF ReadDir, AllocPath, Stat, LoadOpen, LoadAlloc, GiveUp
    <2>2. QED
        BY <2>1 DEF sdPlace
<1>3. CASE LoadRead
    <2>1. place = "fread" /\ place' = "next" /\ g_image_count < MAX_IMAGES
          /\ g_image_count' \in {g_image_count, g_image_count + 1}
        BY <1>3 DEF LoadRead, LoadDone, GiveUp, LoopInv, HeapInv, InFile, Loading
    <2>2. sdPlace = "preload" /\ sdPlace' = sdPlace
        BY <2>1 DEF sdPlace
    <2>3. CASE g_image_count' = g_image_count + 1
        <3>1. InBoot!SdLoadFile
            BY <2>1, <2>2, <2>3, Frozen DEF InBoot!SdLoadFile
        <3>2. QED
            BY <3>1
    <2>4. QED
        BY <2>1, <2>2, <2>3
<1>4. CASE CloseDir
    <2>1. sdPlace = "preload" /\ sdPlace' = "judge" /\ UNCHANGED g_image_count
        BY <1>4 DEF CloseDir, sdPlace
    <2>2. InBoot!SdPreloaded
        BY <2>1, Frozen DEF InBoot!SdPreloaded, InBoot!taskVars
    <2>3. QED
        BY <2>2
<1>5. CASE Finished \/ UNCHANGED vars
    BY <1>5 DEF Finished, vars, sdPlace
<1>6. QED
    BY <1>1, <1>2, <1>3, <1>4, <1>5 DEF Next

\* The preload in detail does nothing the boot does not reckon with: however
\* files fail, it is Boot's three actions.
THEOREM PreloadsForBoot == Spec => BootPreload
<1>1. Init => sdPlace = "mount" /\ g_image_count = 0 /\ EmptyBefore
    BY DEF Init, sdPlace, EmptyBefore
<1>2. LoopInv /\ EmptyBefore /\ [Next]_vars
        => [InBoot!SdOpenDir \/ InBoot!SdLoadFile \/ InBoot!SdPreloaded]_<<sdPlace, g_image_count>>
    BY NextInBoot
<1>3. QED
    BY <1>1, <1>2, InitLoop, NextLoop, NextEmptyBefore, PTL DEF Spec, BootPreload

=============================================================================
