------------------------------- MODULE Preload -------------------------------
(***************************************************************************)
(* preload_all_images() and load_file_to_psram() (main/main.c): the        *)
(* pictures of a directory are read into memory one after the other, under *)
(* a limit for all of them together.  Each file passes through a path      *)
(* buffer, a stat, an open file and a buffer of its own, and every one of  *)
(* these can fail; whatever was taken for a file that fails has to be      *)
(* given back.                                                             *)
(*                                                                         *)
(* In Boot this is SdOpenDir, any number of SdLoadFile, and SdPreloaded.   *)
(***************************************************************************)
EXTENDS Integers

CONSTANTS
    MAX_IMAGES,             \* size of g_images
    TOTAL_PRELOAD_LIMIT,    \* limit of all sizes together
    Word,                   \* the values of a size_t (2^32 on the chip)
    FileSizes,              \* sizes of files, as the card stores them
    MaxEntries              \* bound: entries of the directory

\* The limit (2^24) is far below the sign bit of a word (2^31).
ASSUME PreloadAssumption ==
    /\ MAX_IMAGES \in Nat \ {0}
    /\ Word \in Nat /\ MaxEntries \in Nat
    /\ TOTAL_PRELOAD_LIMIT \in Nat
    /\ 2 * TOTAL_PRELOAD_LIMIT < Word
    /\ FileSizes \subseteq 0..(Word - 1)

VARIABLES
    directory,      \* the entries of SLIDE_DIR, in the order readdir() gives
    pos,            \* the next entry
    place,          \* where the preload is
    st_size,        \* size of the file at hand
    total,          \* size_t total
    g_image_count,  \* pictures in the table
    heap,           \* external memory in use by picture buffers
    held,           \* what is held: directory, path buffer, file, picture buffer
    loaded, lost    \* history: entries in the table, and given up

vars == <<directory, pos, place, st_size, total, g_image_count, heap, held, loaded, lost>>

Entries == [picture : BOOLEAN, size : FileSizes]
Directories == UNION {[1..n -> Entries] : n \in 0..MaxEntries}

(***************************************************************************)
(* st_size is signed: a file of half a word or more looks negative.        *)
(***************************************************************************)
Signed(n) == IF 2 * n < Word THEN n ELSE n - Word

Entry == directory[pos - 1]     \* the entry last read

-----------------------------------------------------------------------------
OpenDir ==
    /\ place = "opendir"
    /\ \/ held' = {"dir"} /\ place' = "next"
       \/ place' = "done" /\ UNCHANGED held
    /\ UNCHANGED <<directory, pos, st_size, total, g_image_count, heap, loaded, lost>>

\* Mutant of ReadDir: the table is checked one place too late.
ReadDir_MutFull ==
    /\ place = "next"
    /\ \/ /\ pos \in DOMAIN directory
          /\ pos' = pos + 1
          /\ place' = IF g_image_count > MAX_IMAGES THEN "close"
                      ELSE IF directory[pos].picture THEN "path" ELSE "next"
       \/ pos \notin DOMAIN directory /\ place' = "close" /\ UNCHANGED pos
    /\ UNCHANGED <<directory, st_size, total, g_image_count, heap, held, loaded, lost>>

\* Mutant of ReadDir: an entry that is no picture ends the loop.
ReadDir_MutBreak ==
    /\ place = "next"
    /\ \/ /\ pos \in DOMAIN directory
          /\ pos' = pos + 1
          /\ place' = IF g_image_count < MAX_IMAGES /\ directory[pos].picture
                      THEN "path" ELSE "close"
       \/ pos \notin DOMAIN directory /\ place' = "close" /\ UNCHANGED pos
    /\ UNCHANGED <<directory, st_size, total, g_image_count, heap, held, loaded, lost>>

ReadDir ==
    /\ place = "next"
    /\ \/ /\ pos \in DOMAIN directory
          /\ pos' = pos + 1
          /\ place' = IF g_image_count >= MAX_IMAGES THEN "close"
                      ELSE IF directory[pos].picture THEN "path" ELSE "next"
       \/ pos \notin DOMAIN directory /\ place' = "close" /\ UNCHANGED pos
    /\ UNCHANGED <<directory, st_size, total, g_image_count, heap, held, loaded, lost>>

(***************************************************************************)
(* The file at hand is given up, after this error path has given back what *)
(* it says, and the loop goes on.                                          *)
(***************************************************************************)
GiveUp(freed) ==
    /\ held' = held \ freed
    /\ place' = "next"
    /\ lost' = lost \cup {pos - 1}

AllocPath ==
    /\ place = "path"
    /\ \/ held' = held \cup {"path"} /\ place' = "stat" /\ UNCHANGED lost
       \/ GiveUp({})
    /\ UNCHANGED <<directory, pos, st_size, total, g_image_count, heap, loaded>>

\* Mutant of Stat: each file by itself is held against the limit.
Stat_Mut ==
    /\ place = "stat"
    /\ \/ GiveUp({"path"}) /\ UNCHANGED st_size
       \/ /\ Signed(Entry.size) > 0
          /\ st_size' = Signed(Entry.size)
          /\ \/ st_size' > TOTAL_PRELOAD_LIMIT /\ place' = "close" /\ held' = held \ {"path"}
             \/ st_size' <= TOTAL_PRELOAD_LIMIT /\ place' = "fopen" /\ UNCHANGED held
          /\ UNCHANGED lost
    /\ UNCHANGED <<directory, pos, total, g_image_count, heap, loaded>>

(***************************************************************************)
(* A failed stat() and a size that is not positive skip the file, the      *)
(* first one beyond the limit ends the loop.                               *)
(***************************************************************************)
With(n) == (total + n) % Word

Stat ==
    /\ place = "stat"
    /\ \/ GiveUp({"path"}) /\ UNCHANGED st_size
       \/ /\ Signed(Entry.size) > 0
          /\ st_size' = Signed(Entry.size)
          /\ \/ With(st_size') > TOTAL_PRELOAD_LIMIT /\ place' = "close" /\ held' = held \ {"path"}
             \/ With(st_size') <= TOTAL_PRELOAD_LIMIT /\ place' = "fopen" /\ UNCHANGED held
          /\ UNCHANGED lost
    /\ UNCHANGED <<directory, pos, total, g_image_count, heap, loaded>>

\* A file whose length cannot be found is closed again at once.
LoadOpen ==
    /\ place = "fopen"
    /\ \/ held' = held \cup {"file"} /\ place' = "malloc" /\ UNCHANGED lost
       \/ GiveUp({"path"})
    /\ UNCHANGED <<directory, pos, st_size, total, g_image_count, heap, loaded>>

(***************************************************************************)
(* One byte more than the file; memory may be used up or in pieces at any  *)
(* time (the board has less of it than the limit allows for).              *)
(***************************************************************************)
LoadAlloc ==
    /\ place = "malloc"
    /\ \/ /\ heap' = heap + st_size + 1
          /\ held' = held \cup {"buffer"}
          /\ place' = "fread"
          /\ UNCHANGED lost
       \/ GiveUp({"file", "path"}) /\ UNCHANGED heap
    /\ UNCHANGED <<directory, pos, st_size, total, g_image_count, loaded>>

\* The buffer goes to the table, file and path are given back.
LoadDone ==
    /\ total' = With(st_size)
    /\ g_image_count' = g_image_count + 1
    /\ loaded' = loaded \cup {pos - 1}
    /\ held' = held \ {"buffer", "file", "path"}
    /\ place' = "next"
    /\ UNCHANGED <<heap, lost>>

\* Mutant of LoadRead: a short read keeps its buffer.
LoadRead_Mut ==
    /\ place = "fread"
    /\ \/ LoadDone
       \/ GiveUp({"file", "path"}) /\ UNCHANGED <<heap, total, g_image_count, loaded>>
    /\ UNCHANGED <<directory, pos, st_size>>

LoadRead ==
    /\ place = "fread"
    /\ \/ LoadDone
       \/ /\ GiveUp({"buffer", "file", "path"})
          /\ heap' = heap - (st_size + 1)
          /\ UNCHANGED <<total, g_image_count, loaded>>
    /\ UNCHANGED <<directory, pos, st_size>>

CloseDir ==
    /\ place = "close"
    /\ held' = held \ {"dir"}
    /\ place' = "done"
    /\ UNCHANGED <<directory, pos, st_size, total, g_image_count, heap, loaded, lost>>

-----------------------------------------------------------------------------
Init ==
    /\ directory \in Directories
    /\ pos = 1
    /\ place = "opendir"
    /\ st_size = 0
    /\ total = 0
    /\ g_image_count = 0
    /\ heap = 0
    /\ held = {}
    /\ loaded = {} /\ lost = {}

Finished == place = "done" /\ UNCHANGED vars

Next ==
    \/ OpenDir \/ ReadDir \/ AllocPath \/ Stat
    \/ LoadOpen \/ LoadAlloc \/ LoadRead \/ CloseDir
    \/ Finished

Spec == Init /\ [][Next]_vars

-----------------------------------------------------------------------------
Places == {"opendir", "next", "path", "stat", "fopen", "malloc", "fread", "close", "done"}

\* Every variable has its type; g_images is never filled beyond its end
\* (main.c:131, "while ((ent = readdir(dir)) && g_image_count < MAX_IMAGES)").
TypeOK ==
    /\ directory \in Directories
    /\ pos \in 1..(MaxEntries + 1)
    /\ place \in Places
    /\ st_size \in 0..(Word - 1)
    /\ total \in 0..(Word - 1)
    /\ g_image_count \in 0..MAX_IMAGES
    /\ heap \in Nat
    /\ held \subseteq {"dir", "path", "file", "buffer"}
    /\ loaded \subseteq Nat /\ lost \subseteq Nat

\* The pictures never take more than the limit, and the sum that is held
\* against it never wraps, also with files whose size looks negative
\* (main.c:148-156).
WithinLimit ==
    /\ total <= TOTAL_PRELOAD_LIMIT
    /\ heap <= TOTAL_PRELOAD_LIMIT + MAX_IMAGES

\* However a file fails, nothing of it stays behind: between two files the
\* memory in use is that of the pictures in the table and their closing
\* zeros, and only the directory is open, at the end not even that
\* (main.c:67-117, 137-168).
NothingLeaks ==
    /\ place \in {"next", "close", "done"} => heap = total + g_image_count
    /\ place \in {"next", "close"} => held = {"dir"}
    /\ place = "done" => held = {}

\* No picture is forgotten: the preload ends with every picture of the
\* directory in the table or given up, unless the table is full or the first
\* one left out would pass the limit (main.c:131-158).
Rest == {i \in DOMAIN directory : directory[i].picture} \ (loaded \cup lost)
NoneForgotten ==
    place = "close" /\ Rest # {} /\ g_image_count < MAX_IMAGES =>
        \E first \in Rest : /\ \A i \in Rest : first <= i
                           /\ Signed(directory[first].size) > 0
                           /\ total + Signed(directory[first].size) > TOTAL_PRELOAD_LIMIT

(***************************************************************************)
(* The inductive invariant: what is held at every place of the loop.       *)
(***************************************************************************)
Loading == {"fopen", "malloc", "fread"}
InFile == {"path", "stat"} \cup Loading

HeldInv ==
    /\ place \in {"opendir", "done"} => held = {}
    /\ place \in {"next", "path", "close"} => held = {"dir"}
    /\ place \in {"stat", "fopen"} => held = {"dir", "path"}
    /\ place = "malloc" => held = {"dir", "path", "file"}
    /\ place = "fread" => held = {"dir", "path", "file", "buffer"}

HeapInv ==
    /\ total <= TOTAL_PRELOAD_LIMIT
    /\ place \in InFile => pos - 1 \in DOMAIN directory /\ g_image_count < MAX_IMAGES
    /\ place \in Loading =>
          /\ st_size > 0
          /\ total + st_size <= TOTAL_PRELOAD_LIMIT
    /\ heap = total + g_image_count + (IF place = "fread" THEN st_size + 1 ELSE 0)

\* And of which entries it is known what became of them.
Settled(k) ==
    \A i \in DOMAIN directory : i < k /\ directory[i].picture => i \in loaded \cup lost

AccountInv ==
    /\ place = "opendir" => pos = 1 /\ loaded = {} /\ lost = {}
    /\ place = "next" => Settled(pos) /\ \A i \in loaded \cup lost : i < pos
    /\ place \in InFile =>
          /\ directory[pos - 1].picture
          /\ Settled(pos - 1) /\ \A i \in loaded \cup lost : i < pos - 1
    /\ place = "close" =>
          \/ g_image_count = MAX_IMAGES
          \/ pos \notin DOMAIN directory /\ Settled(pos)
          \/ /\ pos - 1 \in DOMAIN directory /\ directory[pos - 1].picture
             /\ Settled(pos - 1) /\ pos - 1 \notin loaded \cup lost
             /\ Signed(directory[pos - 1].size) > 0
             /\ total + Signed(directory[pos - 1].size) > TOTAL_PRELOAD_LIMIT

=============================================================================
