# Tac Photo: verification models

TLA+ models of the firmware of the Tac Photo frame (`src/`, an ESP-IDF
application for an ESP32-S3 with an RGB panel), TLC runs that check them, and
proofs checked by TLAPS. Paths and line numbers are those of `src/`; files
without a directory are in `src/main/`.

## The system

At power-on `app_main()` starts a task that mounts the SD card and loads its
pictures into memory, waits for the task's event, brings the panel and LVGL up,
lights the backlight and puts the first picture (or the text "No images found")
on the screen. From then on an LVGL task changes the picture every ten seconds.

| Component | State it keeps | Operations | Talks to | What makes it correct |
|---|---|---|---|---|
| Boot (`main.c` 174-200, 227-264) | event queue, event, picture count, where each of the two tasks is | mount with retries, preload, send; receive, bring-up, make the UI | storage manager, LCD bring-up, LVGL lock | the two tasks never use the expander at the same time, the queue outlives its sender, the screen says what the card holds, the boot ends |
| Preload (`main.c` 57-171) | table of 64 pictures, total size | open directory, load a file | FatFS | table and memory limit respected, nothing of a failed file left behind, no picture forgotten |
| I2C bus manager (`i2c_bus_mgr.c`) | reference counter, installed driver | acquire, release | ESP-IDF driver, three users | counter equals references, driver there while used |
| Storage manager (`storage_manager.c`) | mounted flag, SPI bus, card select pin | mount, unmount | I2C bus manager, SPI, FatFS | each failure undoes what was done; a mounted card stays usable |
| LCD bring-up, backlight (`waveshare_rgb_lcd_port.c`) | panel handle, expander pins | init, backlight on | I2C bus manager, LVGL port | LVGL exists before it is used; the card is not deselected under a reader |
| LVGL port (`lvgl_port.c`) | recursive mutex, LVGL task, frame buffers, task notification; per tear-avoidance mode: buffer pointers, saved dirty areas, probe of the last refresh | init, lock, unlock, flush, turned copy, frame interrupt | LVGL, panel driver | mutual exclusion, no torn frame, no lost wake-up that blocks for ever, time limits kept, every pixel at its place |
| Slide show (`main.c` 203-224) | picture index, timer | first picture, timer tick | LVGL port | every picture in its turn |
| TM1622 driver (`tm1622.c`) | none of its own; the chip keeps 64 nibbles | init, command, write, set all, put character and text | GPIO, the chip | text and segment RAM agree, bit by bit |
| AM312, BH1750, photo display (`am312.c`, `bh1750.c`, `photo_display*.c`) | ISR registration; I2C port 1; open files | init, read, deinit | ESP-IDF, FatFS | not in the build |
| NFC, Wi-Fi, accounts | - | - | - | described in the repository's README, no code |

**What is hard.** The expander (CH422G) carries the card's chip select *and*
the backlight, in one byte; the I2C reference counter has no lock; a mount can
fail in seven places and is retried; the first frame is flushed by a task that
was started before the interrupt it waits for is registered; an interrupt that
comes too early is lost; LVGL redraws only what changed, in two alternating
buffers, one of which is on the screen; in the triple-buffer mode task and interrupt
share three pointers without a lock; the turned copies of modes 1 and 2 do not wait for the panel, and that of mode 3
copies as little as it can, on the strength of what the last refresh was. No test in the repository reaches any
of this (`pytest_hello_world.py` is the template's). `PROJECT.json` lists every
such hazard at its line.

## Modules

| Module | Models | Used by |
|---|---|---|
| `I2cBus` | `i2c_bus_mgr.c`: acquire in its separate steps, release | `StorageManager` |
| `StorageManager` | mount step by step with every error exit, unmount | `StorageClients`, `Boot` |
| `StorageClients`, `MCStorageManager` | any sequence of mounts and unmounts, with other users of the bus | runs `storage*` |
| `Boot`, `MCBoot` | both boot tasks, their queue, bring-up and backlight | runs `boot*` |
| `BootProofs` | theorems about `Boot` | |
| `Preload`, `MCPreload` | `preload_all_images()` file by file: sizes, limit, memory, every error exit | run `preload` |
| `PreloadProofs` | theorems about `Preload`, with its refinement of the preload in `Boot` | |
| `Slideshow` | abstract: what the viewer is promised | refined by `LvglPort` |
| `LvglPort`, `MCLvglPort` | mutex, LVGL task, slide timer, flush, frame interrupt, panel, as configured | run `slides` |
| `LvglPortProofs` | theorems about `LvglPort` and `LvglMutex`, with the refinements of `Slideshow` and of `LvglMutex` | |
| `StorageProofs` | theorems about `StorageClients` | |
| `Display` | abstract: what "avoid tearing" promises in any mode | refined by the two below |
| `FlushFull`, `FlushFullProofs` | modes 1 and 2, with and without a rotation: two, or three buffers, or a turned copy into two | runs `full`, `triple_race`, `turned_race` |
| `FlushRotate` | mode 3 with a rotation: partial copies | run `parts` |
| `RotateCopy` | `rotate_copy_pixel()` pixel by pixel, and the touch coordinates | run `parts` |
| `FlushRotateProofs` | theorems about `FlushRotate` and about the copy it makes, `RotateCopy` | |
| `LvglMutex` | `lvgl_port_lock()` with any time limit, for any tasks | runs `parts`, `lock_zero`; refined by `LvglPort` |
| `SegmentRam` | abstract: the blocks of nibbles a driver call means to write | refined by `Tm1622` |
| `Tm1622`, `MCTm1622` | `tm1622.c` on its three wires, with the chip | runs `parts`, `clear_part` |
| `Tm1622Proofs` | theorems about `Tm1622`, with the refinement of `SegmentRam` | |
| `MCParts` | nothing of its own: the four parts above that share no state, in one run | run `parts` |

### State and code

*I2cBus.* `ref_cnt` is the static counter; `driver` says whether
`i2c_driver_install()` has taken effect; `held` is a history variable, the
references each user has taken and not given back. `i2c_bus_acquire()` is three
operators because it is not atomic: the shared path, the installation, and the
write of the counter. Which of them run in which order is up to the module that
uses them.

*StorageManager.* `stage` is the position inside `storage_mount_sdcard()`, `ret`
its last result, `spi` the SPI host (free, initialised, or with the card
attached: the driver refuses to free or re-initialise it then), `exio` the two
expander pins, computed from the byte written. A failed expander write may or may
not have reached the pins. `Unmount` is one action: it is called by nobody in the
firmware, and nothing else touches its state.

*Boot.* `sd` and `app` are the places of the two tasks; the queue is a sequence of
at most one event. Each external call that can fail is a member of `Faults`.
`ESP_ERROR_CHECK` and `assert` lead to `"aborted"`: `sdkconfig` selects
`PANIC_PRINT_HALT`, so the chip halts and nothing restarts. The message of the
event is one of three values. The preload is a sequence of loaded files that may
end at any time up to the size of the table, which is what the caller can see; `Preload` has its inside.

*Preload.* `place` is the position in the loop and in `load_file_to_psram()`, which is called from one
place only. The directory is chosen in `Init`: a sequence of entries, each a picture or not, with a size as
the card stores it (up to 2^32 - 1 on FAT); `Signed` is what `stat()` makes of it. `total` is a `size_t`
and wraps at `Word`. `held` is the set of things taken and not given back, `heap` the picture buffers in
external memory (the short-lived path buffer is in `held` only); an allocation may
always fail. `loaded` and `lost` are history: which entries are in the table, and which were given up. A path that does not
fit its buffer (`main.c:142`) has the effect of one that cannot be allocated. The size is taken to be the
same at `stat()` and at `ftell()`: nothing writes to the card.

*LvglPort* starts at `lvgl_port_init()`. `task` and `app` are the places of the
two tasks; `owner` and `depth` the recursive mutex. The screen is a set of `Areas`
that LVGL redraws separately; `Cover[s]` are those a picture occupies, the rest is
background. `fb` is the content of the panel's two frame buffers, `buf_act` the one LVGL
draws into, `scan` the one on the screen, `cur` the one the panel is to move to.
LVGL 8.4 in direct mode is external and modelled as the port uses it: at the start
of a frame it copies into its buffer what only the other one has (`sync`), redraws
the dirty areas one at a time, calls `flush_callback()` (which acts on the last
area only), and swaps buffers. The interrupt notifies with `eNoAction`, so the notification's
value stays zero: `ulTaskNotifyTake()` always blocks, and only a task that is already
blocked is woken. Both facts are in `FlushTake` and `Vsync`. PNG and
JPEG decoding is taken to succeed; the two LVGL timers may come due at any round, which
covers every timing (`Timely = TRUE` restricts that, see below).

*FlushFull, FlushRotate* are the flush callback as the preprocessor makes it for the other
values of the avoid-tear mode and the rotation (`lvgl_port.h` 80-111). Both map to `Display`: `handed` is the last
screen passed to the panel, `visible` what the buffer under the scan shows (`Torn`, which `Display` does not know, if
it mixes screens). In `FlushFull` the `build` is chosen in `Init` and never changes: `"two"` buffers, `"turned"` copies
or `"three"` buffers. Only the first waits for the panel. Nothing binds the pace of LVGL to that of the panel: a
refresh may begin whenever the last flush is over, and a frame of the panel may end at any moment. With three buffers each read and write
of the pointers `rgb_last`, `rgb_next` and `flush_next` is a step of its own, in the task (`TripleTake`, `TripleGive`,
`TripleSwitch`, `TripleReady`) and in the interrupt (`IsrCompare`, `IsrFree`, `IsrLast`); the pointers are not volatile, so
`IsrLast` may store the value compared or the one there is by then. `early` and `met` are
history: whether the turned flush in progress began before the last one was on the screen, and whether a flush and the interrupt were ever under
way at once. `Disturbed` names the steps in which the code does not keep the promise of `Display`, by these two.
In `FlushRotate`, `probe_result`, `prev_status`, `dirty_area` and `next_fb` are the code's;
`Status` leaves open whether dirty areas that fill the screen count as a whole refresh, since
`flush_copy_probe()` looks at the first area only; the nested `lv_refr_now()` of `FULL_COPY` is
`RefreshNow`. LVGL redraws its own buffer in one step there, for no one else reads it.

*RotateCopy* is the nested loop with its two running indices. A buffer holds, for each place, the place
of the source its pixel came from, so that `to` says where everything went. `TouchSetup` is the
swap and the mirrors of `lvgl_port_init()`, `Touch` what the touch driver makes of them.

*LvglMutex.* `holder` and `held` are the recursive mutex (`owner` and `depth` of `LvglPort`), `left` is what remains of the ticks `pdMS_TO_TICKS()` makes of a limit; `waited` and
`locks` are history. `Tick` advances all callers at once. The product of limit and tick rate is taken to fit in its 32
bits, as it does below 11 hours.

*Tm1622.* A driver call is a list of transactions, `plan`, of which number `tx` is sent; a transaction is a type, a
command or an address, and nibbles, and `unit` and `bits` say which of these is on the wires and how many of its bits
`send_bits()` has still to send. `Select`, `WrPulse` and `Deselect` are the edges on CS and WR; `phase`, `shift`,
`count`, `addr`, `received` and `ram` are the chip. CS is `Floating` until `tm1622_init()` has set the pins up; when `gpio_config()`
fails the call ends there, with its error and nothing sent. The other calls are made on an initialised driver: before that no pin is driven. The widths are the real ones. A character code beyond `font_table`
reads memory behind it (`Outside`, `Behind`): the source does not check it.

## Runs

| Run | Constants | States | Shows |
|---|---|---|---|
| `storage` | any of 4 calls fails, `MaxRefs = 4` | 1468 | bus accounting, driver lifetime, a mounted card stays usable, SPI free when unmounted |
| `storage_leak` | same | violation | a mount failing at an expander write keeps its I2C reference |
| `boot` | any of 9 calls fails, `MAX_IMAGES = 2`, `SD_MOUNT_RETRIES = 3` | 870 | order of the boot, truth of the screen, queue lifetime, termination |
| `boot_lock` | same | violation | a failed I2C acquire leads to the assertion in `lvgl_port_lock()` |
| `preload` | 3 entries, table of 2, limit 5, words of 16 values | 26241 | table and limit kept; no leak; no picture forgotten |
| `slides` | 3 pictures, 2 areas, `Timely = TRUE` | 582 | mutex discipline, no torn frame, `app_main()` ends, refinement of `Slideshow`, every picture comes round |
| `full` | 2 areas, 2 screens, all three builds | 202340 | where LVGL and the copy write; refinement of `Display` but for named steps; the last screen is seen |
| `triple_race` | 2 areas, 2 screens, three buffers | violation | LVGL is given the buffer on the screen |
| `turned_race` | 2 areas, 2 screens, turned copies | violation | a second flush within a frame of the panel shows a mixture |
| `parts` | see below | 48006 | the properties of `FlushRotate`, `RotateCopy`, `LvglMutex` and `Tm1622` |
| `lock_zero` | 2 tasks, limit 0, 10 ms ticks | violation | a limit of 0 does not block |
| `clear_part` | glass of 10 digits, buffer of 32 nibbles, 2 calls | violation | `tm1622_clear()` clears half of the memory |

Run `parts` holds four systems that have no variable in common. `part`, chosen in `Init`, says which of them a behaviour
is about; the others stay where they began, each at one initial state, so that the states add up instead of multiplying.

| Part | Constants | States | Shows |
|---|---|---|---|
| `flush` | 2 areas, 3 colours, `Animated = FALSE` | 21159 | the few copies made keep both buffers right; refinement of `Display` |
| `copy` | screen of 4 by 3, every rectangle and rotation | 1380 | indices in bounds, every pixel at its place, touch matches |
| `lock` | 2 tasks, limits -1, 0, 9 and 25 ms, 10 ms ticks, depth 2 | 817 | exclusion, limits above 0 kept, calls with one return |
| `segments` | 2 digits, buffer of 7 nibbles, 3 calls | 24650 | texts padded and cut, neighbours kept, init complete or without effect, the chip's memory takes exactly the nibbles meant |

Bounds. `MaxRefs = 4` lets leaked references pile up to four and other users
hold several at once; the code compares the counter with 0 and 1 only. The real retry
count, 3, is used as it is. Two pictures in `Boot` tell apart none, some and a full
table. In `Preload`, files of 0 to 3 bytes and one of 14, which
is negative in a word of 16, come in every order, so that either of table and limit is the first to run
out in some behaviour. In `LvglPort`, three pictures show wrap-around and order; two areas and a `Cover` in which
the whole screen, the middle, the border and nothing occur make consecutive frames dirty
different sets, which is what the copy between buffers depends on. Two screens in `FlushFull` tell the old from
the new one, before which there is `Nothing`; two areas are the least a mixture can consist of. In `FlushRotate`, two
areas give whole, partial and empty refreshes in any order, and three colours an old, a shown and a new one.
A screen of 4 by 3 is not square and has inner pixels, so that rows and columns cannot be
confused. The limits of `LvglMutex` are none, one below a tick, and one of two ticks and a half. In `Tm1622` the
buffer of `tm1622_set_all()` is shorter than the glass, as 32 is than 40 in the code, the block written directly begins at the last
address and goes on at the first, the strings are empty, too short,
fitting and too long, and three calls are an initialisation and two of which one finds what the other left; `clear_part`
has the real sizes. The number of pictures is chosen in
`Init`, from none to the bound. Every property of a passing run is checked against
a mutant of the code (`_Mut` definitions, `mutants` in `PROJECT.json`).

`MountedIsUsable` is about the storage manager alone: in the firmware the
backlight write deselects the card for good after the boot, and no file is read
afterwards. That it does not happen too early is `CardSelectedWhileRead`.

Deadlock is checked in every run but `clear_part`, which ends after its calls. `Boot` names the states in which it may stop
(`Stopped`): the boot is over, the chip is halted or parked, or the mount task could not be created. `MCParts` names
its own (`Finished`): the copy is done, or the calls of the segment driver are used up.

Fairness. `Boot`: weak fairness of each task; both have a core whenever the other
blocks, and every call they make returns. `LvglPort`: the panel is free-running hardware
(`WF` of `Vsync`); each task is run when it can; the LVGL task sleeps at least 10 ms per round with
the mutex free, so `app_main()`, which waits on it at the same or another core, gets it (`SF` of
`AppLock`); both LVGL timers are periodic and come due again and again (`SF` of `Refresh`
and `SlideTimer`). The `Flush` modules: a task that has begun a flush and an interrupt that has begun go on, and the
panel never stops; that LVGL draws again is not assumed. `LvglMutex`: the tick clock runs (`SF` of `Tick`), and
a caller that can take the mutex or has run out of ticks is run. `Tm1622`: a call once begun is carried on.

Two constants stand for facts about time or use.

- `Timely`: a frame is redrawn before the next slide is due; 10 s against a refresh period of 30 ms plus
  decoding. Without it a picture can be replaced before it is ever drawn, and `SlideshowSpec` fails. The theorems
  `TypeCorrect`, `MutualExclusion` and `NoTearing` do not need it.
- `Animated` (`FlushRotate`): whether LVGL animations run. The firmware has none; with `TRUE`, `BuffersAgree` is violated.

## Findings

1. `storage_manager.c:101,108`: early returns skip the cleanup label and leak an I2C reference (run `storage_leak`).
2. `waveshare_rgb_lcd_port.c:142`: a failed acquire skips `lvgl_port_init()`, `main.c:244` goes on,
   and `lvgl_port_lock()` asserts (run `boot_lock`).
3. `lvgl_port.c:345`: with three buffers, a frame of the panel that ends between the hand-over (343) and the store of `rgb_next` (345)
   releases no buffer; the next flush takes a stale one (339), and LVGL draws on the screen, against "one buffer is always available for
   rendering" (387; run `triple_race`).
4. `lvgl_port.c:330`: the turned copy of modes 1 and 2 waits for nothing; two flushes within one frame of the panel tear, against
   "Avoid tearing effect" (`Kconfig.projbuild:82`; run `turned_race`).
5. `lvgl_port.c:553`: a time limit of 0, or below one tick, polls the mutex, where `lvgl_port.h:134` says that 0 blocks (run `lock_zero`).
6. `tm1622.c:110`: `tm1622_clear()` clears 32 of the 64 nibbles, where `tm1622.h:100` says "entire display RAM" (run `clear_part`).

The firmware as configured (mode 3, no rotation, limits of -1) meets neither 3, 4 nor 5, and calls the segment driver nowhere.
`full` shows what is left of the promise in 3 and 4, `parts` of the limits in 5 and of the memory in 6.

Seen while reading, without a run; the models follow the code in each.

- `lvgl_port.c:401`: LVGL's first buffer is the one already scanned out, against the comment at 384; the first frame can
  be seen being drawn.
- `main.c:251`: `g_current` is not advanced by the first picture, which therefore stays for two intervals.
- `lvgl_port.c:234-242`: `dirty_area` is saved before `lv_refr_now()`, which runs animations that are due; what they change
  reaches one frame buffer only (see `Animated`).
- `tm1622.c:127,135`: `'0'` and `'8'` have the same pattern.
- `main.c:186`: the message "No images" is always overwritten by "SD mount failed" (194-196).
- Neither `storage_unmount_sdcard()` nor the LCD and backlight code gives its I2C reference back.
- `main.c:237`: a mount task that cannot be created leaves `app_main()` waiting for ever.

## Proofs

All theorems hold for every value of the constants that satisfies the named assumptions of the modules
(`BootAssumption`, `FaultsAssumption`, `PreloadAssumption`, `PortAssumption`, `SizeAssumption`,
`FullAssumption`, `RotateAssumption`, `MutexAssumption`, `TmAssumption` and those of the bus): any number of pictures, retries, references and areas, any
`Cover`, any set of failing calls, any directory and file sizes, any size of the screen, any callers and limits of the mutex, any font, text and glass of up to 16 digits (64 nibbles). `PreloadAssumption` asks that
the limit lies below the sign bit of a word, as 2^24 does.

`BootProofs` builds its invariant in layers, each proved with the ones before it.
`TypeOK` is inductive. `Handoff` says that the mount task runs only while `app_main()` waits with an
empty queue, and that after it `queue` holds its event: from it follow `QueueSafe`
(the queue outlives its sender) and the disjointness the others need. `CardInv` adds that the card stays
selected from the select write to the end of the preload (`CardSafe`). `BusInv` adds what
the counter is in the window between installing the driver and counting
(`BusSafe`); without `Handoff` it is false, since two first users could be in that window. `EventInv`
follows the flag and the picture count from the mount to the screen (`ScreenSafe`).

`PreloadProofs`: `TypeOK` needs to know that the table has room inside the loop, so it is proved together
with `HeapInv`, which also relates `heap` to `total` and the count at each place and bounds
the sum about to be formed (`NoWrap`: then it does not wrap). `WithinLimit` follows. `HeldInv`
says what is held at each place and gives `NothingLeaks`; `AccountInv` says which entries are settled
at each place and gives `NoneForgotten`. `PreloadsForBoot` relates it to the coarse preload inside `Boot`: with the
variables of `Boot` read off those of `Preload` (`InBoot`), every step is an `SdOpenDir`, `SdLoadFile` or `SdPreloaded`
of `Boot`, or a stutter. It needs that nothing is in the table before the directory is open (`EmptyBefore`), and that the
rest of `Boot` stands still meanwhile (`Frozen`).

`LvglPortProofs`: `TypeOK` alone is not inductive, because `depth` is bounded only by the mutex
discipline; `TypeOK /\ Exclusive` is (`TypeCorrect`, `MutualExclusion`).
`NoTearing` rests on `FrameInv`: outside the dirty areas the hidden buffer's
counterpart is up to date (`Buffers`), the buffer drawn into differs from the other at most in what the last
frame redrew, and the places of the flush say which buffer is on the screen
(`Handover`). `ShowsSlides` shows that every step is one of `Slideshow` or a stutter. It assumes `Timely`
and `Visible`: every picture and the label cover at least one area and the empty screen none, so that a frame tells which
screen it shows (`FrameTells`). Its invariant `ShowInv` says that the objects of LVGL are at most one
screen ahead of what is seen, not ahead while nothing is dirty, and that the index is
the successor of the picture shown, save at the start. `Sight` says which steps can change what is seen at all: the first
flush and the panel's move to the buffer flushed.

The same module proves `LvglMutex`. `OneHolder` and `LimitKept` come from `HolderInv`, which adds to
the exclusion what a call has waited: `waited + left`, in ticks, never exceeds what was asked, because the conversion to
ticks rounds down (`TicksRoundDown`); so a limit above 0 is kept, and a call without a limit has no tick to run out of. `PortUsesMutex` shows that `LvglPort`, seen through `owner` and `depth` and
with the places of its two tasks read as calls, is a behaviour of `LvglMutex` with callers `app` and `lvgl` that
pass -1: the general theorems are about the mutex the firmware uses. `NoCircularWait` says that whoever waits
waits for somebody who does not: a caller at the mutex for a task inside LVGL, a task in a flush for an interrupt that is
registered or will be by a step that needs no mutex. It rests on `MutexInv` and on `Registered`, and is the safe
half of `AppFinishes`.

`StorageProofs` strengthens `MountedIsUsable` and `UnmountedFreesSpi` to `CardInv` (what is installed, selected
and attached at each stage of a mount) and `RefsAccounted` to `BusInv` (the counter is behind the
references by the one acquisition whose window is open).

`RotateCopy`, in `FlushRotateProofs`: the running index is the destination of the pixel about to be copied (`IndexInv`);
that and a little arithmetic bound it (`NoOverrun`), and the pixels passed so far are where they belong (`TurnedRight`). For
the touch panel (`TouchFollowsPicture`) the column and row are found again by dividing that index by the panel's width
(`RowMajorDivides`), which is never written down in the code.

`FlushFullProofs` assumes nothing of the pace. `PlacesInv` says which buffer is where at each place of the flush: with two buffers LVGL and
the panel have one each (`Swapping`), with turned copies LVGL has the third (`Copying`), and with three the pointers are in one of a few
positions at each pair of places of task and interrupt, `Between` two flushes and `Within` one, unless flush and interrupt have met. It
gives `Hidden` and `RenderFree`. `IInv` adds what each buffer holds (`Pictures`), unless they have met; from it every
step that is not `Disturbed` is one of `Display` (`PromiseKept`), and with two buffers no step is
(`TwoBuffersKeepPromise`). Both exceptions are necessary: they are what `triple_race` and `turned_race` run into.

`FlushRotateProofs`: which buffer is where (`PlacesInv`), and what each holds (`Pictures`): the hidden buffer differs
from the visible one at most in what the probe knows of. The last (`Agree`), and that the module's steps are those of `Display` (`Refines`),
assume that no animation runs; `CopiesHidden` does not.

`Tm1622Proofs`: `WireInv` says that driver and chip are in step while CS is low: the chip's shift register holds the bits
of the unit already sent, it counts as many as are gone, it knows what kind of unit it reads, and its address is where the
next nibble belongs. Its core is `ShiftStep`, the arithmetic of taking a value apart from the top and putting it together
again; `Pulse` draws from it that the chip accepts the very value the driver sent, and `Accepts` what it then does. From
`WireInv` follows the refinement of `SegmentRam` (`WiresCarryNibbles`). Three invariants say what has arrived in the middle
of a call: the commands of the transactions sent (`CommandsTaken`), as much of a row of nibbles as was sent and nothing else
(`RowTaken`), and exactly as much of a cleared memory (`ClearTaken`); with the form of the plans (`PlanOfCall`, `PutAllForm`,
`InitSequenceForm`) they give `InitDone` (for both answers of `gpio_config()`), `DigitAlone` and `TextOnGlass`.

TLC checked each invariant before it was proved. The types of `RotateCopy` and `StorageClients` are
only proved; no run lists them.

Every safety property the passing runs check is also a theorem. Model-checked only: all liveness (`BootSettles`,
`AppFinishes`, `EveryPictureComesRound`, `LimitedCallsReturn`, `CatchesUp`, `LastIsSeen`), which is out of the prover's
reach, and of `SlideshowSpec` the part about fairness. The safe parts of `SlideshowSpec`, `ImplementsDisplay` and `ImplementsRam` are
proved step by step (`ShowsSlides`, `Refines`, `WiresCarryNibbles`).

## Not modelled

- `am312.c`, `bh1750.c`, `photo_display*.c` are not in the build (`CMakeLists.txt`), and nothing calls them. `bh1750.c` is
  third-party code that does not compile with the ESP-IDF the project uses (`portTICK_RATE_MS`): sequential transfers whose
  only state is the installed driver. `photo_display_fs.c` hands every callback's arguments to one FatFS call.
- `lvgl_port.c`: `touchpad_read()`, which hands coordinates on and is not registered in this build, and the mode
  without tear avoidance, which promises nothing.
- `waveshare_rgb_lcd_port.c`: the GT911 touch code (compiled out), `wavesahre_rgb_lcd_bl_off()` and the demo UI (never called).
- `storage_get_card_info()` (a dummy without state) and `i2c_master_init()` (never called).
- `segment_lcd.*` is empty.
- `sample_image.c` and `landscape_sample_1.c` are generated pixel data: 15827 of the 18254 lines counted as
  implementation. Of the 2427 others, 518 are headers and 370 the
  files not in the build; the models stand for about a thousand.
- The features that exist only in the repository's README.

## Plan

All of the plan is done but for the last items.

1. `I2cBus`, `StorageManager`, `StorageClients`, `StorageProofs`: the bus and the mount. Done.
2. `Boot`, `BootProofs`: both tasks over 1. Done.
3. `Slideshow`, `LvglPort`, `LvglPortProofs`: the display path and its refinement. Done.
4. `Preload`, `PreloadProofs`: sizes, limit, skipped files. Done.
5. `Display`, implemented by `FlushRotate` and, but for named steps, by `FlushFull`, with proofs. Done.
6. `RotateCopy`, `LvglMutex`, `Tm1622` over `SegmentRam`, with proofs. Done.
7. `Preload` implementing the preload of `Boot`, `LvglPort` implementing `LvglMutex`. Done.
8. Left: `Boot` and `StorageClients` over one abstract storage; the drivers that are not in the build, once they are
   (`am312_init()` and `am312_deinit()` against the interrupt on the other core first).
