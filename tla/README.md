# TLA+ models of the PS4 Homebrew Store

Models, model-checking runs and proofs for the Store (`src/Store`), the app that
shows a catalogue, downloads packages and has the console install them, and for
the Store-Loader (`src/Store-Loader`), which updates and starts it. Every
definition is translated from the source; `PROJECT.json` names the lines.

- [1. The system](#1-the-system)
- [2. Modules](#2-modules)
- [3. Downloads](#3-downloads), [4. Transfer](#4-transfer),
  [5. Updates](#5-updates), [6. Catalog](#6-catalog), [7. Loader](#7-loader),
  [8. Database](#8-database), [9. Screens](#9-screens), [10. Icons](#10-icons)
- [11. Runs](#11-runs), [12. Proofs](#12-proofs)
- [13. Not modelled](#13-not-modelled), [14. Plan](#14-plan)

## 1. The system

### Threads

| thread | code | started |
|---|---|---|
| UI: buttons, then a frame | `main.cpp:262`, `GLES2_scene_on_pressed_button` | with the app |
| download, one per running download | `start_routine2`, `start_routine` | Download, `GLES2_q.cpp:517` |
| install, one per install with progress | `install_prog` | `pkginstall` |
| update check | `check_for_updates`, every five minutes | `GLES2_scene_init` |
| icons, at most one | `download_icons_thread` | while the icon panel is drawn |

They share the slots `pt_info` (no lock; atomics), the settings `set` (no
lock), `games` and `icon_panel->item_d`, and the badge `updates_counter`. The
panels have recursive mutexes (`left_panel2`, `icon_panel`, `download_panel`).

### Components

| component | state | operations | talks to |
|---|---|---|---|
| download and install pool | 4 slots: status, g_idx, dst, url, progress; the download folder | Download, Pause, Resume, Cancel, Install; start and end of the threads | transfer (call), installer service (polled), catalogue (g_idx), badge |
| one transfer | output file, running/paused flags, libcurl's handle | `write_data`, `my_progress_func`, reconnect by Range | the slot's status, written by the UI |
| update check | `update_status` of each game, `updates_counter`, `update_check_finised`, `show_prog` | `CheckforUpdates`, `CheckUpdate`, `Update_View`, ends of installs | panels' mutexes, UI dialog |
| catalogue | `games`, `item_d`, lists `q`/search/groups, selection | search, group, filter, sort, open, back, move | pool (index of a download) |
| settings and download panel | `set`, `settings.ini`, number of entries | toggles, Save, Reset, CDN | pool, database |
| store database | `store.db`, `store_downloaded.db` | check, fetch, replace, restart | server, settings, SQL |
| Store-Loader | ELF, its hash, signature, `Store.self`, INI | fetch, compare, replace, verify, copy, launch | server, files that outlive it |
| queue view | rows by rank of slot status | X on a row | pool, catalogue |
| icons | texture and flags of each item | check, download, load, draw | catalogue, mutexes |
| signals, dialogs, log, language, INI, MD5, SQL | | | everything |
| rendering, fonts, atlas, shaders | | | |

### What is hard here

Slots are shared without a lock, and Cancel only writes a status that the
thread reads later; a pause is a handshake of two callbacks with libcurl; the
update thread counts into a badge that install threads lower; recursive
mutexes are locked and unlocked along many returns; indexes into the catalogue
are kept across sorts; what is on show is brought up to date once per frame
from slots that change in between; an icon's item is addressed by its position
before and after a download, while sorts replace the items; files are replaced in several steps by a process that
the user may stop at any of them; servers publish while they are read.
`PROJECT.json` "hazards" lists these places by line, with the properties that
watch over them.

### What makes each component correct

- Pool: an item has one slot; a slot is given to new work when its thread is
  done with it; the status says what the thread does; what is installed is
  whole; slots come back; threads end.
- Transfer: the file grows in order, success means all of it was written, a
  pause lets at most one buffer through, cancel ends it, resume lets it flow.
- Update check: no deadlock, locks balance, the badge is the number of games
  with an update, frames are drawn, checks and installs end.
- Catalogue: counts and selection agree with what is shown; a search result and
  a group lead to the apps they were made for.
- Screens: what the download panel and the queue show is what their buttons do.
- Icons: no panel deletes a texture the catalogue still names; a page that stays
  on show gets its pictures.
- Loader: a noted hash vouches for the ELF beside it; what is launched is
  whole, current and verified; no interruption is for ever.
- Database: what is shown is a whole, current database of the right server;
  restarting comes to an end.

## 2. Modules

| module | what | checked by | proved in |
|---|---|---|---|
| `PtInfo` | the slots and the lookups over them | through the next three | |
| `Pool` | abstract: the protocol a slot follows | through `Downloads` | |
| `Downloads` | pool: slots, threads, commands, settings, badge; implements `Pool` | `MCDownloads`, 3 configurations | `DownloadsProofs` |
| `Screens` | download panel, both lists, settings, on slots that move by `Pool` | `MCScreens`, 2 configurations | `ScreensProofs` |
| `Delivery` | abstract: what a download promises | through `Transfer` | |
| `Transfer` | `start_routine` and its callbacks; implements `Delivery` | 1 configuration | `TransferProofs` |
| `Icons` | pictures, the icons thread, the Ready view, dropped textures | `MCIcons` | `IconsProofs` |
| `Updates` | update thread, UI handlers, install ends, mutexes | 2 configurations | `UpdatesProofs` |
| `Catalog` | lists, sorts, selection, indexes | `MCCatalog` | `CatalogProofs` |
| `Loader` | Store-Loader | `MCLoader` | `LoaderProofs` |
| `Database` | store.db, CDN setting, restarts | 1 configuration | `DatabaseProofs` |

The pool and the screens are composed through `Pool`. Both see the same slots
(`PtInfo`); `Pool` says what may happen to a slot's status and item whoever does
it. `Downloads` implements it (`PoolProtocol`: every step of every thread, every
command, cancel and take-over is a step of `Pool` or leaves the slots alone,
checked and proved), and `Screens` takes the steps of the other threads from
it: its threads are the actions of `Pool`, not a second model of the pool.

Elsewhere two modules meet in the code where they name the same variable:
`Transfer` is one stay of a `Downloads` thread in `pc = "transfer"` (its results
are what `EndTransfer` and `BreakTransfer` choose from), `Updates` refines the
one step `CleanUp` in which an install of `Downloads` settles the badge, a
download of `Catalog` is a slot of `Downloads` seen by its `g_idx`, and `Icons`
takes from `Catalog` when items are replaced and which positions a list holds.
Composing them would multiply states without a new interaction, so each takes
the others' steps as an assumption about its environment, at the interface just
named.

Histories (`overrun`, `misread`, `raced`, `asked`, `stale`, `began`, ...) are variables
that no guard of a program step reads; bounds are constants called `Max...`
and are compared in the guards of the steps they count.

## 3. Downloads

State: `status`, `g_idx`, `dst` of each `dl_arg_t`; for each thread `pc`, `at`
(the slot it has), `arg` (a path it holds by value), `out` (the path whose file
its open output decides: nobody has unlinked or truncated it since), `ret`;
`files` (none, partial or full); `auto`, `legacy`, `ini`, and `tmp`, the download
folder (`set.opt[TMP_PATH]`); `updatable` and `updates_counter`. A path is a folder
and a package.

| code | actions |
|---|---|
| `X_action_dispatch`, Download | `DispatchDownload`, then `HeadSucceeds` or `HeadFails` |
| Pause, Resume, Cancel, Install | `PauseDownload`, `ResumeDownload`, `CancelDownload`, `InstallDownloaded` |
| `start_routine2`, `start_routine` | `BeginDownload`, `EnterDownload`, `UnlinkOutput`, `OpenOutput`, `EndTransfer`, `BreakTransfer`, `AutoInstall`, `EndDownload` |
| `pkginstall`, `install_prog` | `BeginInstall`, `InstallFails`, `InstallInline`, `InstallInThread`, `InstallInBackground`, `BeginProgress`, `EndProgress`, `CleanUp`, `EndInstall` |
| settings | `ToggleAutoInstall`, `ToggleLegacyInstall`, `SetFolder`, `SaveSettings` .. `SettingsReloaded` |

A step is a run of code up to the next access that another thread can notice.
So `start_routine` unlinks in one step and opens in the next, and
`start_routine2` reads `auto_install` to decide whether to install
(`AutoInstall`) and again for the argument of `pkginstall` (`BeginInstall`,
`GLES2_q.cpp:325`, `327`): a download thread can come to `pc = "offer"`, where only
the Install button was meant to lead. A download keeps the path of the folder as it
was when it began, an install by the button takes the folder as it is now
(`GLES2_scene_v2.cpp:782`).

Properties. `PoolProtocol`: every step is one of `Pool`; among other things only
an item that no slot serves gets a slot, and the first free one. (`UniqueItem`,
that two slots never serve one item, follows and is proved.)
`ReusesFinishedSlots`: the UI gives a slot new work only when the thread on it has
done with it, although nothing but the status tells it so: each store to `status`
must come at the right place. It admits what the code leaves open: a slot that Cancel freed under
its thread, and in `pkginstall` the windows between COMPLETED and `g_idx = -1` and
between READY and the clearing of `dst`. `StatusTruthful`: the status says what the
thread of the slot does. `NoGhost`: a busy status has a thread behind it, or is left
over from a download whose error reads as one (`misread`), and then the slot still
has the item that Cancel frees it by. `InstallWhole`: the package given to the
installer is one whose transfer ended well, in whatever folder. `BadgeCounts`: the
badge is the number of games with an update. `ThreadsEnd`: a thread ends unless its
slot is paused.

The code lets the UI take a slot from a live thread: Cancel frees it at once,
and Download reuses it. `overrun` remembers those slots. What a taken-over slot
does is in the model: two threads on it unlink, unlink, open, open, write under one
name, and share `dlfd`, so what the one closes the other has not finished
(`EndTransfer`), and a file that is not whole can reach the installer. `StatusTruthful`,
`NoGhost` and `ReusesFinishedSlots` are about slots that were not taken over, `InstallWhole`
and `BadgeCounts` about runs in which none was: there the code does go wrong.
`PoolProtocol`, `UniqueItem` and `ThreadsEnd` hold for all.

A deviation shown by a run: a queue whose slots are all installed and stay
COMPLETED is full for ever (`FullQueueDrains`).

Also in the model, without a run: after a cancel and a new download more threads
than slots run at once, against the comment at `GLES2_q.cpp:11` ("note four
threads are max used"); `install_prog` leaves COMPLETED although it
logs "Ready" (`installpkg.cpp:299`, `326`); an errno or CURLcode from 1 to 4
stored in `status` reads as a pt_status (`GLES2_q.cpp:367`): with a download folder that is missing
`fopen` gives ENOENT, which is RUNNING, and the queue shows a download that no thread runs (`misread`);
without a curl handle `start_routine` reports success with no file, which Install then
does not find (`OpenOutput`); `LoadOptions` turns `auto_install` on for a moment
(`utils.cpp:297`), which either of its two readers may see; negative install errors can be neither cancelled nor
downloaded again; Install may be pressed between COMPLETED and `g_idx = -1`.

Abstracted: `interruptible` (`CheckUpdate` treats both its values alike,
`utils.cpp:1155`); progress; `token_d`; texts; the copies
of `update_status` in `item_d`; a failing `pthread_create` (its result is not
looked at); the `curl_easy_init` of the HEAD request. After a take-over `dst`, a `std::string`, is written
and read by two threads: its torn values are not modelled. That a file which is
"full" may lack its end, since nobody looks at what `fclose` returns, is in Transfer.

Bounds: two slots (a full queue, and a slot next to the one in question), two
items, two download threads and one install thread, so that a thread can be
left over on a slot that another uses; `MaxTakeOvers = 1` cancel or reuse
that catches a live thread: Cancel takes the slot, Download gives it to a second
thread once the first has moved on (or Install to a second install), and two work on it.
Errors of a download are ENOENT, which reads as RUNNING, and 22, which is
no pt_status. One folder in `downloads`; two in `downloads_live`, which has one slot
for two threads. The proofs have no bounds.

Fairness: `FinishCall` (the UI returns from a call), `Download(w)` and
`Install(p)` are weakly fair, because the console's scheduler runs every thread
and requests and the installer service answer. Buttons are not fair, and
`BreakTransfer` (an error) is not either.

## 4. Transfer

State: the slot's `status`, `running`, `paused`; `held`, libcurl's own pause
flag of the current handle; `file`, the buffers in the output file; `next`, the
buffer the connection delivers next; `pc`, `result`.

`Open`, `OpenFails` and `NoFirstHandle` are the beginning of `start_routine`: a file
that cannot be created is an error, and without a curl handle the function falls
through to its end and returns success (`http.cpp:235-237`, `323-332`).
`Receive`, `Write`, `WriteFails` are `write_data`; `Tick`, `Progress` are
`my_progress_func`; `Finish`, `Drop`, `Break`, `Reconnect`, `NoHandle` are the
ends of `curl_easy_perform` and `Resume_loopback`. `Pause`, `Resume`, `Cancel`
are the UI's stores. libcurl is external: it calls `write_data` with the next
buffer unless paused, delivers a refused buffer again, and calls the progress
function at least once a second. The server is assumed to honour Range.

`End` closes the file: `fclose` writes what is still buffered, and nobody looks at
its result, so the file may lose its end.

`Delivers` says that this implements `Delivery` (INSTANCE with the same `file`,
`result` and `flaw`): the file grows by the next buffer and by nothing else, and "ok"
means that all of it was written, whatever was paused, resumed, lost and reconnected and
whatever flags the last download left. `Delivery` admits two flaws by name, since
the code has them: the end that `fclose` lost ("flush"), and the success of a download
that had no handle ("handle"). `PauseHolds`, `CancelStops`: after a
pause or a cancel at most one buffer is written, the one that `write_data` had
let through, and a reconnection does not set a paused transfer going.
`CancelEnds`, `ResumeFlows`: a cancelled transfer ends, a running one does.

`ResumeFlows` holds for a user who waits for a progress call between two
presses (`Patient`); without it a pause seen by `write_data` alone
(`http.cpp:203`), resumed at once, is never lifted, since `my_progress_func`
finds `running` still set (`http.cpp:162`). The constant is there to look at
that: with `Patient = FALSE` TLC finds it.

Bounds: four buffers, two early closes: enough to close in the middle, resume,
and close again. Deadlock is not checked: an ended transfer stops. Fairness:
callbacks are weakly fair; `Receive \/ Finish` strongly, since the server's
data arrives in the end although ticks come in between.

## 5. Updates

State: `owner` and `depth` of `left_panel2->mtx` and `icon_panel->mtx`; the
place of the UI thread (`ui`, `active` for `active_p`), of the update thread
(`up`, `k`, `loaded`) and of an ending install (`inst`, `game`);
`update_status`, `updates_counter`, `finished`, `show_prog`. `active` is the left, icon,
queue or settings panel, or an item's page; X on a setting brings the left panel up to
date under its mutex (`layout_actions.cpp:687-699`, `GLES2_scene_v2.cpp:747`), X on the
item's page takes none. The queue's rows are drawn under `icon_panel->mtx`
(`GLES2_q.cpp:141-144`), as the icons are.

A critical section that takes no other mutex is one step (`Use`).
`download_panel->mtx` is only taken inside `icon_panel->mtx` by an ending
install and is left out. The path on which the update thread finds a new
database ends the program, and belongs to `Database`. The branch for an unsafe
source changes nothing and is `ChooseView`.

Properties. `BalancedLocks`: the UI comes out of every press with no mutex,
though one path unlocks twice and another what it never locked. `BadgeExact`:
the badge counts the games with an update; `raced` leaves out a game installed
in the middle of its own check, which the code does miscount (the status is
stored before the counter is raised, `utils.cpp:1206`/`1228`; read and written
back at `GLES2_layout_actions.cpp:120`). `NoCircularWait`, `Responds`,
`CheckEnds`, `InstallSettles`: no deadlock, frames are drawn, checks end,
installs settle, unless the user asks to see the progress.

When the user does, `CheckforUpdates` keeps `icon_panel->mtx`
(`GLES2_layout_actions.cpp:93`, `135`) and the UI stops at the next icon: run
`updates_progress`, `NeverDeadlocks`.

Bounds: two games (one in the middle of its check, one elsewhere), two
installs. Fairness: the UI thread weakly (the user answers dialogs); the update
thread and an ending install strongly: they wait for a mutex that the UI takes
and frees in every frame, and that the kernel grants in the end. Buttons, and
that an install ends, are not fair.

## 6. Catalog

State: `item_d` (which app is at each index), `item_c`, the selection's four
forms `sel`, the list shown instead (`aux`, `kind`), the groups' entries, the
active panel and page, and `downloads`, the `g_idx` of running downloads. All steps are the UI
thread's. An entry `[len, app]` records the app it was made for, which the code
does not; properties compare it with what the index leads to.

Properties. `SelectionShown`: `item_c` is the count of what is shown, the left
panel never has a list behind it, the selection is within what is shown, and
its four forms agree. `ListsDenote`: a search result leads to the app it was found
for, in any order of the catalogue (`SearchDenotes`), and a group holds all the
apps of the group and no other, whatever has been sorted (`GroupShowsItsApps`):
groups are positions, and every sort has to make them anew. `stale` remembers that a
list was dropped since the last sort, which leaves them behind; the property leaves
that out.

After a sort other things go wrong, and the model shows how, without a run and with no property:
before a sort positions do not move, and after one the code does not keep them. The updates
list holds positions in `games` ("store index for icon_panel!",
`GLES2_layout_actions.cpp:128`) and leads to other apps once `item_d` is sorted;
groups rebuilt for the sorted order
stay when dropping a list restores the database's order
(`GLES2_layout.cpp:63`, `GLES2_layout_actions.cpp:600`); the item that holds
the count (`games[0]`, "use first as reserved index", `GLES2_scene_v2.cpp:330`)
is sorted like any other, and a search then looks at the first few items or
gives up (`Searched`); a download started from a sorted list settles another
game (`installpkg.cpp:314`); after a search without a hit an item's index is
read past the end of the list (`Stored`); an empty group opens the Sort or the
Filter page (`FallThrough`); Left from the first column leaves the highlight
where it was (`LeaveLeft`).

Bounds: three apps in two of three groups, pages of two icons, so that a list
has one entry or more and the last page is not full; one download.

## 7. Loader

State: what each file holds (`elf`, `local`, `remote`, `sig`, `self`: a
release, None, or Broken for a file that is not whole), where the Loader is,
the INI's `Secure_Boot` and `CDN` (read anew by every `Start`), the newest
release of each server. A step is one change to a file or one request;
`Stop` interrupts any of them, and the files stay.

Properties. `LocalVouches`: if the hash noted in `local.md5` is whole and there
is an ELF, the ELF is whole, of that server and that release or a later one: so
`Compare`, which never looks at the ELF, is right to keep it. `LaunchesCurrent`:
what is launched is whole and at least what the server had when the Loader
began. `LaunchesVerified`: with Secure_Boot it is what the signature was checked
for, and not revoked. `LaunchesInTheEnd`: no interruption leaves files with
which the Store never starts again.

A stop stands for a failed request, a failed copy of the hash and a console
switched off. `copyFile` does not look at what `write` returns: a full disk
gives a short `Store.self`, which is not modelled.

Bounds: two servers with two releases each, one of them revoked; three stops.
Fairness: the user starts the Loader again until it runs; requests are answered
but for those that `Stop` counts.

## 8. Database

State: `store.db`, `store_downloaded.db`, the INI's CDN, `set.opt[CDN_URL]`
(`cdn`), the CDN the update thread took when it began (`home`), the database in
memory, the servers' newest databases.

`Options` .. `Load` are the start (`common_init.cpp:155-212`), `UpdateCheck` ..
`Wake` the update thread, `TryCDN` .. `Reset` Settings, `RefreshDB` and
`UpdateFetch` restart the Store (through the Loader), `Stop` ends it anywhere:
a failed request is FATAL at start as in the background.

Properties. `ShowsCurrent`: what is shown is a whole database of the server it
was started for, and at least what that had when the Store began. `OneServer`:
`store.db` is never of another server than the one the update thread compares
it with, although Settings may have changed the CDN. `Settles`: the Store does
not restart for ever.

Assumed: a server's hash is that of its database. One whose hash never matches
makes the Store restart for ever. A database published while it is being
downloaded and resumed by Range is not modelled. A success of `dl_from_url`
is taken for a whole file: the two exceptions of Transfer, no curl handle and a flush
that fails, are left out. The first leaves no `store.db`, and the Store ends with a message like after
a failed request; in Settings it takes the new address without its database, which the next start then fetches. A stop between the two steps
of `SaveOptions` loses the settings; the CDN falls back to the default one.

Bounds: two servers that publish once more, two stops, two presses. Fairness:
the Store is started again; its threads run; dialogs are answered.

## 9. Screens

State: the slots, moved by the actions of `Pool`; `auto` (`auto_install`),
`active` (`active_p`), `curr` (the item on show: `icon_panel->curr_item` for what is
drawn, `menu.cpp:128`, and `get_item_index` for what a button does,
`GLES2_scene_v2.cpp:771`; they differ only behind a list that is a header alone, which
`Catalog` has and this module does not); of the download panel
`item_c`, the texts it is filled from (`text`) and those on show (`label`); of
the queue panel `rows` (`item_c`) and `row` (`f_sele`); the call the UI thread
may be in (`ui`, `busy`: a HEAD request or `pkginstall`).

| code | actions |
|---|---|
| other threads, between any two steps of the UI | `ThreadMoves` (steps of `Pool`), `ThreadRelabels` |
| `GLES2_render_download_panel` | `DrawServed`, `DrawUnserved` |
| `GLES2_render_queue`, `thread_find_by_status`, `thread_count_by_status` | `DrawQueue`, `RowSlots`, `Count` |
| `X_action_dispatch` | `PressPause`, `PressResume`, `PressDownload`, `PressRefused`, `PressInstall`, `PressCancel` and the ends of their calls |
| `actions_for_settings` | `AutoOn`, `AutoOff`, `SaveSettings` |
| `layout_dispatch_X`, `layout_dispatch_O`, `layout_update_sele` | `OpenItem`, `ShowList` (Itemzflow and Updates fill the panel's texts, `layout_actions.cpp:66`, `186`), `OpenQueue`, `OpenRow`, `MoveRow`, `Back` |

A frame follows every button (`main.cpp:268-280`), so a button is pressed at
most once between two frames. `live` has the slots that were given a thread; as
long as it may run it can write there: reports, the settling of an install, and READY without
an item when it leaves the install to the console (`Release`). `TakeOvers` says whether a thread whose
slot was taken from it writes too, as `Downloads` allows; the run that passes
has it so.

Properties. `PanelTruthful`: on a fresh frame of the download panel the entry
for Cancel is there exactly while a slot serves the item, the first text is that
of the slot's status and the second installs only with auto install off.
`RowTruthful`: the selected row of a fresh list is one of its rows and has a
slot, in "Ready to install" always and in the queue unless running and paused
downloads are mixed.

The deviation shown by a run, `screens_rows`: the queue counts running and
paused slots together but finds a row among the running ones and, failing that,
among the paused ones by the same rank. With one of each the second row has no
slot; X on it reads `pt_info[-1]`, under "this should not happen"
(`GLES2_layout_actions.cpp:219`).

`skewed` remembers the steps after which the code leaves the panel behind, which
`PanelTruthful` leaves out:

- auto install turned on while the panel has two entries (no slot): the second
  text becomes "cancel" but is not filled in, so the panel, once a slot serves
  the item, shows "Install" on an entry that cancels
  (`GLES2_scene_v2.cpp:658-661`, `GLES2_menu.cpp:166-171`);
- Save, or Reset, with auto install on: `LoadOptions` loads the texts for auto
  install off (`lang.cpp:215`); a Reset that turns it on leaves `item_c` one too
  high, and a later toggle can go past the three items of the panel;
- Download on an item whose slot went away since the last frame: one entry too
  many (`GLES2_scene_v2.cpp:820`).

Also in the model: auto install turned off while the panel has one entry leaves
the third unfilled, and X on it reads the first of no tokens to log it
(`GLES2_scene_v2.cpp:758`); a slot COMPLETED without an item is a row of "Ready
to install" whose picture is `item_d[-1]` (`GLES2_q.cpp:146`) and whose X opens
another item; a failed HEAD request leaves the item in a CANCELED slot, so that
Download does nothing until the slot is used for another; the text after X on a
row is that of `games[slot]`, not of the item (`GLES2_layout_actions.cpp:214`,
`552`), which `Greet` allows for.

Abstracted: texts are the five that differ in what they promise ("Download",
"Update now" and "Reinstall" are "get"); `token_d` of a slot, which every slot
that was used has (a slot never used is CANCELED and has no row); whether the
VBO is refreshed. `item_c` ends at 4, one past what the panel holds.

Bounds: two slots (one and a neighbour; the mix of running and paused needs
two), two items, one error code. The proofs have no bounds.

## 10. Icons

State: for each position of `item_d` its app, texture (none, the fallback, one
loaded with the database, one of its own), `failed_dl` and `png_is_loaded`;
which preloaded textures are still there (`alive`; `games` holds their names
too); the picture files; the list on show, page and panel; `old_idx`,
`aux_addr`, `old_num_of_items`, by which the frame knows whether a page has had
its thread; the two flags of the icons thread; and two callers of
`check_n_load_texture`: the icons thread and the Ready view.

| code | actions |
|---|---|
| `check_n_load_texture` | `Default`, `Keeps`/`Fetched` (download), `LoadPng`, `LoadAny`; a call that gives up the lock is `Check`, then `FetchEnds` |
| `download_icons_thread` | `Load("thread")`, `Finish`, `Close` |
| `GLES2_render_layout_v2` | `Draw` (the icons of a page), `StartSearch`, `StartPage` |
| `GLES2_render_queue` | `DrawRow`, `Load("view")`, `LoadRow` |
| `drop_some_icon0`, `reset_tex_slot` | `DropSome`, `Discard` |
| the handlers that change lists | `OpenGames`, `ShowList`, `Sort`, `Move`, `LeaveLeft`, `OpenItem`, `Back`, `TurnPage`, `ShowReady` |
| Clear cache of the settings | `ClearCache` |

`icon_panel->mtx` is held for every icon drawn and every check, except while
`dl_from_url` runs. The download begins with an empty file and two may write the
same one; `writer` says whose bytes are kept.

Properties. `SharedTexturesLive`: a texture loaded with the database is never
deleted by a panel, since `games` brings its name back with the next list that
is dropped. `PageServed`: a page of the catalogue that stays on show has all its
pictures in the end, or their downloads failed, whatever thread was busy when it
was opened. The interesting part of `TypeOK`: the Sort page's branch of the frame
never meets a result list, whose positions its test against `item_c` would take
for the end of the list and leave with the mutex locked
(`GLES2_layout.cpp:695-697`).

Two histories say where the code does go wrong, and the model shows it when they
are taken out of the properties. `crossed`: a list replaced in the middle of a
download (a sort, or a list dropped) makes its end mark the item of another app,
`png_is_loaded` on one that was preloaded, and `drop_some_icon0` then deletes the
texture `games` shares. `replaced`: after a sort, a dropped list or Clear cache `old_idx` still
names the page, and what is missing on it gets no thread once the Sort page is
left; so a picture that Clear cache deletes between its download and the check
of the PNG (`GLES2_layout.cpp:442-449`) stays a fallback until another page has had
a thread, and so does one whose download had no curl handle (`NoHandle`; `Vanishes` asks
that it does not happen for ever). What was cleared before the page got its thread is served.

Also in the model: `aux_addr` is the address of a global, the same for every
list, so a second search whose selection is on the same page as the last one's
gets no thread; a
result list's icons beyond the drawn page can be loaded by the icons thread
itself, which has no GL context (the last branch of `check_n_load_texture`); the
Ready view downloads on the UI thread, beside the icons thread and perhaps into
the same file; a download that brings something that is no picture neither fails
nor loads; LeaveLeft keeps the page with `curr_item` 0, so that `drop_some_icon0`
and the frame may drop and load the same icons again.

Choices: an item list is replaced in one step, under the lock or not (dropping
one copies `games` without it); a page's icons are drawn in one step, the icons
thread moving before or after; Move goes to any entry; several buttons may be
pressed between two frames. libpng and GL are external.

Bounds: two apps on two pages of one icon, one picture preloaded, one result
list that holds both positions in the other order, nothing spared by distance
(`Keep = 0` for 80, `MinCount = 0` for 150): every icon is near or far, on the
page or not, preloaded or not. Clear cache deletes the picture that is not preloaded
(`Clearable`): the other's file is only read with the database. The proof has no bounds.

Fairness: frames are drawn, both loaders go on and a download ends. Buttons are
not fair.

## 11. Runs

| run | configuration | shows |
|---|---|---|
| `downloads` | `MCDownloads.cfg` | type, reuse of slots, status, whole packages, badge, `Downloads` implements `Pool` |
| `downloads_live` | `MCDownloadsLive.cfg` | `ThreadsEnd`; whole packages while the folder changes |
| `downloads_full` | `MCDownloadsFull.cfg` | violation of `FullQueueDrains` |
| `transfer` | `MCTransfer.cfg` | `Transfer` implements `Delivery`; pause, cancel, resume |
| `updates` | `MCUpdates.cfg` | locks, badge, no deadlock, progress of all threads |
| `updates_progress` | `MCUpdatesProgress.cfg` | violation of `NeverDeadlocks` |
| `catalog` | `MCCatalog.cfg` | selection, what search results and groups lead to |
| `screens` | `MCScreens.cfg` | the panel and the lists say what their buttons do |
| `screens_rows` | `MCScreensRows.cfg` | violation of `RankHasSlot` |
| `icons` | `MCIcons.cfg` | shared textures, pages served |
| `loader` | `MCLoader.cfg` | interruptions, releases, servers |
| `database` | `MCDatabase.cfg` | interruptions, publishing, CDN changes |

Each property of a passing run has a mutant: a definition changed the way a
bug would change it, under which the property fails. Mutants stand beside the
definition they replace and are named for what they get wrong.

## 12. Proofs

TLAPS checks every theorem below for all values of the constants; the
assumptions are the `ASSUME`s of the modules (finite sets, disjoint sets of
threads, numbers in their ranges), which TLC evaluates in every run.

`DownloadsProofs`

- `TypeCorrect`: `TypeOK`, by itself inductive.
- `OneSlotPerItem`: `UniqueItem`, inductive with the types.
- `StatusMeansWhatItSays`, `FinishedSlotsAreReused`: `StatusTruthful` and
  `ReusesFinishedSlots`. A slot is given to a thread because of its status, and its
  status is right because only one thread writes it. `Owned` takes both together, with
  `Roles` (which code a thread can be in: that the UI never runs `start_routine2`).
- `BusySlotsProgress`: `NoGhost`, for any errors. `Serving`: a thread has an item until it
  gives it up; so a failed download leaves its slot with the item, and the ghost has it.
- `PoolImplemented`: `Downloads` implements `Pool`: the initial states agree, and
  each action is one of `Pool`'s for a slot, or leaves the slots alone.
- `InstallsWholePackages`: `InstallWhole`, for any errors but 3: the assumption on the
  constants says that COMPLETED is no error of a download, since as a CURLcode it is
  CURLE_URL_MALFORMAT, which the HEAD request of the same URL meets first, and as an
  errno ESRCH, which `fopen` does not have. The invariant
  is `Owned`, `Serving`, `UniqueItem` and `Whole`. `Named`: the path a slot keeps is its
  item's, in some folder; after that the install watches it (`Watched`). `Holds`: what a
  thread relies on at each place, as that the file it has open is the one its slot names.
  `Tracks`: every file that is not whole belongs to the unfinished download of its item
  (`Unfinished`), and such a slot offers no install. A thread's file is
  safe from the other slots because no two serve the same item (`OneSlotPerItem`).
- `BadgeIsExact`: `BadgeCounts`: a slot still names its item when `install_prog` settles it, so `games[-1]` is
  read only after a take-over.
- `ThreadsDoWhatScreensAssumes`: a thread writes to the slot it was given and to no
  other, and unless that was taken over, only while its status is busy (or, to settle an install,
  while it has the install's result). `Screens` does
  not model the threads and takes this for granted (`ThreadMoves`); here it follows
  from `Owned`, action by action.
- `OneThreadServesAnItem`: `OneSlotPerItem` and what `Owned` says of a slot's threads put together.
- `FilesHaveOneWriter`: as long as no slot is taken over, at most one thread is between the
  unlink of a path and the end of its transfer, and the path is not taken for a whole package
  meanwhile. After a take-over two threads can have one path open, and the theorem is not
  about that time.
- `SlotsAreLostToInstalls`: what is true in place of `FullQueueDrains`, which fails. A
  slot without an item is free or holds the result of an install; no failed download
  is ever left without the item it can be cancelled by. The proof needs `Serving`: a
  thread has an item until it gives it up, which it does with the install's result in
  the status.

`ScreensProofs`

- `ScreensTyped`, `PanelSpeaksTrue`: `TypeOK` and `PanelTruthful`. `PanelInv`
  says at every step, not only on a fresh frame, how far the number of entries,
  the texts and the labels may be behind the slots: by one entry and its text,
  until the next frame of the item.
- `RowsSpeakTrue`: `RowTruthful`. `Listing` says that a list on show has as many
  rows as it counted and its selected row is one of them; that a rank has a slot
  is `EveryRankTaken`: members of a finite set of numbers differ in rank, so by
  counting every rank below the size of the set is taken, without induction.
- `ScreensKeepPool`: every step of `Screens`, buttons and threads, is one of `Pool`'s,
  which `Downloads` implements too (`PoolImplemented`).
- `RowsOpenTheirSlots`, an action property: `OpenRow` goes from a row's rank to a slot
  and from it to an item, and the panel from the item back to a slot; it is the same
  one. A rank has one slot (`RowIsOne`: members of a finite set differ in rank), and an
  item has one, which `PoolOneSlot` proves of `Pool` alone.

`CatalogProofs`

- `CatalogTyped`, `SelectionStaysShown`, `SearchAlwaysDenotes`, `GroupsShowTheirApps`
  and `ListsAlwaysDenote`: the properties, for any number of apps, panel and
  grouping. The invariant adds to them that a group's list fits (`GroupsFit`),
  that the left panel keeps the selection within the count (`Selected`: the next
  frame of the icon panel relies on it), that the groups were made for some order, and
  for the one shown unless a list was dropped (`Regrouped`), and that the entries which
  open nothing are those of empty groups (`EmptyGroups`). `Listed` says what a list made from a set of
  indexes holds, by counting of ranks (`EveryRankTaken`, `NthOnto`); `GroupsExact` that a group made
  for an order holds exactly its apps, `OrdersOnto` that an order leaves out none;
  `SelectsWithin` says where `layout_update_sele` ends.

`IconsProofs`

- `SharedTexturesStay`: `SharedTexturesLive`. The invariant is `Shared`: an item of
  a preloaded app shows its texture and is not marked, and no picture that is
  being downloaded is a preloaded one; every case of `check_n_load_texture` keeps
  an item so (`DefaultKeeps` .. `DrawnKeeps`).
- `IconsTyped`: `TypeOK`, in parts, each inductive with the ones before it: the files
  (`FilesTyped`), the items, of which every app has one in whatever order the list is
  sorted (`AllShown`), the Ready view (`ViewTyped`: no more pages than items), the icons
  drawn in a frame (`FrameTyped`: no more than the page has), and that the flag of the
  icons thread tells whether it runs (`FlagsTell`).

`TransferProofs`

- `TransferTyped`, `PausedHolds`, `CancelledStops`, from the invariant
  `InStep` (the connection stands where the file ends) and `Noticing` (after a
  pause or cancel at most one buffer, and then no place from which to write).
- `TransferDelivers`: `Transfer` implements `Delivery`: each step of the one is
  a step of the other or leaves `file`, `result` and `flaw` alone.
- `SuccessIsWhole`: what that is worth to the caller: with `result = "ok"` and a handle to
  begin with, every buffer was received and written once and in order, and the file is that or,
  when the closing flush failed, a prefix of it. `Downloads` starts from it: a file is
  "full" when its transfer has ended so.
- `ResumeHandshake`, assuming `Patient`: `my_progress_func` decides by its own flag
  whether to call `CURLPAUSE_CONT`, while `write_data`, a reconnection and an earlier
  download of the slot change libcurl's pause or the flag without the other.
  `Handshake` says when the two may disagree: after a pause until the function has
  next run, or after a cancel; never once the transfer has been resumed. Without
  `Patient` (pausing and resuming within the second between two calls) it fails.

`UpdatesProofs`

- `UpdatesTyped`, in three parts (mutexes, flags, the rest).
- `LocksBalance`: `BalancedLocks`, from `UIHolds`: which mutex the UI thread
  can have at each place, and never twice.
- `NobodyWaitsInACircle`: `NoCircularWait`, from `OthersHoldNothing`: until
  progress is asked for, only the UI thread keeps a mutex between two steps.
- `BadgeCountsUpdates`: `BadgeExact`, with `Unraced`: what a check has read and
  not yet written back is still so. That the counter is above zero when an
  install lowers it follows from the set counted, even if another game is
  between being found and being counted.
- `ResultsStay`, an action property, and `BadgeStaysNear`: what the race of a check
  with the end of an install, which `BadgeExact` leaves out, can do. `Copying`: what
  the check is about to write back is what is there, or an update settled in between
  by an install that is on record in `raced`; so nothing else brings an update back.
  `BadgeOwes` counts the installs that may still cost the badge one (`Owed`): the
  badge never shows more than one too many (an install that ends between `CheckGame`
  and `CountUpdate`, with the counter at zero, which then stays where it is), and
  misses at most one for each install (which ends between `LoadStatus` and
  `StoreStatus`).

`LoaderProofs`

- `LoaderTyped`, `NotedHashVouches`, `LaunchedIsCurrent`, `LaunchedIsVerified`,
  from one invariant that says at each place what has been established:
  `Fetched` (the hash is the server's), `Replacing` (unlinking comes before the
  new ELF, the new hash after it), `Ready`, `Checked`.
- `RejectedOnlyInRaces`: an ELF fails its signature only if the server has published
  a release since the Loader began. `Published` (no file is ahead of its server) and
  `Signed` (the signature is the server's, not older than the start) pin both to the
  same release otherwise.

`DatabaseProofs`

- `DatabaseTyped`, `DatabaseIsCurrent`, `DatabaseOfOneServer`, from `Begun`
  and `Loadable` (what is about to be loaded has been compared or fetched).
- `RestartsOnlyForNewer`, an action property: `check_for_updates` ends the Store only
  for a newer database of the same server. `Unmoved`: until then `store.db` is the one
  on show, although Settings writes the other files; `Outdated`: the comparison that
  sent the thread to fetch still holds, since a server only moves on.

Only model-checked: everything that must happen in the end (`ThreadsEnd`,
`CancelEnds`, `ResumeFlows`, `Responds`, `CheckEnds`, `InstallSettles`,
`LaunchesInTheEnd`, `Settles`, `PageServed`), which needs fairness and is out of
the prover's reach. Every invariant and action property of a passing run is a
theorem. The theorems whose property is not one of a run (their definitions stand
in the proof modules) were stated after TLC had found no violation of them, and of
the invariants they rest on, in the instances of the runs.

## 13. Not modelled

SQL, directory listing, logging, language strings, INI parsing, MD5, PNG, fonts,
atlas, shaders and drawing are pure functions or input and output; sqlite,
freetype-gl, fmt, jsmn, mbedtls and stb are third-party code; the PRX modules are
system calls, of which the Loader models the result of `VerifyRSA`.
`PROJECT.json` "components" has the list.

These are most of the repository's lines. The program's own code is the 12,000
lines of `src/Store/source` and `src/Store-Loader/source`; the other 100,000 are
embedded shaders and fonts (`cover_template.h`, `p_fs.essl.h`, `font.h`) and
vendored headers and libraries (stb, fmt, mbedtls, freetype-gl, sqlite), which the
Store uses through a call and its result. Of the program's own code, every part
that keeps state across calls and decides by it is in a module.

## 14. Plan

Done, in this order: Downloads with its proofs, Transfer and Delivery with
theirs, Updates, Catalog, Loader, Database and their proofs; then Pool and the
refinement, Screens, Icons and their proofs; then what reaches the installer and the
badge, the rows of the lists, and the catalogue's properties, as theorems; then the
types of Icons, the pause handshake, what the screens assume of the threads and the
pool of the screens, one writer to a file, where slots are lost, what a race can do
to the badge, and why the Loader rejects and the Store restarts; then the download folder,
the two reads of auto_install, downloads without a handle and unflushed files, Clear cache,
and groups across sorts.

Next: as theorems, that a page's pictures are only fetched while they are missing
(Icons), and that a result list stays complete while the Filter page changes it (Catalog);
larger instances of Icons.
