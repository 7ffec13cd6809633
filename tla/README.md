# The Great Wall: a TLA+ verification development

The Great Wall is a co-operative defence game that runs as a set of Lua mods
(`src/games/the_great_wall/mods/tgw_*`) on a vendored Luanti server
(`src/engine`). Players defend a house against waves of invaders; a run ends in
victory after the last wave or in defeat when the door breaks, and the world
then resets itself and waits for the next START.

This directory holds TLA+ models of the mods and of the three parts of the server
on whose promises they rest most (the scheduler of delayed callbacks, the reliable
transport and the threads that bring map blocks into memory), the configurations that check them with TLC, and
proofs checked by TLAPS. All paths below are relative to
`src/games/the_great_wall/mods/` unless they begin with `engine/`.

## 1. Inventory

### Execution model

The mods run in a single thread. The engine calls them: `on_step` and
`on_punch` of an entity, `on_rightclick` of a node, ABMs and LBMs, callbacks of
`core.after`, callbacks on joins and form input. Each call runs to its end, so
**one call is one atomic step**, except that the mods talk over a synchronous
bus (`tgw_core.emit`): an event runs all its listeners inside the call that
emitted it. What makes the code hard is not data races but

- delayed callbacks (`core.after`) that outlive what they were scheduled for;
- events without an identity ("an invader is gone", but not which one);
- records of one fact in several places (map node, Lua table, entity, mod
  storage), each with its own lifetime across unloading, reset and restart;
- copies: an item stack is a value, and a handler may overwrite what a listener
  wrote meanwhile;
- effects of the engine after a handler has returned (`on_punch`, `on_use`);
- an error in any callback, which ends the process; the container restarts it.

Below the mods the server is concurrent. Emerge threads fetch and generate map
blocks: they share a queue with the server thread under one mutex, the map under
another (the environment's, which is also held whenever Lua runs), and read the
database and generate under neither. The connection has a sending and a receiving
thread, which share the lists of each channel; between two of their lock-protected
steps the other one may run, and between two hosts packets are lost, doubled and
reordered.

### Components

| component | state | operations | interacts with | what makes it correct |
|---|---|---|---|---|
| `tgw_core` | `current_state`, listeners, configuration | `set_state`, `emit`, `on` | everybody listens | LOBBY, RUN, VICTORY/DEFEAT, LOBBY in this order |
| `tgw_waves` | `current_wave`, `alive_count`, `wave_active`, spawning job | START, spawn, count, clear, wait, stop | core, invader, house | one wave at a time, each cleared once and only when its invaders are gone; the run always moves on |
| `tgw_invader` | entities: type, hit points, `_captured` | spawn, step, punched, summon, strike | waves, house, engine's unloading | every removal of a counted invader is announced once |
| `tgw_capture`, `tgw_pipeline` | a reference to the captured entity for 3 s | capture, deport, send back | waves, economy | a captured invader is counted off once, counted back when returned |
| `tgw_house` | `door_hp`, `door_init` in mod storage | START button, damage, repair, rebuild | waves, reset, hud | the run is lost once, when the door breaks |
| `tgw_reset` | `pending`, three nested callbacks (15 s, 0.5 s, 1 s) | run | all by `world_reset` | after a run the match is back in LOBBY with door, wall and house whole |
| `tgw_hof` | entries in a file | `run_won`, `run_lost` | reset | a run leaves one line |
| `tgw_shop` | `crate_busy`, flags `placed*`, spinners, traps | roll, reveal, take, time out, place boxes, trap hits, purchases | economy, wall, reset, combat | a box turns one prize at a time and becomes free; nobody gets what he did not pay for |
| `tgw_combat` | metadata of the weapons' stacks, `loadout_session` | shoot, reload, tick, add XP, fit and remove accessories, loadouts | invader, shop | weapons never go dead, nothing is lost or doubled |
| `tgw_economy` | shared wallet in storage, personal ones in player metadata | pay, add, rewards | shop, waves, reset | money is created by rewards only |
| `tgw_wall` | flag `built`, the map | build, repair | reset, shop | enclosure and boxes exist together |
| `tgw_hud` | none | tick | reads the door's hit points, and by that fills them in | |
| `tgw_map`, `tgw_trump_skin`, `tgw_test` | none that the match reads | | | |
| `core.after` (`engine/builtin/common/after.lua`) | a heap and lists of jobs | after, globalstep | all delayed calls | due jobs run once, in order of expiry, then of registration |
| engine: entities, blocks, inventories | | punch, unload, reload, set_node, addItem | all | vendored; taken as it is |
| engine: reliable transport (`engine/src/network/mtp`) | per channel: sequence numbers, queued and sent packets, receive buffer, split chunks | send, disconnect, time out, resend, acknowledge, reassemble | both threads of the connection, the peer's, the network | messages arrive whole, once, in order, and all of them unless the connection ends |
| engine: emerge threads (`engine/src/emerge.cpp`, `servermap.cpp`) | queues, entries, counts per peer, references to blocks, chunks in progress, callbacks | ask, fetch, read, generate, answer, cancel, stop | clients, `core.emerge_area`, database, map, unloading, shutdown | one thread per chunk, blocks stay while they are made, every callback runs once, a stop ends |
| container | | restart, optional wipe | | |

The hazards of this code, each with its line and the properties aimed at it, are
listed in `PROJECT.json`.

## 2. Modules

| module | what it is |
|---|---|
| `Match` | one match: state, waves, invaders, net and pipeline, door, reset, Hall of Fame lines, death and restart of the process; implements `Campaign` |
| `Campaign` | what a match promises: waves in order, each rewarded once, one end, back to the lobby |
| `MCMatch` | instances of `Match` |
| `MatchProofs`, `MatchTally` | theorems about `Match`, that it implements `Campaign` among them; theorems about how it counts invaders |
| `Vending` | what the boxes promise: a game belongs to who paid for it |
| `MysteryBox` | the weapons mystery boxes: node, `crate_busy`, spinner; joins, wall building, reset, unloading, restart; implements `Vending` |
| `MCMysteryBox`, `MysteryBoxProofs` | instances and theorems |
| `Weapon` | the firearms of one player: magazine, reload, XP, accessories; shot, tick, upgrade table, inventory moves |
| `MCWeapon`, `WeaponProofs`, `WeaponStock` | instances; theorems about the magazines; theorems about what the player owns |
| `Agenda` | what `core.after` promises: due jobs in order, each once |
| `After` | the heap, the lists and the globalstep of `core.after`; implements `Agenda` |
| `MCAfter`, `AfterProofs` | instance and theorems, the refinement among them |
| `Fifo` | what a reliable channel promises: an unbounded queue of messages that may end |
| `Transport` | one direction of one channel of the transport: the sender's two threads, the network, the receiver's thread; implements `Fifo` |
| `MCTransport`, `TransportProofs` | instance and theorems, the refinement among them |
| `Emerge` | the emerge threads, the queue of requests, the map they fill, the server thread that asks, unloads and stops them |
| `MCEmerge`, `EmergeProofs` | instances and theorems |

Each module has its state as `VARIABLES`, one action per engine callback or
player's act, and its constants' assumptions named in an `ASSUME`. Definitions
whose name says what is wrong with them (`StartInAnyState`, `FitNoSwap`,
`PulledNoReload`, ...) stand just before the definition they could be mistaken
for: they are plausible bugs, used by nothing, with which every property is
tested (`mutants` in `PROJECT.json`).

### Match and the code

| variables | code |
|---|---|
| `state` | `current_state` of tgw_core |
| `wave`, `alive`, `active` | `current_wave`, `alive_count`, `wave_active` of tgw_waves |
| `chains` | the pending calls of `next_spawn`: wave, invaders left, time |
| `gaps` | the pending callbacks of 8 s between two waves, by the time left |
| `inv` | the entities: `live`, `captured`, or `stored` in an unloaded map block |
| `pipe` | the pending callback of the pipeline for each entity |
| `doorHp`, `doorInit` | mod storage of tgw_house; survives the process |
| `phase`, `resetDue` | which of the three callbacks of the reset is next, and when |
| `hof` | the lines written for this run |
| `clears` | history: `wave_cleared` events of this run, each of which pays rewards |
| `proc` | the server process runs |

An action is a whole callback with all its listeners. `Punch` for instance is
the engine's punch: `on_punch`, the event and the listeners of tgw_waves,
tgw_hof and tgw_reset that it reaches (`InvaderGone`, `EndOfWave`,
`StartReset`), and the second subtraction of the damage by the engine. Delays
are countdowns; `Tick` moves them together and may not pass a callback that is
due, which is the contract of `core.after` (`Agenda`). Callbacks due at the same
time run in either order.

Abstractions of `Match`: positions, walking, aiming and damage to players are left out;
who can be hit, netted or strike is nondeterministic. Kinds of invaders are
reduced to runner, titan and summoner, the composition of a wave to its size and
boss. A summoner's summon and its blow at the door, parts of one `on_step`, are
two actions, which allows more interleavings than the code has. `chains` is a
set: two equal chains would need two waves started at the same instant.
The constant `Perils` names which environment events an instance allows (nets,
unloading, blows at the door, shutdown).

### MysteryBox and the code

`node[b]` is the node at the box's place, `block[b]` what the engine does with
its map block (active, in memory, out of it), `busy` is `crate_busy`, `spin`
the spinner entities, `flags` the flags of tgw_wall and tgw_shop in mod storage,
`timers` the callbacks of joins, `match` how far a run and its reset have come,
`paid` and `taken` history. Time is nondeterministic here (a box may time out or
a callback run at any time), with two exceptions that the delays of the code
exclude and that are stated as guards: the wall callback of a join (1.0 s) never
falls between two callbacks 0.5 s apart, and a block just emerged stays in
memory (29 s) for the 1.5 s of the following callbacks. Loot crates
have the same handlers, but no code places one.
The list of prizes is not modelled; a prize is counted. `perils` is a variable
that never changes: which of stops, blows, unloading and resets a world knows. It
is chosen in `Init` from `Worlds`, so that one run looks at several worlds and a
property may say in which it holds.

### Weapon and the code

`inv[i]` is a stack with the metadata `ammo`, `reload_until` (as time left),
`xp` and the accessories. `Shoot` is `on_use`: it works on a copy, during which a
kill calls `add_xp` on the inventory itself, and the copy is then written back
to the cell in hand. `TickInit` is the refresh of all stacks once a second.
`OpenTable`, `CloseTable`, `Equip`, `Unequip`, `FormExpires` are the upgrade table, which
remembers a cell. `Swap`, `Select`, `PickUp` and `Receive` are the player with
the engine's inventory. One shot kills at most one invader, all magazine
accessories go to one slot as in the code, levels are left out because no
property reads them.

### After and the code

| variables | code (`engine/builtin/common/after.lua`) |
|---|---|
| `time`, `time_next` | the same |
| `expiries` | the array with the binary heap |
| `job_map` | the lists by expiry; the domain is the keys that are not nil |
| `expired` | the list a globalstep has still to run |
| `pc` | where the globalstep is: collecting, running, inside a callback; or out of it |
| `cancelled` | jobs whose `func` is `dummy_func` |
| `count`, `ran` | history: registrations, and the jobs whose function was called |

`GlobalStep`, `Collect` (one turn of the loop that empties the heap of what is
due), `RunNext` and `Return` are the globalstep; `CoreAfter` and `Cancel` happen
between globalsteps or inside a callback. `heap_push` and `heap_pop` are one step
each, as in the code, and are written without recursion: a loop visits the
smallest set of indices that contains where it starts and, with an index, where
it goes on to (`Visited`); every visited index takes what the next one held and
the last takes the element (`Shift`). `Up` and `Down` say where the loops go on
to, with the comparisons as the code makes them. A job carries its number and
expiry, which the properties need and the code does not keep. Times are integers
where the code has floating point numbers; expiries that are equal as numbers
share a list in both. An error in a callback ends the server and is not modelled.

### Transport and the code

| variables | code (`engine/src/network/mtp`) |
|---|---|
| `commands` | `m_command_queue` of the connection, filled by the application |
| `waiting` | `queued_commands` of the channel: messages that got no numbers yet |
| `stream` | what each sequence number was taken for; `next_outgoing_seqnum` is its length, wrapped |
| `queued`, `sent` | `queued_reliables` and the sorted `outgoing_reliables_sent` |
| `window` | `m_window_size` |
| `phase` | where the sending thread is: `runTimeouts`, commands, `sendPackets` |
| `sender`, `receiver` | the peer: open, `m_pending_disconnect`, deleted |
| `net` | packets and acknowledgements in flight |
| `nextIn`, `incoming` | `next_incoming_seqnum`, the sorted `incoming_reliables` |
| `chunks`, `delivered` | `incoming_splits`, the events for the application |

Numbers: packet *n* is the *n*-th number taken, but the code sees `Wire(n)`, its
16 bits, and every comparison (`Higher`, `InWindow`, `WalkOver`) is made on
those as the code makes it, wrap included. A payload is which chunk of which
message it is. One action is what the code does under one lock: the receiving
thread's `ReceiveAck` may fall between any two steps of the sending thread. The
sender's window after an `UpdateTimers` is any of `Windows`, since it depends on
round trip times that are not modelled. `Fresh` states that no packet survives
in the network for as long as its number takes to come round (65,536 packets
later); no protocol with finite numbers works without it.

### Emerge and the code

| variables | code (`engine/src/emerge.cpp` unless said) |
|---|---|
| `entry` | `m_blocks_enqueued`: who asked first, may it be generated, callbacks |
| `count` | `m_peer_queue_count` |
| `queue`, `signalled` | each thread's `m_block_queue` and `m_queue_event` |
| `mutex`, `env` | `m_queue_mutex` and the environment's mutex, where they are held over several actions |
| `at`, `job`, `held`, `blob` | where a thread is in `run`, its position, the callbacks of the entry it took, `databuf` |
| `mem`, `disk`, `dirty`, `refs` | blocks in memory and in the database, modified ones, `MapBlock` reference counts |
| `making` | `m_chunks_in_progress` of `servermap.cpp` |
| `asked`, `asks`, `called` | history: requests with a callback, requests, runs of each callback |
| `fatal`, `open`, `stopped` | `setAsyncFatalError`, the server thread runs, `stop()` of each thread |

One action is what a thread does under one hold of a mutex. `Look` and `Decide`
are the two calls of `getBlockOrStartGen`, with `Read`, which holds only the
database's mutex, in between; `FinishGen` is `finishGen` after a generation that
takes any time; `Call` is one callback, which takes the environment's mutex.
`Shutdown` and `Cancel` are `cancelPendingItems`, which keeps `m_queue_mutex`
to its end: therefore `AskBlocked` and `CallBlocked` say who waits for it while
he holds the environment's mutex. `CancelMake` runs without any mutex; a data
race on the reference counts may lose an update, hence any drop of 0, 1 or 2.
`perils` works as in `MysteryBox`: in a world with `invalid` the database holds
data that cannot be read, with `script` a mapgen script may fail, with `blank`
somebody of the server (`core.load_area`, a VoxelManip, the search for a place to
spawn) loads a block that does not exist and gets it created, unmodified, with
`chained` a callback of `core.emerge_area` may call `core.emerge_area` again, with
`slow` a thread may hold what it read from the database for longer than an unused
block stays in memory. A `Copy` of a block is a blank one or one of a generated block, in
memory, in the database and in a thread's `blob`. A block that `initBlockMake`
creates is blank and modified, a generation makes it generated and modified, `Save`
writes the modified ones. `Unload` writes and drops an `Unused` block: nobody refers to it, and, the
timeout being 29 s by default, no thread is between its look at the map and its
decision about that position, unless the world is slow.

## 3. Runs

| run | instance | shows |
|---|---|---|
| `match_safety` | two waves (one invader; one and a titan), 3 entity slots, all perils, door of 1 | types, one wave at a time, waves cleared once and in order, one line per run, reset exactly after a victory; the match is a `Campaign`; a won match returns to LOBBY and the next wave comes |
| `match_count` | waves of 2 and of 1 with a summoner, 4 slots, unloading, blows of 1 and 3 on 3 points, door of 2 | without nets, and when no blow leaves at most its own damage, `alive_count` is exact; the two liveness properties without running out of slots |
| `match_weak_punch`, `match_defeat` | small instances | violations, see section 6 |
| `box_safety` | house and one tower, two players, two spinners; two worlds: crashes only; blows, unloading and resets | one spinner per box, prizes were paid for, the house has its box, a game is its buyer's (`Vending`); in the first world a box in use becomes free |
| `box_stuck` | one player, blows and unloading | violation, see section 6 |
| `weapon_safety` | three full cells: a pistol and two magazines; up to three pistols | types, no dead weapon, accessories conserved, XP only from kills, a reload ends |
| `weapon_xp` | a pistol and one kill | violation, see section 6 |
| `after` | five jobs, delays of -1 to 2, steps of 0, 1, 2, callbacks that register and cancel | heap and map agree, no due job is overlooked, `core.after` is an `Agenda`, due jobs run |
| `transport` | messages of two packets and of one, one ping, 14 numbers that wrap after the third packet, windows of 1 and 4 | types, both lists sorted, what was acknowledged is not lost, and the channel is a `Fifo`, liveness included |
| `emerge` | two threads, a chunk of two blocks, a block beyond the limit, a client and Lua, queue limit 2; three worlds (calm; `script` and `blank`; `chained`, `invalid` and `slow`) | queue, entries and counts agree, one maker per chunk, its blocks stay, callbacks run at most once, no ungenerated copy takes the place of a generated block; in the calm world all run and a stop ends |
| `emerge_stop` | the same, in the world of chained callbacks | violation, see section 6 |

### Bounds, and why they are enough

- *Two waves*: the code tells the last wave from the others and nothing else;
  the first is started by START, the second by the callback.
- *`Ids`*, 2 to 4 slots: a slot is reused as soon as nothing refers to it. A
  spawn that finds no slot waits, which only removes behaviours; three allow a
  wave's invaders, one that came back and a stray of the last run together. For
  liveness a spawn that waits would look like a match that hangs: the liveness
  properties allow a state without a free slot (`OutOfIds`) as an end. So that
  they do not hold by that alone, `match_count` sets `Room = 4`: START is pressed
  with every slot free.
- *Delays* of 1 or 2 units keep the order of the code's (spawning and the
  pipeline shorter than the gap between waves, which is shorter than a reset) and
  make every coincidence happen.
- *Hit points* 1 or 3 against blows of 1, 2, 3: blows that kill, that hurt, and
  (in `match_weak_punch` alone) that kill by being counted twice.
- *A door of 1 or 2*: a blow that breaks it, and in `match_count` one it survives.
- *`MaxPaid`, `MaxTimers`*: one or two rolls of each player, one pending callback
  of each sort; with two players and two boxes all pairs of handlers meet. Several pending
  callbacks of one sort are left to the proofs, which cover any number.
- *`MaxGuns`, `MaxKills`*: three pistols, so that a doubled XP shows with one
  kill.
- Magazines of 3, 5 and 6 rounds have the proportions of the code's.
- *After*: delays of -1, 0, 1 and 2 make four expiries wait at once, so that a pop
  compares two children, two jobs of one expiry and a fifth that a callback
  registers; 0 and -1 are due at once, -1 before what is due already. Steps of 0
  and 2 find nothing due and several expiries due. Deeper heaps are left to the
  proof. The handle of one job is kept, which is enough to cancel before and after
  its expiry, and in the step in which it is due. At `MaxTime` the clock stops;
  `JobRuns` asks for the jobs due by then.
- *Transport*: 14 numbers with a window of 7 keep the code's proportion (65,536
  and 32,768) and the first number is 3 before the wrap, as the code starts 36
  before it; three packets and a ping cross it. A send window of 1 makes the
  second packet wait in the queue and the ping overtake it, one of 4 lets all go
  at once. `NetSize = 1` still loses, doubles and reorders: a packet put into a
  full network displaces the one in flight, and old ones come back as resends.
  One ping (`MaxPings`) overtakes what is queued (`MaxOvertaking`).
- *Emerge*: one chunk of two blocks is what two threads can meet on: one makes
  it while the other is asked for its other block. Two requests with callbacks
  and two in all let requests merge, two threads fill, a limit bite and a
  callback ask again; the world of a failing script, which is also the one
  of blank blocks, has one, which is enough for a failure and for a block created
  between a thread's look and its read, and keeps the run short; that no safety
  property minds blank blocks among many threads is proved (section 4). The third world has chained callbacks, a block
  in the database that cannot be read and slow threads at once, as they do not hide
  each other. Other blocks reach the database by being saved or unloaded. A border
  shared by two chunks does not occur in the instance; the proofs cover it (section 4). No position is outside the mapgen limits in the instance; the proofs
  cover these too.
- Symmetry of entities is used only in runs without liveness.

### Fairness

- `WF(Callbacks \/ Tick)`: the server steps for ever, and a step runs what is
  due. It is one condition on all of them together, as one `globalstep` runs all.
- `WF(Restart)`: the container is declared `restart: unless-stopped`.
- `WF(Reveal(s) \/ TimeOut(s))`: the engine steps a spinner as long as it exists.
- `WF(Pass)`, `WF(TickInit)`: the clock, and a tick that schedules itself again.

- After: `WF(Server)`, one condition on globalsteps that change something and what
  is inside them: the server steps for ever, its clock goes on, callbacks return.
- Transport: `WF(SenderLoop)` and `WF(Unbuffer)`, threads that loop; and strong
  fairness for the oldest packet on the wire: its resend timer runs out again and
  again, and of infinitely many copies and acknowledgements one gets through.
  Nothing is assumed of newer packets, of the application or of a disconnection.
- Emerge: `WF(Step(t))`, the operating system runs every thread and `makeChunk`
  ends; `WF(StopThread(t))`, `stopThreads` goes through its list;
  `WF(fatal /\ Close)`, the server ends after a fatal error. Nobody is obliged to
  ask, load, unload or close.

Players and invaders are never obliged to act. In particular "a wave ends" is
not claimed: an invader may stay away for ever.

### Refinement

`Transport` implements `Fifo`: `accepted` and `delivered` are the same, `ended`
is that one of the two sides is not open any more. TLC checks it with `Fifo`'s
fairness (`ImplementsFifo`), TLAPS proves the safety part for every number space,
windows and messages. A receive of a packet whose message is not complete, an
acknowledgement, a resend are stutters of `Fifo`.

`After` implements `Agenda`: the agenda is the jobs in the lists, less those that a
globalstep is collecting; the due jobs are the expired list and those. So what is
due is fixed by the one step in which time passes, the turns of `Collect` are
stutters, and `RunNext` has to take the least due job. TLC checks it
(`ImplementsAgenda`), TLAPS proves it for all delays, steps and numbers of jobs.

`Match` implements `Campaign`: the stage of the campaign (`Stage`) is the lobby, the
fight while a wave is active, the pause between two waves, won, lost (the death of
the process by which, in this code, every defeat ends) or dead; round, rewards and
lines are `wave`, `clears` and `hof`. Invaders, counts, door, net and callbacks are
stutters, except where they end a wave or the run; a reset's last callback and a
restart are both `Return`. TLC checks it (`ImplementsCampaign`), TLAPS proves it.

`MysteryBox` implements `Vending`: a spinner is a game, of a box, a player and a
phase. `Roll` is `Pay`, the reveal `Show`, taking the prize `Take`; a time-out, a
blow, unloading, a reset, a restart, and a prize taken by a player without room are
`Lose`. Nodes, the busy set, blocks, flags and joins are stutters. TLC checks it
(`ImplementsVending`), TLAPS proves it.

## 4. Proofs

TLAPS proves the following for every value of the constants that satisfies the
named assumptions, that is any number of waves, invaders, boxes, players, cells,
and any positive hit points and delays.

**Match** (`MatchAssumption`). `IInv == CountersOK /\ ObjectsOK /\ Live` is
inductive, where `Live` ties the counters to the match state: a wave is active
only in RUN with `alive > 0`, exactly one gap callback is pending between waves
and none while one is fought, in LOBBY and in VICTORY, `clears` is `wave - 1`
while fighting and `wave` between waves, in a state other than DEFEAT a reset is
pending exactly in VICTORY, and DEFEAT is a state of a dead process only.
The safety properties alone are not inductive because each uses another one: that
a gap callback finds no wave active (`OneWaveAtATime`) needs that a reset
is pending only after a victory, which needs that the gap callbacks were used up
when the last wave was cleared. The proof has one lemma for each shared listener
(`EndOfWave`, `InvaderGone`, ...) and one step per action. From it:
`TypeCorrect`, `WavesOneAtATime`, `WavesPaidOnce`, `OneLinePerRun`,
`ResetsAfterVictory`, the action property `WavesGoUpByOne` (`WavesInOrder`, which no
run checks, as the refinement says more), and `IsCampaign`: every behaviour is one of
`Campaign`.

**How invaders are counted** (`MatchTally`). `Owed` is a cardinality: of the
invaders on the field or unloaded, and of a set of tickets, one for each invader a
pending call of `next_spawn` is still to spawn. That `alive_count` equals it
(`CountIsExact`) is not inductive. `Tally` adds what it needs: nobody is netted or
in the pipeline (`NoNets`), the count is at least what is owed (`Enough`), at most
one pending chain has anybody left to spawn, and only in a run (`Spawning`), and,
where no process dies, nobody is on the field outside a run (`Deserted`).
`CountsExactly` proves it under the conditions in which the code counts right, all
met by `match_count`: no nets, no map block that comes back without its invaders,
no strays (START finds every slot free, or no process dies), and a set of hit points
closed under blows, each of which leaves more than its own damage or kills
(`WholeBlows`). `match_weak_punch` shows what happens without the last, section 6 what happens with nets. `NobodyForgotten`
needs only that there are no nets and no strays: the count is then at least what is
owed, so a wave may hang but is never cleared too early.

**MysteryBox** (`BoxAssumption`). `OneSpinPerBox` is strengthened by
`BusyWhileSpinning`: over a box that is not busy nothing turns. It is this, and
not the state of the node, that keeps the second spinner away when the LBM or a
reset closes the node. `PrizesPaidFor` has its own step theorem, over the
cardinality of a player's spinners: each action that gives a prize removes a
spinner of that player. `HouseHasBox` follows from `Placing`, which holds between
two resets as long as the process lives: the box's flag implies the wall's; a
pending callback for the box implies the wall's flag; and a wall without its box
has such a callback pending, which finds the block in memory. The last part is
what a death of the process breaks. `IsVending` proves the refinement: with one
spinner over a box spinners and games are one to one, so that what removes a
spinner removes exactly one game, and `BusyWhileSpinning` gives `Vending`'s guard
that nobody plays at the box when somebody pays.

**Weapon** (`WeaponAssumption`). `EmptyMeansReloading` is proved stack by stack:
`Good` is the set of stacks of which an empty one is reloading, and every writer
(`Pulled`, `Loaded`, `Ticked`, `Refreshed`, fitting) maps good stacks to good
stacks, so it does not matter which of two writers wins. `WeaponStock` counts what
the player owns. An accessory is in a cell or on a weapon, never both (`Clean`:
only weapons carry accessories, each in its own slot), so `Where` is one set of
cells; `PutCount`, `PutTwo` and `PutThree` say what writing one, two or three cells
does to its cardinality, and each action then keeps cells and ground together
(`KeepsCount`). The three-cell case is `Fit` with room: put the old accessory back,
take the new one out, which may be the very cell just filled. `XpFromKills`
is proved over the finite set `Points`: every writer but `add_xp` gives a subset,
`add_xp` adds an element, a swap is a surjection.

**After** (`AfterAssumption`). First the two loops, for any heap: `VisitedWithin`
(what the loop visits is within any set it does not leave) gives that every index
the element left held something greater, or less; `VisitedFrom` and `VisitedStops`
that nothing visited is lost and that the element finds a place. `PushKeepsHeap`
and `PopKeepsHeap` follow; that no expiry is there twice (`OneEach`) is counted,
since there are as many expiries as places. The invariant `IInv` adds to `HeapOK`
that `time_next` is the first expiry, that a list is sorted and of its expiry
(`ListsOK`), that the expired list is sorted (`ExpiredOK`) and, while lists are
collected, comes before all that is left (`PhaseOK`): without the last, joining two
sorted lists would not give a sorted one. From it: `TypeCorrect`,
`HeapAndMapAgree`, `NothingOverlooked`, and `KeepsContract`: every behaviour is one
of `Agenda`.

**Transport** (`TransportAssumption`: any number of pings in all, of which, counted
with half a send window and the packets of the longest message, no more than a
window of numbers overtake what is queued). The invariant is `IInv`:
- `Types`;
- `Stream`: the numbers were taken for the packets of message 1, 2, ... in order,
  with pings anywhere between them;
- `Order`: what still waits for numbers comes next, up to a disconnection;
- `Sender`: the packets on the wire are sorted, and nothing queued or on the wire is
  a window behind the next number;
- `Queue`: what overtakes a queued packet is a ping, which takes its number and is
  sent at once; those pings and the queue fit in a window;
- `Receiver`: the buffer is sorted and inside one window from the number awaited;
- `Network`: an acknowledgement in flight is for something held or delivered;
- `Delivered`: the messages delivered, and the chunks held, are those of the
  numbers below the one awaited; and `AckedIsHeld`.

The hard part is that the code compares numbers modulo 65,536. The lemmas
`WireShift`, `WindowTests`, `WireUnique` and `WalkOverIsLess` show that inside a
window its comparisons are those of the unwrapped numbers, `InsertSorts` and
`WithoutRemoves` that the two list operations then keep the lists sorted. That
every comparison stays inside a window is what `Sender` and `Receiver` are for,
and it needs the assumption on `Sizes`: a message of nearly 32,768 packets, queued
behind others, would break it (the code refuses only messages of more). So would
32,768 pings that overtake one queued packet; at one in 5 s that is two days in
which the packet does not find room in the send window. From it:
`TypeCorrect`, `ListsSorted`, `AckedKept`, and `Implements`: every behaviour is
one of `Fifo`.

**Emerge** (`EmergeAssumption`; any threads, blocks, chunks with overlapping
borders, peers, limits, perils). Five invariants, each inductive with the types:
- `IQueue`: `QueuedOnce`, `PeerCountExact` and that a position without an entry
  has no callbacks;
- `IMake`: a thread that generates has its chunk in `m_chunks_in_progress`
  (`MakerHolds`), and `OneMaker`;
- `IAnswer`: `AnsweredOnce`, and that callbacks have numbers already given;
- `IKept`: until a fatal error a block's reference count is the number of threads
  that generate a chunk around it (`RefsCount`), and those blocks are in memory.
  `BlocksKept` alone is not inductive: that a neighbour's `FinishGen` does not
  bring the count to 0 needs the exact count;
- `IDisk`: modified blocks are in memory (`DirtyThere`); in a world that is not slow
  a generated block that is not modified is generated in the database too (`Saved`),
  and what a thread read is what the database holds as long as the block is not in
  memory (`ReadIsCurrent`). A thread uses what it read only if the block is still
  not there, so it then brings nothing that was overtaken.

From them: `TypeCorrect`, `QueuesAgree`, `CountsAreExact`, `OneMakerOnly`,
`AnsweredAtMostOnce`, `BlocksStay`, and from the last the action property
`NothingGeneratedIsLost`: unless a thread is slow, no step puts a copy that is
not generated in the place of a generated block (`GeneratedStays`). The formula says no
more than that: an edit of a generated block is not modelled, so neither is its loss
to an older generated copy.

Only model-checked: liveness (TLAPS has no ENABLED here), so also the fairness
part of the refinement of `Fifo`.

## 5. Not modelled

*Mods.* Geometry of map and wall, the wall's hit points, movement and aiming,
damage to players, levels and melee weapons, forms and texts, the skin picker, the
smoke tests, third-party mods, wallets and purchases, loadouts.

*Transport.* The handshake that sets the peer id, unreliable packets, the quotas
shared between peers, timers, round trip times and how they set the window, and
what a peer does with corrupt data. The receiver is the same code as the sender;
the two directions and the three channels of a connection share only what is left
out here.

*Emerge.* `core.delete_area`, `core.emerge_area` over several blocks (a request
for each) or without a callback, creation of the threads, the events sent to
clients after a block changed, the content of blocks and what edits it, an error of
the server thread itself when it loads data that cannot be read.

*The rest of the engine.* Most of the repository is a vendored C++ engine with its
own libraries (renderer, GUI, JSON, big numbers, test framework, game client),
which the mods use but whose behaviour they do not depend on beyond the effects
named above. It is some 300,000 of the repository's 325,000 lines, so the models
cover a small share of the lines; they cover most of the state machine of the
mods, and of the engine the parts with protocols of their own.

*Deployment.* The image and the wipe of the world; the restart is an action.

## 6. What the models showed

Disagreements between the code and what it says of itself, each with a run that
finds it (`findings` in `PROJECT.json`):

1. `match_weak_punch`. `on_punch` stores `hp - damage` and returns nil, so the
   engine takes the damage off again. An invader left with at most the damage of
   the blow is removed without `invader_killed`; the wave waits for it for ever.
2. `match_defeat`. The blow that breaks the door makes tgw_waves remove the very
   invader whose `on_step` is running; its velocity is then nil, the error ends
   the process and the reset of a lost run never happens. After the restart the
   match is in LOBBY with a door of 0 points.
3. `box_stuck`. A spinner killed by a blow, or unloaded with its block, leaves
   its box closed but busy until the server restarts.
4. `weapon_xp`. The XP that `add_xp` gives to the stack in hand during a shot is
   overwritten by the copy that `on_use` returns.
5. `emerge_stop`. `cancelPendingItems` holds `m_queue_mutex` while it runs the
   callbacks. A callback of `core.emerge_area` that asks for the next block, as
   the engine's own stress test does (`engine/util/helper_mod/init.lua`), waits
   for the mutex its own thread holds, with the environment's mutex in its hands:
   the server does not stop.

Observations made while modelling, without a run of their own:

- The last invader of a wave is netted: the wave is cleared, and 3 s later the
  pipeline sends the invader back, uncounted, into the pause; the next wave then
  counts off one that it never counted (`tgw_waves/init.lua:254`).
- "Coexisting jobs will execute primarily in order of least expiry" holds among the
  jobs of one globalstep: a job that a callback registers with a negative delay has
  a lesser expiry than those still to run, and waits for the next step.
- `run_lost` carries `wave_reached = -1` (`tgw_house/init.lua:300`), and that is
  what the Hall of Fame records of a lost run (`hof` appends -1).
- A reset clears the flags of all boxes but puts back only the house's; those of
  the towers, the materials counter and the upgrade table return when the next
  player joins. If the join's callback runs between the two callbacks of the
  reset, it sets the flag and the reset then clears the box away for good.
- `place_counter` and its like set their flag though `set_node` fails when the
  block is not in memory. A crash after the wall was saved and before the box was
  placed has the same effect, which is why `box_safety` allows no crash.
- The tick ends a reload with `def.mag_size` rounds (`tgw_combat/init.lua:716`),
  the shot with the size that the accessories give: an extended magazine is
  filled or not depending on which comes first (`Ticked`, `Loaded`).
- The spawning chain is not cancelled when a run ends; invaders that were
  unloaded survive every reset and join a later run.
- `add_item`'s leftover is dropped when a prize does not fit the inventory.
- A position beyond the limit of the map is taken from the emerge queue and
  dropped with its callbacks (`engine/src/emerge.cpp:705`), so `Answered` leaves
  such positions out. So it does the worlds with a fatal error: what a thread
  that ends by an exception works on is never answered, nor is what is pushed
  to its queue afterwards.
- A chunk outside the mapgen limits, or whose generation failed, stays in
  `m_chunks_in_progress` for good.
- A thread reads a block under no lock of the map. If it then holds the old copy
  for longer than unused blocks stay in memory (29 s by default; the setting may be
  0), another one can generate the block meanwhile, it is saved and unloaded, and
  the first puts the old copy in its place (`engine/src/emerge.cpp:721`): TLC finds
  this in the slow world when `GeneratedStays` is not restricted. `clearObjects`
  loads blocks faster than that but keeps those that were loaded; it can only make
  the objects of the copy that was read old.
- Pings overtake queued packets and take numbers (`engine/src/network/mtp`). With
  a window or more of them before one queued packet (at one in 5 s, 45 hours), the
  packet's number is out of the window when it is sent, and it is not noted for
  resending: TLC finds a packet that is sent once and then forgotten.
- The reset wipes the players who are connected; others keep wallet and items.

## 7. What could follow

Done, in this order: `Match`, `MysteryBox` and `Weapon`, which hold most of the
state that several callbacks share; `Transport` with `Fifo`; `Emerge`; `After` with
`Agenda`; the refinements `Campaign` and `Vending`; the counting of invaders. In order
of importance, next would be:

1. `Players`: wallets of tgw_economy, purchases with debit, effect and refund,
   loadouts on join and respawn, the wipe of the reset; money is conserved up to
   rewards, nothing bought is wiped but by a reset. To be composed with `Match`
   through the events `invader_killed`, `invader_captured`, `wave_cleared` and
   `world_reset`.
2. `World`: placing of wall, house, boxes and counters with their join timers in
   real delays, to state which join loses which box.
3. `HallOfFame`: the order and the cut to 50 entries, and the file across a
   restart.

## 8. Running

    tlc -workers 2 -config MatchSafety.cfg MCMatch.tla
    tlapm MatchProofs.tla

`runs` in `PROJECT.json` gives the module and configuration of each run. The
longest takes about three minutes.
