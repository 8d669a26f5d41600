# RVBL-2 in TLA+

This directory holds a TLA+ model of the ChampionCHIP RVBL-2 charging station: a
multicycle RISC-V core, its peripherals, the assembly firmware that runs on it, the
golden model the firmware is tested against with its TypeScript port, the serial meter
protocol that feeds it, and the web visualiser that tells its story. The modules are
translated from the source under `src/chip-inventor/`. TLC checks them on small
instances; TLAPS proves the core results for every value of the constants.
`PROJECT.json` lists the runs, the mutants that show that each property can fail, the
source lines behind each definition, the hazards and the theorems.

- [1. The system](#1-the-system)
- [2. Modules and how they relate](#2-modules-and-how-they-relate)
- [3. How state and actions correspond to the code](#3-how-state-and-actions-correspond-to-the-code)
- [4. What the runs check](#4-what-the-runs-check)
- [5. Bounds](#5-bounds)
- [6. Fairness](#6-fairness)
- [7. What is proved](#7-what-is-proved)
- [8. Findings and remarks](#8-findings-and-remarks)
- [9. Not modelled](#9-not-modelled)

Run a check with `tlc -config Charger.cfg MCCharger`, a proof with
`tlapm ChargerProofs.tla`.

## 1. The system

A vehicle is plugged into a charging station. The control-pilot code on the GPIO pins
says whether it is there (A none, B plugged, C asks for power, D asks with
ventilation, else error) and another pin is the safety trip. A meter sends frames with
voltage, current and frequency over a UART. The firmware closes the contactor when all
is well, opens it on a trip, on too much current, on bad grid values, on a bad link, or
on silence, counts energy, and sends an eight-byte record when a session ends or a fault latches.

| Component (source) | State | Operations | What makes it correct |
|---|---|---|---|
| Charging controller, golden model (`testbench/app/golden.py`, class `Charger`) | state of six, totals, cause flags, bad-frame count, hold count and delay, last sequence, parser, two ages | `set_inputs`, `advance_ms`, `rx_byte`, `rx_frame`, `check_timeout` | the state agrees with the pins; no session outlives its data; a latched fault holds; each end of a session is reported once, with its totals |
| Meter and line (`golden.py` class `Meter`, `emulator/meter_protocol.py`) | sequence number, frames on the line | `frame`, `encode_frame`, `transmit_options` | nothing billed twice, every gap flagged, an intact frame always accepted |
| Firmware (`firmware/src/main.s`) | sixteen registers, no memory | the loop `apply_pins`, `check_meter_timeout`, `poll_uart`, with `on_frame`, `enter_fault`, `send_record`, `uart_tx_byte` | it does what `golden.py` does (main.s:4); the contactor is open while a record is sent; the loop always comes round |
| Processor core (`rtl/control_unit_eq26.v`, datapath in `rtl/top.v`) | nine states, pc, instruction register, registers, latches | fetch, decode, execute, memory, write-back | it executes the instruction set, in 3 to 6 cycles an instruction |
| Memories, load/store unit, decoder | data memory, ROM | word and sub-word accesses | each address reaches one device |
| UART (`rtl/uart*.v`) | shift registers, one byte of buffer, TXDONE, RXDONE | send, receive, register accesses | bytes in order, each once |
| Meter timer (`rtl/meter_timer.v`) | two saturating millisecond counters with dividers | clear, read, count | a counter is the time since it was cleared |
| GPIO (`rtl/gpio.v`) | DATADIR, DATAOUT | register accesses | outputs are what was written last |
| AWS wrapper (`aws/top.sv`), emulator host (`emulator/emu.c`) | AXI registers and FIFO; none | | section 9 |
| Scenario library (`frontend/src/data/scenarios.ts`, `crc.ts`, `meterProtocol.ts`) | a `Charger` and the steps recorded so far | `ScenarioBuilder`, `replayScenario` | what is recorded is what the charging model does |
| Station page (`components/station/`) | scenario, step, playing, speed, tab, corrupted and inspected frames; a timer | playback, jumps, keys, dragging, choosing a scenario, corrupting a frame | the step exists; what plays goes on; the panels, the narration and the model agree |
| Charging bay (`ChargingScene.tsx`, `StatusIcon3D.tsx`) | car, cable, power, icon | one animation frame, one render | no power through a loose cable; the bay settles at the step shown |
| Fleet page (`components/grid/`) | fleet, phase, wave, attempt, card, playing; two timer effects | playback, jumps, keys, dragging, choosing a fleet, skipping a card | the story goes on and is told the same everywhere |
| Shell (`App.tsx`, `Navbar.tsx`) | route; the address bar | addresses, tabs | the address is what is shown |

Interaction. The firmware reaches the peripherals by `lw` and `sw` only; pins, timer and
UART change between any two of its accesses, and nothing interrupts it. It owns no
memory, so all its state is in registers. `golden.py` is the sequential reference: one
call is one atomic event. The meter and the firmware share only the serial line. The
visualiser runs the port of the golden model over its scenarios when it is loaded, and
derives all it shows from the recorded steps; the pages talk to each other only through
the address and the route.

Hard behaviours. Pins are read several times a loop and may differ each time. Sending a
record blocks the loop for eight byte times. The UART has one byte of buffer and its
CONTROL register is shared by reader (RXDONE) and writer (TXSTART). Frames are lost,
damaged, repeated and late; a body may stop in the middle. Two deadlines race with the
bytes they watch. Counters wrap or saturate. Registers outlive the session they belong
to. In the core, write-back chooses its source by the previous state, and a load passes
through two registers. In the visualiser timers, renders, effects, events and animation
frames interleave, each with the state its closure saw, and the same fact is derived
in up to five places. `PROJECT.json` lists each of these as a hazard, at its line.

## 2. Modules and how they relate

```
   Isa  <--- refined by ---  Core            SerialLink    (two UARTs, one wire) --+
            CoreProofs         \                 |                            HardwareProofs
                                MCHardware ------+-- MeterTimer -------------------+
                                                 +-- MeterLine     (framing on a bad line)
                                                         MeterLineProofs

   Charger  <-- g, same steps --  FirmwareLockstep  --  FirmwareProofs
    |  |  \                             |
    |  |   ChargerProofs              Firmware
    |  |
    |  MeterSession  (meter + line + ledger)  --  MeterSessionProofs
    |
    |-- SessionRecords  (the host that keeps the records)
    |
    Scenarios <-- StationStory <-- StationPanels <-- StationPage <--+
        |              |                                           App -- AppProofs
        |            MCBay -- Bay, BayProofs                        |
       Crc <------ FleetStory <------------------- GridTimeline <---+
```

| Module | Models |
|---|---|
| `Charger` | class `Charger` of `golden.py` and of its port `data/charger.ts`; one record `c` holds its attributes |
| `ChargerProofs`, `MeterSessionProofs`, `MeterLineProofs`, `FirmwareProofs`, `CoreProofs`, `AppProofs` | theorems about the module each is named for (section 7); `FirmwareProofs` is also about `FirmwareLockstep` |
| `MeterSession` | `Charger` with class `Meter`, an unreliable line, and a ledger of what was accepted and billed |
| `SessionRecords` | `Charger` with the host's list of the records that bill something |
| `MeterLine` | `encode_frame`, the padding of `transmit_options`, and the framing half of `rx_byte`, byte by byte |
| `Firmware` | `main.s`, one step per peripheral access, with pins, timer and UART as seen through registers |
| `FirmwareLockstep` | `Firmware` with a golden object `g` that makes the same decisions (`INSTANCE Charger WITH c <- g`) |
| `Isa`, `Core` | the instruction set, and the multicycle machine that implements it (`INSTANCE Isa` with a refinement mapping) |
| `SerialLink` | `uart_tx.v`, `uart_rx.v` and the registers of `uart.v`, clock by clock, with the polling programs |
| `MeterTimer` | `meter_timer.v`, clock by clock |
| `HardwareProofs` | theorems about `SerialLink` and `MeterTimer` |
| `Crc` | CRC-16, frame bodies, records and restart delays, with the real numbers |
| `Scenarios` | the thirteen scenarios, their builder and the what-if replay, run through `Charger` at its real constants (`INSTANCE Charger`) |
| `StationStory` | `buildPlayback`, the verdict it gives each step, and the status icon of a step |
| `StationPanels` | what each panel of the station page derives from the playback and the step |
| `StationPage` | the state of `StationView` with its timer, effects, queue and controls |
| `FleetStory` | `rebound.ts` and what town, badges, readout, captions and chart derive from a moment |
| `GridTimeline` | the state of the fleet player with its timers, cards and controls |
| `App` | addresses, routes and mounting, over both pages |
| `Bay`, `BayProofs` | car, cable, power and status icon of the bay, frame by frame; its order, proved |
| `MC*` | values of constants for TLC; `MCHardware` also puts the four devices on one bench: it extends `SerialLink`, `MeterTimer`, `MeterLine` and `Core` |

Two abstract specifications carry the refinement arguments. `Isa` says what an
instruction does, at once; `Core!ImplementsIsa` is that every behaviour of the
nine-state machine is one of `Isa`, with `pc` the architectural program counter (the
old one until the last edge of the instruction) and `halted` the output `halt_o`, and
that no instruction takes more than its 3 to 6 cycles.
`Charger` is what the firmware must match; since one loop of the firmware is many
steps and reads its inputs at several moments, it is compared in lockstep: the golden
object takes the same decision on the inputs the firmware has just read, and whenever
the firmware is between two handlers its registers must be the golden attributes.
`Charger` is also what the visualiser's narration and evidence are compared with.

## 3. How state and actions correspond to the code

**Charger.** `c` is a record with one field per attribute (`state`, `energy`, `frames`,
`flags`, `bad`, `hold`, `delay`, `lastSeq`, `healthy`, `pins`, `len`/`active`/`escape`
of the parser, `rxAge`, `age`) and `tx`, the reports of the last event. Each method is
an operator from record to record, in the order of the code; `set_inputs` loops
`_step_pins` until the state settles, which `ApplyInputs` does with the two passes
that suffice (proved: `RulesSettled`). An event is one call: `SetInputs`, `AdvanceMs`,
`RxFrameByte`, `RxMarkerByte`. `advance_ms` serves the deadline that falls first.
Measurements are reduced to what the rules compare: `over` (I above I_MAX), `sag`
(frequency or voltage out of limits), `power` (V*I), `hash` (the restart hash). A body
is its length and whether its CRC matches; what a marker closes is chosen when it
arrives.

The map names the lines of `charger.ts`, a method-by-method port; `golden.py` has the
same methods in the same order (`_step_pins` at 154, `rx_byte` at 207, `_on_frame` at
246), and every remark below cites it. The same holds for `meter.ts` and
`meterProtocol.ts` behind `MeterSession` and `MeterLine`.

**MeterSession.** Samples are numbered; the line delivers any of the last
`MaxDelay + 1` samples, any number of times, or a corrupt frame, or nothing. The ledger
variables (`accepted`, `billed`, `streak`, and `waited`, the time since a sample was
accepted or the session began) are history variables, never read by the charger.
`Begins` is the step that leaves IDLE for a session; it starts the ledger anew.

**SessionRecords.** Every event of `Charger`; `bills` keeps the records with billed
frames that were sent since the last session began, and is never read either.

**MeterLine.** Bytes are numbers below `2 * Flip`, two of them the marker and the escape;
XOR 0x20 exchanges the halves. The CRC is a sum: it shares with CRC-16 that any one
changed byte shows, and not its strength against more, so `AcceptedWasSent` speaks of
one disturbance. A disturbance loses, changes or inserts a byte, or is a silence or a
new session, in the middle of a frame or between two. `clean` says that there has been
none since the last frame was sent.

**Firmware.** `pc` is the label of the register access to come; the register
computation after an access belongs to its step, since no one sees private registers.
`main.s` register to variable: `tp` state, `s2` lastSeq, `s3` energy, `s4` frames, `s5`
flags, `s6` bad, `s7` hold, `s8` delay, `sp` healthy, `s9` len/escape/active, `s10`
before. A register that is dead is given a fixed value. The payload accumulators, the
running CRC and the contents of record bytes are abstracted; the CRC's verdict comes with
the marker. The UART is RXDONE and TXDONE; what RXDATA holds is chosen when it is read,
which includes a byte overwritten by a newer one.

**FirmwareLockstep.** `g` is moved at the access that decides: the DATAIN read of a pass
for `_step_pins`, the age read for `check_timeout` and `_check_partial_timeout`, the
RXDATA read for `rx_byte`. `g` is given the pins and ages that access returned; of
these it keeps only the pins, while it charges or waits to, since inputs are the
hardware's and not the firmware's to remember. A record that `g` appended is taken from it when the firmware has sent its last byte.

**Core and Isa.** One instruction per class and per way the control unit tells classes
apart; fields are decoded already; a word is a small number and the pc counts words. A
fetch may bring any instruction, so every program is a behaviour. All registers of the
datapath take their next value at every edge, as in the Verilog, so that stale latches
can do harm. The data memory has its registered output and its wrap-around index.

**SerialLink.** Every flip-flop of the sender's `uart_tx`, of the receiver's `uart_rx`,
and of both `uart` register files is a variable; each step is one clock edge, in which
each program makes at most one access. The sender runs at its own clocks per bit. A byte
is a function from bit numbers to 0 and 1, so that its length is a parameter.
`LinkAssumption` says what the parameters must satisfy: four clocks per bit (uart.v:20),
clocks near enough for one frame (for eight bits, within a twentieth of each other),
and a program whose three accesses take less than a frame.

**MeterTimer.** Two dividers and counters; `edges` counts, as history, the edges since
each was cleared.

**React.** Both pages are components of React 19, and the model keeps what that means
for their order. A component is a record of its state and five more fields. `timer`: a
timeout is set. `eff`: the dependencies its effects ran with last, which are also what
the closures of its timer and key listener saw. `queue`: updates set and not yet
rendered. `held`: a pointer is down on the track. A timer puts its update in the queue;
a later task (`RenderPage`, `RenderGrid`) first runs effects that still wait, then
applies the queue in order; a task after that (`RunPageEffects`, `RunGridEffects`) runs
the effects whose dependencies changed, which clears or sets the timer. Clicks, keys,
presses of the pointer and changes of the address are discrete events: waiting
updates, their own, the render and the effects are one step (`Does`, `GridDoes`).
Moving the pointer is not: it only queues. Click handlers read the last render, the
window's key listener reads `eff`. Unmounting drops timer and queue. A render that
throws unmounts all; only a reload goes on. Reduced motion may change at any time, so
it is a free choice wherever it is read.

**Scenarios, Crc.** A scenario is its script: the calls its function makes of the
builder, with what the meter measured, the pins driven and the bits flipped on the way.
A script is compiled to operations, whose bodies are nine numbers with their CRC-16.
`Steps` runs all of them once, as the module does when it is loaded.
`Tabled` and `Folded` only say that a value is worked out once; they are `FoldLeft` and
the identity.

**StationStory, StationPanels.** A verdict is its sentence, as a word, with the numbers
in it. Chapters, arrows, bars, chart points, log lines, chain nodes, inspected fields,
record fields, emulator options and pins are operators of playback and step, which are
the properties the components are given. The options of the emulator panel come from
`emuPreview.json`, which the script `export_emu_preview.py` writes: `ExportOp` and
`Exported` are its rules for an operation and a frame, `EmuOps` the file it wrote.

**StationPage.** Each control is an action; `memo` is what React works out when the
scenario changes (`useMemo`). Speeds differ only in being a dependency of
the timer effect. **GridTimeline.** The two timer effects are never armed together (one
returns while a card is up, the other when none is), so one `timer` stands for both;
`Beat` is the branch of the effect that set it. **FleetStory.** A moment is mode, phase,
wave, attempt and failure; load is in kW, the restart delays of all thousand chargers are
computed from their IDs. **App.** The address is what `parseHash` reads of it. A
scenario chosen on the page changes the address (`replaceState`) and not the route.

**Bay.** `Frame` is one call of the frame loops with any elapsed time up to the cap; car,
cable and power move towards the step, and the icon shrinks, asks React for the other
glyph (`pending`), and grows. `IconRenders` is the render that follows, which any other
render may do first. The springs are levels without overshoot.

**MCHardware.** A run drives one of the four devices, which share no wire with each other;
the others keep their reset state.

## 4. What the runs check

Every property has a mutant, a plausible bug in one mapped definition, under which the
same run fails.

| Run | Shows |
|---|---|
| `charger` | `PinsAgree`: power and a pending restart only with CP = C, a session only with a vehicle, none under a trip, after any event. `SessionIsFresh`: no session outlives METER_TIMEOUT. `ChargingLinkGood`: a bad-frame count left from an earlier fault never meets a closed contactor. `PinRulesSettled`: no event leaves a state the pin rules would still move. `ReportsAreExact`: one report exactly when a session ends by unplugging or a fault latches, with the totals before the event. `LatchHolds`: a latched fault outlives every event but its release. `SilenceEnds`, `PartialBodyEnds`: silence ends a session, and a body that stops half way is dropped. |
| `session_ledger` | Over the unreliable line: ENERGY and FRAMES are the sum and the number of the billed samples; accepted samples are in order, each once; a gap sets the link flag; no sagging or over-current sample is billed; a hold ends only after `delay` accepted frames in a row. `ClosesOnGoodSample`: whether a frame closes the contactor, or the vehicle back at C with the sample the charger remembers, that sample is of this session, younger than METER_TIMEOUT and within limits. |
| `firmware` | While a record is sent the contactor is open; no byte is started into a busy transmitter. A trip that stays, or silence, opens the contactor; every record ends. |
| `lockstep` | The firmware's registers agree with the golden model between handlers, with four pin states, ages, sequence gaps, repeats, late frames, escapes, over-current and sag arriving at any access; each record sent is the one the golden model reported, and nothing moves it meanwhile (the totals apart, which stay 0 here); the contactor is closed only for pins last seen at C without a trip. |
| `hardware` | UART: bytes arrive in order, each once, with the sender an eighth slower or faster, so long as the three accesses that take a byte fit between two bytes; all of them arrive. Timer: each counter is the milliseconds since it was cleared, and stays at its cap. Framing: the next intact frame is accepted by its last byte whatever came before; one verdict between two markers; a disturbance costs at most two bad frames; after one disturbance nothing is accepted that was not sent. Core: it implements `Isa` for all sequences of 24 instructions, with a reset at any edge, in 3 to 6 cycles each. |
| `app` | `ViewInRange`: steps, frames, phases and waves shown exist, and a card is up only where the story puts it. `PlayingIsDriven`: what plays has a timer, save in the stalls of section 8. `NarrationIsTrue`: each verdict is what the model did: rejected is counted bad, billed is energy added, the numbers of a hold are the model's own, a missed frame is the one that raised the flag. `PanelsAgree`: chapter, arrow, bars, chart, log, emulator pins and record agree on a step; town, badges, feeders, readout, caption and chart on a moment. `EvidenceAgrees`: for every set of at most two corrupted frames, a node is marked good exactly when the model takes the frame, two bad ones in a row raise a flag, the inspector finds what is marked. `PlaybackEnds`, `FleetStoryGoesOn`: left alone, a scenario ends and the fleets take turns for ever. |
| `bay` | `PowerInOrder`: power only through a cable fully plugged, a car with a cable stands parked. `GlyphSwapsUnseen`: an icon changes its glyph only when shrunk away. `BaySettles`: car, cable and power come to the step the page stays at. |
| `lost_byte`, `record_per_session`, `deep_link`, `icon_stuck`, `player_bar` | violated: section 8 |

## 5. Bounds

| Bound | Value | Why enough |
|---|---|---|
| `MeterTimeout`, `RxTimeout`, `AgeCap` | 1 or 2 ticks | before, at and after a deadline; `charger` has the two different and steps of two ticks that cross both; in `session_ledger` a sample may be a tick old when it closes the contactor, or two and too old |
| `BodyLen` | 1 (3 in `MeterLine`) | empty, partial, full and one byte too many all occur |
| `SequenceMod`, `SeqHalf` | 4 and 3 where the sequence matters, else 2 and 2 | with 4 and 3 a step is a repeat, the next, a gap or a late frame, and the number wraps within a run |
| `EnergyMod`, `FrameCap` | 2, 0 or 1 | energy wraps and FRAMES saturates within a session (`session_ledger`); they are 1 and 0 in `firmware` and `lockstep`, where the totals stay 0: these runs compare control and flags, and `lockstep` would double with a total |
| `HoldBase` | 1 or 2, 0 in `firmware`, hash 0 | a hold of 2 frames can be broken in the middle (`session_ledger`); other delays are covered by `HoldSafety`; the properties of `firmware` do not depend on how long a hold is, and 0 ends it at its first good frame, as 1 does |
| readings | good; sagging; over-current | each is an outcome of its own; `firmware` needs only a reading that starts a session and one that interrupts it |
| `MaxSamples`, `MaxDelay` | 4, 1 | loss, repetition and reordering of neighbours; `MaxDelay <= SequenceMod - SeqHalf` is the window in which a late frame is recognised (128 in the code) |
| `RecordLen` | 1, 2 in `firmware` | first, middle and last byte pass through the same four accesses |
| pin states | `charger`: A, B, C, error, each with and without a trip; firmware: A, B, C, and C with a trip | D is handled as B; an error as the trip is |
| `Frames`, `MaxDamage` (`MeterLine`) | 2 and 2 | two disturbances in one frame, across two, or in the padding between |
| `Flip` (`MeterLine`) | 2 | marker, escape and their stuffed forms |
| `SerialLink` | 7 or 9 clocks per bit against 8, 2 data bits, 3 bytes, up to 9 clocks without an access | an eighth over the 4 bits of this frame drifts as far as a twentieth over the 10 bits of the real one; the pause is long enough for a byte to wait in the buffer while the next is on the wire, and short of the overrun, which is by design (uart.v:6) |
| `Words`, `Registers`, `Depth` | 3, 3, 2 | x0 and two more registers, a wrapping word and a wrapping memory index |
| `MaxEdges` (`MeterTimer`) | a few ms past the cap | the cap is reached and passed |
| scenarios, fleet | all 13 scenarios with their real bytes; 1000 chargers, 40 posts | no bound: these are the program's own |
| `Addresses`, `Picked`, `Roaming` | five addresses (a scenario, one with a step, an unknown one, a step beyond the end, the fleet); S6 and S11; S6 | a session starts at any address, and every session plays, jumps and drags; only those on S6 (the shortest) also move between pages and scenarios, since all such moves reset the page they come to |
| `Opened`, `Clicked`, `Examined`, `MostCorrupted` | one tab; frame 1; frames 0 to 4, two at a time | the tabs are alike; the evidence is checked for all sets of two, each time the tab is open; two in a row latch the fault |
| `Positions` | 0 | where in a chapter the pointer hits; other steps are reached by stepping, the log and the emulator's options |
| `QueueCap`, `GridQueueCap` | 1, 1 (0 in `player_bar`) | a pointer moved and a timer fired before the same render, in both orders; at 0 the crash needs no drag |
| `ArriveMs`, `LeaveMs`, `PlugMs`, `FlowMs`, `MaxDelta`, `Grown` | 5, 4, 3, 3, 2, 2 | several frames each, multiples of the longest frame and not |

`MaxSamples`, `ToSend`, `Frames`, `MaxDamage`, `MaxEdges` and `MaxPause` cap what would
otherwise grow without end; all else is bounded by the code.

## 6. Fairness

- `Charger!FairSpec`: time passes. The millisecond counters are hardware.
- `Firmware!FairSpec`: the core goes on executing (no instruction of `main.s` halts
  it); a transmitter that has begun a byte finishes it. The line and the pins are not
  fair: bytes may arrive back to back for ever, or never. Nor are the counters:
  `SilenceOpensContactor` starts from a meter age that has reached its limit.
- `SerialLink!FairLink`: the clock runs, and a program that has bytes to send goes on
  polling and starting. The receiver's polling is bounded by `MaxPause`, not fair.
- `App!FairSpec`: the browser runs timers that are due, renders what is queued and runs
  effects: each is a task of its event loop. The viewer is not fair. The liveness
  properties suppose that the viewer leaves the page alone from some moment on
  (`<>[][Browser]_vars`).
- `Bay!FairSpec`: the browser goes on drawing frames, and renders what was set.
- `MeterLine`, `MeterSession`, `MeterTimer`, `Core` state safety (and step) properties only.

## 7. What is proved

Every theorem holds for all values of the constants that satisfy the assumptions named
with it, and for runs of any length. The assumptions are those the code justifies;
TLC evaluates each of them in a run.

**`ChargerProofs`**. Timeouts are positive and at most the counter's cap; moduli,
`HoldBase` and `BodyLen` are positive; A is a pilot code (`TimerAssumption`,
`FrameAssumption` of `Charger`).

| Theorem | Says |
|---|---|
| `TypeCorrect` | `Spec => []TypeOK` |
| `PinsAgreement` | `Spec => []PinsAgree` |
| `SessionFreshness` | `Spec => []SessionIsFresh` |
| `LinkSafety` | `Spec => []ChargingLinkGood` |
| `HoldSafety` | `Spec => []HoldBelowDelay`: a hold counts below its delay, whatever the delay (no run checks it: `ResumeAfterFullDelay` says more of a hold) |
| `RulesSettled` | `Spec => []PinRulesSettled` |
| `ReportExactness` | `Spec => ReportsAreExact`, an action property |
| `FaultLatching` | `Spec => LatchHolds`, an action property |

None of the invariants is inductive alone. The strengthening is
`IInv == TypeOK /\ Sound(c) /\ ~Expired(c)`, where `Sound` joins `Agrees` (state and
pins), `LinkGood`, `CountsBelowDelay` and `NotWaiting` (a CONNECTED charger is not one
the pin rules would let charge). `NotWaiting` is what makes the loop of `set_inputs` settle;
`~Expired` is needed because a handler that runs after an expired age would keep a
session the watchdog should have ended, and `LinkGood` needs the clause on CONNECTED
because `bad` outlives a session. Every handler has a typing lemma (`...Type`) and a
lemma that it keeps `Sound` (`...Sound`); `LatchedSound` disposes of all steps into a
latched state at once, `SameSound` of those that touch no field `Sound` reads. An
event is a composition of handlers, so its proof is a composition of lemmas;
`Inductive` puts the four events together, and each theorem is a corollary. For the two
action properties an event is followed handler by handler in the same way: `Exact`
says what has been reported since the event began.

**`MeterSessionProofs`**. The assumptions of `Charger`, and that the line delays a frame
by at most `SequenceMod - SeqHalf` samples (`LineAssumption`), beyond which the sequence
rule itself takes an old frame for a new one.

| Theorem | Says |
|---|---|
| `TotalsAreExact` | `MSpec => []TotalsAreTheBill` |
| `NothingBilledTwice` | `MSpec => []NoSampleBilledTwice` |
| `LossShows` | `MSpec => []LossIsFlagged` |
| `OnlyHealthyBilled` | `MSpec => []BilledSamplesAreHealthy` |
| `HoldLasts` | `MSpec => ResumeAfterFullDelay`, an action property |
| `ContactorCloses` | `MSpec => ClosesOnGoodSample`, an action property |

`SessionInv` adds to the four invariants what ties the charger to the ledger: `lastSeq`
is the number of the last accepted sample modulo `SequenceMod`, a hold that is on
counts no more than the streak of good frames, the `healthy` a session remembers was
said of the last sample it accepted (`HealthIsOfTheLast`), and `age` is no less than the
time waited; with the age that `set_inputs` checks before it closes the contactor, the
last two give `ContactorCloses`. `StepsForward` is the arithmetic of the
sequence rule: within the window, a step forward modulo 256 is one, and a step that
looks like the next sample is the next. TLC checked `SessionInv` with the constants of
`session_ledger` before it was proved. The bill is a sum over all billed samples, a function defined by recursion
on subsets; what it is after one more sample is proved by induction on their number
(`SumOfMore`), from well-foundedness of the natural numbers applied to a set, since the
induction theorems of the library, which take an operator, cannot be used.

**`MeterLineProofs`**. There are at least four byte values, and a body and a bus word
have at least one byte (`LineAssumption`). The first three use nothing of the checksum,
and so hold of CRC-16 as of the sum that stands for it; the last uses that it tells two
payloads apart that differ in one byte, which CRC-16 does too.

| Theorem | Says |
|---|---|
| `FramesArrive` | `LineSpec => []IntactFrameArrives` |
| `ErrorsCountOnce` | `LineSpec => []OneVerdictPerCandidate` |
| `DamageIsBounded` | `LineSpec => []DamageCost` |
| `OnlySentAccepted` | `LineSpec => []AcceptedWasSent` |

`LineInv` says where the line is in the frame: before the opening marker, after the
i-th byte of the body, between the two bytes that stand for it, or after the closing
marker; and, if the frame is clean, what the parser then holds. With each place goes
the number of bad frames still to come if nothing more happens (`ToOpening`, `ToByte`,
`ToEnd`); it and twice the damage pay for each other, which makes `DamageCost`
inductive. What `Encode` puts on the line is taken apart byte by byte by `Unrolled`, an
induction on the length of a body.

`SentInv`, the invariant behind `OnlySentAccepted`, takes the same places in the same
order: n bodies have been sent, and the line is before the opening marker of the n-th
(`ByOpening`), in its body (`ByByte`, `ByPair`), or past its closing marker (`ByEnd`).
In the body, what was accepted are some of the first n - 1 (`Kept`), and if the parser
has collected as many bytes as it should have by then, all of them are right, or all
but one (`Straight`, `Nearly`). That is all one disturbance can do: a lost or inserted
byte leaves the count wrong for good, a changed one leaves one byte wrong, and an
escape lost or made up changes the byte after it. With the body complete the checksum
therefore decides (`NearlyIsInvalid`, from `CrcSeesOneByte`): the next marker accepts
the n-th body or nothing (`Settled`). That the sum is an element of a recursion over
sets which exists and moves by as much as the byte does is shown from the definition of
the fold (`SumsExist`, `SumsDiffer`). TLC checked `SentInv` with bodies of one, two and
three bytes before it was proved.

The proof of `FramesArrive` found the model wrong: `clean` used to stay true when noise came between two
frames, so `IntactFrameArrives` claimed that a frame accepted earlier was still the last
one accepted, although noise that happens to be a frame with a matching checksum follows
it. With bodies of three bytes and two disturbances TLC could not build such noise; with
two bytes and three it can. `Harm` now clears `clean` wherever it strikes.

**`FirmwareProofs`**. Timeouts are positive, frames and readings have
the fields the code reads (`FirmwareAssumption`). The pins, both ages and the UART may
change between any two accesses.

| Theorem | Says |
|---|---|
| `ReportsWithContactorOpen` | `Spec => []ContactorOpenWhileReporting` |
| `NoByteIsLost` | `Spec => []EveryByteIsSent` |
| `FirmwareMatchesGolden` | `LSpec => []RegistersAgree` |
| `ReportsMatchGolden` | `LSpec => []ReportAgrees` |
| `ClosedMeansAsking` | `LSpec => []ClosedAsLastSeen` |

`FirmwareInv` joins the ranges of the registers, that DATAOUT shows the state
(`OutputsShow`), and what each label may rely on (`ControlFits`, `ReportFits`,
`LineFree`), which `main.s` establishes before it jumps there.

`RegistersAgree` speaks only of the moments between two handlers. The invariant behind
it, `LockInv`, says at every access which object of the golden model the registers stand
for: `View` is the registers with what the handler under way is still to do done (the
state it will enter, the record it will send, the parser it will reopen), and `g = View`
everywhere but in `on_frame`. There the firmware judges in two or three accesses what
`g` judges in one, so before the freshness check `g` is `View` after the marker, and
before the pin check `View` is `g` after the measurement. Each access is then one lemma:
what the golden handler does to each attribute (`...Fields`), and that the registers
change in the same way. The wrap of the energy, the sequence rule and the restart delay
are the same expressions on both sides and need no arithmetic.

**`CoreProofs`**. Words, registers and memory are not empty, and instructions have fields in range
(`CoreAssumption`).

| Theorem | Says |
|---|---|
| `CoreRefinesIsa` | `Spec => ImplementsIsa`, that is `Architecture!Spec` under the mapping of `Core` |

The invariant says what each of the nine states finds in the datapath: an instruction
of a class that leads there (`ClassFits`), x0 at zero (`Kept`), the pc already moved on
(`Ahead`), address, loaded word and result where the next state takes them from
(`Latched`), and the edges used so far (`Counted`). Every edge then maps to an
instruction, to a reset or to a stutter. `Latched` is where a load needs its two
registers.

**`HardwareProofs`**. The timer has a clock rate and a cap (`MeterTimerAssumption`); of
the line `LinkAssumption`, as section 3 states it.

| Theorem | Says |
|---|---|
| `TimerIsExact` | `TimerSpec => [](TypeOK /\ AgeIsElapsed)` |
| `BytesArriveInOrder` | `LinkSpec => []GotIsPrefixOfSent` |

For the timer `TypeOK /\ AgeIsElapsed` is inductive, for every clock rate and every cap;
`AgeStep` is the arithmetic of one edge.

`BytesArriveInOrder` holds for bytes of any length, sent in any number, at every pair of
rates that the assumption allows. Its invariant `LinkInv` follows two clocks. `Elapsed`
is how old a frame is by the bit and count of the sender, `RxElapsed` by those of the
receiver, and `InStep` says that the two are equal while both are in the frame, up to
where either leaves it first: the receiver may still be in the stop bit when the
sender has ended (`Trailing`), or be done before it (`Over`). `Sending` says which level
is on the wire and which in the two flip-flops of the synchronizer, that is, which bit
the line carried two clocks ago (`BitOf`, `Sampled`). A sample is then of the bit it is
meant for (`Samples`), which is where the assumption on the rates is needed, and needed
at every bit. `Accounted` says that the bytes sent are those taken, one that may wait in
the register and one that may be on the line. That a byte is handed over only when the
last one has been taken needs `Waited`, a lower bound of the clocks since: a sender that
starts again as early as its TXDONE lets it needs three accesses before the
start, and these can fall while the receiver is still in the stop bit. TLC checked
`LinkInv` for frames of one to three bits, at five sets of rates and pauses, before it
was proved.

**`BayProofs`**: for all scenes, lengths, frame times and icons (`BayConstants`:
lengths are positive, a scene that charges has a car):

| Theorem | Says |
|---|---|
| `BayTypeCorrect` | `Spec => []TypeOK` |
| `PowerAlwaysInOrder` | `Spec => []PowerInOrder` |
| `SwapsUnseen` | `Spec => GlyphSwapsUnseen` |

The invariant is `TypeOK /\ PowerInOrder /\ SwapReady`. `PowerInOrder` keeps itself
once the ranges are known: `CarKeepsOrder` needs that the cable is at 0 before the car
leaves and that it is at its full reach before the power rises. `SwapReady` says that a
glyph asked for and not yet rendered is the one wanted by the step it was asked for,
with the old one out of sight; without it a render could swap at any size.

**`AppProofs`**. The picked scenarios are scenarios of the library and the steps in
addresses are integers (`AppAssumption`), drag positions are below 10000
(`PositionsAssumption`), and every scenario has a step, with its options at steps it has
(`LibraryAssumption`, a fact about the fixed data of `Scenarios`, which TLC evaluates
completely). The bounds of the run on queues and inputs are not used: any number of
updates may wait between two renders.

| Theorem | Says |
|---|---|
| `AppInvariant` | `Spec => []AppInv` |
| `WhatIsShownExists` | `Spec => []ViewInRange` |
| `PlayingGoesOn` | `Spec => []PlayingIsDriven` |

Neither property is inductive: a timer that fired before a jump still has its update in
the queue, and it is applied to whatever the render finds. `AppInv` says of the station
page that every waiting update was made for the scenario shown (`QueueFits`) and that a
page that plays without a timer has a step waiting (`KeepsGoing`); of the fleet page,
that one beat at most waits, with no timer beside it, and fits the state it will meet
(`BeatWaits`, `Fits`), that a running timer was set for the state shown (`TimerFits`),
and that a page that plays without either stands where `Stalled` says (`GridKeepsGoing`,
`Standing`). `QueueFits` holds because a scenario is chosen in a discrete event, which
renders what waits before it: no update outlives the scenario it was made for. On the
fleet page the invariant holds up to a crash (the finding `player_bar`), after which only a
reload moves on. TLC checked `AppInv` with queues of two before it was proved.

**Only model-checked**:

- all liveness (`SilenceEnds`, `PartialBodyEnds`, the liveness of `Firmware`, `UartDelivers`,
  `PlaybackEnds`, `FleetStoryGoesOn`, `BaySettles`), which is out of the prover's reach,
  with whatever needs ENABLED;
- `NarrationIsTrue`, `PanelsAgree` and `EvidenceAgrees` of `App`: they compare what
  several panels compute from the data of a scenario, for every scenario, step and set
  of corrupted frames. That is a table over fixed data, which TLC evaluates in full; the
  part that could go wrong for other inputs, that a page only ever consults entries of
  that table, is `WhatIsShownExists`.

## 8. Findings and remarks

Findings, each with a run in which TLC shows it:

- `lost_byte`: `uart_tx_byte` reads CONTROL and writes it back "so RXDONE survives"
  (main.s:333). A byte completed between the `lw` (340) and the `sw` (342) sets RXDONE,
  and the write clears it (uart.v:45). The byte is lost.
- `record_per_session`: "Exactly one record per session", "sent when the session ends
  (car unplugged) or when a fault latches" (docs/STAGE3_STRATEGY.md:439-440); "Exactly 8,
  once per session" (chip-inventor/emulator/README.md:114). The same strategy lets a fault latch in any
  state, IDLE too, and has it send the record (463-465). The code follows the latter:
  unplugging sends its record and keeps energy, frames and flags until the next
  plug-in, so a trip with nothing plugged in sends the energy and frames of the finished
  session again. In the run a session bills one frame and is recorded at unplugging
  (IDLE, energy 1, one frame), then once more at the trip (FAULT, the same). Records
  of nothing (no billed frame) are not counted, nor any from before the first session.
- `deep_link`: "Deep links: #/station/S12 opens a scenario and plays it" (App.tsx:8-9).
  Choosing a scenario on the page replaces the address and leaves the route
  (App.tsx:48). Entering the address opened before, or clicking the Station tab, sets
  the route it already has: nothing is mounted, and the page keeps the other scenario
  under the old address.
- `icon_stuck`: "the old glyph shrinks away with a quarter turn, then the new one springs
  up" (StatusIcon3D.tsx:201-203). The frame that ends the shrinking sets `swapping` and
  asks for the new glyph (232); only a frame that finds the glyph shown and the one
  wanted equal clears it (238). If the step changes in between, the icon stays at size 0
  until the wanted glyph is again the one shown.
- `player_bar`: the cards cover "the scene only, so the player bar stays usable"
  (GridView.tsx:222). A press on the last chapter of the fixed-delay fleet, handled just
  as the verdict card gives way to the handoff card, sets phase 5 for the fleet that has
  phases 0 to 4: `phases[phaseIndex]` is undefined (GridTimeline.tsx:77) and the page is
  gone.

Remarks, met while modelling and checked by hand:

- main.s:227 says that the timer is checked first "so expired data cannot be revived by
  a late frame". The check (236) and the reset of the age by a frame (503) are many
  instructions apart, so an age that expires between them is revived; `golden.py`
  checks again inside `_on_frame` (247).
- main.s:131 says "CHARGING requires a fresh healthy frame". A hold is ended by a frame
  judged on frequency and voltage alone (main.s:582), which may carry an over-current
  and has then cleared the healthy flag.
- HOLD_BASE is the "minimum healthy frames before restart" (main.s:80). A pilot change
  to B during a hold forgets the hold (golden.py:189); back at C one healthy frame, or
  the last one of the hold, closes the contactor.
- main.s:7 says that ecall and ebreak halt the core; only ECALL does
  (control_unit_eq26.v:158). `Core` executes EBREAK as an instruction without effect.
- main.s:7 says that data memory is 32 bytes; `DEPTH_WORDS` is 4, 16 bytes. README.md
  speaks of a 7-state FSM; the control unit has 9 states.
- A fault latched in IDLE with CP = A is released at once by the firmware, whose loop
  applies the pin rules for ever, and in `golden.py` only at the next `set_inputs`.
  This is why `Settled` excepts latched states.
- A pending timer can be lost. If it fires and, before its render, the scenario shown is
  chosen again at step 0, the fleet shown is picked again, or a jump is undone by a key
  that saw the older render, then the effect finds the dependencies it ran with last and
  sets no timer: the page says it plays and stands still. "Playback stops by itself at
  the last step" (StationView.tsx:97) is the only stop intended. `StationStalled` and
  `FleetStalled` name these states, and `PlayingIsDriven` excepts nothing else.
- A drag that races the fleet's timer can show wave 9 of 8, or the failed mark outside
  a reboot, for as long as it takes to render again. `PanelsAgree` excepts that wave.
- Corrupting a frame that the scenario had corrupted repairs it, so the what-if total
  can rise (S3 with frame 1: 1840000 for 1472000; S4 with frame 1: 736000 for 368000).
- The chain view moves its last sequence number on every valid CRC, also on a replay
  (CRCChainViz.tsx:72); the model does not on a rejected frame. On all scenarios and
  all pairs of corrupted frames the marks are the same (`EvidenceAgrees`).
- The chart crosses frames with a wrong CRC and calls the cross "a rejected frame"
  (MeterChart.tsx:138); a replay is rejected too and is a plain dot.
- The emulator panel draws the pins "as the chip last drove them" (EmuPanel.tsx:190):
  they are those last read, in S1X one step old.
- `edgeFor` lights the arrow from CONNECTED to IDLE for a session that ends while
  charging (StateIndicator.tsx:45).

## 9. Not modelled

- AWS wrapper (`aws/top.sv`): AXI-Lite handshakes and a receive FIFO, the interface of
  the FPGA shell. Emulator host (`emulator/emu.c`): a command line over its registers;
  what it can send, the environments of `Firmware` and `MeterLine` choose freely.
- Sub-word accesses, sign extension and address decoding (`lsu_eq26.v`,
  `address_decoder.v`), GPIO direction: `main.s` makes word accesses to fixed addresses.
- Arithmetic of ALU, multiplier and branch comparator, the CRC instruction in hardware:
  combinational; `Core` takes a representative of each and checks the paths to and from them.
- CRC-16 on the line: `MeterLine` uses a weaker checksum. `Crc` has the real one, for
  the bodies of the scenarios.
- Nesting of return addresses in the firmware (`ra`, `s11`, `t3` to `t6`): the call graph
  is fixed, and calls are inlined in `Firmware`.
- Drawing: the geometry of bay and town, traffic, sky, camera paths, colours, fonts and
  wording. Nothing that a control or another panel reads depends on them.
- Test benches and generators, flattened copies (`hdl.v`, `simulate.v`,
  `aws/riscv.sv`), `legacy/` and `v2-chip-inventor-synth/`: drivers, build products and
  superseded stages.
