# ios1-restore-tool in TLA+

This directory specifies and verifies parts of the restore tool in this
repository: TLA+ modules written from the source, TLC configurations that check
them on small instances, and TLAPS proofs of the properties that matter most.

`PROJECT.json` lists the components, the runs, a mutant for each checked
property (a plausible bug in the code that the property catches), the source
lines behind each definition, the hazards and the theorems.

## 1. The system

A Mac restores an original iPhone or iPod touch to iOS 1. Nothing is resident:
a shell script drives the phone from one boot to the next and starts a
short-lived tool for each thing it wants done.

| Component | Source | State it keeps | Operations | Status |
|---|---|---|---|---|
| Restore workflow | `restore-ios1.sh`, `erase-ios1-baseband.sh` | options, what it has done so far (its position), two environment variables it passes to itself (`IOS1_BOOTSTRAP_RESTORE`, `IOS1_PARTITION_RETRY`), a work directory | enter recovery, bootstrap from DFU, erase, update, poll for a result, stock boot, restore, partition retry, exit recovery | `RestoreWorkflow`; the seconds of the polls in `ResultPoll` |
| Recovery console tools | `ios1-recovery-command.c`, `legacy-load-image.c`, `legacy-boot-restore.c`, `ios1-exit-recovery.c`, `ios1-enter-recovery.c` | none of their own; they change iBoot's environment, NVRAM and the phone's memory | setenv, saveenv, printenv, file transfers, go, bootx, reboot, EnterRecovery | effects on the environment in `RestoreWorkflow`, transfers in `LegacyBoot`, answers in `ConsoleReader`, EnterRecovery in `Lockdown` |
| Console response reader | `patches/jailbreak-legacy-response.patch` | bounded buffer, attempts | ask iBoot for output until a prompt | `ConsoleReader` |
| Baseband erase payload | `ios1-baseband-erase.c` | position, loop counters, response buffer, result | restart, open, query, prompt, seven commands, polls, NVRAM assignments, reset, alarm | `BasebandErase` |
| Baseband update payload | `ios1-baseband-update.c` | position, child, result | mark pending, run `bbupdater`, NVRAM assignments, reset, alarm | `BasebandUpdate` |
| Private USB mux | `restore-ios1.sh` 104-114, 256-271, 407-440 | `MUX_PID`, which mux is in use, background processes | start, stop, attach with three attempts, fall back, clean up, traps | `RestoreMux` |
| Restore session | four `patches/idevicerestore-*.patch` | stage of the version 7 protocol | request stages, second partition pass, send or refuse data, exclude the baseband | `RestoreSession` (partly) |
| Lockdown and activation | `ios1-activate.c`, `activate-ios1.sh`, `ios1-enter-recovery.c`, two `patches/jailbreak-*.patch` | pairing records on disk, sessions over USB or a socket | pair, start session, SetValue, EnterRecovery, the loops around the tools | `Lockdown` (partly) |
| Ramdisk builder | `scripts/prepare-baseband-ramdisk.sh` | a mounted disk image, a mount point, a trap | decode, attach, edit, detach, clean up | `PrepareRamdisk` |
| Build | `scripts/bootstrap.sh`, `Makefile` | clones and applied patches | clone, patch, compile | not modelled |

### How the parts interact

The host and a payload never talk to each other. The script writes
`ios1-baseband-erase-result=pending` into the environment of iBoot, saves it to
NVRAM and boots a ramdisk in which the payload takes the place of the restore
daemon. The payload does its work, writes the result and the boot variables to
NVRAM and resets the phone. The script sees the product ID of recovery mode
again and asks iBoot for its environment. Three copies of the same variables
take part: NVRAM, the memory of the iBoot that happens to run, and what the
script remembers of its last look.

What is hard about it:

* **stale answers**: NVRAM survives runs, crashes and resets;
* **ordering**: results, boot variables and volatile boot arguments must be
  written and saved in the right order, through several processes;
* **partial failure and crashes**: any tool may fail, the user may interrupt at
  any step, the phone may reset in the middle of a payload;
* **unreliable replies**: the baseband answers over a serial line late, out of
  turn or not at all, and replies are not matched to commands;
* **timeouts**: each payload has a watchdog that resets the phone; it may fire
  at any time, and it must not fire on a run that makes progress;
* **shared resources**: one load address for three images, one variable for their
  sizes, one network address for every mux, one queue of answers for all requests
  of a connection;
* **signals**: the shell scripts clean up in traps, and one of them goes on
  afterwards;
* **self-invocation**: the script starts itself as a child (bootstrap) and
  replaces itself (partition retry), with fewer options each time.

## 2. Modules

    Nvram                 variables of iBoot and NVRAM
      MaintenancePayload  abstract: what a payload promises the host
        BasebandErase     the erase process       } refine it
        BasebandUpdate    the update process      }
        RestoreWorkflow   script + tools + phone, composed with the abstract payload twice

    LegacyBoot            the two tools that load images, and the memory of the phone
    ConsoleReader         idevice_get_response, and the poll on top of it
    ResultPoll            the seconds of the poll against those of a payload
    RestoreMux            the mux, the attachment loop, traps and signals
    RestoreSession        idevicerestore, the restore daemon, the retry
    Lockdown              ios1-activate, ios1-enter-recovery, lockdownd
    PrepareRamdisk        the ramdisk builder under failures and signals

    BasebandEraseProofs, BasebandUpdateProofs, RestoreWorkflowProofs,
    RestoreMuxProofs, ResultPollProofs, LockdownProofs
                          the theorems, one module per component
    ConsoleProofs         those about ConsoleReader and LegacyBoot
    HostProofs            those about PrepareRamdisk and RestoreSession
    MC...                 for TLC, one per component

Two proof modules extend two components each. The names of the second one
(`BootSpec`, `BootTypeOK`, `SessionSpec`, `SessionTypeOK`, ...) carry a prefix for that
reason.

The split is assume and guarantee. `RestoreWorkflow` checks the host against
`MaintenancePayload` instantiated for either payload; `BasebandErase` and
`BasebandUpdate` are shown to implement that same specification, from the
initial states which the workflow is shown to establish (`PayloadStartsClean`).
The steps of a payload's own process therefore never multiply with those of
the script. The other modules stand for what `RestoreWorkflow` takes in one step
or takes as given:

* a boot (`BootPayload`, `BootStock`, `LoadImage`) is many transfers and commands:
  `LegacyBoot`;
* a poll that sees the console's environment (`PollSuccess`) is a tool that reads
  asynchronous output: `ConsoleReader` bounds the looks it may miss, and
  `ResultPoll` takes that bound (`Misses`) and shows that the polls suffice;
* the outcomes of a restore (`RestoreSucceeds`, `RestoreRefused`, `RestoreFails`)
  come from a session: `RestoreSession`, whose `OkMeansRestored` and
  `ExcludedPreserves` state what `RestoreWorkflow` assumes of them;
* the mux that carries the session, `RestoreMux`; the ramdisks that are booted,
  `PrepareRamdisk`; the step `EnterRecovery`, `Lockdown`.

### MaintenancePayload

A payload works; decides, honestly, that it has succeeded, or gives up;
attempts three assignments in a fixed order, the result last, any of which may
fail; resets. It may be cut at any point. `Touched`, `Done` and `FailAutoBoot`
are where the two payloads differ: the erase returns to iOS after a failure,
the update holds the phone in recovery mode.

### BasebandErase

`pc` follows `main` and the loops of its helpers, `count` is the loop counter of
the current stage. One action is one call with everything it does. A serial
exchange (`Exchange`) is one write and the one second window of
`read_response`: it adds at most one reply that the baseband owes to `line`,
takes any number of replies from its head, costs one second of `clock`, and the
program judges the window by the first. `Hang` is a call that does not return,
after which only `Tick` and `Alarm` can happen. `automatic` distinguishes the
payload from a manual run with `--yes`.

### BasebandUpdate

As above; `bbupdater` is a child process that writes the baseband at any time
while it lives, also after `waitpid` has failed. How long it takes is not known,
so `Alarm` may come at any step before `alarm(0)`.

### RestoreWorkflow

`pc` names the command of the script, or of a console tool it runs, that comes
next; `stage` the ramdisk that is to be booted next. Each command to the
recovery console is one step, because a run can end between any two. `options`
derives the options in force from the user's `request` and from the two
environment variables that are set when the script starts itself. `Fail` is
`set -e`, the timeouts and the traps: a run may end at every step, and the next
one (`Launch`) finds the phone as it was left, or as the user has reset it
(`UserResets`). `Init` chooses among phones as earlier runs
leave them; what else they may leave comes about in the runs themselves.

`LoadImage` may find that iBoot has refused `go`: `legacy-load-image` reads no answer to
it and the script only sleeps, so that the run goes on with the old iBoot and whatever
was set on it. `BootPayload` and `BootStock` allow the same of `bootx`.

The phone has a `mode`, a boot chain in NOR (`nor`), the environment of a running
iBoot (`env`), `nvram`, and the `baseband`. `PowerUp` lets a phone with auto-boot
set land in recovery as well: iOS may be missing.

### LegacyBoot

A tool is the list of its transfers and commands (`LoadTool`, `StockTool`,
`RawTool`), `instruction` the place it is at. iBoot has a queue of accepted commands and
executes them at its own pace. `GetResponse` may return before the command has been
executed, for the tools ignore the result of `idevice_get_response`; `unread`
remembers it, because from then on a prompt may be an old one. A transfer may stop
anywhere (`SendFile`), after which the tool fails and the next one finds the
console as it is. Any tool may also find a used console after one that has ended well:
`Execute` lets iBoot refuse `go` or `bootx`, and nobody learns of it. `Arrive` lets an image that is longer than `Gap` run into the raw
ramdisk above it.

### ConsoleReader

`pc` is the place in `idevice_get_response` (`dump`, `check`) or in the loop around
the tool (`connect`). Output is a sequence over five bytes, enough to tell prompts,
the line the poll looks for and other text apart. `BulkRead` takes what iBoot
reports, cut to the room in the buffer.

### ResultPoll

The phone's phases have longest times, the script's loop a second and the time of
its `printenv`; `Tick` advances both. Only the relation of polls to seconds matters.

### RestoreMux

`pc` follows the script from `mktemp` to `exec` or exit. `alive` are the mux
processes, `dying` those that have been sent TERM, `left` those of earlier runs.
Process IDs are used again. `Signal` is INT or TERM, `Killed` KILL or HUP, which have
no trap; `MuxEnds` may happen at any time. `abrupt` names the endings after which the
script does not clean up: between `&` and `MUX_PID=$!`, a second signal in the clean-up,
and KILL or HUP.

### RestoreSession

Both sides of a session. `progress` is the host's, `op` the daemon's operation, `stage`
what idevicerestore believes it to be, `data` and `answer` the messages that matter. In protocol 7 the
host asks for each operation (`Next7`), otherwise the daemon goes on by itself
(`GoesOn`) and `-x` can only refuse its data (`RebootInstead`). `Retry` is the
script's partition retry; its expression goes across lines, so a status 2 of any
operation leaves the trace.

### Lockdown

`todo` is what remains of a tool's list of requests; `Program` gives the whole list.
Requests and answers are queues. `GiveUp` is the exit with 1 and the loop of
`activate-ios1.sh` or `enter_recovery` around it. Records and host IDs are numbers,
one for each attempt that made one. `TimesOut` exists over USB only.

### PrepareRamdisk

One action per command. `SignalTrapped` runs `Cleanup` and leaves `pc` where it is,
as the trap does; `Fail` also stands for a command that the signal has ended.

## 3. Runs

| Run | States | Bounds |
|---|---|---|
| `erase` | 56 570 | 2 prompts, 2 polls, 2 replies in flight, a start-up of 1 s, an alarm at 14 s |
| `update` | 445 | none needed |
| `workflow` | 273 667 | none needed: both products, both versions, any sequence of runs |
| `boot` | 5 782 341 | images of 1 and 2 bytes, a gap of 2, 2 commands in iBoot's queue |
| `console` | 29 939 | buffers of 12 and 48 bytes, 28 requests, 8 polls, pieces of 2 bytes or more, 2 failed transfers |
| `poll` | 77 296 | the numbers of the source; 30 + 10 + 15 s for the phone, 3 missed answers, `printenv` of up to 2 s |
| `mux` | 19 396 | 4 process IDs, the 3 attempts of the source |
| `session` | 3 379 | none needed: both versions and protocols, with and without `-x`, and the retry |
| `lockdown` | 50 158 | the 2 and 5 attempts of the source, 4 faults |
| `ramdisk` | 124 | none needed |
| `retry` | a violation, 7 states | as `session` |

`erase` with two prompts and two polls meets every case the loops
distinguish: the first round, a later one, the last, success in either, and a
reply that is read in the window of a later command or of another stage. Two
replies in flight let one be late while another is owed. The alarm is set one
second beyond the longest run, the tightest value `BudgetAssumption` permits; the
theorems cover all other values, those of the source (30, 120, 180, which leaves
21 seconds of start-up) among them.

`boot`: a ramdisk and a kernel longer than what is loaded between them, so that a size
taken from another image shows, and a kernel that just fills the gap; longer queues only repeat what two waiting commands can do.
`console`: the smaller buffer is filled to the last byte by the banner and one answer,
the larger one has room for all that can pile up; 28 requests read everything two
bytes at a time, and 8 polls are two more than `SeesSoon` excuses at most. `poll`: the
times of the phone use up the slack of `SlackAssumption` to the second; with one
more second for the reset `SuccessIsSeen` fails. `mux`: two muxes left by earlier
runs, the run's own and a successor that starts too early. `lockdown`: faults enough
to spoil every attempt of the longer loop but one.

The properties, and what each would catch:

* `NoFalseErase`: "success" in NVRAM, or an exit status 0, always means an erased
  header, for any delay or loss of replies.
* `RecoveryOnlyAfterErase`: auto-boot is cleared only on a phone whose baseband is
  erased; half-done assignments and the watchdog lead back to iOS.
* `WatchdogSparesWork`: the alarm interrupts only a run in which a call hangs. This
  relates the constants of the source: 158 seconds of prompts, commands and polls and
  the start-up must fit into the 180 of the alarm.
* `NoFalseUpdate`: the same honesty for the update, whatever becomes of the child.
* `Ends` (both): the phone is never stranded in a ramdisk.
* `ImplementsPayload` (both): refinement of `MaintenancePayload`.
* `PayloadStartsClean`: a payload starts with its result pending, auto-boot true
  and no boot arguments in NVRAM, whatever earlier runs left.
* `EraseBelief`, `UpdateBelief`: when the script goes on to the next ramdisk, what
  it believes of the baseband is true.
* `BootArgsSavedBeforeErase`: the arguments of a ramdisk boot get into NVRAM in one way
  only, by the `saveenv` before the erase (`restore-ios1.sh` 314), when that meets an
  iBoot on which an earlier run has set them. This does happen: `bootx` is refused, the
  run fails, and the `go` of the next run is refused as well.
* `DowngradeClearsBootArgs`: a downgrade or an erase alone that reports success has left
  no such arguments in NVRAM, wherever they came from. No such thing can be said of a
  plain restore: it saves nothing before its boot, and arguments that a failed downgrade
  has left in NVRAM stay there.
* `EraseOnlyDelivers`, `DowngradeDelivers`: what the script reports at the end of
  a run (README, "Baseband erase only" and "Baseband downgrade") is so.
* `DefaultPreservesBaseband`: README, Notes; also that the bootstrap restore never
  touches the baseband.
* `EveryRunEnds`: the script does not restart itself for ever, and waits for ever in one
  place only: `session_recv` on a socket of the system's mux
  (`patches/jailbreak-system-usbmux.patch` 133-142) has no timeout, so
  `ios1-enter-recovery` waits as long as lockdownd neither answers nor goes away
  (`Blocked`).

* `BootsWhole`: whatever transfers were cut short and whichever tools failed before,
  an iBoot that leaves for an image finds it whole, with its own size, and a kernel
  also finds its device tree and the ramdisk its arguments name. Three images go
  through one address and one size.
* `FitsBuffer`: no piece iBoot reports is written past the buffer, and no request
  is made for zero bytes.
* `SeesSoon`: a result that iBoot would print is seen after a number of looks that
  old prompts and failed transfers account for (one each for the former, two for the
  latter), although the tool does not drain the console. It is said of a buffer and of
  attempts that suffice for all that can pile up; a longer banner can defeat them.
* `SuccessIsSeen`: 240 and 360 polls outlast watchdogs of 180 and 300 seconds, two
  boots, a slow `printenv` and missed answers.
* `AtMostOneMux`, `NoMuxLeftBehind`: no mux competes with another one of the same run,
  with the system's or with the next run's; `abrupt` names the exceptions to the last.
* `RunEnds`: no `wait` is for a mux that has not been told to end.
* `ExcludedPreserves`: `-x` protects the baseband whichever side chooses the
  operations, and in the retry.
* `OkMeansRestored`: status 0 means a written filesystem and new NOR, also when `-x`
  cuts the session short.
* `NoFalseReport`: "Successfully set" and "EnterRecovery accepted" are true. Excepted
  is a USB connection on which an answer has been given up: the late answer to the
  first SetValue can then be taken for that to the second. The exception is every such
connection, also when the late answer is not taken for another.
* `Converges`: a loop of attempts fails only if faults have spoilt all attempts but
  the one lost on a rejected record, or if the phone has already done what was asked
  (EnterRecovery's answer may be lost with the phone).
* `DoneIsComplete`: the builder succeeds only with every edit in the image and the
  image detached, although a trapped signal lets it go on with the image gone and
  the mount point a directory of the host.
* `NothingLeftMounted`: no image stays attached; `lost` names the exceptions.

Each module also has its `TypeOK`, with a mutant that counts too far or assigns a
value from elsewhere.

The run `retry` shows a disagreement. `restore-ios1.sh` 454-467 repeats a restore of
1.0 whose log has `Creating partition map (0)` followed anywhere by
`done. (status 2)`, says "Partition map initialization requires a second pass" and
starts again with `--yes` alone. `RetryIsSecondPass` fails on a
session whose partition step succeeds at once and whose next operation, `Erase`, ends
with status 2: the expression goes across lines and reaches from the partition map's
line to that status. A run with `--baseband-downgrade` then goes on as one that excludes
the baseband, for a partition failure that never was. (That the trace is
printed whenever an operation completes with status 2 is taken from the script's
expression: the print itself is in a submodule.)

`DowngradeDelivers` admits one exception, and it is worth a look: the partition
retry (`restore-ios1.sh` 467) starts the script with `--yes` alone. If the first
restore was cut while Apple's updater wrote the baseband, and its log carries the
trace of a partition retry (which idevicerestore also leaves when it repeats the
step by itself, see `patches/idevicerestore-baseband-downgrade.patch`), then the
second pass excludes the baseband and reports "Restore complete" with a damaged
one. Whether Apple's updater rewrites a baseband that is already the target's is
not known from this repository, so this is recorded as a hazard.

Deadlock is checked in `workflow` and `mux`. The other runs are of programs that end
(in a reset, an exit, a result or a failure), so their cfgs say
`CHECK_DEADLOCK FALSE`; in `boot` a tool may also wait for an iBoot whose queue is full.

### Fairness

`BasebandErase`: weak fairness of the process's own steps, of the clock and of the
alarm: the kernel schedules a runnable process and delivers signals. Nothing is
assumed of the baseband. `BasebandUpdate`: the same without a clock, and nothing of
`bbupdater`. `RestoreWorkflow`: weak fairness of the script except
where it may be `Blocked`. Every other wait of the script and its own tools has a
timeout, so there is always a next step, if only `Fail`; in `Blocked` a step may be
taken and need not be. Nothing is assumed
of the phone or the user. idevicerestore is taken to end. `RestoreMux`: weak fairness
of the script, and a mux that has been sent TERM ends; nothing of a mux that has not,
so a `wait` without a `kill` would hang. The other modules state no fairness and no
liveness: that the loops of the console, the poll and the attempts are finite is in
their counters.

## 4. Proofs

The theorems hold for all values of the constants that satisfy the named assumptions.

* **BasebandEraseProofs** assumes `BoundsAssumption` and `BudgetAssumption`. The
  inductive invariant adds to the types that no reply on the line claims an erase
  that has not happened (`LineHonest`), that neither `result` nor NVRAM does
  (`MemoryHonest`), and, for a run that is not hung, an upper bound on the clock at
  each stage in terms of its loop counter (`OnSchedule`). `NoFalseErase` is not
  inductive alone, for a late "complete" must already be honest when it is sent, and
  `WatchdogSparesWork` needs the schedule of all earlier stages.
* **BasebandUpdateProofs** has no assumptions. `Honest` links result, NVRAM, child
  and baseband.
* Both end in `Implements`: the initial states map to initial states and each step
  maps to one step of the payload or to a stutter, one lemma per action.
* **RestoreWorkflowProofs**: `IInv` adds what connects the script with the two
  environments on the way to a boot (`Console`, `SavedArgs`, `Prepared`), what a
  payload has said and done so far (`PayloadState`), and that during the poll a
  success in NVRAM or in the memory of iBoot is this payload's (`Polling`). The
  beliefs follow from `Polling` at the poll. `SavedArgs` follows the boot arguments: an
  iBoot may have kept some until they are cleared, but whenever a payload runs NVRAM has
  none; `ArgsStep` says which steps can write them there. The actions fall into a few kinds
  (steps that only look, console steps, phone steps), each with a lemma.
  `DInv`, in the same module, follows the options of a run through bootstrap, retry
  and stages (`PlainPath`, `ErasePath`, `DowngradePath`) on top of `IInv`. The three
  delivery properties are action properties proved from both. `DowngradeClearsBootArgs`
  needs a third invariant on top of them (`ClearedPath`): once the last payload has been
  booted, NVRAM has no boot arguments, through the stock boot and the partition retry.
* **RestoreMuxProofs** assumes `PidAssumption` and `AttemptsAssumption`. `IInv` adds
  what the shell knows of its mux: it is the last one started and `MUX_PID` names it
  (`Named`), and where the mux has been waited for there is none (`Awaited`).
  `AtMostOneMux` alone is not inductive: that `wait` has waited for the right
  process follows from `Named`.
* **ConsoleProofs** assumes what the modules state of sizes, bounds, banner, gap and
  queue. For the reader, `IInv` adds that a request is made only with room for a byte
  and the zero (`Room`): `Check` establishes it, `BulkRead` uses it. `Accounted` is the
  invariant behind `SeesSoon`: what is gone, in the buffer and unread is together a
  banner and some whole answers (`Stream`), and the looks missed so far and those owing
  at the present position (`Owing`: the old prompts ahead, and one more in the middle
  of an answer whose result is gone) never exceed what is excused. A look that ends at
  a prompt without the result has passed one of the things owing (`MissPaid`); a failed
  transfer adds one at most; the last attempt ends a look only when nothing but the
  last byte of a prompt was left to read; the buffer does not fill up. The answers printed are no more than the looks, so all
  that piles up has room. `SeesSoon` alone is not inductive, for nothing in it says
  where in the output the reader is. For the tools that load images, `BInv` says that iBoot, unless it has been overtaken, has executed the
  first `k` instructions of some tool's list and has the ones after them in its queue
  (`InStep`), that the tool that runs is no further than that (`KeepsUp`), and what the
  first `k` have made of the memory (`Established`). `BootsWhole` alone says nothing
  before an iBoot leaves; what makes it true was done up to twelve instructions earlier,
  in part by commands that a later tool found still waiting.
* **ResultPollProofs** assumes `SlackAssumption`. `IInv` bounds the polls by the
  longest time to the present phase, its age and the poll under way (`OnTheWay`), and
  after the return by the answers missed (`Back`).
* **HostProofs** has no assumptions. `IInv` says which edits the image has
  at each command while it is attached (`UpToDate`); nothing attaches it again, so a
  command after a detachment fails or edits the host. `Known` says when clean-up can
  find the disk. For the session, `SInv` says what the operations up to `op` have done
  (`DoneSoFar`) in either protocol, and that with the baseband excluded only a daemon
  that chooses its operations itself comes to the baseband, without data (`Spared`). `OkMeansRestored` is the first at the end of the
  session; `ExcludedPreserves` follows from the second, step by step.
* **LockdownProofs** assumes that each tool has an attempt (`AttemptsAssumption`) and
  that the bound on faults is a number. `IInv` has two parts. `Sound` holds always: the
  requests still to be made are the last ones of the program (`Jobs`), and the phone is
  asked to pair with the host ID of this attempt only (`OwnPairs`). The other part is a
  disjunction: the goal is reached, which no step undoes; or a late answer has been
  taken for it; or the tool is on its way. On its way there is at most one exchange at a
  time while no answer was given up (`InTurn`), every answer given up stays ahead of
  those that follow (`Behind`), and `Budget` holds: attempts, a record the phone
  does not know (`Bad`) and what is afloat beside the awaited answer never exceed the
  faults by more than the record of the beginning accounts for. `Converges` alone is
  not inductive, for a fault can be paid for long before it costs the attempt; and
  `Budget` needs `PairSent`, because an attempt that ends between Pair and its answer
  leaves a bad record, which the request still in the inbox pays for.

Only model-checked: liveness (`Ends` twice, `EveryRunEnds`, `RunEnds`), which fairness
and ENABLED put beyond the prover. Every safety property of the
passing runs is a theorem.

## 5. Assumptions about what is outside the repository

* iBoot executes a `setenv` or `saveenv` that it has acknowledged; `saveenv` is atomic;
  `go`, unless it is refused, starts an iBoot that reads its environment from NVRAM.
* While a run talks to the recovery console the phone is not reset or unplugged.
  (Between runs anything may happen.)
* `reboot(2)` works, and `/usr/sbin/nvram` terminates.
* Only a status poll is answered with 1 in the seventh byte, and only when the
  sector is erased; a window with several replies is judged by the first. (The code
  itself checks neither the echoed command nor a checksum.)
* `bbupdater` exits with 0 only if the firmware it was given is installed. The
  baseband is reset together with the phone.
* idevicerestore has three outcomes: success, a refused rollback, failure. Its
  updater refuses to roll back a newer baseband.
* One phone is connected and it is the one the IPSW is for.
* `LegacyBoot`: the images below the raw ramdisk fit there (`GapAssumption`); the code
  does not check it. `setpicture` takes the exploit image by its own size.
* `ConsoleReader`: iBoot prints an answer at once and completely, before the next tool
  connects and while there are requests left to read it, and reports at least `Chunk`
  bytes if it has them.
* `ResultPoll`: booting a ramdisk, writing NVRAM and resetting take at most the 60
  seconds that windows and watchdogs differ by, less missed answers.
* `RestoreMux`: a mux that is sent TERM ends; process IDs are used again for muxes
  only, never for strangers.
* `RestoreSession`: the daemon takes the operations in the order of the protocol, and
  completes one with 0 only when it is done.
* `Lockdown`: lockdownd pairs with anybody and accepts a session of a host it has
  paired with; an exchange without an answer fails, over a socket only by the loss of
  the connection. (`session_recv` has no timeout there, so the wait may also last for
  ever: `RestoreWorkflow` allows for that, see `EveryRunEnds`.)
* `PrepareRamdisk`: hdiutil and PlistBuddy succeed only when they have done their work.

## 6. Not modelled, and the plan

Left out: the bytes of commands, checksums and images, the exploit image, terminal
settings, progress messages, the contents of disk images, USB framing and property
lists (code of submodules), and the patches that only change how a library opens or
finds a device.

`scripts/bootstrap.sh` and the `Makefile` are not modelled: their state is that of git
repositories and a compiler, and they have run before a phone is connected. An
interrupt between `git clone` and `git checkout` leaves a repository at another
revision that the next run takes for finished; this is recorded as a hazard.

Resets of the phone in recovery mode while a run talks to its console are not part of
`RestoreWorkflow`. They matter in one place: between `setenv ...-result pending` and
`saveenv` (`restore-ios1.sh` 312-314) a reset would let `saveenv` write an older
`success` back, and the poll could take it for the payload's. It is recorded as a
hazard.

The plan from here is a link between two modules. `ResultPoll` takes the answers that a
poll may miss as a number, `Misses`, and `SeesSoon` bounds them by old prompts and failed
transfers; that the one is an instance of the other is said here and in no theorem, for
the two modules keep different clocks.
