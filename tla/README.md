# TLA+ models of zeptoclaw's session store and shell tool

This directory holds TLA+ specifications of the parts of the agent runtime
whose code is in `src/`, together with the TLC configurations that
model-check them and TLAPS proofs of their main invariants.
`PROJECT.json` lists the components, the runs, the mutants, the mapping from
definitions to source lines, the findings and the hazards.

## The system

The runtime (spec.md section 2) receives a message for a session key. It
loads or creates the session in the **Session Store**, then alternates provider
calls and **tool** executions (the **Agent Loop**) until the model answers.
Finally it saves the session. The code in this tree is:

| Part | Source | State | Operations |
|---|---|---|---|
| Session Store | `src/session/mod.rs` | an `RwLock<HashMap<key, Session>>` cache; a directory of `<sanitize_key(key)>.json` files when persistence is on | `get_or_create`, `get`, `save`, `delete`, `list`, `exists`, `clear_cache`, `cache_size` |
| Shell tool | `src/tools/shell.rs` | a child process per invocation | `execute` (parse the arguments, spawn `sh -c`, race it against a timer, render the output) |
| Agent Loop | `src/agent/mod.rs` | (re-exports only; `loop.rs` and `context.rs` are not in this tree) | — |

These parts interact in the following ways:
- Each inbound message is a task that calls the store's `get_or_create`, appends messages and calls `save`.
- Tasks of different keys run in parallel on the tokio pool.
- Tasks of the same key should be serialised by the loop (spec sections 5 and 9).
- Tool calls of one round may run concurrently with each other.

Every `.await` in the store is a point where another task can run:
- the lock acquisitions;
- `read_to_string`;
- `tokio::fs::write`, which is `File::create` (it truncates) followed by `write_all`;
- `remove_file`;
- `read_dir`.

A process restart loses the cache and keeps the files.

## Modules

### SessionStore.tla: the store (`SessionManager`)

**Constants:**
- `Tasks`: concurrent callers.
- `Keys`: session keys, as sequences of one-character strings, so that `sanitize_key` is modelled by what it does.
- `MaxMsgs`: messages appended in total.
- `MaxCrashes`: restarts.
- `KeyLock`: whether callers serialise per key, as the agent loop should.
- Sentinels: `None`, `NoFile`, `Empty`, `Corrupt`.

**Variables:**
- `storage`: persistence is on (`new`/`with_path`) or off (`new_memory`).
- `cache`: the HashMap.
- `disk`: each file holds a session, is empty, holds an unparsable document, or is absent.
- Per task:
  - `pc`: the await point the task is at;
  - `op`: which operation it is running;
  - `key`, `sess`, `msg`, `ret`, `listed`: the operation's locals;
  - `handle`: whether its open file handle still names the file.
- `done`: a history variable holding the message ids whose `save` returned Ok. It is cleared by `delete`, and in memory mode by a restart or `clear_cache`, since both forget the sessions.

**Actions.** Each action is one segment of code between two awaits:
- `get_or_create` is `StartRound`, then `LoadExists`, `LoadRead` and `LoadInsert`, or `CreateInsert`. A round is `get_or_create`, then one `add_message`, then `save`. The appended message is the round's `msg`.
- `get` is `StartGet` and the same load steps.
- `save` is `SaveCache`, `SaveTruncate` and `SaveWrite`.
- `delete` is `StartDelete`, `DelExists` and `DelRemove`.
- `list` is `StartList` and `ListDir`.
- `clear_cache` is `ClearCache`.
- A restart is `Crash`.

How the writes are modelled:
- A write through a handle whose file was unlinked by `delete` does not reach the new file.
- A write over a longer document leaves trailing bytes. `Written` models this: the file then holds `Corrupt`.

`exists` and `cache_size` change no state and are not actions. The faulty variants placed before their actions (`...NoDiskLoad`, `...StaleClone`, ...) are the mutants listed in `PROJECT.json`.

### ShellTool.tla: `ShellTool::execute`

**Constants:**
- `Calls`: concurrent invocations.
- `TimeoutVals`: the timeouts, in seconds, a caller may pass. Each is given either as a u64 or as a JSON value that `as_u64` rejects (`1.0`, `"1"`).
- `Durations`: command run times, possibly `Forever` for a command that never exits.
- `ExitCodes`.
- `Signalled`: the status of a child killed by a signal.
- `MaxClock`: the seconds counted per child. The MC sets it to 61, the longest command that exits, which is past the default deadline.

**Variables.** Per invocation:
- its step;
- its result;
- its child process: none, running or exited;
- the seconds elapsed since the spawn;
- `timeout_secs`;
- the command's duration;
- the timeout argument;
- the exit status;
- whether stdout and stderr are non-empty.

**Actions:**
- `InvokeMissingCommand`: lines 73-76.
- `InvokeSpawnFails`: the second `map_err`.
- `InvokeSpawn`: `Command::output` spawns eagerly.
- `ChildExits`: the output future wins and `Render` builds the result text (lines 98-120).
- `TimeoutFires`: the timer wins and the future is dropped. The child keeps running because there is no `kill_on_drop`.
- `OrphanExits`: a child that outlived its call exits.
- `Tick`: one second of tokio's clock. It is taken only when nothing a waiting call awaits is due (`NothingDue`, built from the same `Exited` and `TimerDue` guards as the actions). This models a runtime that polls promptly. Under late polling, tokio's `Timeout` polls the output first and could return output after the deadline; the model leaves that out. When a child's duration equals its timeout, both `ChildExits` and `TimeoutFires` are enabled, as in the real race. An orphan's seconds are counted only until it exits, since that is all they decide.

The result text is a sequence of pieces: stdout, separator, stderr, and the exit note with its code. Their wording is left out.

### MC modules and proofs

- `MCSessionStore.tla` and `MCShellTool.tla` give the constants their values for TLC.
- `SessionStoreProofs.tla` holds the TLAPS proofs.

## Runs

| run | cfg | checks | result |
|---|---|---|---|
| store_locked | `MCSessionStore_locked.cfg` | TypeOK, DiskPrefixOfCache, QuiescentCoherence | pass (about 2.3M distinct states) |
| store_durable | `MCSessionStore_durable.cfg` | CompletedRoundsDurable | pass |
| store_crash_loses_rounds | `..._crash_loses_rounds.cfg` | CompletedRoundsDurable | violation |
| store_unlocked_saves | `..._unlocked_saves.cfg` | QuiescentCoherence | violation |
| store_read_undoes_save | `..._read_undoes_save.cfg` | CacheReplacedOnlyBySave | violation |
| store_delete_race | `..._delete_race.cfg` | DeleteMissingNotError | violation |
| store_list_stems | `..._list_stems.cfg` | ListReturnsSessionKeys | violation |
| shell | `MCShellTool.cfg` | TypeOK, ExitNoteFaithful, EveryCallReturns | pass (about 860k distinct states) |
| shell_leak | `MCShellTool_leak.cfg` | ProcessReclaimedOnReturn | violation |
| shell_stderr | `MCShellTool_stderr.cfg` | StderrAlwaysMarked | violation |
| shell_timeout_fallback | `MCShellTool_timeout_fallback.cfg` | SuppliedTimeoutHonored | violation |

### What the passing runs show

- **With one call per key in flight** (`KeyLock`):
  - a file never holds a message its cached session lacks (`DiskPrefixOfCache`);
  - cache and file agree whenever no call is in flight (`QuiescentCoherence`);
  - without restarts, every message whose save returned Ok is in what the next `get_or_create` returns (`CompletedRoundsDurable`).
- **For the shell tool:**
  - a failed command's result ends in an exit note whose code cannot read as success (`ExitNoteFaithful`);
  - every spawned invocation returns, including one whose command never exits, for every timeout including 0 (`EveryCallReturns`). The timer is all that ends such a call: a timer that treats 0 as "no timeout" breaks it.

### What the violation runs show

Each violation run is one of the findings in `PROJECT.json`:

1. **Concurrent saves of one key.** `save` updates the cache, then writes the file after releasing the lock. Two concurrent saves of one key can therefore leave the cache and the file holding different sessions, or leave a corrupt file.
2. **`get_or_create` overwrites a save.** Its unconditional insert replaces a session that was saved in between.
3. **A restart during a save.** A restart between the truncate and the write of `tokio::fs::write` empties the file, which loses every earlier round.
4. **Concurrent deletes.** When two deletes race, one of them returns an error for a missing file.
5. **`list()` returns file stems.** After a save of `a:` it returns both `a:` and `a_`, and `a_` is the key of no session. `ListReturnsSessionKeys` compares the names a `list()` returned with the session keys, so a later `clear_cache` does not affect it.
6. **Timed-out processes are not reclaimed.** A timed-out command's process is not killed.
7. **stderr-only output is unmarked.** Output written only to stderr carries no separator.
8. **A supplied timeout that is not a u64 is ignored.** A timeout given as `0.0`, `1.0` or `"1"` silently becomes 60 seconds, instead of being honored or rejected as a bad argument.

### Bounds

**Store runs.** They use:
- 2 tasks;
- 2 keys: `<<"a", ":">>`, which sanitizes to `a_`, and `<<"b">>`;
- 2 messages;
- at most 1 restart.

This is enough for every interleaving the findings need:
- two calls on one key;
- a call on each key;
- a second save over a first;
- a restart inside a save.

More messages only lengthen the sessions: a `MaxMsgs = 3` run grew past 30M states without reaching a new kind of step. Task symmetry is sound because tasks are interchangeable and no property names one.

**Shell runs.** They use 2 invocations, timeouts 0 and 1 (as u64 or not) or the default 60, and durations of 1, 60 and 61 seconds or `Forever`. This covers:
- a command that never exits, which only the timer ends;
- a zero timeout;
- the race at equality, at 1 and at 60;
- the default deadline missed by one second;
- concurrent invocations.

The runs use the code's real 60-second default, so time is not rescaled. The shell cfgs set `CHECK_DEADLOCK FALSE` because the invocations are finite: once every call has returned and every child has exited, the system really stops.

## Fairness

- **Store:** no liveness property is checked, so no fairness is assumed.
- **Shell tool:** `FairSpec` adds weak fairness, per invocation, on `ChildExits` and `TimeoutFires`, and on `Tick`. The tokio runtime polls every task whose timer or output is ready, and its clock keeps advancing while a child runs. `EveryCallReturns` relies on exactly this. `OrphanExits` gets no fairness: nothing awaits an orphan.

## What is proved (SessionStoreProofs.tla)

- **`TypeCorrect`** proves `Spec => []TypeOK`. It holds for all values of the constants that satisfy the module's assumptions. The proof consists of `TypeInit`, `TypeStep` (one step per action) and lemmas on `NewSession`, `AddMessage`, `Written` and `sanitize_key`.
- **`DiskPrefixSafe`** proves `Spec => []DiskPrefixOfCache`. It holds under two assumptions:
  - `KeyLock`: callers serialise per key;
  - `SanitizeInjective`: no two keys share a file. The spec accepts such collisions, and with them the property is meaningless.

  `DiskPrefixOfCache` is not inductive, so the proof goes through a stronger invariant. `IInv` conjoins:
  - `TypeOK`;
  - `DiskPrefixOfCache`;
  - `OneCallPerKey`: at most one task is in a call on a key;
  - `KeysConsistent`: a cached session carries its key, a file's session carries a key that sanitizes to that file, and memory mode has no files;
  - `CallState(t)` for each task: what each await point knows. For example:
    - a task about to insert a loaded session holds exactly the file's content;
    - a saving task's session extends the file;
    - a task between truncate and write holds the cached session and sees an empty file.

  TLC checked `IInv` as an invariant of the locked run before the proof was written. The proof shows `Init => IInv` (`IInvInit`) and `IInv /\ [Next]_vars => IInv'` (`IInvStep`). That step has one case per action and, under it, one case per conjunct and per task that the action can disturb.

## Only model-checked

- **Liveness** (`EveryCallReturns`). TLAPS does not prove liveness or ENABLED.
- **The other safety properties:** `QuiescentCoherence`, `CompletedRoundsDurable` and the ShellTool properties. These are checked for the bounds above.

## Not modelled

- **I/O errors.** A failed write or read other than a missing file or an unparsable document is not modelled yet. The hazard is listed in `PROJECT.json`.
- **Agent Loop, Context Builder, Tool Registry.** Their code is not in this tree.
- **Provider Adapter and Message Bus.** These are external collaborators.
- **`exists`, `cache_size` and the tool's `name`, `description` and `parameters`.** They change no state.

## Plan

1. **`AgentLoop.tla`.** Modelled from the spec and composing `SessionStore`. It covers:
   - rounds;
   - the provider's answer or tool calls, as a nondeterministic choice;
   - tool batches appended in call order;
   - the round limit;
   - the per-key FIFO lock, which makes `KeyLock` a theorem instead of an assumption.

   Properties: ordering and correlation of tool results, per-key serialisation (no lost user message), and termination within the round limit (liveness).
2. **An abstract store.** A map from keys to sessions with atomic operations. Add a refinement mapping from `SessionStore` under `KeyLock`, checked as a PROPERTY, and prove the step correspondence.
3. **I/O failures** of `read_to_string`, `write` and `remove_file`, as error paths of the actions.
4. **Further proofs:** `QuiescentCoherence` and `CompletedRoundsDurable` under `KeyLock`, from `IInv`; and a ShellTool proof of `ExitNoteFaithful`.
