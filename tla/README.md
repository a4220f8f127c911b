# Verification of aptos-dap

aptos-dap is a server of the Debug Adapter Protocol (DAP) for Move programs. An
editor sends requests over stdio or TCP; the server starts a unit test or
replays a transaction on a second thread, in which the Move VM calls a *debug
context* before every bytecode instruction; server and context talk over two
channels. This directory holds TLA+ models of that program, TLC configurations
that check them, and proofs that TLAPS checks. Source paths below are relative
to the repository's `src/`.

## 1. Inventory

| Component | Source | State | Operations |
|---|---|---|---|
| Debug context | `debugger/dap_context.rs` | `next_cmd_op`, `breakpoints`, `moved_locals`, `last_breakpoint_hit` | `debug_loop` before every instruction; `install_on_thread` gives a worker thread a context of its own |
| DAP server | `server.rs` | loaded transaction, `cmd_tx`, `event_rx`, `vm_thread`, `vm_stopped_state`, `pending_breakpoints`, `stored_variables` | one handler per request, one request at a time |
| Test execution | `server/test.rs` | the thread | builds the source locator, creates the channels, spawns, sends `Terminated` |
| Replay execution | `server/replay.rs` | `ReplayTransactionSession`, module overrides, source locator | fetches the transaction (launch), takes the modules of packages in place of those on chain, warns of breakpoints without code, spawns, shows the arguments |
| Channels | `debugger/dap_types.rs` | two unbounded FIFO channels per execution | `DapCommand` to the thread, `DapEvent` to the server |
| Variables references | `server/variables.rs` | table of expandable values | `store_expandable`, `get_variables`, `clear` |
| Debug values, resolver | `debugger/debug_value.rs`, `debugger/resolver.rs` | none | turn a VM value, guided by the type of the local and by the names of the source map, into a printable tree |
| Locations, messages | `utils.rs`, `proto.rs` | none | `SourceLoc::new` canonicalizes; DAP message constructors |
| Command line, transports | `main.rs` | the connection at hand, its read timeout | arguments, stdio, the TCP accept loop, which passes over probes |

**Interaction.** The handlers of `configurationDone`, `continue`, `next`,
`stepIn` and `stepOut` send commands and block in `event_rx.recv()`. The thread,
inside `debug_loop`, sends `Stopped` with a snapshot of its state and blocks in
`command_rx.recv()`. All other handlers answer from the snapshot. Nothing else is
shared. `disconnect`, and the end of the input, drop the sender, then the
receiver; `disconnect` then joins the thread.

**What is hard.** Two parties that block on each other; channels whose ends are
dropped at any time, by a disconnect, a panic, a failing spawn, or a second
`configurationDone` that replaces them; handlers that fail half way because a
write to the client fails; breakpoints set in every phase of the session; one slot
that decides for all frames whether a breakpoint is suppressed; steps cut short by
breakpoints; values the VM has already moved out of the frame's locals; references
handed to the client that outlive what they stand for; a client that probes the
port before it connects; names, types and code that come from three places and may
be of different age. `PROJECT.json` lists
these hazards, each at its line.

**What makes the components correct.** The context: no breakpoint missed or
repeated, steps that end where they were asked to, values that are the frame's
own, no thread left blocked. The server: its snapshot is the thread's current
stop, no mutual wait, breakpoints in sync, every handler ends. The references:
one meaning each until the next stop. The two sides together: the user is stopped
at every breakpoint asked for, and hears how the session ended. Debug values:
nothing of a value hidden, and all of it named where the names are known. The
set-up of a replay: the code that runs is that of the last package named, and its
source is the one breakpoints are checked against. The accept loop: the first
client that speaks is served, and served until it leaves.

## 2. Modules

| Module | Models |
|---|---|
| `Debuggee` | abstract: what an execution thread promises to its session |
| `DapContext` | `debug_loop` whole, and an external interpreter around it |
| `DapContextHistory` | `DapContext` with auxiliary variables and what the user is owed |
| `DapSession` | server, channels, threads and client |
| `DapSystem` | `DapContext` and `DapSession` composed: what the user sees over a whole session |
| `StoredVariables` | variables references, scopes, variables |
| `DebugValues` | `serialize_*`, the resolver, and the conversion of a transaction's arguments |
| `ReplaySetup` | packages, module overrides, source maps and the warning, before a replay starts |
| `Listener` | the accept loop of `run_tcp` |
| `...Proofs` | theorems and proofs about the module of that name; `Debuggee` and `DebugValues` have none |
| `MC...` | values of the constants for TLC |

### Debuggee

Four variables: the thread is blocked or not, a step is pending or not, the
breakpoints it was given, and how much of the link to the session is left. It
stops only with a cause and only while somebody listens, changes breakpoints only
while blocked, and is set free once the command sender is gone. It is implemented
twice, by `DapContext` (the thread from the inside) and by the threads of
`DapSession` (seen through the channels), so that the two models cannot
disagree about the thread's behaviour.

### DapContext

`Reach` is `debug_loop` up to its decision: moved locals first, then the
breakpoint check, then the step check, in the code's order. It ends in one of
`LetRun` (lines 91-93), `Report` and `ReportFails` (104-120). A blocked thread
takes `RecvSetBreakpoints`, `RecvCommand` or `RecvDisconnected` (122-137). The
`Exec...` actions and `Begin` are the interpreter, which is not in the
repository: it calls and returns, aborts, moves and stores locals, and gives each
instruction any source line or none. The only restriction is one the bytecode
verifier enforces: `MoveLoc` moves a local that holds a value.

Simplifications, each without loss for the properties:

- A command still buffered when the sender is dropped is received after the drop,
  as from a `mpsc` channel; in `DapContext` alone that is a choice at every drop,
  in `DapSystem` it follows from the queue.
- A source location is a model value. `line` and `instr` are reset after every
  instruction, since `debug_loop` keeps nothing of them but what is in the
  context.
- A stop's payload is `Shown(d, x)`, the value of local `x` in the frame at depth
  `d`. Names and the textual form are left out.
- `MaxDepth` bounds the call stack. The proofs hold for every bound.
- The stack is given as depths, so that `get_frame_locals(i)` and the depth
  `stack_depth - 1 - i` of `build_vm_stopped_state` are the same frame.

### DapContextHistory

Auxiliary variables record visits, reports, the step asked for and the last value
of each local. `HistoryAddsNothing` proves that each step is a step of
`DapContext`. A *visit* is the time a frame spends on a line, its calls included.
Two points of the definitions need a word:

- An execution that starts on the very line the last one ended on, at the same
  depth, continues the visit. That is what the code's "consecutive bytecode
  instructions" comes to across executions on one thread: the last
  instruction of one and the first of the next.
- `NoMissedBreakpoint` has one exception, `SetAgain`: the slot names the very line
  and depth at hand, and its breakpoint was taken away since (`orphaned`) and is set
  again. A new set of breakpoints leaves the slot alone (`dap_context.rs:132`). Within
  the visit of the hit that is no loss, the user having been stopped there; but
  take recursion on one line `l`: a hit in a frame at depth `d`, its breakpoint
  removed, a return to the caller, which is on `l` as well. The slot is not cleared,
  the line being the same, nor replaced, there being no breakpoint. Set again before
  the next call reaches `l`, the breakpoint is suppressed in that new visit at depth
  `d`. It takes a user who edits the breakpoint in between, and the comment at
  `dap_context.rs:203-205` asks for a different line before a breakpoint is enabled
  again, so the case is an exception here and no finding. At any other line or depth
  an orphaned slot hides nothing, which is what the property says of it.

### DapSession

`pc` is where the server is: `idle` between requests, `starting` between the
spawn and the three assignments that follow it, `first` and `waiting` in
`wait_for_vm_event`, `dropping`, `joining` and `leaving` in a disconnect or at
the end of the input. The thread runs from the spawn on, so its steps
interleave with `starting`. Executions are numbered because a second
`configurationDone` leaves the first one behind; `cmd_tx`, `event_rx` and
`vm_thread` hold numbers, and the ends of a channel live as long as these or the
thread do.

Every handler writes to the client before it does anything else and returns on
the first error; `disconnect` alone does its work first. Hence the guard
`Handling`, and `ClientGone` at any moment makes later writes fail. `VmFinish`
and `VmExit` are separate, because `Terminated` is sent before the thread's ends
of the channels go. `VmExit` from `running` is a panic. `StartFails` covers every
`?` of the two `start_...` functions before the spawn, `SpawnFails` the one after
it in `test.rs`.

Commands and events are queues, read in order. `stop_no` numbers the stops
so that a snapshot can be told from another. `told` and `wanted` are the client's
knowledge: what it was told last and the lines it last asked for.

### DapSystem

The module extends `DapSession`, with one execution (`OneExecution`), and puts an
instance of `DapContext` in the place of its thread. What the context keeps of its
session (`Link`) is computed from the server's handles; what `DapSession` keeps of
a thread (`vm`, `stepping`, `bps`) is set by `Follow`, after every step of the
thread, to what the context's own state says (`Vm`, `Stepping`, `breakpoints`), and
is not otherwise written. A server step is a step of `DapSession` that leaves the
context alone (a start also brings the thread to life); a thread step is a step of
`DapContext` together with what it does to the two queues. `SystemIsSession` then
says that the thread `DapSession` assumes, written down there on its own, is the
one `DapContext` describes. The history (`seen`, `hidden`, `withheld`, `dropped`)
records which visits the client was told of, and `asked` whether the last command
was a step. The frames have no locals.
`DapSystem` extends `DapSession` rather than instantiating it so that the theorems
about the one can be cited in proofs about the other.

### StoredVariables

The three ranges of references with small offsets, the table, and `issued`: the
references the client holds, with what each meant when it was given. `Stopped`
and `Terminated` are what `wait_for_vm_event` does to the two pieces of state;
told of either, a client forgets its references, as the protocol asks of it. A
compound value is one whose conversion calls `store_expandable`; `Children` is
what `expanded_children` lists. `Show` is one request: the compound ones among the
values it shows go to the end of the table, in their order. `MaxExpandable` bounds
the table. `OffsetAssumption` says that no snapshot has as many frames as lie
between the two offsets of `variables.rs`, which is far beyond the VM's call stack.

### DebugValues

The state is one local: its type as the code has it, type parameters of the
function included, and the value the VM keeps in it. `named` are the structs and
enums the source map knows, `loaded` those whose type the VM gives; `Source` and
`Declared` are the layouts in the source and in the running code, which differ
when the source is of another age. Two recursions show a value, one with and one
without its type, and which is taken depends on both; `annotated_to_debug_value`
is a third, which shows a transaction's arguments as the annotator of the VM
(external, `view_argument`) has decoded them.

The same value does not look the same as an argument and as a local, and
`ArgumentAgreesWithLocal` compares what the two say, not how:

| | argument (`replay.rs:291-349`) | local (`debug_value.rs`) |
|---|---|---|
| address | `to_hex_literal`, short, with `0x` (307) | `to_hex`, 64 digits (207) |
| type argument | `to_canonical_string`: address, module, name and arguments (318) | `format_type`: the name of a struct or enum alone (144), `?` for a type parameter |
| `vector<u8>` | one hexadecimal text (308) | element by element |
| string | a struct with its bytes (312) | text |
| enum | the fields of the variant, under the enum's name | the variant by its name |
| struct without names | `[0]`, `[1]`, ... and no type (331) | named by the source map |

What can be shown in full is `Detailed`. It leaves out a field whose type is
generic in its struct: the resolver takes the field's type from the loaded struct
type, which has the struct's own parameters in it (`resolver.rs:46`, `64`), so
that a string or a struct in such a field is shown without its text or names.

### ReplaySetup

Packages are handled in the order in which they are named, the local ones first,
each announced by a write that may fail. A module's code goes into the overrides
and its source map to the locator, one after the other; a map that fails to load
leaves code without its source (`unmapped`). Then the user is warned of the
breakpoints in files that belong to no module that will run.

### Listener

The clients connect, speak, and close; the server accepts the oldest connection,
sets the two-second timeout, peeks, and drops the connection or removes the timeout
and serves it. The clock is a choice: the timeout may fire whenever there is
nothing to read and the timeout is set.

What a client sends is one of three `Messages`, by what `DapServer::run` does with
it. A request with a handler is read, whatever becomes of it: the handlers'
errors go to the console (`server.rs:103`). One the protocol has but the server does
not is refused, and `run` ends when the refusal cannot be written (`server.rs:98`).
Anything that is no request - bytes that do not parse, a command the protocol
does not have - ends `run` at once (`server.rs:80`), with the client still
connected. So does the end of the input, orderly or not; an abrupt one may lose
what was not read yet. `MaxUnread` bounds what a client sends ahead.

## 3. Runs

| Run | Question | Bounds, and why they are enough |
|---|---|---|
| `breakpoints` | breakpoints and steps, and does `debug_loop` implement `Debuggee`, fairness included? | two lines and *three* frames: a hit, a nested hit and a third frame from which to come back; two lines are needed to leave one; no locals, which neither depends on |
| `moved` | moved locals | two values, to tell an old one from a new one; one local, since locals are independent; two frames, for a caller and for reuse of a depth |
| `session` | do server, threads and client stay in step? | two executions with two stops each, so that a stop of one can be mistaken for another's or for an earlier one; two commands buffered, the most the server sends in a row; one worker context; test mode, where a spawn may fail |
| `session_single` | what does `setBreakpoints` replace, does the thread, seen through its channels, keep the promise, and does every handler end? | one execution, two files and an alias of one of them, three stops and one worker context: the entry stop, a later one, and one in the new context |
| `session_liveness` | does everything end, even with two executions? | replay mode, two executions, one stop each: a stop to be blocked in when the second execution or a disconnect comes |
| `system` | do the two sides fit, and is the user stopped at the breakpoints asked for? | two lines and two frames, to leave the entry line by a step or by a call; three stops: the entry's, one that cuts a step short, and one that must not be the rest of that step; one worker context |
| `variables` | do references keep their meaning? | two stops that differ, nested values, offsets so close that frames fill their range, four table entries |
| `values` | what is shown of a value? | 32 types: scalars, strings, signers, references to locals, fields and elements, vectors, nested and generic structs, enums, structs and enums of older source; vectors of up to two elements; every set of named types |
| `replay_setup` | which code runs, and which breakpoints are warned of? | three packages, two of them local; a module in all, one in two of them and one in one |
| `listener` | who is served? | three connections: one dropped, one served, one that waits behind it; one message sent ahead, of each of the three kinds |
| `entry` | is a breakpoint on the entry line reported? | two lines, two frames, replay mode |
| `lost` | are moved locals kept for the view? | the smallest instance that shows it |

`CHECK_DEADLOCK FALSE` is set where the system may stop for good: a session, a set-up
and the listener end, and in `values` a local whose type has no value stays unset.
In `session_liveness` the bound on the stops also makes a
thread stop at most once, after which it runs to its end.

What the passing runs show:

- **KeepsPromise, FirstThreadKeepsPromise**: both views of the thread implement
  `Debuggee`. A failed report is not followed by a wait; a blocked thread whose
  sender is dropped goes on.
- **NoMissedBreakpoint, SlotInv, DuplicateHitOnlyAfterNestedHit**: one slot for
  all frames is enough never to miss a breakpoint, wherever breakpoints are set and
  taken away, but for one that is set again where it was hit; and the only other
  price is a repeated report after a nested hit.
- **StepEndsWhereAsked**: no step overruns its end, and no stop is attributed to a
  step that was cut short by a breakpoint earlier.
- **MovedLocalsFaithful**: whatever is stopped at, every frame shows the last
  value of each local, moved or not, outside two cases (see findings).
- **Lockstep, ClientSeesCurrentStop, NoMutualWait**: when the server reads a
  request, its thread is blocked in the stop of the snapshot or done, with no
  event unread; what the client looks at is current.
- **CommandsAreForThisStop, EveryStopIsTaken**: the two queues never hold what
  belongs to another stop. No command waits in the channel of a running thread,
  where it would end a stop the client has not seen; and no snapshot is skipped or
  repeated.
- **EveryStepCounts**: `StepsLeft` is a number that each step of a thread lowers,
  unless it reports or is sent a command between two waits. With `NoMutualWait` that
  is what `HandlersEnd` and `AbandonedThreadsEnd` rest on, beside fairness.
- **BreakpointsInSync, FilesKeepLastRequest**: at every stop the thread has, or
  is about to read, the server's breakpoints, and the server's are what the client
  last asked for, per file. Two exceptions: a worker context that has just
  started has none - `StepEndsWhereAsked` has it stop at its first line, where the
  client can send them -, and clearing a file by a path that is not canonical clears
  nothing, because only the entries of a non-empty list are canonicalized.
- **ClientHearsHowItEnded**: requests are answered with success before anything is
  done. Once the server reads requests again, a client that still reads has heard of
  a stop, an end, or by console output of a failure, and an end it heard of is that of
  the thread later commands go to.
- **ClientStopsAtBreakpoints**: no instruction of a line the client asked for runs
  before the client was told of a stop in that visit, whatever was in flight. Three
  exceptions, in the property itself: the one instruction of the entry stop that
  `configurationDone` hides, lines whose breakpoint was removed once, and a worker
  context that was sent no breakpoints.
- **ClientStopsAreAskedFor**: the converse. A stop the client is told of is on a line
  where it has a breakpoint at that moment, or ends the step it asked for last: no
  removed breakpoint and no step that was cut short stops it. The first stop of an
  execution and of a worker context count as steps, which is what `debug_loop` takes
  them for.
- **SystemIsSession**: every step of context, channels and server together is one of
  `DapSession`, so that what the session runs show holds of the real thread.
- **KnownLocalIsShownInFull, NothingIsHidden, ArgumentAgreesWithLocal**: a value
  whose types are known is shown as the source has it, at every depth; whatever is
  known, nothing of it is left out, the only error being a variant the source does
  not have - that error stands for the whole value, fields included; and the
  arguments of a transaction say what the locals say that they become, with the
  differences of writing listed in section 2.
- **LastPackageRuns, WarnedExactlyWhenUnreachable**: a module in several packages
  runs as the last one has it, with that source; a file is warned of exactly when
  none of the running code is its own, outside the sources whose map
  failed to load.
- **SessionHasSpoken, SessionEndsByItsClient, ClientIsServed**: no probe becomes the
  session; nothing ends it but its own client, who closes it or sends something that
  is no request with a handler - no timeout, no failing handler, no other connection;
  and a client that speaks is served unless another one is.
- **HandlersEnd, AbandonedThreadsEnd**: no wait and no join hangs, and a thread
  the server has let go of ends. (After the end of the input the process may exit
  before the thread is through; the property says that nothing but time is
  missing. `rt`, dropped before `cmd_tx`, can make a replay thread panic when it
  next needs the runtime, which is a `VmExit`.)
- **ReferencesStayGood, TableIsOfThisStop**: references mean the same until the
  next stop; the table never mixes two stops.

Every property has a mutant in `PROJECT.json`: a slip one could make in the
code (the operators marked "Slip" in the modules), under which TLC finds the
property violated.

### Findings

1. `entry`: `configurationDone` takes the stop at the first instruction for itself
   when there are breakpoints, and lets the program run on (`server.rs:256-286`). If
   the next instruction is on another line or in a called function, a breakpoint
   on the entry line is passed, though `setBreakpoints` answered that it is verified.
   The harness of the tests takes a run without the stop for a failure
   (`tests/helpers.rs:234-238`); its tests have several instructions on that line.
2. `lost`: the `Ret` branch forgets the frame's moved locals before a stop at
   that very instruction is reported, against the comment at `dap_context.rs:164`.

Two more things the properties had to except, and TLC shows when they do not:

- A breakpoint hit in a callee overwrites the caller's in the single slot; back on
  the caller's line, its breakpoint is reported again in the same visit.
  `test_source_bp_no_duplicate_hit_with_function_call` has no breakpoint in the
  callee. `DuplicateHitOnlyAfterNestedHit` says that nothing else causes it.
- An abort leaves no `Ret` behind, so the next execution on the thread inherits moved
  values at the same depth, for locals it has not set itself. The comment at
  `dap_context.rs:184` relies on the `Ret`; `MovedLocalsFaithful` excepts it.

Further observations: `configurationDone` answers success before it starts the
execution, and when the start fails neither `stopped` nor `terminated` follows, only
console output; a `launch` that cannot fetch the transaction is not answered;
`disconnect` keeps the last snapshot, from which a client that asks after it is
answered; the comment at `debug_value.rs:105` that a
field's type is always `None` is out of date, since `resolver.rs:81` fills it in
and nested structs get their names by it.

### Fairness

- `DapContext`: weak fairness of `RecvDisconnected`. `recv` returns once the
  sender is gone, and the operating system schedules the thread. Nothing is
  assumed of the program being debugged or of the user.
- `DapSession`: weak fairness of the server's own steps within a handler, of a
  thread's reading of commands, and of `VmRuns`, a running program stopping or
  ending: Move execution is metered, and unit tests are bounded in the same way.
  Requests, the client leaving and new worker contexts are not fair.
- `Listener`: weak fairness of the server's steps. `accept`, `peek` and `read` return
  once they can, and a peek on a silent connection can return when the timeout is set,
  which is what it is set for. Clients are not fair.
- `DapSystem`, `StoredVariables`, `DebugValues`, `ReplaySetup`: none, safety only.

## 4. Proofs

All theorems hold for every value of the constants: any lines, files, depth of the
stack, number of executions, stops and commands, packages, values. What is assumed
of the constants has a name in the module that declares them:

| Assumption | In | Why the code justifies it |
|---|---|---|
| `LineAssumption`, `LocalAssumption`, `ValueAssumption`, `DepthAssumption`; `NilAssumption`, `DepthAssumption` | `DapContext`; `DapSystem` | "no line", "no local" and "moved out" are not lines, locals or values (`Option`, `Value::Invalid`); the depth is a number |
| `PathAssumption` | `DapSession` | `canonicalize` maps a path to that of the file |
| `ModeAssumption`, `BoundAssumption` | `DapSession` | the bounds are numbers, any |
| `OneExecution` | `DapSystem` | the composition has one thread; two executions are `DapSession`'s subject |
| `ValueAssumption`, `SnapshotAssumption`, `OffsetAssumption` | `StoredVariables` | `Children` lists values; the arguments of a transaction are shown as a struct; the call stack is shorter than the distance of the offsets |
| `PackageAssumption` | `ReplaySetup` | every package named has contents, which are modules |
| `ClientAssumption` | `Listener` | "nobody" is not a client |

### The debug context

| Theorem | Argument |
|---|---|
| `TypeCorrect` (`SafetySpec => []TypeOK`) | `TypeOK` alone is not inductive: `ExecCall` needs room for a frame, which was checked when the call was fetched. `CallFits` carries that over; `TypeInv` is their conjunction. |
| `KeepsPromiseSafely` (`SafetySpec => Promise!SafetySpec`) | under `TypeInv` every action maps to a step of `Debuggee` or a stutter, one proof step per action |
| `NoBreakpointIsMissed`, `SlotIsSound` | `BreakpointInv`: the two parts of `SlotInv`, the property itself, that a blocked thread was recorded as stopped (`StoppedIsStopped`), and that the slot names a line with a breakpoint unless that was taken away since (`SlotLineKnown`), without which a later `setBreakpoints` could make an unearned slot matter. `SlotLasts` is the core: a slot that is neither hit nor moved past belongs to a visit that still lasts. |
| `DuplicatesAreNested` | from `HitIsRemembered`: a visit already reported is either the slot's, hence suppressed, or nested |
| `StepsEndWhereAsked` | `StepInv`: while the thread is not blocked, `next_cmd_op` is what was asked. It is not so while blocked, which is the point: the next command replaces a step cut short. |
| `MovedLocalsAreFaithful` | `MovedInv`: for every depth, live locals are held, moved ones saved, anything else stale; no frame above the running one; the pending `MoveLoc` has saved and the pending `Ret` forgotten |
| `HTypeCorrect` (a lemma on the auxiliary variables, `HTypeOK`) | the history is recorded from variables that have their types, so `HTypeOK` is inductive given `TypeInv` |

### The session

One invariant, `DapSessionProofs!Inv`, carries all eleven theorems. Server and
thread share nothing but two channels, so it says what each may infer:

| Conjunct | Says | Needed because |
|---|---|---|
| `HandlesFit` | which of `cmd_tx`, `event_rx`, `vm_thread` are set, and agree, at each `pc` | between the spawn and the three assignments they name different executions |
| `UnbornUnknown`, `BlockedHasStopped` | nobody has a handle to a thread not yet spawned; a blocked thread has stopped at least once and has no step pending | a spawn would otherwise find old commands or events in its channels, and a snapshot could name stop 0 |
| `Attention` | while the server waits, its thread runs with empty queues, or is blocked with its event unread or one execution command last in its queue, or has ended; when the server reads requests, all has been read | this is what rules out the mutual wait: in each of the four cases one of the two can move |
| `SnapshotIsCurrent`, `ClientInformed` | the snapshot is that of the stop its thread is blocked in; what the client was told last at each `pc` | a second `configurationDone` leaves a thread behind, which goes on stopping |
| `BreakpointsArrive` | the last `SetBreakpoints` in the queue, or else what the thread has, are the server's breakpoints; or it is a new worker context with none | `BreakpointsInSync` speaks of stops only; commands are in flight between them |
| `FilesKeepLastRequest` | the property itself, inductive as it stands | |

`SessionTypeCorrect`, `ServerAndThreadInLockstep`, `ClientStopIsCurrent`,
`ClientHearsOutcome`, `ServerAndThreadNeverWaitForEachOther`,
`ThreadHasTheBreakpoints` and `RequestsReplaceOneFile` are then consequences.
`CommandsBelongToTheirStop` needs little more: `CommandsAreForThisStop` is inductive
once `Attention` says that an execution command is the last in its queue
(`StepOrder`). `SnapshotsFollowStops` needs `StopsCounted` as well, that a stop in
the event queue is the one after the snapshot's; together they are `OrderInv`.
`ThreadsRunOut` is proved per action from `Inv`: the lemma `ThreadStepCounts` for the
thread, `SendingIsCounted` for the server, whose only sends are between two waits.
`FirstThreadKeepsPromiseSafely` maps every step, under `Inv`, to a step of `Debuggee`
or a stutter; it assumes `MaxSessions > 0`, there being no first thread otherwise.
The lemmas `ReadCommand`, `SendSetBreakpoints`, `SendExec`, `WillHaveAfterSend`
and `WillHaveAfterRead` say what sending and receiving one command does to a queue.

### The whole system

| Theorem | Argument |
|---|---|
| `SystemTypeCorrect` | `Base`: the session's `Inv`, the types, that `DapSession`'s account of the thread is true (`Glued`), and that a thread that is not alive runs nothing (`ThreadFits`) |
| `SystemImplementsSession` (`SysSpec => SystemIsSession`) | `StepIsSession`: under `Base`, each action of the context is the action of `DapSession`'s thread it stands for, one lemma per action (`PassIsSession` ... `ExitIsSession`). `LinkFits` is the point where they meet: the context finds its session gone exactly when the session says nobody listens. |
| `SystemKeepsSessionInvariants`, `SystemThreadKeepsPromise` | refinement, and the theorems about `DapSession`: what was proved of a thread written down there holds of the real `debug_loop` |
| `SystemKeepsSessionSteps` | refinement, and `SnapshotsFollowStops` and `ThreadsRunOut`: the real `debug_loop` runs out of steps nobody hears of |
| `ClientStopsAtEveryBreakpoint` | `SysInv`, below |
| `ClientIsStoppedOnlyAsAsked` | `AskInv`, below |

`ClientStopsAtBreakpoints` speaks of the instruction at hand; whether it was told
depends on the slot `last_breakpoint_hit`, which suppresses a report and may have
been set long before. `SysInv` therefore follows a breakpoint through its whole
life. `EntryAwaited`: until the server has taken the entry stop, the thread knows
no breakpoints and steps, so it stops at the first instruction whatever that is;
`HiddenIsNoHit`: the stop that is hidden left nothing in the slot. `HitIsWanted`:
the slot's breakpoint is one the server still wants and no command in flight takes
away, or it was dropped. `HitIsTold`: the client was told of the visit in the slot,
or is about to be. `StopIsTold`: once the server has taken a stop, the client knows
of it. That the thread's breakpoints are the server's while it runs comes from the
session's `BreakpointsArrive`: a thread that runs while the server holds it has
read all it was sent (`HeldThreadRuns`). TLC checked `SysInv` in both modes, with
three stops, before it was proved.

The converse follows a stop from the report to the client. `ReportsAreAskedFor`, on
top of `SysInv`, says of a server that waits (`WaitedFor`): a thread that runs with a
step pending, or is about to read one, was asked for it; and a report in the event
queue has its cause still, since the server changes no breakpoints while it waits.
It is silent about a stopped thread's `next_cmd_op`, which may be the rest of a step
cut short: the command that the thread reads last, which is the one the client gave
last (`ObeyedIsLast`), replaces it.

### References, set-up, listener

| Theorem | Argument |
|---|---|
| `VariablesTypeCorrect`, `ReferencesKeepTheirMeaning` | `IssuedFits`: what the client holds is the transaction's reference, a frame's below the range of the table, or the place in the table where its value is. `MeaningOfIssued` (the three kinds do not collide, by `OffsetAssumption`) and `ShowGrows` (the table only grows at its end) do the rest. |
| `TableHoldsThisStop` | a value is stored only by a request that shows it from the snapshot, the arguments or an entry that is itself of this stop (`ShowStaysInStop`) |
| `ReplaySetupTypeCorrect`, `LastNamedPackageRuns` | `LastAddedCounts`: so far, a module is overridden by the last package it was added from, where the package at hand counts for the modules already taken from it |
| `WarningIsExact` | `LocatorFollows`: the locator shows the code that will run, or did not take its source; and the warning was computed when nothing was left to add (`Finished`) |
| `ListenerTypeCorrect`, `SessionSpoke`, `OnlyItsClientEndsTheSession` | `TypeOK` and `ServedWithoutTimeout`: bytes to read were sent, and a connection that is served has spoken and has no timeout, without which `ReadEnds` could end the session at any pause |

**Only model-checked**: liveness (`HandlersEnd`, `AbandonedThreadsEnd`, `ClientIsServed`)
and the fairness half of `KeepsPromise` and `FirstThreadKeepsPromise`, since TLAPS does
not reason about `ENABLED`; and the three properties of `DebugValues`, which
are recursion over data. Every other invariant and action property of the passing
runs is a theorem.

## 5. Not modelled

- `Display` and `Debug` of `DebugValue`: they join the parts to one line.
  `build_local_infos`: it pairs each local with its name, without a case to tell apart.
- `proto.rs`, console output, responses: wording. That a handler answers first is
  modelled, by `Handling`; the answer's content, and the response a failed `launch`
  does not get, are not.
- `main.rs`: arguments and stdio. In `replay.rs`: the fetch of the transaction, which
  may fail, no more, and the texts of its fields. The source locator beyond
  "one source map per module": it is a dependency.
- `trim_hex_address` (`utils.rs`): a conversion of text, which its unit tests cover.
- The Move VM, the unit-test runner and the local simulation: dependencies.
  With `num_threads: 1` (`test.rs:70`) one context at a time uses the channels.
- A transaction loaded a second time while references of the first are held.

## 6. Plan

Done, in this order: `Debuggee`; `DapContext` with its refinement and proofs;
`DapContextHistory` with its proofs; `DapSession`; `StoredVariables`; `DapSystem`;
`Listener` with its proofs; `DebugValues`; `ReplaySetup`; proofs of `DapSession`,
`StoredVariables`, `ReplaySetup` and `DapSystem`.

`DapSystem` shows the stops from both sides: none is missed, and none is unasked for.

What is left:

1. Two executions in `DapSystem`, with a context each. The second is bound to a
   thread the server has let go of, about which `DapSession` says what there is to
   say with two executions already.
2. Proofs about `DebugValues`. Its operators are recursive, and what they say of every
   value is an induction over the value, for which the library has only theorems
   with an operator as a parameter. TLC checks them over all values of 32 types.
