----------------------------- MODULE DapSession -----------------------------
(***************************************************************************)
(* DapServer (server.rs, server/test.rs, server/replay.rs) and the         *)
(* execution threads it starts.  The server handles one request of the     *)
(* client at a time; configurationDone and the four execution requests     *)
(* block it until the thread reports a stop or its end.  The two sides     *)
(* share nothing but a command channel and an event channel per execution. *)
(*                                                                         *)
(* A second configurationDone on the same connection replaces the channels *)
(* and the handle of the first execution, which goes on unattended: hence  *)
(* sessions.  Each thread is modelled by what DapContext promises; that    *)
(* both sides mean the same contract is what Debuggee is for.              *)
(***************************************************************************)
EXTENDS Naturals, Sequences

CONSTANTS
    Files,           \* source files, by canonical path
    Aliases,         \* other spellings of their paths
    CanonicalOf,     \* what canonicalize() makes of an alias
    LineNumbers,     \* lines that a breakpoint can be set on
    Replay,          \* the mode: RunCommand::Replay, or else Test
    MaxSessions,     \* bound on the executions started
    MaxStops,        \* bound on the stops of one execution
    MaxCmds,         \* bound on the commands buffered for one execution
    MaxRenews        \* bound on the worker contexts of one execution

ASSUME PathAssumption ==
    Files \cap Aliases = {} /\ CanonicalOf \in [Aliases -> Files]
ASSUME ModeAssumption == Replay \in BOOLEAN
ASSUME BoundAssumption ==
    /\ MaxSessions \in Nat
    /\ MaxStops \in Nat
    /\ MaxCmds \in Nat
    /\ MaxRenews \in Nat

Sessions == 1 .. MaxSessions
None     == 0                        \* an Option that is None
Locs     == Files \X LineNumbers     \* SourceLoc

VARIABLES
    \* DapServer; the handles are numbers of sessions, or None
    pc,                  \* where the server is, "idle" between requests
    txn_session,         \* a transaction has been loaded (replay)
    cmd_tx,
    event_rx,
    vm_thread,
    vm_stopped_state,    \* <<session, stop number>> of the snapshot, or None
    pending_breakpoints,
    \* the execution threads and their channels, per session
    vm,                  \* "unborn", "running", "blocked", "finished", "exited"
    stepping,            \* a step command is pending
    bps,                 \* the breakpoints it has been given
    stop_no,             \* number of stops so far
    renews,              \* number of worker contexts so far
    commands,            \* buffered DapCommands
    events,              \* buffered DapEvents
    \* the client
    client_reads,        \* writes to the client succeed
    told,                \* what it was told last: a stop, or a word
    wanted,              \* per file, the lines it last asked to break on
    misnamed             \* files it last cleared by an alias

server  == <<pc, txn_session, cmd_tx, event_rx, vm_thread, vm_stopped_state,
             pending_breakpoints>>
threads == <<vm, stepping, bps, stop_no, renews>>
queues  == <<commands, events>>
client  == <<client_reads, told, wanted, misnamed>>
vars    == <<server, threads, queues, client>>

Handles == {None} \cup Sessions
StopIds == Sessions \X (1 .. MaxStops)

SetBreakpointsCmd(S) == [kind |-> "SetBreakpoints", bps |-> S]
ExecCmd(kind)        == [kind |-> kind, bps |-> {}]
ExecKinds            == {"Continue", "Step"}  \* Step: next, stepIn or stepOut
DapCommand           == [kind : ExecKinds \cup {"SetBreakpoints"}, bps : SUBSET Locs]

TypeOK ==
    /\ pc \in {"idle", "starting", "failing", "first", "waiting", "dropping",
               "joining", "leaving", "ended"}
    /\ txn_session \in BOOLEAN
    /\ cmd_tx \in Handles /\ event_rx \in Handles /\ vm_thread \in Handles
    /\ vm_stopped_state \in StopIds \cup {<<>>}
    /\ pending_breakpoints \in SUBSET Locs
    /\ vm \in [Sessions -> {"unborn", "running", "blocked", "finished", "exited"}]
    /\ stepping \in [Sessions -> BOOLEAN]
    /\ bps \in [Sessions -> SUBSET Locs]
    /\ stop_no \in [Sessions -> 0 .. MaxStops]
    /\ renews \in [Sessions -> 0 .. MaxRenews]
    /\ commands \in [Sessions -> Seq(DapCommand)]
    /\ events \in [Sessions -> Seq({"Stopped", "Terminated"})]
    /\ client_reads \in BOOLEAN
    /\ told \in StopIds \cup {<<"nothing">>, <<"running">>, <<"failed">>,
                            <<"terminated">>}
    /\ wanted \in [Files -> SUBSET LineNumbers]
    /\ misnamed \in SUBSET Files

Init ==
    /\ pc = "idle"
    /\ txn_session = FALSE
    /\ cmd_tx = None /\ event_rx = None /\ vm_thread = None
    /\ vm_stopped_state = <<>>
    /\ pending_breakpoints = {}
    /\ vm = [g \in Sessions |-> "unborn"]
    /\ stepping = [g \in Sessions |-> TRUE]
    /\ bps = [g \in Sessions |-> {}]
    /\ stop_no = [g \in Sessions |-> 0]
    /\ renews = [g \in Sessions |-> 0]
    /\ commands = [g \in Sessions |-> <<>>]
    /\ events = [g \in Sessions |-> <<>>]
    /\ client_reads = TRUE
    /\ told = <<"nothing">>
    /\ wanted = [f \in Files |-> {}]
    /\ misnamed = {}

-----------------------------------------------------------------------------
(* Channels.  Each half of a channel lives as long as its owner.           *)

(* The event receiver of a session being started is a local of start_*.    *)
Listening(g) == event_rx = g \/ (pc = "starting" /\ cmd_tx = g)

(* send() drops a command when the thread, the only receiver, is gone.     *)
Send(g, cmds) ==
    commands' = IF g = None \/ vm[g] = "exited" THEN commands
                ELSE [commands EXCEPT ![g] = @ \o cmds]

RoomFor(g, n) == g # None => Len(commands[g]) + n <= MaxCmds

-----------------------------------------------------------------------------
(* The execution threads, as DapContext promises.                          *)

(* Slip: the failure to report a stop goes unnoticed.                      *)
VmStopUnheard(g) ==
    /\ vm[g] = "running"
    /\ stepping[g] \/ bps[g] # {}
    /\ stop_no[g] < MaxStops
    /\ vm' = [vm EXCEPT ![g] = "blocked"]
    /\ stepping' = [stepping EXCEPT ![g] = FALSE]
    /\ stop_no' = [stop_no EXCEPT ![g] = @ + 1]
    /\ events' = IF Listening(g)
                 THEN [events EXCEPT ![g] = Append(@, "Stopped")] ELSE events
    /\ UNCHANGED <<server, bps, renews, commands, client>>

VmStop(g) ==
    /\ vm[g] = "running"
    /\ stepping[g] \/ bps[g] # {}
    /\ Listening(g)
    /\ stop_no[g] < MaxStops
    /\ vm' = [vm EXCEPT ![g] = "blocked"]
    /\ stepping' = [stepping EXCEPT ![g] = FALSE]
    /\ stop_no' = [stop_no EXCEPT ![g] = @ + 1]
    /\ events' = [events EXCEPT ![g] = Append(@, "Stopped")]
    /\ UNCHANGED <<server, bps, renews, commands, client>>

(* A due stop that can no longer be reported is not taken.                 *)
VmGiveUp(g) ==
    /\ vm[g] = "running"
    /\ ~Listening(g)
    /\ stepping[g]
    /\ stepping' = [stepping EXCEPT ![g] = FALSE]
    /\ UNCHANGED <<server, vm, bps, stop_no, renews, queues, client>>

VmSetBreakpoints(g) ==
    /\ vm[g] = "blocked"
    /\ commands[g] # <<>>
    /\ Head(commands[g]).kind = "SetBreakpoints"
    /\ bps' = [bps EXCEPT ![g] = Head(commands[g]).bps]
    /\ commands' = [commands EXCEPT ![g] = Tail(@)]
    /\ UNCHANGED <<server, vm, stepping, stop_no, renews, events, client>>

(* A stepOut from the outermost frame is no step (parse_cmd_op).           *)
VmResume(g, step) ==
    /\ vm[g] = "blocked"
    /\ commands[g] # <<>>
    /\ Head(commands[g]).kind \in ExecKinds
    /\ step => Head(commands[g]).kind = "Step"
    /\ vm' = [vm EXCEPT ![g] = "running"]
    /\ stepping' = [stepping EXCEPT ![g] = step]
    /\ commands' = [commands EXCEPT ![g] = Tail(@)]
    /\ UNCHANGED <<server, bps, stop_no, renews, events, client>>

(* Slip: recv is retried when it reports the disconnect.                   *)
VmRetriesRecv(g) ==
    /\ vm[g] = "blocked"
    /\ commands[g] = <<>>
    /\ cmd_tx # g
    /\ UNCHANGED vars

VmSetFree(g) ==
    /\ vm[g] = "blocked"
    /\ commands[g] = <<>>
    /\ cmd_tx # g
    /\ vm' = [vm EXCEPT ![g] = "running"]
    /\ UNCHANGED <<server, stepping, bps, stop_no, renews, queues, client>>

(* A worker thread takes over, with a context of its own.                  *)
VmRenew(g) ==
    /\ vm[g] = "running"
    /\ renews[g] < MaxRenews
    /\ renews' = [renews EXCEPT ![g] = @ + 1]
    /\ stepping' = [stepping EXCEPT ![g] = TRUE]
    /\ bps' = [bps EXCEPT ![g] = {}]
    /\ UNCHANGED <<server, vm, stop_no, queues, client>>

(* The end of the thread's closure; the senders go when the thread does.   *)
VmFinish(g) ==
    /\ vm[g] = "running"
    /\ vm' = [vm EXCEPT ![g] = "finished"]
    /\ events' = IF Listening(g)
                 THEN [events EXCEPT ![g] = Append(@, "Terminated")] ELSE events
    /\ UNCHANGED <<server, stepping, bps, stop_no, renews, commands, client>>

(* A panic unwinds past the send of Terminated.                            *)
VmExit(g) ==
    /\ vm[g] \in {"running", "finished"}
    /\ vm' = [vm EXCEPT ![g] = "exited"]
    /\ commands' = [commands EXCEPT ![g] = <<>>]
    /\ UNCHANGED <<server, stepping, bps, stop_no, renews, events, client>>

VmRuns(g) == VmStop(g) \/ VmFinish(g) \/ VmExit(g)

VmNext(g) ==
    \/ VmRuns(g)
    \/ VmGiveUp(g)
    \/ VmSetBreakpoints(g)
    \/ \E step \in BOOLEAN : VmResume(g, step)
    \/ VmSetFree(g)
    \/ VmRenew(g)

-----------------------------------------------------------------------------
(* The handlers.  Every one writes to the client first and returns at once *)
(* when that fails, so only an idle server with a reading client does      *)
(* anything; disconnect is the exception.                                  *)
Handling == pc = "idle" /\ client_reads

(* handle_launch in replay mode, when the transaction could be fetched.    *)
(* In test mode, and when the fetch fails, launch changes nothing.         *)
Launch ==
    /\ Handling
    /\ Replay
    /\ txn_session' = TRUE
    /\ UNCHANGED <<pc, cmd_tx, event_rx, vm_thread, vm_stopped_state,
                   pending_breakpoints, threads, queues, client>>

(* Slip: paths are taken as the client spells them.                        *)
CanonicalAsSpelled(raw) == raw

(* handle_set_breakpoints for the source path raw.  With an empty list     *)
(* nothing canonicalizes the path.                                         *)
Canonical(raw) == IF raw \in Aliases THEN CanonicalOf[raw] ELSE raw

(* Slip: the new breakpoints are added to the old ones.                    *)
PendingAfterMerged(raw, lines) ==
    pending_breakpoints \cup {<<Canonical(raw), ln>> : ln \in lines}

PendingAfter(raw, lines) ==
    LET path == IF lines = {} THEN raw ELSE Canonical(raw) IN
    {bp \in pending_breakpoints : bp[1] # path}
        \cup {<<Canonical(raw), ln>> : ln \in lines}

(* Slip: a live execution is not told.                                     *)
SetBreakpointsUnsent(raw, lines) ==
    /\ Handling
    /\ pending_breakpoints' = PendingAfter(raw, lines)
    /\ wanted' = [wanted EXCEPT ![Canonical(raw)] = lines]
    /\ misnamed' = misnamed \ {Canonical(raw)}
    /\ UNCHANGED <<pc, txn_session, cmd_tx, event_rx, vm_thread,
                   vm_stopped_state, threads, queues, client_reads, told>>

SetBreakpoints(raw, lines) ==
    /\ Handling
    /\ RoomFor(cmd_tx, 1)
    /\ pending_breakpoints' = PendingAfter(raw, lines)
    /\ Send(cmd_tx, <<SetBreakpointsCmd(PendingAfter(raw, lines))>>)
    /\ wanted' = [wanted EXCEPT ![Canonical(raw)] = lines]
    /\ misnamed' = IF lines = {} /\ raw \in Aliases
                   THEN misnamed \cup {Canonical(raw)}
                   ELSE misnamed \ {Canonical(raw)}
    /\ UNCHANGED <<pc, txn_session, cmd_tx, event_rx, vm_thread,
                   vm_stopped_state, threads, events, client_reads, told>>

(* Slip: the error of start_* is dropped.                                  *)
StartFailsUntold ==
    /\ Handling
    /\ told' = <<"running">>
    /\ UNCHANGED <<server, threads, queues, client_reads, wanted, misnamed>>

(* handle_configuration_done up to the spawn.  It answers first; start_*   *)
(* may then fail (no transaction, a package that does not build) and leave *)
(* everything as it was, but run sends the error as console output.        *)
StartFails ==
    /\ Handling
    /\ told' = <<"failed">>
    /\ UNCHANGED <<server, threads, queues, client_reads, wanted, misnamed>>

(* The thread runs from here on.  The assignment to cmd_tx drops the old   *)
(* sender.                                                                 *)
StartExecution(g) ==
    /\ Handling
    /\ Replay => txn_session
    /\ vm[g] = "unborn"
    /\ \A h \in Sessions : h < g => vm[h] # "unborn"
    /\ vm' = [vm EXCEPT ![g] = "running"]
    /\ cmd_tx' = g
    /\ pc' = "starting"
    /\ told' = <<"running">>
    /\ UNCHANGED <<txn_session, event_rx, vm_thread, vm_stopped_state,
                   pending_breakpoints, stepping, bps, stop_no, renews, queues,
                   client_reads, wanted, misnamed>>

(* In test mode a failing spawn is noticed after the channels are in       *)
(* place, ends of which went down with the closure.                        *)
SpawnFails(g) ==
    /\ Handling
    /\ ~Replay
    /\ vm[g] = "unborn"
    /\ \A h \in Sessions : h < g => vm[h] # "unborn"
    /\ vm' = [vm EXCEPT ![g] = "exited"]
    /\ cmd_tx' = g
    /\ pc' = "failing"
    /\ told' = <<"running">>
    /\ UNCHANGED <<txn_session, event_rx, vm_thread, vm_stopped_state,
                   pending_breakpoints, stepping, bps, stop_no, renews, queues,
                   client_reads, wanted, misnamed>>

Tell(what) == told' = IF client_reads THEN what ELSE told

Started ==
    /\ pc \in {"starting", "failing"}
    /\ event_rx' = cmd_tx
    /\ IF pc = "starting"
       THEN pc' = "first" /\ vm_thread' = cmd_tx /\ UNCHANGED told
       ELSE pc' = "idle" /\ UNCHANGED vm_thread /\ Tell(<<"failed">>)
    /\ UNCHANGED <<txn_session, cmd_tx, vm_stopped_state, pending_breakpoints,
                   threads, queues, client_reads, wanted, misnamed>>

(* wait_for_vm_event.                                                      *)
TakeEvent(ev) ==
    /\ events[event_rx] # <<>>
    /\ Head(events[event_rx]) = ev
    /\ events' = [events EXCEPT ![event_rx] = Tail(@)]

TakeStop ==
    /\ TakeEvent("Stopped")
    /\ vm_stopped_state' = <<event_rx, stop_no[event_rx]>>

(* Slip: the snapshot outlives the program.                                *)
TakeEndKeepsSnapshot ==
    /\ \/ TakeEvent("Terminated")
       \/ /\ events[event_rx] = <<>>
          /\ vm[event_rx] = "exited"
          /\ UNCHANGED events
    /\ UNCHANGED vm_stopped_state

(* Slip: only Terminated counts as an end.                                 *)
TakeEndAnnounced ==
    /\ TakeEvent("Terminated")
    /\ vm_stopped_state' = <<>>

TakeEnd ==
    /\ \/ TakeEvent("Terminated")
       \/ /\ events[event_rx] = <<>>
          /\ vm[event_rx] = "exited"
          /\ UNCHANGED events
    /\ vm_stopped_state' = <<>>

(* Slip: the entry stop is reported though the thread goes on.             *)
RunToBreakpointsUnhidden ==
    /\ pc = "first"
    /\ TakeStop
    /\ pending_breakpoints # {}
    /\ client_reads
    /\ RoomFor(cmd_tx, 2)
    /\ Send(cmd_tx, <<SetBreakpointsCmd(pending_breakpoints), ExecCmd("Continue")>>)
    /\ Tell(vm_stopped_state')
    /\ pc' = "idle"
    /\ UNCHANGED <<txn_session, cmd_tx, event_rx, vm_thread, pending_breakpoints,
                   threads, client_reads, wanted, misnamed>>

(* Slip: the thread gets its breakpoints but is not told to go on.         *)
RunToBreakpointsUntold ==
    /\ pc = "first"
    /\ TakeStop
    /\ pending_breakpoints # {}
    /\ client_reads
    /\ RoomFor(cmd_tx, 2)
    /\ Send(cmd_tx, <<SetBreakpointsCmd(pending_breakpoints)>>)
    /\ pc' = "waiting"
    /\ UNCHANGED <<txn_session, cmd_tx, event_rx, vm_thread, pending_breakpoints,
                   threads, client>>

(* Slip: the thread is told to go on before it gets its breakpoints.       *)
RunToBreakpointsSwapped ==
    /\ pc = "first"
    /\ TakeStop
    /\ pending_breakpoints # {}
    /\ client_reads
    /\ RoomFor(cmd_tx, 2)
    /\ Send(cmd_tx, <<ExecCmd("Continue"), SetBreakpointsCmd(pending_breakpoints)>>)
    /\ pc' = "waiting"
    /\ UNCHANGED <<txn_session, cmd_tx, event_rx, vm_thread, pending_breakpoints,
                   threads, client>>

(* The rest of handle_configuration_done.  The entry stop is hidden from   *)
(* the client when there are breakpoints to run to.                        *)
RunToBreakpoints ==
    /\ pc = "first"
    /\ TakeStop
    /\ pending_breakpoints # {}
    /\ client_reads
    /\ RoomFor(cmd_tx, 2)
    /\ Send(cmd_tx, <<SetBreakpointsCmd(pending_breakpoints), ExecCmd("Continue")>>)
    /\ pc' = "waiting"
    /\ UNCHANGED <<txn_session, cmd_tx, event_rx, vm_thread, pending_breakpoints,
                   threads, client>>

StopAtEntry ==
    /\ pc = "first"
    /\ TakeStop
    /\ pending_breakpoints = {} \/ ~client_reads
    /\ Tell(vm_stopped_state')
    /\ pc' = "idle"
    /\ UNCHANGED <<txn_session, cmd_tx, event_rx, vm_thread, pending_breakpoints,
                   threads, commands, client_reads, wanted, misnamed>>

WaitEnds ==
    /\ \/ /\ pc = "waiting"
          /\ TakeStop
          /\ Tell(vm_stopped_state')
       \/ /\ pc \in {"first", "waiting"}
          /\ TakeEnd
          /\ Tell(<<"terminated">>)
    /\ pc' = "idle"
    /\ UNCHANGED <<txn_session, cmd_tx, event_rx, vm_thread, pending_breakpoints,
                   threads, commands, client_reads, wanted, misnamed>>

(* handle_continue, handle_next, handle_step_in, handle_step_out.          *)
Exec(kind) ==
    /\ Handling
    /\ RoomFor(cmd_tx, 1)
    /\ Send(cmd_tx, <<ExecCmd(kind)>>)
    /\ pc' = IF event_rx = None THEN "idle" ELSE "waiting"
    /\ told' = IF event_rx = None THEN <<"terminated">> ELSE <<"running">>
    /\ UNCHANGED <<txn_session, cmd_tx, event_rx, vm_thread, vm_stopped_state,
                   pending_breakpoints, threads, events, client_reads, wanted,
                   misnamed>>

(* handle_disconnect, and the end of run, which drops the server: cmd_tx   *)
(* before event_rx, and vm_thread without a join.                          *)
DropCmdTx ==
    /\ pc = "idle"
    /\ pc' \in {"dropping", "leaving"}
    /\ cmd_tx' = None
    /\ UNCHANGED <<txn_session, event_rx, vm_thread, vm_stopped_state,
                   pending_breakpoints, threads, queues, client>>

DropEventRx ==
    /\ pc \in {"dropping", "leaving"}
    /\ pc' = IF pc = "dropping" THEN "joining" ELSE "ended"
    /\ event_rx' = None
    /\ UNCHANGED <<txn_session, cmd_tx, vm_thread, vm_stopped_state,
                   pending_breakpoints, threads, queues, client>>

Join ==
    /\ pc = "joining"
    /\ vm_thread # None => vm[vm_thread] = "exited"
    /\ vm_thread' = None
    /\ Tell(<<"nothing">>)
    /\ pc' = "idle"
    /\ UNCHANGED <<txn_session, cmd_tx, event_rx, vm_stopped_state,
                   pending_breakpoints, threads, queues, client_reads, wanted,
                   misnamed>>

(* The client may go away at any time.                                     *)
ClientGone ==
    /\ client_reads
    /\ client_reads' = FALSE
    /\ UNCHANGED <<server, threads, queues, told, wanted, misnamed>>

ServerMoves ==
    \/ Started
    \/ RunToBreakpoints
    \/ StopAtEntry
    \/ WaitEnds
    \/ DropEventRx
    \/ Join

Next ==
    \/ Launch
    \/ \E raw \in Files \cup Aliases, lines \in SUBSET LineNumbers :
          SetBreakpoints(raw, lines)
    \/ StartFails
    \/ \E g \in Sessions : StartExecution(g) \/ SpawnFails(g)
    \/ \E kind \in ExecKinds : Exec(kind)
    \/ DropCmdTx
    \/ ServerMoves
    \/ ClientGone
    \/ \E g \in Sessions : VmNext(g)

SafetySpec == Init /\ [][Next]_vars

(* A handler that can go on does, and so does a thread: it reads what it   *)
(* is sent, and Move code, metered as it is, stops or ends.                *)
Fairness ==
    /\ WF_vars(ServerMoves)
    /\ \A g \in Sessions :
          /\ WF_vars(VmRuns(g))
          /\ WF_vars(VmSetBreakpoints(g))
          /\ WF_vars(\E step \in BOOLEAN : VmResume(g, step))
          /\ WF_vars(VmSetFree(g))

Spec == SafetySpec /\ Fairness

-----------------------------------------------------------------------------
(* Safety.                                                                 *)

(* Whenever the server reads a request, its thread is blocked in the stop  *)
(* whose snapshot the server holds, and is the thread that disconnect will *)
(* join; or it is done and, unless it never started, there is no snapshot. *)
(* No event is left unread.  A stop can therefore never be taken for the   *)
(* answer to a later command, and stackTrace, scopes and variables answer  *)
(* from the state the thread is in (wait_for_vm_event).                    *)
Lockstep ==
    pc = "idle" /\ event_rx # None =>
        /\ events[event_rx] = <<>>
        /\ \/ /\ vm[event_rx] = "blocked"
              /\ vm_thread = event_rx
              /\ vm_stopped_state = <<event_rx, stop_no[event_rx]>>
           \/ /\ vm[event_rx] \in {"finished", "exited"}
              /\ vm_thread = event_rx => vm_stopped_state = <<>>

(* A client that was told of a stop, and has not asked for more since, is  *)
(* looking at the thread's current stop, whatever executions were started, *)
(* abandoned or disconnected before.                                       *)
ClientSeesCurrentStop ==
    pc = "idle" /\ client_reads /\ told \in StopIds =>
        /\ event_rx = told[1]
        /\ vm[told[1]] = "blocked"
        /\ stop_no[told[1]] = told[2]
        /\ vm_stopped_state = told

(* configurationDone is answered with success before anything has been     *)
(* started, and so are the execution requests: what became of them the     *)
(* client hears from events and output.  Once the server reads requests    *)
(* again it has heard of a stop, an end or a failure, and an end it heard  *)
(* of is the end of the thread that later commands go to                   *)
(* (server.rs:100-104, 229-302).                                           *)
ClientHearsHowItEnded ==
    pc = "idle" /\ client_reads =>
        /\ told # <<"running">>
        /\ told = <<"terminated">> /\ event_rx # None
              => vm[event_rx] \in {"finished", "exited"}

(* The server never waits for an event from a thread that waits for a      *)
(* command: if the thread is blocked and has nothing to report, the        *)
(* command that resumes it is on its way.                                  *)
NoMutualWait ==
    pc \in {"first", "waiting"} /\ vm[event_rx] = "blocked" =>
        \/ events[event_rx] # <<>>
        \/ /\ commands[event_rx] # <<>>
           /\ commands[event_rx][Len(commands[event_rx])].kind \in ExecKinds

(* A command is obeyed in the stop that the client was looking at when it  *)
(* sent it: nothing is left in the channel of a thread that runs, so that  *)
(* no step, continue or list of breakpoints waits for a later stop, and    *)
(* nothing follows the command that ends a stop (debug_loop's recv,        *)
(* server.rs:276-279).                                                     *)
CommandsAreForThisStop ==
    \A g \in Sessions :
        /\ vm[g] = "running" => commands[g] = <<>>
        /\ vm[g] = "blocked" =>
              \A i \in DOMAIN commands[g] :
                  i < Len(commands[g]) => commands[g][i].kind = "SetBreakpoints"

(* The snapshots the server takes of one execution are those of all its    *)
(* stops, each once and in their order: none is left out because two were  *)
(* reported in one wait, none is taken again (wait_for_vm_event).          *)
EveryStopIsTaken ==
    [][vm_stopped_state' \notin {<<>>, vm_stopped_state} =>
          \/ vm_stopped_state'[2] = 1
          \/ vm_stopped_state = <<vm_stopped_state'[1], vm_stopped_state'[2] - 1>>]_vars

(* What a thread can still do on its own, before it ends or reports again. *)
StepsLeft(g) ==
    LET contexts == 2 * (MaxRenews - renews[g]) IN
    CASE vm[g] = "blocked"  -> 4 + contexts + Len(commands[g])
      [] vm[g] = "running"  -> 2 + contexts + (IF stepping[g] THEN 1 ELSE 0)
      [] vm[g] = "finished" -> 1
      [] OTHER              -> 0

StepCounts(g) ==
    vm[g] # "unborn" /\ <<vm[g], stepping[g], renews[g], commands[g]>>'
                            # <<vm[g], stepping[g], renews[g], commands[g]>>
    => \/ StepsLeft(g)' < StepsLeft(g)
       \/ Len(events[g]') > Len(events[g])
       \/ pc \in {"idle", "first"} /\ Len(commands[g]') > Len(commands[g])

(* Whatever a thread does brings it nearer to its end, unless it reports a *)
(* stop or is sent a command, which happens between waits only: it does    *)
(* not go round between stopping and being set free behind the back of a   *)
(* server that waits or joins (debug_loop, wait_for_vm_event).             *)
EveryStepCounts == [][\A g \in Sessions : StepCounts(g)]_vars

(* S are the breakpoints of the thread once it has read its commands.      *)
WillHave(g, S) ==
    LET sent == {i \in DOMAIN commands[g] : commands[g][i].kind = "SetBreakpoints"} IN
    \/ sent = {} /\ bps[g] = S
    \/ \E i \in sent : commands[g][i].bps = S /\ \A j \in sent : j <= i

(* At every stop the thread has, or is about to read, the very breakpoints *)
(* the server holds, no matter when they were set - before the launch,     *)
(* before configurationDone, at a stop, between two executions.  Only a    *)
(* worker context that has just started may have none (install_on_thread). *)
BreakpointsInSync ==
    pc = "idle" /\ client_reads /\ event_rx # None /\ vm[event_rx] = "blocked" =>
        \/ WillHave(event_rx, pending_breakpoints)
        \/ WillHave(event_rx, {}) /\ renews[event_rx] > 0

(* setBreakpoints replaces the breakpoints of the file it names, all of    *)
(* them and no others, however the path is spelled - except that an empty  *)
(* list does so for a canonical path only (server.rs:199-205).             *)
FilesKeepLastRequest ==
    \A f \in Files \ misnamed :
        {ln \in LineNumbers : <<f, ln>> \in pending_breakpoints} = wanted[f]

-----------------------------------------------------------------------------
(* A thread, seen through the channels the server gives it, behaves as     *)
(* Debuggee says: DapContext and DapSession mean the same contract.  It is *)
(* stated of the first execution, which a second one may displace.         *)
First == INSTANCE Debuggee
    WITH blocked  <- vm[1] = "blocked",
         stepping <- stepping[1],
         bps      <- bps[1],
         link     <- IF cmd_tx = 1 \/ vm[1] = "unborn" THEN "up"
                     ELSE IF Listening(1) THEN "closing" ELSE "down"

FirstThreadKeepsPromise == First!Spec

-----------------------------------------------------------------------------
(* Liveness.                                                               *)

(* Every handler comes to an end: no wait for an event and no join hangs,  *)
(* whatever the thread does meanwhile.                                     *)
HandlersEnd == pc \notin {"idle", "ended"} ~> pc \in {"idle", "ended"}

(* A thread the server has let go of - by a disconnect, an end of input or *)
(* a second configurationDone - runs to its end and is not left blocked.   *)
AbandonedThreadsEnd ==
    \A g \in Sessions :
        vm[g] # "unborn" /\ cmd_tx # g ~> vm[g] = "exited"
=============================================================================
