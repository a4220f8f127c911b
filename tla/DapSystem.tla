----------------------------- MODULE DapSystem -----------------------------
(***************************************************************************)
(* The whole debugger: the server of DapSession and the debug_loop of      *)
(* DapContext, joined by the real command and event channels.  The module  *)
(* extends DapSession; its thread is an instance of DapContext, and what   *)
(* DapSession keeps of a thread follows that instance.  A step of the      *)
(* server is a step of DapSession that leaves the context alone; a step of *)
(* the thread is a step of DapContext together with what it does to the    *)
(* channels.                                                               *)
(*                                                                         *)
(* There is one execution, whose frames have no locals: what the           *)
(* composition adds is where the user is stopped.                          *)
(***************************************************************************)
EXTENDS DapSession

CONSTANTS
    Nil,             \* no location
    MaxDepth         \* bound on the depth of the call stack

ASSUME OneExecution == MaxSessions = 1
ASSUME NilAssumption == Nil \notin Locs
ASSUME DepthAssumption == MaxDepth \in Nat

VARIABLES
    \* the thread: its life and its debug context
    life,            \* "unborn", "alive", "finished" or "exited"
    next_cmd_op, breakpoints, last_breakpoint_hit,
    phase, depth, instr, line, reason,
    \* history
    seen,            \* visits in which the client was told of a stop
    hidden,          \* the stop at the current instruction was not told
    withheld,        \* visits in which that happened and no stop was told yet
    dropped,         \* lines whose breakpoint was taken away in the execution
    asked            \* the client may expect a stop without a breakpoint

thread  == <<life, next_cmd_op, breakpoints, last_breakpoint_hit, phase, depth,
             instr, line, reason>>
history == <<seen, hidden, withheld, dropped, asked>>
sys_vars == <<vars, thread, history>>

(* How the thread finds the channels: see the mapping First of DapSession. *)
Link ==
    IF life = "unborn" \/ cmd_tx = 1 THEN "up"
    ELSE IF event_rx = 1 THEN "closing" ELSE "down"

Ctx == INSTANCE DapContext
    WITH Lines <- Locs, NoLine <- Nil,
         Locals <- {}, NoLocal <- Nil, Values <- {}, Invalid <- Nil,
         moved_locals <- [d \in 0 .. MaxDepth |-> [x \in {} |-> Nil]],
         slots <- [d \in 0 .. MaxDepth |-> [x \in {} |-> Nil]],
         link <- Link

(* What the server's side may know of the thread.                          *)
Vm ==
    IF life # "alive" THEN life
    ELSE IF phase = "stopped" THEN "blocked" ELSE "running"

Stepping == phase # "stopped" /\ next_cmd_op # Ctx!RunUntilBreakpoint

(* DapSession's account of the thread follows the thread.                  *)
Follow ==
    /\ vm' = [g \in Sessions |-> Vm']
    /\ stepping' = [g \in Sessions |-> Stepping']
    /\ bps' = [g \in Sessions |-> breakpoints']

SysInit ==
    /\ Init
    /\ life = "unborn"
    /\ Ctx!Init
    /\ seen = {}
    /\ hidden = FALSE
    /\ withheld = {}
    /\ dropped = {}
    /\ asked = FALSE

-----------------------------------------------------------------------------
(* The thread.  What it reports and receives goes through the channels.    *)

(* The visits that still last when the frame at depth d is on line ln.     *)
Lasting(visits, d, ln) ==
    {v \in visits : v[1] < d \/ (v[1] = d /\ v[2] = ln)}

NothingKept == seen' = {} /\ hidden' = FALSE /\ withheld' = {}

Alive == life = "alive" /\ UNCHANGED <<server, client, dropped>>

(* debug_loop is called for an instruction and has nothing to report, or   *)
(* nobody to report it to.                                                 *)
PassInstruction(i, ln) ==
    /\ Alive
    /\ UNCHANGED <<life, stop_no, renews, commands, events, asked>>
    /\ Ctx!LetRun(i, ln) \/ Ctx!ReportFails(i, ln)
    /\ seen' = Lasting(seen, depth, ln)
    /\ withheld' = Lasting(withheld, depth, ln)
    /\ hidden' = FALSE

ReportStop(i, ln) ==
    /\ Alive
    /\ stop_no[1] < MaxStops
    /\ UNCHANGED <<life, renews, commands, asked>>
    /\ Ctx!Report(i, ln)
    /\ events' = [events EXCEPT ![1] = Append(@, "Stopped")]
    /\ stop_no' = [stop_no EXCEPT ![1] = @ + 1]
    /\ seen' = Lasting(seen, depth, ln)
    /\ withheld' = Lasting(withheld, depth, ln)
    /\ hidden' = FALSE

(* The loop around command_rx.recv(); a Step stands for any of three.      *)
Meaning(cmd) ==
    IF cmd.kind = "Step" THEN {"StepInto", "StepOver", "StepOut"} ELSE {cmd.kind}

ReceiveCommand ==
    /\ Alive
    /\ commands[1] # <<>>
    /\ UNCHANGED <<life, stop_no, renews, events, seen, hidden, withheld, asked>>
    /\ LET cmd == Head(commands[1]) IN
          IF cmd.kind = "SetBreakpoints" THEN Ctx!RecvSetBreakpoints(cmd.bps)
          ELSE \E c \in Meaning(cmd) : Ctx!RecvCommand(c)
    /\ commands' = [commands EXCEPT ![1] = Tail(@)]

SetFree ==
    /\ Alive
    /\ commands[1] = <<>>
    /\ UNCHANGED <<life, stop_no, renews, commands, events, seen, hidden, withheld,
                   asked>>
    /\ Ctx!RecvDisconnected

(* The interpreter between two calls of debug_loop (external).             *)
Interpret ==
    /\ Alive
    /\ UNCHANGED <<life, stop_no, renews, commands, events, seen, hidden, withheld,
                   asked>>
    /\ Ctx!Begin(Ctx!NothingHeld) \/ Ctx!Execute

Renew ==
    /\ Alive
    /\ renews[1] < MaxRenews
    /\ UNCHANGED <<life, stop_no, commands, events>>
    /\ Ctx!InstallOnThread
    /\ renews' = [renews EXCEPT ![1] = @ + 1]
    /\ NothingKept
    /\ asked' = TRUE

(* The end of the closure, and of the thread, which a panic brings about   *)
(* anywhere; the context goes with it.                                     *)
Finish ==
    /\ Alive
    /\ phase = "idle"
    /\ life' = "finished"
    /\ events' = IF Link = "down" THEN events
                 ELSE [events EXCEPT ![1] = Append(@, "Terminated")]
    /\ UNCHANGED <<next_cmd_op, breakpoints, last_breakpoint_hit, phase, depth,
                   instr, line, reason, stop_no, renews, commands, seen, hidden,
                   withheld, asked>>

Exit ==
    /\ life \in {"alive", "finished"}
    /\ phase # "stopped"
    /\ life' = "exited"
    /\ last_breakpoint_hit' = Ctx!NoHit
    /\ phase' = "idle"
    /\ depth' = 0
    /\ instr' = Ctx!NoInstr
    /\ line' = Nil
    /\ reason' = "None"
    /\ commands' = [commands EXCEPT ![1] = <<>>]
    /\ NothingKept
    /\ dropped' = {}
    /\ asked' = FALSE
    /\ UNCHANGED <<next_cmd_op, breakpoints, stop_no, renews, server, events,
                   client>>

ThreadMoves ==
    \/ \E i \in Ctx!Instrs, ln \in Ctx!MaybeLine :
          PassInstruction(i, ln) \/ ReportStop(i, ln)
    \/ ReceiveCommand
    \/ SetFree
    \/ Interpret
    \/ Renew
    \/ Finish
    \/ Exit

ThreadNext == ThreadMoves /\ Follow

-----------------------------------------------------------------------------
(* The server, whose every step is one of DapSession.                      *)
ServerOnly == UNCHANGED thread

SetBreakpointsInSystem(raw, lines) ==
    /\ ServerOnly
    /\ SetBreakpoints(raw, lines)
    /\ dropped' = IF life = "alive"
                  THEN dropped \cup (pending_breakpoints \ pending_breakpoints')
                  ELSE dropped
    /\ UNCHANGED <<seen, hidden, withheld, asked>>

Start ==
    /\ \/ life' = "alive" /\ StartExecution(1)
       \/ life' = "exited" /\ SpawnFails(1)
    /\ UNCHANGED <<next_cmd_op, breakpoints, last_breakpoint_hit, phase, depth,
                   instr, line, reason>>
    /\ asked' = TRUE
    /\ UNCHANGED <<seen, hidden, withheld, dropped>>

(* The server takes the entry stop and says nothing of it.                 *)
HideEntryStop ==
    /\ ServerOnly
    /\ RunToBreakpoints
    /\ hidden' = TRUE
    /\ withheld' = {<<depth, line>>}
    /\ asked' = FALSE
    /\ UNCHANGED <<seen, dropped>>

(* The server takes a stop and tells the client, if it still can.          *)
TellStop ==
    /\ ServerOnly
    /\ StopAtEntry \/ WaitEnds
    /\ seen' = IF client_reads /\ told' = vm_stopped_state'
               THEN seen \cup {<<depth, line>>} ELSE seen
    /\ withheld' = withheld \ seen'
    /\ UNCHANGED <<hidden, dropped, asked>>

ExecInSystem(kind) ==
    /\ ServerOnly
    /\ Exec(kind)
    /\ asked' = (kind = "Step")
    /\ UNCHANGED <<seen, hidden, withheld, dropped>>

(* After a disconnect the client is told of no stop any more.              *)
LetGo ==
    /\ ServerOnly
    /\ DropCmdTx
    /\ NothingKept
    /\ dropped' = {}
    /\ asked' = FALSE

ServerNext ==
    \/ \E raw \in Files \cup Aliases, lines \in SUBSET LineNumbers :
          SetBreakpointsInSystem(raw, lines)
    \/ Start
    \/ HideEntryStop
    \/ TellStop
    \/ \E kind \in ExecKinds : ExecInSystem(kind)
    \/ LetGo
    \/ /\ ServerOnly
       /\ \/ Launch
          \/ StartFails
          \/ Started
          \/ DropEventRx
          \/ Join
          \/ ClientGone
       /\ UNCHANGED history

SysNext == ThreadNext \/ ServerNext

SysSpec == SysInit /\ [][SysNext]_sys_vars

-----------------------------------------------------------------------------
SysTypeOK ==
    /\ life \in {"unborn", "alive", "finished", "exited"}
    /\ Ctx!TypeOK
    /\ TypeOK
    /\ seen \in SUBSET (Ctx!Depths \X Ctx!MaybeLine)
    /\ withheld \in SUBSET (Ctx!Depths \X Ctx!MaybeLine)
    /\ hidden \in BOOLEAN
    /\ dropped \in SUBSET Locs
    /\ asked \in BOOLEAN

(* The two components fit.  The thread that DapSession assumes, written    *)
(* down there on its own, is the debug_loop of DapContext on the channels  *)
(* the server gives it: every step of the whole is a step of DapSession.   *)
SystemIsSession == SafetySpec

(* End to end: no instruction of a line on which the client has asked for  *)
(* a breakpoint runs before the client was told of a stop in that visit of *)
(* the line, whenever it asked and whatever was in flight - but for the    *)
(* one instruction of the entry stop that configurationDone does not       *)
(* report (server.rs:269-280), lines whose breakpoint was once removed,    *)
(* and a worker context that was never sent the breakpoints.               *)
Ignorant == renews[1] > 0 /\ breakpoints = {}

ClientStopsAtBreakpoints ==
    life = "alive" /\ phase = "execute" /\ Link = "up"
      /\ line \in pending_breakpoints \ dropped
        => <<depth, line>> \in seen \/ hidden \/ Ignorant

(* And the other way round: every stop the client is told of is one it     *)
(* wants at that moment - on a line where it has a breakpoint, or one it   *)
(* asked for with its last command, a step - but for the stop that starts  *)
(* an execution and the first line of a new worker context.  No breakpoint *)
(* that it has removed stops it, and no step that a breakpoint cut short   *)
(* is taken up again (parse_cmd_op, server.rs:193-227).                    *)
ClientStopsAreAskedFor ==
    [][told' \in StopIds \ {told} =>
          \/ reason = "Breakpoint" /\ line \in pending_breakpoints
          \/ reason = "Step" /\ asked]_sys_vars

(* A visit whose stop was withheld from the client is not over before the  *)
(* client was told of a stop in it, if it has a breakpoint: configuration- *)
(* Done runs on to the first breakpoint (server.rs:269-286), which may be  *)
(* on the entry line.  setBreakpoints answers that all are verified        *)
(* (server.rs:218), and a test that sees the program end instead fails     *)
(* (tests/helpers.rs:234-238).                                             *)
EntryBreakpointIsReported ==
    [][\A v \in withheld \ withheld' :
          life' = "alive" /\ Link' = "up" /\ renews' = renews
            /\ v[2] \in pending_breakpoints \ dropped
              => v \in seen']_sys_vars
=============================================================================
