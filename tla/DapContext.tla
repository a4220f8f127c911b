----------------------------- MODULE DapContext -----------------------------
(***************************************************************************)
(* DapDebugContext (debugger/dap_context.rs): the debug context that the   *)
(* Move VM calls before every bytecode instruction of one execution        *)
(* thread.  The module holds the whole of debug_loop - the bookkeeping of  *)
(* moved locals, the breakpoint check, the step check, the report, the     *)
(* wait for commands - and the interpreter around it, which is external:   *)
(* it enters and leaves frames and picks the next instruction and its      *)
(* source line freely.                                                     *)
(*                                                                         *)
(* The channels are seen from the thread's side.  Commands that were still *)
(* buffered when the session dropped its sender are received after the     *)
(* drop; only an empty channel reports it.                                 *)
(***************************************************************************)
EXTENDS Integers

CONSTANTS
    Lines,           \* source locations (SourceLoc: canonical path and line)
    NoLine,          \* an instruction that maps to no source location
    Locals,          \* indices of a frame's locals
    NoLocal,         \* the operand of an instruction that has none
    Values,          \* values a local can hold
    Invalid,         \* DebugValue::Invalid: the local holds no value
    MaxDepth         \* bound on the depth of the call stack

ASSUME LineAssumption == NoLine \notin Lines
ASSUME LocalAssumption == NoLocal \notin Locals
ASSUME ValueAssumption == Invalid \notin Values
ASSUME DepthAssumption == MaxDepth \in Nat

VARIABLES
    \* DapDebugContext
    next_cmd_op,         \* DebuggerOp: what the last command asked for
    breakpoints,         \* source locations that have a breakpoint
    moved_locals,        \* per depth, the values moved out of locals
    last_breakpoint_hit, \* the one hit whose re-triggering is suppressed
    \* the two channels
    link,                \* "up", "closing" (cmd_tx dropped) or "down" (both)
    \* the interpreter
    phase,               \* "idle", "fetch", "stopped" or "execute"
    depth,               \* get_stack_depth() of the running frame
    slots,               \* per depth, the frame's Locals
    instr,               \* the instruction debug_loop was called for
    line,                \* and its source location
    reason               \* StopReason of the stop being reported

context == <<next_cmd_op, breakpoints, moved_locals, last_breakpoint_hit>>
frames  == <<depth, slots>>
vars    == <<context, link, phase, frames, instr, line, reason>>

Depths       == 0 .. MaxDepth
MaybeLine    == Lines \cup {NoLine}
MaybeValue   == Values \cup {Invalid}
FrameLocals  == [Locals -> MaybeValue]
NothingHeld  == [x \in Locals |-> Invalid]
EmptySlots   == [d \in Depths |-> NothingHeld]

-----------------------------------------------------------------------------
(* DebuggerOp.  Fields that a variant does not have are 0 and NoLine.      *)

StepOver(d, ln)    == [kind |-> "StepOver", depth |-> d, line |-> ln]
StepInto(ln)       == [kind |-> "StepInto", depth |-> 0, line |-> ln]
StepOut(d)         == [kind |-> "StepOut", depth |-> d, line |-> NoLine]
RunUntilBreakpoint == [kind |-> "Run", depth |-> 0, line |-> NoLine]

DebuggerOps == [kind : {"StepOver", "StepInto", "StepOut", "Run"},
                depth : Depths, line : MaybeLine]

(* DapCommand without SetBreakpoints: the commands that resume.            *)
Commands == {"Continue", "StepInto", "StepOver", "StepOut"}

(* The instructions the context tells apart, and those that move frames.   *)
NoInstr == [kind |-> "None", local |-> NoLocal]
Instrs  == [kind : {"MoveLoc", "StLoc"}, local : Locals]
             \cup [kind : {"Call", "Ret", "Abort", "Other"}, local : {NoLocal}]

NoHit       == [line |-> NoLine, depth |-> 0]
Hits        == [line : MaybeLine, depth : Depths]

TypeOK ==
    /\ next_cmd_op \in DebuggerOps
    /\ breakpoints \in SUBSET Lines
    /\ moved_locals \in [Depths -> FrameLocals]
    /\ last_breakpoint_hit \in Hits
    /\ link \in {"up", "closing", "down"}
    /\ phase \in {"idle", "fetch", "stopped", "execute"}
    /\ depth \in Depths
    /\ slots \in [Depths -> FrameLocals]
    /\ instr \in Instrs \cup {NoInstr}
    /\ line \in MaybeLine
    /\ reason \in {"None", "Step", "Breakpoint"}

(* DapDebugContext::new, on a thread that has not run any Move code yet.   *)
Init ==
    /\ next_cmd_op = StepInto(NoLine)
    /\ breakpoints = {}
    /\ moved_locals = EmptySlots
    /\ last_breakpoint_hit = NoHit
    /\ link = "up"
    /\ phase = "idle"
    /\ depth = 0
    /\ slots = EmptySlots
    /\ instr = NoInstr
    /\ line = NoLine
    /\ reason = "None"

-----------------------------------------------------------------------------
(* Slip: Ret does not forget what its frame has moved.                     *)
MovedLocalsAfterNoClear(i) ==
    IF i.kind = "MoveLoc"
    THEN [moved_locals EXCEPT ![depth][i.local] = slots[depth][i.local]]
    ELSE moved_locals

(* handle_potentially_moved_locals: a MoveLoc saves the value it is about  *)
(* to move, a Ret forgets what its frame has moved.                        *)
MovedLocalsAfter(i) ==
    CASE i.kind = "MoveLoc" ->
            [moved_locals EXCEPT ![depth][i.local] = slots[depth][i.local]]
      [] i.kind = "Ret" -> [moved_locals EXCEPT ![depth] = NothingHeld]
      [] OTHER -> moved_locals

(* check_if_breakpoint_got_hit.  NoHit stands for None: its line is no     *)
(* line of the program.                                                    *)
Suppressed(d, ln) ==
    /\ last_breakpoint_hit # NoHit
    /\ last_breakpoint_hit.line = ln
    /\ last_breakpoint_hit.depth = d

(* Slip: the hit is kept until its frame has returned.                     *)
MovedPastOnReturn(d, ln) ==
    /\ last_breakpoint_hit # NoHit
    /\ d < last_breakpoint_hit.depth
    /\ last_breakpoint_hit.line # ln

(* Slip: a call made from the line counts as having left it.               *)
MovedPastAnywhere(d, ln) ==
    /\ last_breakpoint_hit # NoHit
    /\ last_breakpoint_hit.line # ln

MovedPast(d, ln) ==
    /\ last_breakpoint_hit # NoHit
    /\ d <= last_breakpoint_hit.depth
    /\ last_breakpoint_hit.line # ln

BreakpointHit(d, ln) == ln \in breakpoints /\ ~Suppressed(d, ln)

LastHitAfter(d, ln) ==
    IF BreakpointHit(d, ln) THEN [line |-> ln, depth |-> d]
    ELSE IF MovedPast(d, ln) THEN NoHit
    ELSE last_breakpoint_hit

(* should_stop_for_the_next_cmd_op.                                        *)
LineChanged(ln, start) == ln # NoLine /\ ln # start

(* Slip: stepping over stops in the callee.                                *)
StepDoneInCallee(d, ln) ==
    \/ next_cmd_op.kind \in {"StepOver", "StepInto"} /\ LineChanged(ln, next_cmd_op.line)
    \/ next_cmd_op.kind = "StepOut" /\ d <= next_cmd_op.depth

StepDone(d, ln) ==
    \/ /\ next_cmd_op.kind = "StepOver"
       /\ d <= next_cmd_op.depth
       /\ LineChanged(ln, next_cmd_op.line)
    \/ /\ next_cmd_op.kind = "StepInto"
       /\ LineChanged(ln, next_cmd_op.line)
    \/ /\ next_cmd_op.kind = "StepOut"
       /\ d <= next_cmd_op.depth

(* Slip: the outermost frame has a caller too.                             *)
ParseCmdOpUnderflow(cmd, d, ln) ==
    CASE cmd = "Continue" -> RunUntilBreakpoint
      [] cmd = "StepInto" -> StepInto(ln)
      [] cmd = "StepOver" -> StepOver(d, ln)
      [] cmd = "StepOut"  -> StepOut(d - 1)

(* Slip: continue lets a step go on that a breakpoint has cut short.       *)
ParseCmdOpResumesStep(cmd, d, ln) ==
    CASE cmd = "Continue" -> next_cmd_op
      [] cmd = "StepInto" -> StepInto(ln)
      [] cmd = "StepOver" -> StepOver(d, ln)
      [] cmd = "StepOut"  -> IF d = 0 THEN RunUntilBreakpoint ELSE StepOut(d - 1)

(* parse_cmd_op.                                                           *)
ParseCmdOp(cmd, d, ln) ==
    CASE cmd = "Continue" -> RunUntilBreakpoint
      [] cmd = "StepInto" -> StepInto(ln)
      [] cmd = "StepOver" -> StepOver(d, ln)
      [] cmd = "StepOut"  -> IF d = 0 THEN RunUntilBreakpoint ELSE StepOut(d - 1)

(* build_dap_local_infos: what a stop reports for local x of the frame at  *)
(* depth d.                                                                *)
Shown(d, x) == IF slots[d][x] = Invalid THEN moved_locals[d][x] ELSE slots[d][x]

-----------------------------------------------------------------------------
(* debug_loop up to its first decision, called for instruction i on ln.    *)
(* Verified bytecode moves a local only while it holds a value.            *)
Reach(i, ln) ==
    /\ phase = "fetch"
    /\ i.kind = "MoveLoc" => slots[depth][i.local] # Invalid
    /\ i.kind = "Call" => depth < MaxDepth
    /\ instr' = i
    /\ line' = ln
    /\ moved_locals' = MovedLocalsAfter(i)
    /\ last_breakpoint_hit' = LastHitAfter(depth, ln)
    /\ UNCHANGED <<breakpoints, link, frames>>

ShouldStop(ln) == BreakpointHit(depth, ln) \/ StepDone(depth, ln)

LetRun(i, ln) ==
    /\ Reach(i, ln)
    /\ ~ShouldStop(ln)
    /\ phase' = "execute"
    /\ UNCHANGED <<next_cmd_op, reason>>

Report(i, ln) ==
    /\ Reach(i, ln)
    /\ ShouldStop(ln)
    /\ link # "down"
    /\ phase' = "stopped"
    /\ reason' = IF BreakpointHit(depth, ln) THEN "Breakpoint" ELSE "Step"
    /\ next_cmd_op' = IF StepDone(depth, ln) THEN RunUntilBreakpoint ELSE next_cmd_op

(* Slip: the error of the failed send is ignored.                          *)
ReportFailsAndWaits(i, ln) ==
    /\ Reach(i, ln)
    /\ ShouldStop(ln)
    /\ link = "down"
    /\ phase' = "stopped"
    /\ next_cmd_op' = RunUntilBreakpoint
    /\ UNCHANGED reason

ReportFails(i, ln) ==
    /\ Reach(i, ln)
    /\ ShouldStop(ln)
    /\ link = "down"
    /\ phase' = "execute"
    /\ next_cmd_op' = RunUntilBreakpoint
    /\ UNCHANGED reason

(* The loop around command_rx.recv().                                      *)
RecvSetBreakpoints(S) ==
    /\ phase = "stopped"
    /\ breakpoints' = S
    /\ UNCHANGED <<next_cmd_op, moved_locals, last_breakpoint_hit, link, phase,
                   frames, instr, line, reason>>

LeaveStop(op) ==
    /\ phase = "stopped"
    /\ next_cmd_op' = op
    /\ phase' = "execute"
    /\ reason' = "None"
    /\ UNCHANGED <<breakpoints, moved_locals, last_breakpoint_hit, link,
                   frames, instr, line>>

RecvCommand(cmd) == LeaveStop(ParseCmdOp(cmd, depth, line))

RecvDisconnected ==
    /\ link # "up"
    /\ LeaveStop(RunUntilBreakpoint)

-----------------------------------------------------------------------------
(* The interpreter (external).  debug_loop has returned and the            *)
(* instruction runs; the next one is fetched.                              *)
Begin(args) ==
    /\ phase = "idle"
    /\ phase' = "fetch"
    /\ slots' = [slots EXCEPT ![0] = args]
    /\ UNCHANGED <<context, link, depth, instr, line, reason>>

Executed ==
    /\ phase = "execute"
    /\ instr' = NoInstr
    /\ line' = NoLine
    /\ UNCHANGED <<context, link, reason>>

ExecOther ==
    /\ instr.kind = "Other"
    /\ Executed
    /\ phase' = "fetch"
    /\ UNCHANGED frames

ExecMoveLoc ==
    /\ instr.kind = "MoveLoc"
    /\ Executed
    /\ phase' = "fetch"
    /\ slots' = [slots EXCEPT ![depth][instr.local] = Invalid]
    /\ UNCHANGED depth

ExecStLoc(v) ==
    /\ instr.kind = "StLoc"
    /\ Executed
    /\ phase' = "fetch"
    /\ slots' = [slots EXCEPT ![depth][instr.local] = v]
    /\ UNCHANGED depth

ExecCall(args) ==
    /\ instr.kind = "Call"
    /\ Executed
    /\ phase' = "fetch"
    /\ depth' = depth + 1
    /\ slots' = [slots EXCEPT ![depth + 1] = args]

ExecRet ==
    /\ instr.kind = "Ret"
    /\ Executed
    /\ phase' = IF depth = 0 THEN "idle" ELSE "fetch"
    /\ depth' = IF depth = 0 THEN 0 ELSE depth - 1
    /\ slots' = [slots EXCEPT ![depth] = NothingHeld]

ExecAbort ==
    /\ instr.kind = "Abort"
    /\ Executed
    /\ phase' = "idle"
    /\ depth' = 0
    /\ slots' = EmptySlots

Execute ==
    \/ ExecOther
    \/ ExecMoveLoc
    \/ \E v \in Values : ExecStLoc(v)
    \/ \E args \in FrameLocals : ExecCall(args)
    \/ ExecRet
    \/ ExecAbort

(* capture_thread_state and install_on_thread: the execution moves to a    *)
(* worker thread, with a new context on the same two channels.             *)
InstallOnThread ==
    /\ phase = "idle"
    /\ next_cmd_op' = StepInto(NoLine)
    /\ breakpoints' = {}
    /\ moved_locals' = EmptySlots
    /\ last_breakpoint_hit' = NoHit
    /\ UNCHANGED <<link, phase, frames, instr, line, reason>>

(* The session's side of the channels: handle_disconnect and the drop of   *)
(* a DapServer give up cmd_tx first, event_rx second.                      *)
DropCmdTx ==
    /\ link = "up"
    /\ link' = "closing"
    /\ UNCHANGED <<context, phase, frames, instr, line, reason>>

DropEventRx ==
    /\ link = "closing"
    /\ link' = "down"
    /\ UNCHANGED <<context, phase, frames, instr, line, reason>>

Next ==
    \/ \E i \in Instrs, ln \in MaybeLine :
          LetRun(i, ln) \/ Report(i, ln) \/ ReportFails(i, ln)
    \/ \E S \in SUBSET Lines : RecvSetBreakpoints(S)
    \/ \E cmd \in Commands : RecvCommand(cmd)
    \/ RecvDisconnected
    \/ \E args \in FrameLocals : Begin(args)
    \/ Execute
    \/ InstallOnThread
    \/ DropCmdTx
    \/ DropEventRx

SafetySpec == Init /\ [][Next]_vars

(* recv() on a channel whose only sender is gone returns: the operating    *)
(* system schedules the thread.                                            *)
Spec == SafetySpec /\ WF_vars(RecvDisconnected)

-----------------------------------------------------------------------------
(* The thread's promise to the session.  Once blocked, a step command that *)
(* was cut short by a breakpoint is void: the next command replaces it.    *)
Promise == INSTANCE Debuggee
             WITH Locs     <- Lines,
                  blocked  <- phase = "stopped",
                  stepping <- phase # "stopped" /\ next_cmd_op # RunUntilBreakpoint,
                  bps      <- breakpoints,
                  link     <- link

(* debug_loop stops, waits and resumes only as Debuggee allows, and a      *)
(* thread whose session is gone never stays blocked.                       *)
KeepsPromise == Promise!Spec
=============================================================================
