-------------------------- MODULE DapSystemProofs --------------------------
(***************************************************************************)
(* Proofs about DapSystem, for any files, lines, depth and bounds: the     *)
(* composed debugger is a DapSession, so all that DapSessionProofs shows   *)
(* holds of it, and it stops for the client at every breakpoint.           *)
(***************************************************************************)
EXTENDS DapSystem, DapSessionProofs

(* DapSession's account of the thread is true.                             *)
Glued ==
    /\ vm = [g \in Sessions |-> Vm]
    /\ stepping = [g \in Sessions |-> Stepping]
    /\ bps = [g \in Sessions |-> breakpoints]

(* A thread that is not alive runs no Move code, and a call is fetched     *)
(* only where the stack has room for it.                                   *)
ThreadFits ==
    /\ life # "alive" => phase = "idle"
    /\ phase # "fetch" /\ instr.kind = "Call" => depth < MaxDepth

Hit == last_breakpoint_hit

(* What the components need of each other.                                 *)
Base ==
    /\ Inv
    /\ SysTypeOK
    /\ Glued
    /\ ThreadFits

-----------------------------------------------------------------------------
(* There is one thread, and DapSession's account of it changes as it does. *)
LEMMA OneThread == Sessions = {1} /\ 1 \in Sessions
BY OneExecution DEF Sessions

LEMMA Account ==
    Glued => vm[1] = Vm /\ stepping[1] = Stepping /\ bps[1] = breakpoints
BY OneThread DEF Glued

LEMMA AccountFollows ==
    ASSUME Glued, Follow
    PROVE  /\ vm' = [vm EXCEPT ![1] = Vm']
           /\ stepping' = [stepping EXCEPT ![1] = Stepping']
           /\ bps' = [bps EXCEPT ![1] = breakpoints']
           /\ Vm' = Vm => UNCHANGED vm
           /\ Stepping' = Stepping => UNCHANGED stepping
           /\ breakpoints' = breakpoints => UNCHANGED bps
<1>1. /\ vm = [g \in {1} |-> Vm] /\ vm' = [g \in {1} |-> Vm']
      /\ stepping = [g \in {1} |-> Stepping] /\ stepping' = [g \in {1} |-> Stepping']
      /\ bps = [g \in {1} |-> breakpoints] /\ bps' = [g \in {1} |-> breakpoints']
    BY OneThread DEF Glued, Follow
<1>2. vm' = [vm EXCEPT ![1] = Vm'] /\ (Vm' = Vm => UNCHANGED vm)
    <2> HIDE DEF Vm
    <2>1. QED  BY <1>1
<1>3. stepping' = [stepping EXCEPT ![1] = Stepping']
      /\ (Stepping' = Stepping => UNCHANGED stepping)
    <2> HIDE DEF Stepping
    <2>1. QED  BY <1>1
<1>4. bps' = [bps EXCEPT ![1] = breakpoints']
      /\ (breakpoints' = breakpoints => UNCHANGED bps)
    BY <1>1
<1>5. QED  BY <1>2, <1>3, <1>4

(* An alive thread finds somebody to hear it as long as DapSession says.   *)
LEMMA LinkFits ==
    ASSUME Inv, Glued, life = "alive"
    PROVE  Link # "down" <=> Listening(1)
<1>1. HandlesFit /\ TypeOK
    BY DEF Inv
<1>2. pc # "failing" \/ cmd_tx # 1
    BY <1>1, Account DEF HandlesFit, Vm
<1>3. QED
    BY <1>1, <1>2, OneThread DEF HandlesFit, TypeOK, Handles, None, Link, Listening

-----------------------------------------------------------------------------
(* The refinement.  A step of the thread is the step of DapSession's       *)
(* thread with that name.                                                  *)
LEMMA PassIsSession ==
    ASSUME Base, Follow, NEW i, NEW ln, PassInstruction(i, ln)
    PROVE  VmGiveUp(1) \/ UNCHANGED vars
<1> USE DEF server, threads, queues, client, vars
<1>1. /\ UNCHANGED <<life, stop_no, renews, server, client, queues>>
      /\ life = "alive" /\ phase = "fetch" /\ phase' = "execute"
      /\ breakpoints' = breakpoints
    BY DEF PassInstruction, Alive, Ctx!LetRun, Ctx!ReportFails, Ctx!Reach
<1>2. UNCHANGED <<vm, bps>>
    BY <1>1, AccountFollows DEF Base, Vm
<1>3. CASE Ctx!LetRun(i, ln)
    <2>1. Stepping' = Stepping
        BY <1>1, <1>3 DEF Ctx!LetRun, Stepping
    <2>2. UNCHANGED stepping
        BY <2>1, AccountFollows DEF Base
    <2>3. QED  BY <1>1, <1>2, <2>2
<1>4. CASE Ctx!ReportFails(i, ln)
    <2>1. ~Listening(1) /\ vm[1] = "running"
        BY <1>1, <1>4, LinkFits, Account DEF Base, Ctx!ReportFails, Vm
    <2>2. Stepping' = FALSE /\ stepping' = [stepping EXCEPT ![1] = FALSE]
        <3>1. Stepping' = FALSE
            BY <1>4 DEF Ctx!ReportFails, Stepping
        <3>2. QED  BY <3>1, AccountFollows DEF Base
    <2>3. CASE stepping[1]
        BY <1>1, <1>2, <2>1, <2>2, <2>3 DEF VmGiveUp
    <2>4. CASE ~stepping[1]
        <3>1. Stepping = FALSE
            BY <2>4, Account DEF Base, Stepping
        <3>2. UNCHANGED stepping
            BY <2>2, <3>1, AccountFollows DEF Base
        <3>3. QED  BY <1>1, <1>2, <3>2
    <2>5. QED  BY <2>3, <2>4
<1>5. QED  BY <1>3, <1>4 DEF PassInstruction

LEMMA ReportIsSession ==
    ASSUME Base, Follow, NEW i, NEW ln, ReportStop(i, ln)
    PROVE  VmStop(1)
<1> USE DEF server, threads, queues, client, vars
<1>1. /\ UNCHANGED <<life, renews, server, client, commands>>
      /\ stop_no[1] < MaxStops
      /\ stop_no' = [stop_no EXCEPT ![1] = @ + 1]
      /\ events' = [events EXCEPT ![1] = Append(@, "Stopped")]
      /\ life = "alive" /\ phase = "fetch" /\ phase' = "stopped"
      /\ breakpoints' = breakpoints /\ Link # "down"
      /\ Ctx!ShouldStop(ln)
    BY DEF ReportStop, Alive, Ctx!Report, Ctx!Reach
<1>2. vm[1] = "running" /\ Listening(1)
    BY <1>1, LinkFits, Account DEF Base, Vm
<1>3. stepping[1] \/ bps[1] # {}
    <2>1. ln \in breakpoints \/ next_cmd_op.kind # "Run"
        BY <1>1 DEF Ctx!ShouldStop, Ctx!BreakpointHit, Ctx!StepDone
    <2>2. next_cmd_op.kind # "Run" => Stepping
        BY <1>1 DEF Stepping, Ctx!RunUntilBreakpoint
    <2>3. QED  BY <2>1, <2>2, Account DEF Base
<1>4. vm' = [vm EXCEPT ![1] = "blocked"]
    <2>1. Vm' = "blocked"
        BY <1>1 DEF Vm
    <2>2. QED  BY <2>1, AccountFollows DEF Base
<1>5. stepping' = [stepping EXCEPT ![1] = FALSE]
    <2>1. Stepping' = FALSE
        BY <1>1 DEF Stepping
    <2>2. QED  BY <2>1, AccountFollows DEF Base
<1>6. UNCHANGED bps
    BY <1>1, AccountFollows DEF Base
<1>7. QED  BY <1>1, <1>2, <1>3, <1>4, <1>5, <1>6 DEF VmStop

LEMMA ReceiveIsSession ==
    ASSUME Base, Follow, ReceiveCommand
    PROVE  VmNext(1)
<1> USE DEF server, threads, queues, client, vars
<1> DEFINE cmd == Head(commands[1])
<1>1. /\ UNCHANGED <<life, stop_no, renews, server, client, events>>
      /\ commands[1] # <<>>
      /\ commands' = [commands EXCEPT ![1] = Tail(@)]
      /\ life = "alive" /\ phase = "stopped"
      /\ IF cmd.kind = "SetBreakpoints" THEN Ctx!RecvSetBreakpoints(cmd.bps)
         ELSE \E c \in Meaning(cmd) : Ctx!RecvCommand(c)
    BY DEF ReceiveCommand, Alive, Ctx!RecvSetBreakpoints, Ctx!RecvCommand, Ctx!LeaveStop
<1>2. vm[1] = "blocked"
    BY <1>1, Account DEF Base, Vm
<1>3. cmd.kind \in ExecKinds \cup {"SetBreakpoints"}
    <2>1. commands[1] \in Seq(DapCommand)
        BY OneThread DEF Base, Inv, TypeOK
    <2>2. cmd \in DapCommand
        BY <1>1, <2>1
    <2>3. QED  BY <2>2 DEF DapCommand
<1>4. CASE cmd.kind = "SetBreakpoints"
    <2>1. Ctx!RecvSetBreakpoints(cmd.bps)
        BY <1>1, <1>4
    <2>2. breakpoints' = cmd.bps /\ phase' = phase /\ next_cmd_op' = next_cmd_op
        BY <2>1 DEF Ctx!RecvSetBreakpoints
    <2>3. UNCHANGED <<vm, stepping>> /\ bps' = [bps EXCEPT ![1] = cmd.bps]
        <3>1. Vm' = Vm /\ Stepping' = Stepping
            BY <1>1, <2>2 DEF Vm, Stepping
        <3>2. QED  BY <2>2, <3>1, AccountFollows DEF Base
    <2>4. VmSetBreakpoints(1)
        BY <1>1, <1>2, <1>4, <2>3 DEF VmSetBreakpoints
    <2>5. QED  BY <2>4 DEF VmNext
<1>5. CASE cmd.kind \in ExecKinds
    <2>1. PICK c \in Meaning(cmd) : Ctx!RecvCommand(c)
        BY <1>1, <1>5 DEF ExecKinds
    <2>2. /\ next_cmd_op' = Ctx!ParseCmdOp(c, depth, line)
          /\ phase' = "execute" /\ breakpoints' = breakpoints
        BY <2>1 DEF Ctx!RecvCommand, Ctx!LeaveStop
    <2>3. vm' = [vm EXCEPT ![1] = "running"] /\ UNCHANGED bps
        <3>1. Vm' = "running"
            BY <1>1, <2>2 DEF Vm
        <3>2. QED  BY <2>2, <3>1, AccountFollows DEF Base
    <2>4. Stepping' \in BOOLEAN /\ stepping' = [stepping EXCEPT ![1] = Stepping']
        <3>1. Stepping' \in BOOLEAN
            BY DEF Stepping
        <3>2. QED  BY <3>1, AccountFollows DEF Base
    <2>5. Stepping' => cmd.kind = "Step"
        <3>1. cmd.kind # "Step" => c = "Continue"
            BY <1>5 DEF Meaning, ExecKinds
        <3>2. c = "Continue" => ~Stepping'
            BY <2>2 DEF Ctx!ParseCmdOp, Stepping
        <3>3. QED  BY <3>1, <3>2
    <2>6. VmResume(1, Stepping')
        <3> HIDE DEF Stepping
        <3>1. QED  BY <1>1, <1>2, <1>5, <2>3, <2>4, <2>5 DEF VmResume
    <2>7. QED  BY <2>4, <2>6 DEF VmNext
<1>6. QED  BY <1>3, <1>4, <1>5

LEMMA SetFreeIsSession ==
    ASSUME Base, Follow, SetFree
    PROVE  VmSetFree(1)
<1> USE DEF server, threads, queues, client, vars
<1>1. /\ UNCHANGED <<life, stop_no, renews, server, client, queues>>
      /\ commands[1] = <<>>
      /\ life = "alive" /\ phase = "stopped" /\ phase' = "execute"
      /\ breakpoints' = breakpoints /\ cmd_tx # 1
      /\ next_cmd_op' = Ctx!RunUntilBreakpoint
    BY DEF SetFree, Alive, Ctx!RecvDisconnected, Ctx!LeaveStop, Link
<1>2. vm[1] = "blocked" /\ vm' = [vm EXCEPT ![1] = "running"] /\ UNCHANGED <<bps, stepping>>
    <2>1. Vm = "blocked" /\ Vm' = "running" /\ Stepping = FALSE /\ Stepping' = FALSE
        BY <1>1 DEF Vm, Stepping
    <2>2. QED  BY <1>1, <2>1, Account, AccountFollows DEF Base
<1>3. QED  BY <1>1, <1>2 DEF VmSetFree

LEMMA InterpretIsSession ==
    ASSUME Base, Follow, Interpret
    PROVE  UNCHANGED vars
<1> USE DEF server, threads, queues, client, vars
<1>1. /\ UNCHANGED <<life, stop_no, renews, server, client, queues>>
      /\ phase # "stopped" /\ phase' # "stopped"
      /\ UNCHANGED <<breakpoints, next_cmd_op>>
    BY DEF Interpret, Alive, Ctx!Begin, Ctx!Execute, Ctx!ExecOther, Ctx!ExecMoveLoc,
       Ctx!ExecStLoc, Ctx!ExecCall, Ctx!ExecRet, Ctx!ExecAbort, Ctx!Executed, Ctx!context
<1>2. Vm' = Vm /\ Stepping' = Stepping
    BY <1>1 DEF Vm, Stepping
<1>3. QED  BY <1>1, <1>2, AccountFollows DEF Base

LEMMA RenewIsSession ==
    ASSUME Base, Follow, Renew
    PROVE  VmRenew(1)
<1> USE DEF server, threads, queues, client, vars
<1>1. /\ UNCHANGED <<life, stop_no, server, client, queues>>
      /\ renews[1] < MaxRenews
      /\ renews' = [renews EXCEPT ![1] = @ + 1]
      /\ life = "alive" /\ phase = "idle" /\ phase' = "idle" /\ breakpoints' = {}
      /\ next_cmd_op' = Ctx!StepInto(Nil)
    BY DEF Renew, Alive, Ctx!InstallOnThread
<1>2. vm[1] = "running" /\ UNCHANGED vm /\ stepping' = [stepping EXCEPT ![1] = TRUE]
      /\ bps' = [bps EXCEPT ![1] = {}]
    <2>1. Vm = "running" /\ Vm' = Vm
        BY <1>1 DEF Vm
    <2>2. Stepping' = TRUE
        BY <1>1 DEF Stepping, Ctx!StepInto, Ctx!RunUntilBreakpoint
    <2>3. QED  BY <1>1, <2>1, <2>2, Account, AccountFollows DEF Base
<1>3. QED  BY <1>1, <1>2 DEF VmRenew

LEMMA FinishIsSession ==
    ASSUME Base, Follow, Finish
    PROVE  VmFinish(1)
<1> USE DEF server, threads, queues, client, vars
<1>1. /\ UNCHANGED <<stop_no, renews, server, client, commands>>
      /\ life = "alive" /\ phase = "idle" /\ life' = "finished"
      /\ UNCHANGED <<breakpoints, next_cmd_op, phase>>
      /\ events' = IF Link = "down" THEN events
                   ELSE [events EXCEPT ![1] = Append(@, "Terminated")]
    BY DEF Finish, Alive
<1>2. vm[1] = "running" /\ vm' = [vm EXCEPT ![1] = "finished"] /\ UNCHANGED <<stepping, bps>>
    <2>1. Vm = "running" /\ Vm' = "finished" /\ Stepping' = Stepping
        BY <1>1 DEF Vm, Stepping
    <2>2. QED  BY <1>1, <2>1, Account, AccountFollows DEF Base
<1>3. Link # "down" <=> Listening(1)
    BY <1>1, LinkFits DEF Base
<1>4. QED  BY <1>1, <1>2, <1>3 DEF VmFinish

LEMMA ExitIsSession ==
    ASSUME Base, Follow, Exit
    PROVE  VmExit(1)
<1> USE DEF server, threads, queues, client, vars
<1>1. /\ UNCHANGED <<stop_no, renews, server, client, events>>
      /\ life \in {"alive", "finished"} /\ phase # "stopped"
      /\ life' = "exited" /\ phase' = "idle"
      /\ UNCHANGED <<breakpoints, next_cmd_op>>
      /\ commands' = [commands EXCEPT ![1] = <<>>]
    BY DEF Exit
<1>2. /\ vm[1] \in {"running", "finished"} /\ vm' = [vm EXCEPT ![1] = "exited"]
      /\ UNCHANGED <<stepping, bps>>
    <2>1. Vm \in {"running", "finished"} /\ Vm' = "exited" /\ Stepping' = Stepping
        BY <1>1 DEF Vm, Stepping
    <2>2. QED  BY <1>1, <2>1, Account, AccountFollows DEF Base
<1>3. QED  BY <1>1, <1>2 DEF VmExit

LEMMA ServerIsSession == ServerNext => Next
BY OneThread
DEF ServerNext, SetBreakpointsInSystem, Start, HideEntryStop, TellStop, ExecInSystem,
    LetGo, Next, ServerMoves

(* Every step of the whole is a step of DapSession, or none of it.         *)
LEMMA StepIsSession == Base /\ [SysNext]_sys_vars => [Next]_vars
<1> SUFFICES ASSUME Base, [SysNext]_sys_vars
             PROVE  [Next]_vars
    OBVIOUS
<1>1. ASSUME ThreadMoves, Follow
      PROVE  VmNext(1) \/ UNCHANGED vars
    BY <1>1, PassIsSession, ReportIsSession, ReceiveIsSession, SetFreeIsSession,
       InterpretIsSession, RenewIsSession, FinishIsSession, ExitIsSession
    DEF ThreadMoves, VmNext, VmRuns
<1>2. VmNext(1) => Next
    BY OneThread DEF Next
<1>3. UNCHANGED sys_vars => UNCHANGED vars
    BY DEF sys_vars
<1>4. QED  BY <1>1, <1>2, <1>3, ServerIsSession DEF SysNext, ThreadNext

-----------------------------------------------------------------------------
(* Types.                                                                  *)
ContextTypeOK ==
    /\ next_cmd_op \in Ctx!DebuggerOps
    /\ breakpoints \in SUBSET Locs
    /\ Hit \in Ctx!Hits
    /\ phase \in {"idle", "fetch", "stopped", "execute"}
    /\ depth \in Ctx!Depths
    /\ instr \in Ctx!Instrs \cup {Ctx!NoInstr}
    /\ line \in Ctx!MaybeLine
    /\ reason \in {"None", "Step", "Breakpoint"}

HistoryTypeOK ==
    /\ life \in {"unborn", "alive", "finished", "exited"}
    /\ seen \in SUBSET (Ctx!Depths \X Ctx!MaybeLine)
    /\ withheld \in SUBSET (Ctx!Depths \X Ctx!MaybeLine)
    /\ hidden \in BOOLEAN
    /\ dropped \in SUBSET Locs
    /\ asked \in BOOLEAN

LEMMA TypeParts == SysTypeOK <=> ContextTypeOK /\ HistoryTypeOK /\ TypeOK
<1>1. Link \in {"up", "closing", "down"}
    BY DEF Link
<1>2. [d \in 0 .. MaxDepth |-> [x \in {} |-> Nil]] \in [Ctx!Depths -> Ctx!FrameLocals]
    <2>1. [x \in {} |-> Nil] \in Ctx!FrameLocals
        BY DEF Ctx!FrameLocals, Ctx!MaybeValue
    <2>2. QED  BY <2>1 DEF Ctx!Depths
<1>3. Ctx!TypeOK <=> ContextTypeOK
    BY <1>1, <1>2 DEF Ctx!TypeOK, ContextTypeOK, Hit
<1>4. QED  BY <1>3 DEF SysTypeOK, HistoryTypeOK

LEMMA Constants ==
    /\ 0 \in Ctx!Depths /\ Nil \in Ctx!MaybeLine
    /\ Ctx!NoHit \in Ctx!Hits
    /\ Ctx!StepInto(Nil) \in Ctx!DebuggerOps
    /\ Ctx!RunUntilBreakpoint \in Ctx!DebuggerOps
<1>1. 0 \in Ctx!Depths /\ Nil \in Ctx!MaybeLine
    BY DepthAssumption DEF Ctx!Depths, Ctx!MaybeLine
<1>2. QED
    BY <1>1 DEF Ctx!NoHit, Ctx!Hits, Ctx!StepInto, Ctx!RunUntilBreakpoint, Ctx!DebuggerOps

LEMMA CommandTypes ==
    ASSUME ContextTypeOK, NEW c \in Ctx!Commands
    PROVE  Ctx!ParseCmdOp(c, depth, line) \in Ctx!DebuggerOps
<1>1. /\ Ctx!StepInto(line) \in Ctx!DebuggerOps
      /\ Ctx!StepOver(depth, line) \in Ctx!DebuggerOps
    BY Constants DEF ContextTypeOK, Ctx!StepInto, Ctx!StepOver, Ctx!DebuggerOps
<1>2. depth # 0 => Ctx!StepOut(depth - 1) \in Ctx!DebuggerOps
    <2>1. depth # 0 => depth - 1 \in Ctx!Depths
        BY DepthAssumption DEF ContextTypeOK, Ctx!Depths
    <2>2. QED  BY <2>1, Constants DEF Ctx!StepOut, Ctx!DebuggerOps
<1>3. QED  BY <1>1, <1>2, Constants DEF Ctx!Commands, Ctx!ParseCmdOp

LEMMA ReachTypes ==
    ASSUME ContextTypeOK, NEW i \in Ctx!Instrs, NEW ln \in Ctx!MaybeLine, Ctx!Reach(i, ln)
    PROVE  /\ Hit' \in Ctx!Hits
           /\ instr' = i /\ line' = ln
           /\ UNCHANGED <<breakpoints, depth>>
<1>1. [line |-> ln, depth |-> depth] \in Ctx!Hits
    BY DEF Ctx!Hits, ContextTypeOK
<1>2. QED
    BY <1>1, Constants DEF Ctx!Reach, Ctx!LastHitAfter, Ctx!frames, ContextTypeOK, Hit

LEMMA ContextTypesInThread ==
    ASSUME Base, ThreadMoves
    PROVE  ContextTypeOK'
<1>1. ContextTypeOK /\ TypeOK
    BY TypeParts DEF Base
<1>2. ASSUME NEW i \in Ctx!Instrs, NEW ln \in Ctx!MaybeLine,
             PassInstruction(i, ln) \/ ReportStop(i, ln)
      PROVE  ContextTypeOK'
    <2>1. /\ Hit' \in Ctx!Hits /\ instr' = i /\ line' = ln
          /\ UNCHANGED <<breakpoints, depth>>
        BY <1>1, <1>2, ReachTypes
        DEF PassInstruction, ReportStop, Ctx!LetRun, Ctx!Report, Ctx!ReportFails
    <2>2. /\ next_cmd_op' \in Ctx!DebuggerOps
          /\ phase' \in {"idle", "fetch", "stopped", "execute"}
          /\ reason' \in {"None", "Step", "Breakpoint"}
        BY <1>1, <1>2, Constants
        DEF PassInstruction, ReportStop, Ctx!LetRun, Ctx!Report, Ctx!ReportFails, ContextTypeOK
    <2>3. QED  BY <1>1, <2>1, <2>2 DEF ContextTypeOK
<1>3. CASE ReceiveCommand
    <2> DEFINE cmd == Head(commands[1])
    <2>1. cmd \in DapCommand
        <3>1. commands[1] \in Seq(DapCommand)
            BY <1>1, OneThread DEF TypeOK
        <3>2. QED  BY <1>3, <3>1 DEF ReceiveCommand
    <2>2. CASE cmd.kind = "SetBreakpoints"
        BY <1>1, <1>3, <2>1, <2>2
        DEF ReceiveCommand, Ctx!RecvSetBreakpoints, Ctx!frames, ContextTypeOK, Hit, DapCommand
    <2>3. CASE cmd.kind # "SetBreakpoints"
        <3>1. PICK c \in Meaning(cmd) : Ctx!RecvCommand(c)
            BY <1>3, <2>3 DEF ReceiveCommand
        <3>2. c \in Ctx!Commands
            BY <2>1, <2>3 DEF DapCommand, ExecKinds, Meaning, Ctx!Commands
        <3>3. Ctx!ParseCmdOp(c, depth, line) \in Ctx!DebuggerOps
            BY <1>1, <3>2, CommandTypes
        <3>4. QED
            BY <1>1, <3>1, <3>3
            DEF Ctx!RecvCommand, Ctx!LeaveStop, Ctx!frames, ContextTypeOK, Hit
    <2>4. QED  BY <2>2, <2>3
<1>4. CASE SetFree
    BY <1>1, <1>4, Constants
    DEF SetFree, Ctx!RecvDisconnected, Ctx!LeaveStop, Ctx!frames, ContextTypeOK, Hit
<1>5. CASE Interpret
    <2>1. CASE Ctx!Begin(Ctx!NothingHeld)
        BY <1>1, <2>1 DEF Ctx!Begin, Ctx!context, ContextTypeOK, Hit
    <2>2. CASE Ctx!Execute
        <3>1. Ctx!Executed /\ phase' \in {"idle", "fetch"}
            BY <2>2 DEF Ctx!Execute, Ctx!ExecOther, Ctx!ExecMoveLoc, Ctx!ExecStLoc,
               Ctx!ExecCall, Ctx!ExecRet, Ctx!ExecAbort
        <3>2. depth' \in {depth, 0} \/ (depth' = depth + 1 /\ depth < MaxDepth)
                \/ (depth' = depth - 1 /\ depth # 0)
            BY <2>2 DEF Ctx!Execute, Ctx!ExecOther, Ctx!ExecMoveLoc, Ctx!ExecStLoc,
               Ctx!ExecCall, Ctx!ExecRet, Ctx!ExecAbort, Ctx!Executed, Ctx!frames,
               Base, ThreadFits
        <3>3. depth' \in Ctx!Depths
            BY <1>1, <3>2, DepthAssumption DEF ContextTypeOK, Ctx!Depths
        <3>4. QED
            BY <1>1, <3>1, <3>3, Constants
            DEF Ctx!Executed, Ctx!context, ContextTypeOK, Hit
    <2>3. QED  BY <1>5, <2>1, <2>2 DEF Interpret
<1>6. CASE Renew
    BY <1>1, <1>6, Constants DEF Renew, Ctx!InstallOnThread, Ctx!frames, ContextTypeOK, Hit
<1>7. CASE Finish
    BY <1>1, <1>7 DEF Finish, ContextTypeOK, Hit
<1>8. CASE Exit
    BY <1>1, <1>8, Constants DEF Exit, ContextTypeOK, Hit
<1>9. QED
    BY <1>2, <1>3, <1>4, <1>5, <1>6, <1>7, <1>8 DEF ThreadMoves

(* A server step leaves the thread alone, but for its birth.               *)
LEMMA ServerIsServer ==
    ASSUME ServerNext
    PROVE  /\ UNCHANGED <<next_cmd_op, breakpoints, last_breakpoint_hit, phase, depth,
                          instr, line, reason, stepping, bps, stop_no, renews>>
           /\ \/ UNCHANGED <<life, vm>>
              \/ Start
<1> USE DEF threads, thread
<1>1. CASE Start
    BY <1>1 DEF Start, StartExecution, SpawnFails
<1>2. CASE ~Start
    BY <1>2 DEF ServerNext, SetBreakpointsInSystem, HideEntryStop, TellStop, ExecInSystem,
       LetGo, ServerOnly, SetBreakpoints, RunToBreakpoints, StopAtEntry, WaitEnds, DropCmdTx,
       Launch, StartFails, Started, Exec, DropEventRx, Join, ClientGone
<1>3. QED  BY <1>1, <1>2

LEMMA ContextTypesStep == Base /\ [SysNext]_sys_vars => ContextTypeOK'
<1>1. Base => ContextTypeOK
    BY TypeParts DEF Base
<1>2. UNCHANGED sys_vars => UNCHANGED thread
    BY DEF sys_vars
<1>3. QED
    BY <1>1, <1>2, ContextTypesInThread, ServerIsServer
    DEF SysNext, ThreadNext, ContextTypeOK, Hit, thread

LEMMA HistoryTypesStep == Base /\ [SysNext]_sys_vars => HistoryTypeOK'
<1> SUFFICES ASSUME Base, [SysNext]_sys_vars
             PROVE  HistoryTypeOK'
    OBVIOUS
<1>1. HistoryTypeOK /\ ContextTypeOK /\ TypeOK
    BY TypeParts DEF Base
<1>2. <<depth, line>> \in Ctx!Depths \X Ctx!MaybeLine
    BY <1>1 DEF ContextTypeOK
<1>3. ASSUME ThreadMoves
      PROVE  HistoryTypeOK'
    <2>1. life' \in {"unborn", "alive", "finished", "exited"}
          /\ (dropped' = dropped \/ dropped' = {}) /\ asked' \in BOOLEAN
        BY <1>1, <1>3
        DEF ThreadMoves, PassInstruction, ReportStop, ReceiveCommand, SetFree, Interpret,
            Renew, Finish, Exit, Alive, HistoryTypeOK
    <2>2. seen' \subseteq seen /\ withheld' \subseteq withheld
          /\ (hidden' = hidden \/ hidden' = FALSE)
        BY <1>3
        DEF ThreadMoves, PassInstruction, ReportStop, ReceiveCommand, SetFree, Interpret,
            Renew, Finish, Exit, Lasting, NothingKept
    <2>3. QED  BY <1>1, <2>1, <2>2 DEF HistoryTypeOK
<1>4. ASSUME ServerNext
      PROVE  HistoryTypeOK'
    <2>1. life' \in {"unborn", "alive", "finished", "exited"}
        BY <1>1, <1>4, ServerIsServer DEF HistoryTypeOK, Start
    <2>2. ASSUME NEW raw \in Files \cup Aliases, NEW lines \in SUBSET LineNumbers,
                 SetBreakpointsInSystem(raw, lines)
          PROVE  HistoryTypeOK'
        BY <1>1, <2>1, <2>2 DEF SetBreakpointsInSystem, HistoryTypeOK, TypeOK
    <2>3. CASE HideEntryStop \/ TellStop
        BY <1>1, <1>2, <2>1, <2>3 DEF HideEntryStop, TellStop, HistoryTypeOK
    <2>4. CASE LetGo
        BY <1>1, <2>1, <2>4 DEF LetGo, NothingKept, HistoryTypeOK
    <2>5. CASE UNCHANGED <<seen, hidden, withheld, dropped>> /\ asked' \in BOOLEAN
        BY <1>1, <2>1, <2>5 DEF HistoryTypeOK
    <2>6. UNCHANGED history => asked' \in BOOLEAN
        BY <1>1 DEF history, HistoryTypeOK
    <2>7. QED
        BY <1>4, <2>2, <2>3, <2>4, <2>5, <2>6
        DEF ServerNext, Start, ExecInSystem, history
<1>5. CASE UNCHANGED sys_vars
    BY <1>1, <1>5 DEF sys_vars, thread, history, HistoryTypeOK
<1>6. QED  BY <1>3, <1>4, <1>5 DEF SysNext, ThreadNext

LEMMA ThreadFitsStep == Base /\ [SysNext]_sys_vars => ThreadFits'
<1> SUFFICES ASSUME Base, [SysNext]_sys_vars
             PROVE  ThreadFits'
    OBVIOUS
<1>1. ThreadFits
    BY DEF Base
<1>2. ASSUME NEW i \in Ctx!Instrs, NEW ln \in Ctx!MaybeLine,
             PassInstruction(i, ln) \/ ReportStop(i, ln)
      PROVE  ThreadFits'
    BY <1>2
    DEF PassInstruction, ReportStop, Alive, Ctx!LetRun, Ctx!Report, Ctx!ReportFails, Ctx!Reach,
        Ctx!frames, ThreadFits
<1>3. CASE ReceiveCommand
    BY <1>1, <1>3 DEF ReceiveCommand, Alive, Ctx!RecvSetBreakpoints, Ctx!RecvCommand,
       Ctx!LeaveStop, Ctx!frames, ThreadFits
<1>4. CASE SetFree
    BY <1>1, <1>4
    DEF SetFree, Alive, Ctx!RecvDisconnected, Ctx!LeaveStop, Ctx!frames, ThreadFits
<1>5. CASE Interpret
    <2>1. CASE Ctx!Begin(Ctx!NothingHeld)
        BY <1>1, <1>5, <2>1 DEF Interpret, Alive, Ctx!Begin, ThreadFits
    <2>2. CASE Ctx!Execute
        <3>1. instr' = Ctx!NoInstr /\ life' = "alive"
            BY <1>5, <2>2 DEF Interpret, Alive, Ctx!Execute, Ctx!ExecOther, Ctx!ExecMoveLoc,
               Ctx!ExecStLoc, Ctx!ExecCall, Ctx!ExecRet, Ctx!ExecAbort, Ctx!Executed
        <3>2. QED  BY <3>1 DEF Ctx!NoInstr, ThreadFits
    <2>3. QED  BY <1>5, <2>1, <2>2 DEF Interpret
<1>6. CASE Renew
    BY <1>1, <1>6 DEF Renew, Alive, Ctx!InstallOnThread, Ctx!frames, ThreadFits
<1>7. CASE Finish
    BY <1>1, <1>7 DEF Finish, ThreadFits
<1>8. CASE Exit
    BY <1>8 DEF Exit, Ctx!NoInstr, ThreadFits
<1>9. CASE ServerNext
    <2>1. life = "unborn" \/ UNCHANGED life
        <3>1. Start => Vm = "unborn"
            BY OneThread, Account
            DEF Start, StartExecution, SpawnFails, Base
        <3>2. Vm = "unborn" => life = "unborn"
            BY DEF Vm
        <3>3. QED  BY <1>9, <3>1, <3>2, ServerIsServer
    <2>2. UNCHANGED <<phase, depth, instr>>
        BY <1>9, ServerIsServer
    <2>3. QED  BY <1>1, <2>1, <2>2 DEF ThreadFits
<1>10. CASE UNCHANGED sys_vars
    BY <1>1, <1>10 DEF sys_vars, thread, ThreadFits
<1>11. QED
    BY <1>2, <1>3, <1>4, <1>5, <1>6, <1>7, <1>8, <1>9, <1>10
    DEF SysNext, ThreadNext, ThreadMoves

LEMMA GluedStep == Base /\ [SysNext]_sys_vars => Glued'
<1> SUFFICES ASSUME Base, [SysNext]_sys_vars
             PROVE  Glued'
    OBVIOUS
<1>1. Glued /\ ThreadFits
    BY DEF Base
<1>2. CASE ThreadNext
    BY <1>2 DEF ThreadNext, Follow, Glued
<1>3. CASE ServerNext
    <2>1. UNCHANGED <<Stepping, stepping, breakpoints, bps>>
        BY <1>3, ServerIsServer DEF Stepping
    <2>2. vm' = [g \in Sessions |-> Vm']
        <3>1. CASE UNCHANGED <<life, vm>>
            <4>1. Vm' = Vm
                BY <1>3, <3>1, ServerIsServer DEF Vm
            <4>2. QED  BY <1>1, <3>1, <4>1 DEF Glued
        <3>2. CASE Start
            <4>1. vm[1] = "unborn" /\ vm' = [vm EXCEPT ![1] = Vm']
                <5>1. CASE life' = "alive" /\ StartExecution(1)
                    <6>1. vm[1] = "unborn" /\ life = "unborn"
                        BY <1>1, <5>1, Account DEF StartExecution, Vm
                    <6>2. Vm' = "running"
                        BY <1>1, <1>3, <5>1, <6>1, ServerIsServer DEF Vm, ThreadFits
                    <6>3. QED  BY <5>1, <6>1, <6>2 DEF StartExecution
                <5>2. CASE life' = "exited" /\ SpawnFails(1)
                    BY <5>2 DEF SpawnFails, Vm
                <5>3. QED  BY <3>2, <5>1, <5>2 DEF Start
            <4>2. vm = [g \in {1} |-> Vm]
                BY <1>1, OneThread DEF Glued
            <4> HIDE DEF Vm
            <4>3. QED  BY <4>1, <4>2, OneThread
        <3>3. QED  BY <1>3, <3>1, <3>2, ServerIsServer
    <2>3. QED  BY <1>1, <2>1, <2>2 DEF Glued
<1>4. CASE UNCHANGED sys_vars
    BY <1>1, <1>4 DEF sys_vars, vars, threads, thread, Glued, Vm, Stepping
<1>5. QED  BY <1>2, <1>3, <1>4 DEF SysNext

LEMMA BaseStep == Base /\ [SysNext]_sys_vars => Base'
<1> SUFFICES ASSUME Base, [SysNext]_sys_vars
             PROVE  Base'
    OBVIOUS
<1>1. Inv'
    BY StepIsSession, StepInv DEF Base
<1>2. TypeOK'
    BY <1>1 DEF Inv
<1>3. SysTypeOK'
    BY <1>2, TypeParts, ContextTypesStep, HistoryTypesStep, PTL
<1>4. QED  BY <1>1, <1>3, ThreadFitsStep, GluedStep DEF Base

LEMMA BaseInit == SysInit => Base
<1> SUFFICES ASSUME SysInit
             PROVE  Base
    OBVIOUS
<1>1. Inv
    BY InitInv DEF SysInit
<1>2. ContextTypeOK /\ HistoryTypeOK
    BY Constants DEF SysInit, Ctx!Init, ContextTypeOK, HistoryTypeOK, Hit
<1>3. Glued
    <2>1. Vm = "unborn" /\ Stepping = TRUE /\ breakpoints = {}
        BY DEF SysInit, Ctx!Init, Vm, Stepping, Ctx!StepInto, Ctx!RunUntilBreakpoint
    <2> HIDE DEF Vm, Stepping
    <2>2. QED  BY <2>1 DEF SysInit, Init, Glued
<1>4. ThreadFits
    BY DEF SysInit, Ctx!Init, Ctx!NoInstr, ThreadFits
<1>5. QED  BY <1>1, <1>2, <1>3, <1>4, TypeParts DEF Inv, Base

LEMMA BaseHolds == SysSpec => []Base
BY BaseInit, BaseStep, PTL DEF SysSpec

(* The variables of the whole keep their types.                            *)
THEOREM SystemTypeCorrect == SysSpec => []SysTypeOK
<1>1. Base => SysTypeOK
    BY DEF Base
<1>2. QED  BY BaseHolds, <1>1, PTL

(* The two components fit: the debug_loop of DapContext, on the channels   *)
(* the server gives it, does only what DapSession assumes of its thread    *)
(* (debug_loop, wait_for_vm_event).                                        *)
THEOREM SystemImplementsSession == SysSpec => SystemIsSession
<1>1. SysInit => Init
    BY DEF SysInit
<1>2. QED
    BY <1>1, BaseHolds, StepIsSession, PTL DEF SysSpec, SafetySpec, SystemIsSession

-----------------------------------------------------------------------------
(* What it takes to stop for the client at every breakpoint.               *)

(* Up to its first stop the context is as DapDebugContext::new made it.    *)
EntryAwaited ==
    life = "unborn" \/ (life = "alive" /\ pc \in {"starting", "first"}) =>
        /\ breakpoints = {}
        /\ Hit = Ctx!NoHit
        /\ phase # "stopped" => next_cmd_op = Ctx!StepInto(Nil)

HiddenIsNoHit == hidden => Hit = Ctx!NoHit

(* The thread runs or waits for a server that has not let go of it.        *)
Held == life = "alive" /\ cmd_tx = 1

(* What the thread has yet to read leaves the breakpoint on ln in place.   *)
StaysSet(ln) ==
    \A i \in DOMAIN commands[1] :
        commands[1][i].kind = "SetBreakpoints" => ln \in commands[1][i].bps

(* The breakpoint whose re-triggering is suppressed is still wanted by the *)
(* server and by whatever the thread has yet to read, or was taken away.   *)
HitIsWanted ==
    Held /\ Hit # Ctx!NoHit =>
        /\ Hit.line \in Locs
        /\ \/ Hit.line \in dropped
           \/ Hit.line \in breakpoints \cap pending_breakpoints /\ StaysSet(Hit.line)

(* And the client has been told of it, or is about to be.                  *)
HitIsTold ==
    Held /\ Hit # Ctx!NoHit /\ Hit.line \notin dropped =>
        \/ <<Hit.depth, Hit.line>> \in seen
        \/ phase = "stopped" /\ Hit.depth = depth /\ Hit.line = line

(* A stop that the server has taken is a stop that the client was told of, *)
(* unless it was the hidden one.                                           *)
StopIsTold ==
    Held /\ phase = "stopped" /\ events[1] = <<>>
      /\ (pc = "waiting" \/ (pc = "idle" /\ client_reads))
        => <<depth, line>> \in seen \/ hidden

SysInv ==
    /\ Base
    /\ EntryAwaited
    /\ HiddenIsNoHit
    /\ HitIsWanted
    /\ HitIsTold
    /\ StopIsTold
    /\ ClientStopsAtBreakpoints

(* A held thread that runs has nothing to read or to say, and the server   *)
(* waits for it; its breakpoints are the server's.                         *)
LEMMA HeldThreadRuns ==
    ASSUME Base, Held, phase # "stopped"
    PROVE  /\ pc \in {"starting", "first", "waiting"}
           /\ commands[1] = <<>> /\ events[1] = <<>>
           /\ pc = "waiting" =>
                 breakpoints = pending_breakpoints \/ (breakpoints = {} /\ renews[1] > 0)
<1>1. TypeOK /\ HandlesFit /\ Attention /\ BreakpointsArrive
    BY DEF Base, Inv
<1>2. vm[1] = "running" /\ bps[1] = breakpoints
    BY Account DEF Base, Held, Vm
<1>3. pc \in {"idle", "starting", "first", "waiting"}
    BY <1>1, <1>2 DEF HandlesFit, TypeOK, Held, None
<1>4. pc # "starting" => event_rx = 1
    BY <1>1, <1>3 DEF HandlesFit, Held
<1>5. pc # "idle"
    BY <1>1, <1>2, <1>4 DEF Attention, Settled, None
<1>6. commands[1] = <<>> /\ events[1] = <<>>
    <2>1. Awaited(1)
        BY <1>1, <1>3, <1>4, <1>5 DEF Attention, Attended, Held
    <2>2. QED  BY <1>2, <2>1 DEF Awaited
<1>7. ASSUME pc = "waiting"
      PROVE  breakpoints = pending_breakpoints \/ (breakpoints = {} /\ renews[1] > 0)
    <2>1. Synced(1)
        BY <1>1, <1>2, <1>4, <1>7 DEF BreakpointsArrive, None
    <2>2. QED  BY <1>2, <1>6, <2>1 DEF Synced, WillHave
<1>8. QED  BY <1>3, <1>5, <1>6, <1>7

(* It resumes only for a server that has taken its stop and waits again.   *)
LEMMA HeldThreadResumes ==
    ASSUME Base, Held, phase = "stopped", commands[1] # <<>>,
           Head(commands[1]).kind # "SetBreakpoints"
    PROVE  pc = "waiting" /\ events[1] = <<>>
<1>1. TypeOK /\ HandlesFit /\ Attention
    BY DEF Base, Inv
<1>2. vm[1] = "blocked"
    BY Account DEF Base, Held, Vm
<1>3. ~NoExec(1)
    <2>1. commands[1] \in Seq(DapCommand)
        BY <1>1, OneThread DEF TypeOK
    <2>2. 1 \in DOMAIN commands[1] /\ Head(commands[1]) = commands[1][1]
        BY <2>1, LenProperties, EmptySeq
    <2>3. QED  BY <2>2 DEF NoExec
<1>4. pc \in {"idle", "starting", "first", "waiting"}
    BY <1>1, <1>2 DEF HandlesFit, TypeOK, Held, None
<1>5. pc # "starting" => event_rx = 1
    BY <1>1, <1>4 DEF HandlesFit, Held
<1>6. pc # "idle"
    BY <1>1, <1>3, <1>2, <1>5 DEF Attention, Settled, None
<1>7. pc = "waiting"
    BY <1>1, <1>4, <1>5, <1>6 DEF Attention, Attended, Held
<1>8. Awaited(1)
    BY <1>1, <1>5, <1>7 DEF Attention, Attended
<1>9. QED  BY <1>2, <1>3, <1>7, <1>8 DEF Awaited

(* The three things debug_loop can do with the suppressed breakpoint.      *)
LEMMA HitAfterReach ==
    ASSUME SysTypeOK, NEW i, NEW ln, Ctx!Reach(i, ln)
    PROVE  \/ ln \in breakpoints /\ Hit' = [line |-> ln, depth |-> depth]
           \/ /\ ~Ctx!BreakpointHit(depth, ln)
              /\ \/ Hit' = Ctx!NoHit
                 \/ Hit' = Hit /\ (Hit.line = ln \/ depth > Hit.depth)
<1>1. depth \in Nat /\ Hit.depth \in Nat
    BY DepthAssumption, TypeParts
    DEF ContextTypeOK, Ctx!Hits, Ctx!Depths
<1>2. Hit' = Ctx!LastHitAfter(depth, ln)
    BY DEF Ctx!Reach, Hit
<1>3. ~(depth <= Hit.depth) => depth > Hit.depth
    BY <1>1
<1>4. QED
    BY <1>2, <1>3 DEF Ctx!LastHitAfter, Ctx!BreakpointHit, Ctx!MovedPast, Hit

(* A thread that the server holds after a step of its own is one it held   *)
(* before, or has just started; and no history is forgotten.               *)
LEMMA ServerHolds ==
    ASSUME Base, ServerNext, Held'
    PROVE  /\ UNCHANGED <<phase, depth, line, Hit, breakpoints, renews>>
           /\ \/ life = "unborn" /\ phase = "idle"
              \/ /\ Held
                 /\ seen \subseteq seen' /\ (hidden => hidden')
                 /\ dropped \subseteq dropped'
                 /\ ~Start /\ ~DropCmdTx /\ ~LetGo
<1>1. /\ UNCHANGED <<phase, depth, line, Hit, breakpoints, renews>>
      /\ UNCHANGED life \/ Start
    BY ServerIsServer DEF Hit
<1>2. CASE Start
    <2>1. vm[1] = "unborn"
        BY <1>2 DEF Start, StartExecution, SpawnFails
    <2>2. life = "unborn" /\ phase = "idle"
        BY <2>1, Account DEF Base, Vm, ThreadFits
    <2>3. QED  BY <1>1, <2>2
<1>3. CASE ~Start
    <2>1. ~DropCmdTx /\ ~LetGo
        BY DEF DropCmdTx, LetGo, Held, None
    <2>2. UNCHANGED <<life, cmd_tx>>
        BY <1>1, <1>3, <2>1
        DEF ServerNext, SetBreakpointsInSystem, HideEntryStop, TellStop, ExecInSystem, SetBreakpoints,
            RunToBreakpoints, StopAtEntry, WaitEnds, Launch, StartFails, Started, Exec,
            DropEventRx, Join, ClientGone, server
    <2>3. seen \subseteq seen' /\ (hidden => hidden') /\ dropped \subseteq dropped'
        BY <1>3, <2>1
        DEF ServerNext, SetBreakpointsInSystem, HideEntryStop, TellStop, ExecInSystem, history
    <2>4. QED  BY <1>1, <1>3, <2>1, <2>2, <2>3 DEF Held
<1>4. QED  BY <1>2, <1>3

(* Before the first stop the link is up and there is nothing to read.      *)
LEMMA EntryIsHeld ==
    ASSUME Base, life = "alive", pc \in {"starting", "first"}
    PROVE  Held /\ Link = "up" /\ commands[1] = <<>>
<1>1. TypeOK /\ HandlesFit /\ Attention
    BY DEF Base, Inv
<1>2. cmd_tx = 1
    BY <1>1, OneThread DEF HandlesFit, TypeOK, Handles
<1>3. Attended = 1
    BY <1>1, <1>2 DEF HandlesFit, Attended
<1>4. QED
    BY <1>1, <1>2, <1>3 DEF Attention, Held, Link

LEMMA EntryStep == SysInv /\ [SysNext]_sys_vars => EntryAwaited'
<1> SUFFICES ASSUME SysInv, [SysNext]_sys_vars,
                    life' = "unborn" \/ (life' = "alive" /\ pc' \in {"starting", "first"})
             PROVE  /\ breakpoints' = {}
                    /\ Hit' = Ctx!NoHit
                    /\ phase' # "stopped" => next_cmd_op' = Ctx!StepInto(Nil)
    BY DEF EntryAwaited
<1>1. EntryAwaited /\ Base
    BY DEF SysInv
<1>2. CASE ThreadMoves
    <2>1. UNCHANGED <<life, pc>> /\ life = "alive"
        BY <1>2
        DEF ThreadMoves, PassInstruction, ReportStop, ReceiveCommand, SetFree, Interpret,
            Renew, Finish, Exit, Alive, server
    <2>2. /\ Link = "up" /\ commands[1] = <<>>
          /\ breakpoints = {} /\ Hit = Ctx!NoHit
          /\ phase # "stopped" => next_cmd_op = Ctx!StepInto(Nil)
        BY <1>1, <2>1, EntryIsHeld DEF EntryAwaited
    <2>3. ASSUME NEW i \in Ctx!Instrs, NEW ln \in Ctx!MaybeLine, Ctx!Reach(i, ln)
          PROVE  breakpoints' = {} /\ Hit' = Ctx!NoHit
        BY <1>1, <2>2, <2>3, HitAfterReach DEF Base, Ctx!Reach
    <2>4. CASE \E i \in Ctx!Instrs, ln \in Ctx!MaybeLine :
                  PassInstruction(i, ln) \/ ReportStop(i, ln)
        BY <2>2, <2>3, <2>4
        DEF PassInstruction, ReportStop, Ctx!LetRun, Ctx!Report, Ctx!ReportFails, Ctx!Reach
    <2>5. CASE Interpret
        BY <2>2, <2>5
        DEF Interpret, Ctx!Begin, Ctx!Execute, Ctx!ExecOther, Ctx!ExecMoveLoc, Ctx!ExecStLoc,
            Ctx!ExecCall, Ctx!ExecRet, Ctx!ExecAbort, Ctx!Executed, Ctx!context, Hit
    <2>6. CASE Renew
        BY <2>6 DEF Renew, Ctx!InstallOnThread, Hit
    <2>7. ~ReceiveCommand /\ ~SetFree /\ ~Finish /\ ~Exit
        BY <2>1, <2>2 DEF ReceiveCommand, SetFree, Ctx!RecvDisconnected, Finish, Exit
    <2>8. QED  BY <1>2, <2>4, <2>5, <2>6, <2>7 DEF ThreadMoves
<1>3. CASE ServerNext
    <2>1. UNCHANGED <<breakpoints, Hit, phase, next_cmd_op>>
        BY <1>3, ServerIsServer DEF Hit
    <2>2. life = "unborn" \/ (life = "alive" /\ pc \in {"starting", "first"})
        <3>1. CASE Start
            <4>1. Vm = "unborn"
                BY <1>1, <3>1, Account DEF Start, StartExecution, SpawnFails, Base
            <4>2. QED  BY <4>1 DEF Vm
        <3>2. CASE ~Start
            <4>1. UNCHANGED life
                BY <1>3, <3>2, ServerIsServer
            <4>2. pc' \in {"starting", "first"} => pc \in {"starting", "first"}
                BY <1>3, <3>2
                DEF ServerNext, SetBreakpointsInSystem, HideEntryStop, TellStop, ExecInSystem,
                    LetGo, SetBreakpoints, RunToBreakpoints, StopAtEntry, WaitEnds, Launch,
                    StartFails, Started, Exec, DropCmdTx, DropEventRx, Join, ClientGone, server
            <4>3. QED  BY <4>1, <4>2
        <3>3. QED  BY <3>1, <3>2
    <2>3. QED  BY <1>1, <2>1, <2>2 DEF EntryAwaited
<1>4. CASE UNCHANGED sys_vars
    BY <1>1, <1>4 DEF sys_vars, vars, server, thread, EntryAwaited, Hit
<1>5. QED  BY <1>2, <1>3, <1>4 DEF SysNext, ThreadNext

(* What the server takes is the stop of a thread that is blocked in it.    *)
LEMMA StopIsTaken ==
    ASSUME Base, TakeStop \/ TakeEnd, UNCHANGED threads, pc \in {"first", "waiting"}
    PROVE  /\ event_rx = 1 /\ cmd_tx = 1
           /\ phase = "stopped" => TakeStop
           /\ TakeStop => life = "alive" /\ phase = "stopped"
<1>1. TypeOK /\ HandlesFit /\ Attention
    BY DEF Base, Inv
<1>2. event_rx = 1 /\ cmd_tx = 1 /\ event_rx \in Sessions
    BY <1>1, OneThread DEF HandlesFit, TypeOK, Handles
<1>3. Awaited(event_rx)
    BY <1>1 DEF Attention, Attended
<1>4. /\ TakeStop => vm[1] = "blocked"
      /\ TakeEnd => vm[1] \in {"finished", "exited"}
    BY <1>1, <1>2, <1>3, WaitIsOver
<1>5. vm[1] = "blocked" <=> life = "alive" /\ phase = "stopped"
    <2>1. vm[1] = Vm /\ life \in {"unborn", "alive", "finished", "exited"}
        BY Account DEF Base, SysTypeOK
    <2>2. QED  BY <2>1 DEF Vm
<1>6. phase = "stopped" => life = "alive"
    BY DEF Base, ThreadFits
<1>7. QED  BY <1>2, <1>4, <1>5, <1>6

LEMMA HiddenStep == SysInv /\ [SysNext]_sys_vars => HiddenIsNoHit'
<1> SUFFICES ASSUME SysInv, [SysNext]_sys_vars, hidden'
             PROVE  Hit' = Ctx!NoHit
    BY DEF HiddenIsNoHit
<1>1. HiddenIsNoHit /\ EntryAwaited /\ Base
    BY DEF SysInv
<1>2. CASE ThreadMoves
    BY <1>1, <1>2
    DEF ThreadMoves, PassInstruction, ReportStop, ReceiveCommand, SetFree, Interpret,
        Renew, Finish, Exit, NothingKept, HiddenIsNoHit, Hit,
        Ctx!RecvSetBreakpoints, Ctx!RecvCommand, Ctx!LeaveStop, Ctx!RecvDisconnected,
        Ctx!Begin, Ctx!Execute, Ctx!ExecOther, Ctx!ExecMoveLoc, Ctx!ExecStLoc,
        Ctx!ExecCall, Ctx!ExecRet, Ctx!ExecAbort, Ctx!Executed, Ctx!context
<1>3. CASE ServerNext
    <2>1. UNCHANGED Hit
        BY <1>3, ServerIsServer DEF Hit
    <2>2. CASE HideEntryStop
        <3>1. life = "alive" /\ pc = "first"
            <4>1. TakeStop /\ UNCHANGED threads /\ pc = "first"
                BY <2>2 DEF HideEntryStop, RunToBreakpoints
            <4>2. QED  BY <1>1, <4>1, StopIsTaken
        <3>2. QED  BY <1>1, <2>1, <3>1 DEF EntryAwaited
    <2>3. CASE ~HideEntryStop
        <3>1. hidden
            BY <1>3, <2>3
            DEF ServerNext, SetBreakpointsInSystem, Start, TellStop, ExecInSystem, LetGo,
                NothingKept, history
        <3>2. QED  BY <1>1, <2>1, <3>1 DEF HiddenIsNoHit
    <2>4. QED  BY <2>2, <2>3
<1>4. CASE UNCHANGED sys_vars
    BY <1>1, <1>4 DEF sys_vars, thread, history, HiddenIsNoHit, Hit
<1>5. QED  BY <1>2, <1>3, <1>4 DEF SysNext, ThreadNext

-----------------------------------------------------------------------------
(* The suppressed breakpoint is still wanted.                              *)
LEMMA StaysSetAfterRead ==
    ASSUME TypeOK, commands[1] # <<>>, commands'[1] = Tail(commands[1]), NEW ln, StaysSet(ln)
    PROVE  StaysSet(ln)'
<1> DEFINE cs == commands[1]
<1>1. cs \in Seq(DapCommand) /\ Len(cs) \in Nat /\ Len(cs) > 0
    BY OneThread, EmptySeq DEF TypeOK
<1>2. DOMAIN cs = 1 .. Len(cs)
    BY <1>1, LenProperties
<1>3. DOMAIN Tail(cs) = 1 .. (Len(cs) - 1)
      /\ \A i \in 1 .. (Len(cs) - 1) : Tail(cs)[i] = cs[i + 1]
    BY <1>1, HeadTailProperties, LenProperties
<1>4. \A i \in DOMAIN Tail(cs) : i + 1 \in DOMAIN cs
    BY <1>1, <1>2, <1>3
<1>5. QED  BY <1>3, <1>4 DEF StaysSet

LEMMA StaysSetAfterSend ==
    ASSUME TypeOK, NEW cmds \in Seq(DapCommand), Send(1, cmds), NEW ln, StaysSet(ln),
           \A i \in DOMAIN cmds : cmds[i].kind = "SetBreakpoints" => ln \in cmds[i].bps
    PROVE  StaysSet(ln)'
<1> DEFINE cs == commands[1]
<1>1. cs \in Seq(DapCommand) /\ Len(cs) \in Nat /\ Len(cmds) \in Nat
    BY OneThread DEF TypeOK
<1>2. CASE vm[1] = "exited"
    BY <1>2 DEF Send, StaysSet
<1>3. CASE vm[1] # "exited"
    <2>1. commands'[1] = cs \o cmds
        BY <1>3, OneThread DEF Send, TypeOK, None
    <2>2. DOMAIN cs = 1 .. Len(cs) /\ DOMAIN cmds = 1 .. Len(cmds)
          /\ DOMAIN (cs \o cmds) = 1 .. (Len(cs) + Len(cmds))
        BY <1>1, ConcatProperties, LenProperties
    <2>3. ASSUME NEW i \in DOMAIN (cs \o cmds)
          PROVE  \/ i \in DOMAIN cs /\ (cs \o cmds)[i] = cs[i]
                 \/ i - Len(cs) \in DOMAIN cmds /\ (cs \o cmds)[i] = cmds[i - Len(cs)]
        <3>1. CASE i <= Len(cs)
            BY <1>1, <2>2, <2>3, <3>1, ConcatProperties
        <3>2. CASE i > Len(cs)
            BY <1>1, <2>2, <2>3, <3>2, ConcatProperties
        <3>3. QED  BY <1>1, <2>2, <2>3, <3>1, <3>2
    <2>4. QED  BY <2>1, <2>3 DEF StaysSet
<1>4. QED  BY <1>2, <1>3

(* A thread that is held after a step of its own was held before.          *)
LEMMA ThreadHolds ==
    ASSUME ThreadMoves, Held'
    PROVE  /\ Held /\ Link = "up" /\ UNCHANGED <<server, client, dropped>>
           /\ ~SetFree /\ ~Finish /\ ~Exit
           /\ \A i, ln : ~Ctx!ReportFails(i, ln)
<1>1. ~Finish /\ ~Exit
    BY DEF Finish, Exit, Held
<1>2. Alive
    BY <1>1
    DEF ThreadMoves, PassInstruction, ReportStop, ReceiveCommand, SetFree, Interpret, Renew
<1>3. Held /\ Link = "up"
    BY <1>2 DEF Alive, Held, server, Link
<1>4. QED
    BY <1>1, <1>2, <1>3 DEF Alive, SetFree, Ctx!RecvDisconnected, Ctx!ReportFails

LEMMA WantedStep == SysInv /\ [SysNext]_sys_vars => HitIsWanted'
<1> DEFINE Wanted == /\ Hit.line \in Locs
                     /\ \/ Hit.line \in dropped
                        \/ /\ Hit.line \in breakpoints \cap pending_breakpoints
                           /\ StaysSet(Hit.line)
<1> SUFFICES ASSUME SysInv, [SysNext]_sys_vars, Held', Hit' # Ctx!NoHit
             PROVE  Wanted'
    BY DEF HitIsWanted
<1>1. /\ Base /\ EntryAwaited /\ HiddenIsNoHit /\ TypeOK /\ SysTypeOK
      /\ Held /\ Hit # Ctx!NoHit => Wanted
    BY DEF SysInv, Base, Inv, HitIsWanted
<1>2. CASE UNCHANGED <<Hit, breakpoints, pending_breakpoints, dropped, commands>> /\ Held
    <2>1. Wanted
        BY <1>1, <1>2
    <2>2. QED  BY <1>2, <2>1 DEF StaysSet
<1>3. CASE ThreadMoves
    <2>1. /\ Held /\ UNCHANGED <<pending_breakpoints, dropped>>
          /\ ~SetFree /\ ~Finish /\ ~Exit
        BY <1>3, ThreadHolds DEF server
    <2>2. ASSUME NEW i \in Ctx!Instrs, NEW ln \in Ctx!MaybeLine,
                 PassInstruction(i, ln) \/ ReportStop(i, ln)
          PROVE  Wanted'
        <3>1. Ctx!Reach(i, ln) /\ phase = "fetch" /\ UNCHANGED <<breakpoints, commands>>
            BY <2>2
            DEF PassInstruction, ReportStop, Ctx!LetRun, Ctx!Report, Ctx!ReportFails, Ctx!Reach
        <3>2. CASE ln \in breakpoints /\ Hit' = [line |-> ln, depth |-> depth]
            <4>1. /\ pc \in {"starting", "first", "waiting"} /\ commands[1] = <<>>
                  /\ pc = "waiting" => breakpoints = pending_breakpoints
                BY <1>1, <2>1, <3>1, <3>2, HeldThreadRuns
            <4>2. pc = "waiting"
                BY <1>1, <2>1, <3>2, <4>1 DEF EntryAwaited, Held
            <4>3. ln \in Locs /\ Hit'.line = ln
                BY <1>1, <3>2 DEF Ctx!TypeOK, SysTypeOK
            <4>4. StaysSet(ln)'
                BY <3>1, <4>1 DEF StaysSet
            <4>5. QED  BY <2>1, <3>1, <3>2, <4>1, <4>2, <4>3, <4>4
        <3>3. CASE Hit' = Hit
            BY <1>2, <2>1, <3>1, <3>3
        <3>4. QED  BY <1>1, <3>1, <3>2, <3>3, HitAfterReach
    <2>3. CASE ReceiveCommand
        <3>1. Hit' = Hit /\ commands[1] # <<>> /\ commands'[1] = Tail(commands[1])
            BY <1>1, <2>3, OneThread
            DEF ReceiveCommand, Ctx!RecvSetBreakpoints, Ctx!RecvCommand, Ctx!LeaveStop, Hit,
                TypeOK
        <3>2. Wanted
            BY <1>1, <2>1, <3>1
        <3>3. StaysSet(Hit.line) => StaysSet(Hit.line)'
            <4>1. ASSUME StaysSet(Hit.line)
                  PROVE  \A i \in DOMAIN commands'[1] :
                            commands'[1][i].kind = "SetBreakpoints"
                              => Hit.line \in commands'[1][i].bps
                <5> DEFINE x == Hit.line
                <5>1. StaysSet(x)
                    BY <4>1
                <5> HIDE DEF x
                <5>2. \A i \in DOMAIN commands'[1] :
                         commands'[1][i].kind = "SetBreakpoints"
                           => x \in commands'[1][i].bps
                    BY <1>1, <3>1, <5>1, StaysSetAfterRead DEF StaysSet
                <5>3. QED  BY <5>2 DEF x
            <4>2. QED  BY <3>1, <4>1 DEF StaysSet
        <3>4. ASSUME Hit.line \in breakpoints, StaysSet(Hit.line)
              PROVE  Hit.line \in breakpoints'
            <4>1. commands[1] \in Seq(DapCommand)
                BY <1>1, OneThread DEF TypeOK
            <4>2. 1 \in DOMAIN commands[1] /\ Head(commands[1]) = commands[1][1]
                BY <3>1, <4>1, LenProperties, EmptySeq
            <4>3. CASE Head(commands[1]).kind = "SetBreakpoints"
                BY <2>3, <3>4, <4>2, <4>3
                DEF ReceiveCommand, Ctx!RecvSetBreakpoints, StaysSet
            <4>4. CASE Head(commands[1]).kind # "SetBreakpoints"
                BY <2>3, <3>4, <4>4 DEF ReceiveCommand, Ctx!RecvCommand, Ctx!LeaveStop
            <4>5. QED  BY <4>3, <4>4
        <3>5. QED  BY <2>1, <3>1, <3>2, <3>3, <3>4
    <2>4. CASE Interpret
        <3>1. UNCHANGED <<Hit, breakpoints, commands>>
            BY <2>4
            DEF Interpret, Ctx!Begin, Ctx!Execute, Ctx!ExecOther, Ctx!ExecMoveLoc,
                Ctx!ExecStLoc, Ctx!ExecCall, Ctx!ExecRet, Ctx!ExecAbort, Ctx!Executed,
                Ctx!context, Hit
        <3>2. QED  BY <1>2, <2>1, <3>1
    <2>5. ~Renew
        BY DEF Renew, Ctx!InstallOnThread, Hit
    <2>6. QED  BY <1>3, <2>1, <2>2, <2>3, <2>4, <2>5 DEF ThreadMoves
<1>4. CASE ServerNext
    <2>1. UNCHANGED <<Hit, breakpoints>> /\ Held /\ dropped \subseteq dropped'
          /\ ~Start /\ ~DropCmdTx /\ ~LetGo
        <3>1. life # "unborn"
            BY <1>1, <1>4, ServerHolds DEF EntryAwaited
        <3>2. QED  BY <1>1, <1>4, <3>1, ServerHolds
    <2>2. Wanted
        BY <1>1, <2>1
    <2>3. ASSUME NEW raw \in Files \cup Aliases, NEW lines \in SUBSET LineNumbers,
                 SetBreakpointsInSystem(raw, lines)
          PROVE  Wanted'
        <3>1. /\ Send(1, <<SetBreakpointsCmd(pending_breakpoints')>>)
              /\ pending_breakpoints' \in SUBSET Locs
              /\ dropped' = dropped \cup (pending_breakpoints \ pending_breakpoints')
            <4>1. pending_breakpoints' = PendingAfter(raw, lines)
                BY <2>3 DEF SetBreakpointsInSystem, SetBreakpoints
            <4>2. pending_breakpoints' \in SUBSET Locs
                BY <1>1, <4>1, PendingType DEF TypeOK
            <4>3. QED
                BY <2>1, <2>3, <4>1, <4>2 DEF SetBreakpointsInSystem, SetBreakpoints, Held
        <3>2. CASE Hit.line \in dropped'
            BY <2>1, <2>2, <3>2
        <3>3. CASE Hit.line \notin dropped'
            <4>1. /\ Hit.line \in breakpoints \cap pending_breakpoints
                  /\ StaysSet(Hit.line) /\ Hit.line \in pending_breakpoints'
                BY <2>1, <2>2, <3>1, <3>3
            <4> DEFINE cmds == <<SetBreakpointsCmd(pending_breakpoints')>>
                       x    == Hit.line
            <4>2. cmds \in Seq(DapCommand)
                BY <3>1, SetBreakpointsCmdType
            <4>3. \A i \in DOMAIN cmds : x \in cmds[i].bps
                BY <4>1 DEF SetBreakpointsCmd
            <4>4. Send(1, cmds) /\ StaysSet(x)
                BY <3>1, <4>1
            <4> HIDE DEF cmds, x
            <4>5. \A i \in DOMAIN commands'[1] :
                     commands'[1][i].kind = "SetBreakpoints" => x \in commands'[1][i].bps
                BY <1>1, <4>2, <4>3, <4>4, StaysSetAfterSend DEF StaysSet
            <4>6. QED
                BY <2>1, <2>2, <4>1, <4>5 DEF x, StaysSet
        <3>4. QED  BY <3>2, <3>3
    <2>4. ASSUME NEW kind \in ExecKinds, Exec(kind), UNCHANGED dropped
          PROVE  Wanted'
        <3> DEFINE cmds == <<ExecCmd(kind)>>
                   x    == Hit.line
        <3>1. Send(1, cmds) /\ UNCHANGED <<pending_breakpoints, dropped>>
            BY <2>1, <2>4 DEF Exec, Held
        <3>2. cmds \in Seq(DapCommand) /\ \A i \in DOMAIN cmds : cmds[i].kind # "SetBreakpoints"
            BY ExecCmdType DEF ExecCmd, ExecKinds
        <3>3. StaysSet(x) => \A i \in DOMAIN commands'[1] :
                 commands'[1][i].kind = "SetBreakpoints" => x \in commands'[1][i].bps
            <4> HIDE DEF cmds, x
            <4>1. QED  BY <1>1, <3>1, <3>2, StaysSetAfterSend DEF StaysSet
        <3>4. QED  BY <2>1, <2>2, <3>1, <3>3 DEF StaysSet
    <2>5. ~HideEntryStop
        <3>1. ASSUME HideEntryStop
              PROVE  FALSE
            <4>1. TakeStop /\ UNCHANGED threads /\ pc = "first"
                BY <3>1 DEF HideEntryStop, RunToBreakpoints
            <4>2. life = "alive"
                BY <1>1, <4>1, StopIsTaken
            <4>3. QED  BY <1>1, <2>1, <4>1, <4>2 DEF EntryAwaited
        <3>2. QED  BY <3>1
    <2>6. CASE UNCHANGED <<commands, pending_breakpoints, dropped>>
        BY <1>2, <2>1, <2>6
    <2>7. QED
        BY <1>4, <2>1, <2>3, <2>4, <2>5, <2>6
        DEF ServerNext, TellStop, ExecInSystem, StopAtEntry, WaitEnds, Launch, StartFails,
            Started, DropEventRx, Join, ClientGone, history, queues, server
<1>5. CASE UNCHANGED sys_vars
    <2>1. Held /\ UNCHANGED <<Hit, breakpoints, pending_breakpoints, dropped, commands>>
        BY <1>5 DEF sys_vars, vars, server, queues, thread, history, Hit, Held
    <2>2. QED  BY <1>2, <2>1
<1>6. QED  BY <1>3, <1>4, <1>5 DEF SysNext, ThreadNext

-----------------------------------------------------------------------------
(* The client is told.                                                     *)

(* A step of debug_loop in a held thread, before it decides.               *)
LEMMA ReachTold ==
    ASSUME Base, HitIsWanted, HitIsTold, Held, NEW i, NEW ln, Ctx!Reach(i, ln),
           Hit' = Hit, Hit # Ctx!NoHit, Hit.line \notin dropped
    PROVE  <<Hit.depth, Hit.line>> \in Lasting(seen, depth, ln)
<1>1. SysTypeOK /\ phase = "fetch"
    BY DEF Base, Ctx!Reach
<1>2. <<Hit.depth, Hit.line>> \in seen /\ Hit.line \in breakpoints
    BY <1>1 DEF HitIsTold, HitIsWanted
<1>3. \/ ~Ctx!BreakpointHit(depth, ln) /\ (Hit.line = ln \/ depth > Hit.depth)
      \/ Hit.line = ln /\ Hit.depth = depth
    BY <1>1, HitAfterReach
<1>4. Hit.line = ln => Hit.depth = depth
    <2>1. Hit.line = ln /\ ~Ctx!BreakpointHit(depth, ln) => Ctx!Suppressed(depth, ln)
        BY <1>2 DEF Ctx!BreakpointHit
    <2>2. QED  BY <1>3, <2>1 DEF Ctx!Suppressed, Hit
<1>5. depth \in Nat /\ Hit.depth \in Nat
    BY <1>1, DepthAssumption, TypeParts DEF ContextTypeOK, Ctx!Hits, Ctx!Depths
<1>6. \/ Hit.depth < depth
      \/ Hit.depth = depth /\ Hit.line = ln
    BY <1>3, <1>4, <1>5
<1>7. QED  BY <1>2, <1>6 DEF Lasting

LEMMA ToldStep == SysInv /\ [SysNext]_sys_vars => HitIsTold'
<1> DEFINE Told == \/ <<Hit.depth, Hit.line>> \in seen
                   \/ phase = "stopped" /\ Hit.depth = depth /\ Hit.line = line
<1> SUFFICES ASSUME SysInv, [SysNext]_sys_vars, Held', Hit' # Ctx!NoHit,
                    Hit'.line \notin dropped'
             PROVE  Told'
    BY DEF HitIsTold
<1>1. /\ Base /\ EntryAwaited /\ HiddenIsNoHit /\ HitIsWanted /\ HitIsTold /\ StopIsTold
      /\ Held /\ Hit # Ctx!NoHit /\ Hit.line \notin dropped => Told
    BY DEF SysInv, HitIsTold
<1>2. CASE Held /\ UNCHANGED <<Hit, depth, line, phase, dropped>> /\ seen \subseteq seen'
    <2>1. Told
        BY <1>1, <1>2
    <2>2. QED  BY <1>2, <2>1
<1>3. CASE ThreadMoves
    <2>1. Held /\ UNCHANGED dropped /\ ~SetFree /\ ~Finish /\ ~Exit
        BY <1>3, ThreadHolds
    <2>2. ASSUME NEW i \in Ctx!Instrs, NEW ln \in Ctx!MaybeLine,
                 PassInstruction(i, ln) \/ ReportStop(i, ln)
          PROVE  Told'
        <3>1. /\ Ctx!Reach(i, ln) /\ seen' = Lasting(seen, depth, ln)
              /\ depth' = depth /\ line' = ln
            BY <2>2
            DEF PassInstruction, ReportStop, Ctx!LetRun, Ctx!Report, Ctx!ReportFails,
                Ctx!Reach, Ctx!frames
        <3>2. CASE Hit' = Hit
            <4>1. <<Hit.depth, Hit.line>> \in Lasting(seen, depth, ln)
                BY <1>1, <2>1, <3>1, <3>2, ReachTold
            <4>2. QED  BY <3>1, <3>2, <4>1
        <3>3. CASE Hit' = [line |-> ln, depth |-> depth] /\ Hit' # Hit
            <4>1. Ctx!ShouldStop(ln)
                <5>1. Hit' = Ctx!LastHitAfter(depth, ln)
                    BY <3>1 DEF Ctx!Reach, Hit
                <5>2. Ctx!BreakpointHit(depth, ln)
                    BY <3>3, <5>1 DEF Ctx!LastHitAfter, Hit
                <5>3. QED  BY <5>2 DEF Ctx!ShouldStop
            <4>2. phase' = "stopped"
                BY <1>3, <2>2, <4>1, ThreadHolds
                DEF PassInstruction, ReportStop, Ctx!LetRun, Ctx!Report
            <4>3. QED  BY <3>1, <3>3, <4>2
        <3>4. QED  BY <1>1, <3>1, <3>2, <3>3, HitAfterReach DEF Base
    <2>3. CASE ReceiveCommand
        <3>1. UNCHANGED <<Hit, depth, line, seen>> /\ phase = "stopped" /\ commands[1] # <<>>
            BY <2>3
            DEF ReceiveCommand, Ctx!RecvSetBreakpoints, Ctx!RecvCommand, Ctx!LeaveStop,
                Ctx!frames, Hit
        <3>2. CASE Head(commands[1]).kind = "SetBreakpoints"
            <4>1. UNCHANGED phase
                BY <2>3, <3>2 DEF ReceiveCommand, Ctx!RecvSetBreakpoints
            <4>2. QED  BY <1>2, <2>1, <3>1, <4>1
        <3>3. CASE Head(commands[1]).kind # "SetBreakpoints"
            <4>1. <<depth, line>> \in seen \/ hidden
                BY <1>1, <2>1, <3>1, <3>3, HeldThreadResumes DEF StopIsTold
            <4>2. ~hidden
                BY <1>1, <3>1 DEF HiddenIsNoHit
            <4>3. Told
                BY <1>1, <2>1, <3>1
            <4>4. <<Hit.depth, Hit.line>> \in seen
                BY <4>1, <4>2, <4>3
            <4>5. QED  BY <3>1, <4>4
        <3>4. QED  BY <3>2, <3>3
    <2>4. CASE Interpret
        <3>1. UNCHANGED <<Hit, seen>> /\ phase # "stopped"
            BY <2>4
            DEF Interpret, Ctx!Begin, Ctx!Execute, Ctx!ExecOther, Ctx!ExecMoveLoc,
                Ctx!ExecStLoc, Ctx!ExecCall, Ctx!ExecRet, Ctx!ExecAbort, Ctx!Executed,
                Ctx!context, Hit
        <3>2. QED  BY <1>1, <2>1, <3>1
    <2>5. ~Renew
        BY DEF Renew, Ctx!InstallOnThread, Hit
    <2>6. QED  BY <1>3, <2>1, <2>2, <2>3, <2>4, <2>5 DEF ThreadMoves
<1>4. CASE ServerNext
    <2>1. /\ UNCHANGED <<Hit, depth, line, phase>> /\ Held
          /\ dropped \subseteq dropped' /\ seen \subseteq seen'
        <3>1. life # "unborn"
            BY <1>1, <1>4, ServerHolds DEF EntryAwaited
        <3>2. QED  BY <1>1, <1>4, <3>1, ServerHolds
    <2>2. Told
        BY <1>1, <2>1
    <2>3. QED  BY <2>1, <2>2
<1>5. CASE UNCHANGED sys_vars
    <2>1. Held /\ UNCHANGED <<Hit, depth, line, phase, dropped, seen>>
        BY <1>5 DEF sys_vars, vars, server, thread, history, Hit, Held
    <2>2. QED  BY <1>2, <2>1
<1>6. QED  BY <1>3, <1>4, <1>5 DEF SysNext, ThreadNext

LEMMA StopToldStep == SysInv /\ [SysNext]_sys_vars => StopIsTold'
<1> SUFFICES ASSUME SysInv, [SysNext]_sys_vars, Held', phase' = "stopped",
                    events'[1] = <<>>, pc' = "waiting" \/ (pc' = "idle" /\ client_reads')
             PROVE  <<depth', line'>> \in seen' \/ hidden'
    BY DEF StopIsTold
<1>1. Base /\ EntryAwaited /\ StopIsTold /\ TypeOK
    BY DEF SysInv, Base, Inv
<1>2. CASE /\ Held /\ UNCHANGED <<phase, depth, line, events>>
           /\ pc = "waiting" \/ (pc = "idle" /\ client_reads)
           /\ seen \subseteq seen' /\ (hidden => hidden')
    BY <1>1, <1>2 DEF StopIsTold
<1>3. CASE ThreadMoves
    <2>1. Held /\ UNCHANGED <<pc, client_reads>> /\ ~SetFree /\ ~Finish /\ ~Exit
        BY <1>3, ThreadHolds DEF server, client
    <2>2. \A i, ln : ~PassInstruction(i, ln) /\ ~ReportStop(i, ln)
        <3>1. ASSUME NEW i, NEW ln, ReportStop(i, ln)
              PROVE  FALSE
            <4>1. events[1] \in Seq({"Stopped", "Terminated"})
                  /\ events' = [events EXCEPT ![1] = Append(@, "Stopped")]
                BY <1>1, <3>1, OneThread DEF ReportStop, TypeOK
            <4>2. events'[1] = Append(events[1], "Stopped")
                BY <1>1, <4>1, OneThread DEF TypeOK
            <4>3. QED  BY <4>1, <4>2
        <3>2. QED  BY <3>1 DEF PassInstruction, Ctx!LetRun, Ctx!ReportFails
    <2>3. CASE ReceiveCommand
        <3>1. UNCHANGED <<phase, depth, line, events, seen, hidden>>
            BY <2>3
            DEF ReceiveCommand, Ctx!RecvSetBreakpoints, Ctx!RecvCommand, Ctx!LeaveStop,
                Ctx!frames
        <3>2. QED  BY <1>2, <2>1, <3>1
    <2>4. ~Interpret /\ ~Renew
        BY DEF Interpret, Ctx!Begin, Ctx!Execute, Ctx!ExecOther, Ctx!ExecMoveLoc,
           Ctx!ExecStLoc, Ctx!ExecCall, Ctx!ExecRet, Ctx!ExecAbort, Renew,
           Ctx!InstallOnThread
    <2>5. QED  BY <1>3, <2>1, <2>2, <2>3, <2>4 DEF ThreadMoves
<1>4. CASE ServerNext
    <2>1. /\ UNCHANGED <<phase, depth, line>> /\ Held /\ ~Start /\ ~DropCmdTx /\ ~LetGo
          /\ seen \subseteq seen' /\ (hidden => hidden')
        BY <1>1, <1>4, ServerHolds
    <2>2. CASE HideEntryStop
        BY <2>2 DEF HideEntryStop
    <2>3. CASE TellStop
        <3>1. /\ (TakeStop \/ TakeEnd) /\ UNCHANGED <<threads, client_reads>>
              /\ pc \in {"first", "waiting"} /\ pc' = "idle"
            BY <2>3 DEF TellStop, StopAtEntry, WaitEnds
        <3>2. TakeStop /\ ~TakeEnd
            <4>1. TakeStop
                BY <1>1, <2>1, <3>1, StopIsTaken
            <4>2. QED  BY <4>1 DEF TakeStop, TakeEnd, TakeEvent
        <3>3. told' = vm_stopped_state' /\ client_reads
            BY <2>3, <3>1, <3>2 DEF TellStop, StopAtEntry, WaitEnds, Tell
        <3>4. seen' = seen \cup {<<depth, line>>}
            BY <2>3, <3>3 DEF TellStop
        <3>5. QED  BY <2>1, <3>4
    <2>4. CASE ServerNext /\ ~HideEntryStop /\ ~TellStop
        <3>1. UNCHANGED events
            BY <2>1, <2>4
            DEF ServerNext, SetBreakpointsInSystem, SetBreakpoints, ExecInSystem, Launch,
                StartFails, Started, Exec, DropEventRx, Join, ClientGone, queues
        <3>2. pc = "waiting" \/ (pc = "idle" /\ client_reads)
            <4>1. CASE Started
                <5>1. pc = "failing"
                    BY <4>1 DEF Started
                <5>2. vm[1] = "exited"
                    BY <1>1, <2>1, <5>1 DEF Base, Inv, HandlesFit, Held
                <5>3. Vm = "blocked"
                    BY <2>1 DEF Vm, Held
                <5>4. QED  BY <1>1, <5>2, <5>3, Account DEF Base
            <4>2. ~Join /\ ~DropEventRx
                BY <1>1, <2>1 DEF Base, Inv, HandlesFit, Held, Join, DropEventRx, None
            <4>3. CASE ~Started
                BY <2>1, <2>4, <4>2, <4>3
                DEF ServerNext, SetBreakpointsInSystem, SetBreakpoints, ExecInSystem,
                    Handling, Launch,
                    StartFails, Exec, ClientGone, server
            <4>4. QED  BY <4>1, <4>3
        <3>3. QED  BY <1>2, <2>1, <3>1, <3>2
    <2>5. QED  BY <1>4, <2>2, <2>3, <2>4
<1>5. CASE UNCHANGED sys_vars
    <2>1. Held /\ UNCHANGED <<phase, depth, line, events, pc, client_reads, seen, hidden>>
        BY <1>5 DEF sys_vars, vars, server, queues, client, thread, history, Held
    <2>2. QED  BY <1>2, <2>1
<1>6. QED  BY <1>3, <1>4, <1>5 DEF SysNext, ThreadNext

LEMMA ClientStopsStep == SysInv /\ [SysNext]_sys_vars => ClientStopsAtBreakpoints'
<1> DEFINE Here == <<depth, line>> \in seen \/ hidden \/ Ignorant
<1> SUFFICES ASSUME SysInv, [SysNext]_sys_vars, Held', phase' = "execute",
                    line' \in pending_breakpoints', line' \notin dropped'
             PROVE  Here'
    BY DEF ClientStopsAtBreakpoints, Held, Link
<1>1. /\ Base /\ EntryAwaited /\ HitIsWanted /\ HitIsTold /\ StopIsTold
      /\ SysTypeOK /\ TypeOK
      /\ Held /\ phase = "execute" /\ line \in pending_breakpoints
            /\ line \notin dropped => Here
    BY DEF SysInv, Base, Inv, ClientStopsAtBreakpoints, Held, Link
<1>2. CASE ThreadMoves
    <2>1. /\ Held /\ UNCHANGED <<pc, pending_breakpoints, dropped>>
          /\ ~SetFree /\ ~Finish /\ ~Exit
        BY <1>2, ThreadHolds DEF server
    <2>2. ASSUME NEW i \in Ctx!Instrs, NEW ln \in Ctx!MaybeLine, PassInstruction(i, ln)
          PROVE  Here'
        <3>1. /\ Ctx!LetRun(i, ln) /\ Ctx!Reach(i, ln) /\ ~Ctx!ShouldStop(ln)
              /\ phase = "fetch" /\ depth' = depth /\ line' = ln
              /\ breakpoints' = breakpoints /\ renews' = renews
              /\ seen' = Lasting(seen, depth, ln)
            BY <1>2, <2>2, ThreadHolds
            DEF PassInstruction, Ctx!LetRun, Ctx!Reach, Ctx!frames
        <3>2. ln \in pending_breakpoints /\ ln \notin dropped /\ ln # Nil
            BY <1>1, <2>1, <3>1, NilAssumption DEF TypeOK
        <3>3. /\ pc \in {"starting", "first", "waiting"}
              /\ pc = "waiting" =>
                    breakpoints = pending_breakpoints \/ (breakpoints = {} /\ renews[1] > 0)
            BY <1>1, <2>1, <3>1, HeldThreadRuns
        <3>4. pc = "waiting"
            <4>1. ASSUME pc \in {"starting", "first"}
                  PROVE  Ctx!ShouldStop(ln)
                <5>1. next_cmd_op = Ctx!StepInto(Nil)
                    BY <1>1, <2>1, <3>1, <4>1 DEF EntryAwaited, Held
                <5>2. Ctx!StepDone(depth, ln)
                    BY <3>2, <5>1 DEF Ctx!StepInto, Ctx!StepDone, Ctx!LineChanged
                <5>3. QED  BY <5>2 DEF Ctx!ShouldStop
            <4>2. QED  BY <3>1, <3>3, <4>1
        <3>5. CASE breakpoints = {} /\ renews[1] > 0
            BY <3>1, <3>5 DEF Ignorant
        <3>6. CASE breakpoints = pending_breakpoints
            <4>1. Ctx!Suppressed(depth, ln)
                BY <3>1, <3>2, <3>6 DEF Ctx!ShouldStop, Ctx!BreakpointHit
            <4>2. Hit # Ctx!NoHit /\ Hit.line = ln /\ Hit.depth = depth
                BY <4>1 DEF Ctx!Suppressed, Hit
            <4>3. <<depth, ln>> \in seen
                BY <1>1, <2>1, <3>1, <3>2, <4>2 DEF HitIsTold
            <4>4. <<depth, ln>> \in Lasting(seen, depth, ln)
                BY <4>3 DEF Lasting
            <4>5. QED  BY <3>1, <4>4
        <3>7. QED  BY <3>3, <3>4, <3>5, <3>6
    <2>3. CASE ReceiveCommand
        <3>1. /\ UNCHANGED <<depth, line, seen, hidden>>
              /\ phase = "stopped" /\ commands[1] # <<>>
              /\ Head(commands[1]).kind # "SetBreakpoints"
            BY <2>3
            DEF ReceiveCommand, Ctx!RecvSetBreakpoints, Ctx!RecvCommand, Ctx!LeaveStop,
                Ctx!frames
        <3>2. <<depth, line>> \in seen \/ hidden
            BY <1>1, <2>1, <3>1, HeldThreadResumes DEF StopIsTold
        <3>3. QED  BY <3>1, <3>2
    <2>4. ~Interpret /\ ~Renew /\ \A i, ln : ~ReportStop(i, ln)
        BY DEF Interpret, Ctx!Begin, Ctx!Execute, Ctx!ExecOther, Ctx!ExecMoveLoc,
           Ctx!ExecStLoc, Ctx!ExecCall, Ctx!ExecRet, Ctx!ExecAbort, Renew,
           Ctx!InstallOnThread, ReportStop, Ctx!Report
    <2>5. QED  BY <1>2, <2>1, <2>2, <2>3, <2>4 DEF ThreadMoves
<1>3. CASE ServerNext
    <2>1. /\ UNCHANGED <<phase, depth, line, breakpoints, renews>> /\ Held
          /\ dropped \subseteq dropped' /\ seen \subseteq seen' /\ (hidden => hidden')
        BY <1>1, <1>3, ServerHolds
    <2>2. pc \in {"starting", "first", "waiting"}
        BY <1>1, <2>1, HeldThreadRuns
    <2>3. UNCHANGED pending_breakpoints
        BY <1>3, <2>2
        DEF ServerNext, SetBreakpointsInSystem, Start, HideEntryStop, TellStop, ExecInSystem,
            LetGo, SetBreakpoints, StartExecution, SpawnFails, RunToBreakpoints, StopAtEntry,
            WaitEnds, DropCmdTx, Launch, StartFails, Started, Exec, DropEventRx, Join,
            ClientGone, Handling, server
    <2>4. Here
        BY <1>1, <2>1, <2>3
    <2>5. QED  BY <2>1, <2>4 DEF Ignorant
<1>4. CASE UNCHANGED sys_vars
    <2>1. Held /\ UNCHANGED <<phase, depth, line, pending_breakpoints, dropped, seen,
                              hidden, renews, breakpoints>>
        BY <1>4 DEF sys_vars, vars, server, threads, thread, history, Held
    <2>2. QED  BY <1>1, <2>1 DEF Ignorant
<1>5. QED  BY <1>2, <1>3, <1>4 DEF SysNext, ThreadNext

LEMMA SysInvInit == SysInit => SysInv
<1> SUFFICES ASSUME SysInit
             PROVE  SysInv
    OBVIOUS
<1>1. EntryAwaited /\ HiddenIsNoHit
    BY DEF SysInit, Ctx!Init, EntryAwaited, HiddenIsNoHit, Hit
<1>2. ~Held /\ HitIsWanted /\ HitIsTold /\ StopIsTold /\ ClientStopsAtBreakpoints
    BY DEF SysInit, Held, HitIsWanted, HitIsTold, StopIsTold, ClientStopsAtBreakpoints
<1>3. QED  BY <1>1, <1>2, BaseInit DEF SysInv

LEMMA SysInvStep == SysInv /\ [SysNext]_sys_vars => SysInv'
BY BaseStep, EntryStep, HiddenStep, WantedStep, ToldStep, StopToldStep, ClientStopsStep
DEF SysInv

(* End to end: however requests, commands and events interleave, no        *)
(* instruction of a line with a breakpoint runs before the client was told *)
(* of a stop in that visit of the line, but for the three exceptions that  *)
(* ClientStopsAtBreakpoints names (handle_set_breakpoints,                 *)
(* handle_configuration_done, debug_loop).                                 *)
THEOREM ClientStopsAtEveryBreakpoint == SysSpec => []ClientStopsAtBreakpoints
<1>1. SysInv => ClientStopsAtBreakpoints
    BY DEF SysInv
<1>2. QED  BY SysInvInit, SysInvStep, <1>1, PTL DEF SysSpec

(* What holds of any DapSession holds of the whole, whose thread is the    *)
(* real debug_loop: server and thread stay in step, the client sees the    *)
(* current stop and hears how things ended, nobody waits for nobody, the   *)
(* breakpoints arrive and no command is late (server.rs, dap_context.rs).  *)
THEOREM SystemKeepsSessionInvariants ==
    SysSpec => [](/\ Lockstep
                  /\ ClientSeesCurrentStop
                  /\ ClientHearsHowItEnded
                  /\ NoMutualWait
                  /\ BreakpointsInSync
                  /\ FilesKeepLastRequest
                  /\ CommandsAreForThisStop)
<1>1. SysSpec => SafetySpec
    BY SystemImplementsSession DEF SystemIsSession
<1>2. QED
    BY <1>1, ServerAndThreadInLockstep, ClientStopIsCurrent, ClientHearsOutcome,
       ServerAndThreadNeverWaitForEachOther, ThreadHasTheBreakpoints, RequestsReplaceOneFile,
       CommandsBelongToTheirStop, PTL

(* So does what holds of its steps: the server takes every stop that       *)
(* debug_loop reports, once and in order, and debug_loop runs out of steps *)
(* that nobody hears of (wait_for_vm_event, dap_context.rs:89-139).        *)
THEOREM SystemKeepsSessionSteps == SysSpec => EveryStopIsTaken /\ EveryStepCounts
<1>1. SysSpec => SafetySpec
    BY SystemImplementsSession DEF SystemIsSession
<1>2. QED  BY <1>1, SnapshotsFollowStops, ThreadsRunOut, PTL

(* The thread whose every step is debug_loop's (dap_context.rs:89-139),    *)
(* seen through the channels of the server, keeps the safety half of the   *)
(* promise of Debuggee.                                                    *)
THEOREM SystemThreadKeepsPromise == SysSpec => First!SafetySpec
<1>1. SysSpec => SafetySpec
    BY SystemImplementsSession DEF SystemIsSession
<1>2. MaxSessions > 0
    BY OneExecution
<1>3. QED  BY <1>1, <1>2, FirstThreadKeepsPromiseSafely, PTL

-----------------------------------------------------------------------------
(* The stops of a thread that the server waits for are stops the client    *)
(* asked for: by its breakpoints, or by its last command.                  *)

WaitedFor == Held /\ pc \in {"starting", "first", "waiting"}

ReportsAreAskedFor ==
    WaitedFor =>
        /\ phase # "stopped" /\ next_cmd_op.kind # "Run" => asked
        /\ phase = "stopped" /\ commands[1] # <<>>
             /\ commands[1][Len(commands[1])].kind = "Step" => asked
        /\ phase = "stopped" /\ events[1] # <<>> =>
              \/ reason = "Breakpoint" /\ line \in pending_breakpoints
              \/ reason = "Step" /\ asked

AskInv == SysInv /\ ReportsAreAskedFor

(* Reading a command leaves the last one of the queue what it is.          *)
LEMMA LastAfterRead ==
    ASSUME TypeOK, commands[1] # <<>>, Tail(commands[1]) # <<>>
    PROVE  Tail(commands[1])[Len(Tail(commands[1]))] = commands[1][Len(commands[1])]
<1> DEFINE cs == commands[1]
           n  == Len(cs)
           ts == Tail(cs)
<1>1. cs \in Seq(DapCommand) /\ n \in Nat
    BY OneThread, LenProperties DEF TypeOK
<1>2. ts \in Seq(DapCommand) /\ Len(ts) = n - 1 /\ \A i \in 1 .. (n - 1) : ts[i] = cs[i + 1]
    BY <1>1, HeadTailProperties
<1>3. Len(ts) \in Nat /\ Len(ts) # 0
    BY <1>2, EmptySeq, LenProperties
<1>4. n - 1 \in 1 .. (n - 1) /\ (n - 1) + 1 = n
    <2> HIDE DEF n
    <2>1. QED  BY <1>1, <1>2, <1>3
<1>5. ts[n - 1] = cs[n]
    BY <1>2, <1>4
<1>6. QED  BY <1>2, <1>5

(* A command that is obeyed is the only one left.                          *)
LEMMA ObeyedIsLast ==
    ASSUME Base, WaitedFor, phase = "stopped", commands[1] # <<>>,
           Head(commands[1]).kind # "SetBreakpoints"
    PROVE  commands[1][Len(commands[1])] = Head(commands[1])
<1> DEFINE cs == commands[1]
           n  == Len(cs)
<1>1. TypeOK /\ HandlesFit /\ Attention
    BY DEF Base, Inv
<1>2. cs \in Seq(DapCommand) /\ n \in Nat /\ n > 0
    BY <1>1, OneThread, EmptySeq DEF TypeOK
<1>3. 1 \in DOMAIN cs /\ Head(cs) = cs[1]
    BY <1>2, LenProperties
<1>4. ExecIsLast(1)
    <2>1. ~NoExec(1) /\ vm[1] = "blocked"
        BY <1>3, Account DEF NoExec, Base, WaitedFor, Held, Vm
    <2>2. Awaited(1)
        BY <1>1 DEF Attention, Attended, HandlesFit, WaitedFor, Held
    <2>3. QED  BY <2>1, <2>2 DEF Awaited
<1>5. ~(1 < n)
    BY <1>3, <1>4 DEF ExecIsLast
<1>6. n = 1
    <2> HIDE DEF n
    <2>1. QED  BY <1>2, <1>5
<1>7. QED  BY <1>3, <1>6

LEMMA AskedInThread ==
    ASSUME AskInv, ThreadMoves, WaitedFor'
    PROVE  ReportsAreAskedFor'
<1>1. Base /\ EntryAwaited /\ ReportsAreAskedFor /\ TypeOK
    BY DEF AskInv, SysInv, Base, Inv
<1>2. /\ Held /\ WaitedFor /\ UNCHANGED <<server, pc, pending_breakpoints>>
      /\ ~SetFree /\ ~Finish /\ ~Exit
      /\ \A i, ln : ~Ctx!ReportFails(i, ln)
    BY ThreadHolds DEF WaitedFor, server
<1>3. ASSUME NEW i \in Ctx!Instrs, NEW ln \in Ctx!MaybeLine, PassInstruction(i, ln)
      PROVE  ReportsAreAskedFor'
    <2>1. /\ phase = "fetch" /\ phase' = "execute"
          /\ next_cmd_op' = next_cmd_op /\ asked' = asked
        BY <1>2, <1>3 DEF PassInstruction, Ctx!LetRun, Ctx!Reach
    <2>2. QED  BY <1>1, <1>2, <2>1 DEF ReportsAreAskedFor
<1>4. ASSUME NEW i \in Ctx!Instrs, NEW ln \in Ctx!MaybeLine, ReportStop(i, ln)
      PROVE  ReportsAreAskedFor'
    <2>1. /\ phase = "fetch" /\ phase' = "stopped" /\ line' = ln
          /\ asked' = asked /\ UNCHANGED commands
          /\ Ctx!ShouldStop(ln)
          /\ reason' = IF Ctx!BreakpointHit(depth, ln) THEN "Breakpoint" ELSE "Step"
        BY <1>4 DEF ReportStop, Ctx!Report, Ctx!Reach
    <2>2. /\ commands[1] = <<>>
          /\ pc = "waiting" =>
                breakpoints = pending_breakpoints \/ (breakpoints = {} /\ renews[1] > 0)
        BY <1>1, <1>2, <2>1, HeldThreadRuns
    <2>3. ln \in breakpoints => ln \in pending_breakpoints
        <3>1. pc \in {"starting", "first"} => breakpoints = {}
            BY <1>1, <1>2 DEF EntryAwaited, Held
        <3>2. QED  BY <1>2, <2>2, <3>1 DEF WaitedFor
    <2>4. Ctx!BreakpointHit(depth, ln) => ln \in pending_breakpoints
        BY <2>3 DEF Ctx!BreakpointHit
    <2>5. ~Ctx!BreakpointHit(depth, ln) => asked
        <3>1. Ctx!StepDone(depth, ln) => next_cmd_op.kind # "Run"
            BY DEF Ctx!StepDone
        <3>2. QED  BY <1>1, <1>2, <2>1, <3>1 DEF Ctx!ShouldStop, ReportsAreAskedFor
    <2>6. QED  BY <1>2, <2>1, <2>2, <2>4, <2>5 DEF ReportsAreAskedFor
<1>5. CASE ReceiveCommand
    <2> DEFINE cmd == Head(commands[1])
    <2>1. /\ commands[1] # <<>> /\ commands'[1] = Tail(commands[1]) /\ phase = "stopped"
          /\ UNCHANGED <<events, asked>>
          /\ IF cmd.kind = "SetBreakpoints" THEN Ctx!RecvSetBreakpoints(cmd.bps)
             ELSE \E c \in Meaning(cmd) : Ctx!RecvCommand(c)
        BY <1>1, <1>5, OneThread
        DEF ReceiveCommand, TypeOK, Ctx!RecvSetBreakpoints, Ctx!RecvCommand, Ctx!LeaveStop
    <2>2. CASE cmd.kind = "SetBreakpoints"
        <3>1. UNCHANGED <<phase, line, reason, next_cmd_op>>
            BY <2>1, <2>2 DEF Ctx!RecvSetBreakpoints
        <3>2. commands'[1] # <<>> =>
                 commands'[1][Len(commands'[1])] = commands[1][Len(commands[1])]
            BY <1>1, <2>1, LastAfterRead
        <3>3. QED  BY <1>1, <1>2, <2>1, <3>1, <3>2 DEF ReportsAreAskedFor
    <2>3. CASE cmd.kind # "SetBreakpoints"
        <3>1. PICK c \in Meaning(cmd) : Ctx!RecvCommand(c)
            BY <2>1, <2>3
        <3>2. phase' = "execute" /\ next_cmd_op' = Ctx!ParseCmdOp(c, depth, line)
            BY <3>1 DEF Ctx!RecvCommand, Ctx!LeaveStop
        <3>3. commands[1][Len(commands[1])] = cmd
            BY <1>1, <1>2, <2>1, <2>3, ObeyedIsLast
        <3>4. cmd.kind \in ExecKinds
            <4>1. cmd \in DapCommand
                BY <1>1, <2>1, OneThread, HeadTailProperties DEF TypeOK
            <4>2. QED  BY <2>3, <4>1 DEF DapCommand
        <3>5. next_cmd_op'.kind # "Run" => cmd.kind = "Step"
            <4>1. cmd.kind # "Step" => c = "Continue"
                BY <3>4 DEF Meaning, ExecKinds
            <4>2. c = "Continue" => next_cmd_op'.kind = "Run"
                BY <3>2 DEF Ctx!ParseCmdOp, Ctx!RunUntilBreakpoint
            <4>3. QED  BY <4>1, <4>2
        <3>6. QED  BY <1>1, <1>2, <2>1, <3>2, <3>3, <3>5 DEF ReportsAreAskedFor
    <2>4. QED  BY <2>2, <2>3
<1>6. CASE Interpret
    <2>1. phase # "stopped" /\ phase' # "stopped" /\ UNCHANGED <<next_cmd_op, asked>>
        BY <1>6
        DEF Interpret, Ctx!Begin, Ctx!Execute, Ctx!ExecOther, Ctx!ExecMoveLoc, Ctx!ExecStLoc,
            Ctx!ExecCall, Ctx!ExecRet, Ctx!ExecAbort, Ctx!Executed, Ctx!context
    <2>2. QED  BY <1>1, <1>2, <2>1 DEF ReportsAreAskedFor
<1>7. CASE Renew
    <2>1. phase' # "stopped" /\ asked'
        BY <1>7 DEF Renew, Ctx!InstallOnThread
    <2>2. QED  BY <2>1 DEF ReportsAreAskedFor
<1>8. QED  BY <1>2, <1>3, <1>4, <1>5, <1>6, <1>7 DEF ThreadMoves

LEMMA AskedInServer ==
    ASSUME AskInv, ServerNext, WaitedFor'
    PROVE  ReportsAreAskedFor'
<1>1. Base /\ ReportsAreAskedFor /\ TypeOK /\ HandlesFit /\ Attention
    BY DEF AskInv, SysInv, Base, Inv
<1>2. /\ UNCHANGED <<phase, line, reason, next_cmd_op>>
      /\ \/ life = "unborn" /\ phase = "idle"
         \/ Held /\ ~Start /\ ~DropCmdTx /\ ~LetGo
    BY <1>1, ServerHolds, ServerIsServer DEF WaitedFor
<1>3. CASE Start
    <2>1. phase' # "stopped" /\ asked'
        <3>1. phase = "idle"
            <4>1. Vm = "unborn"
                BY <1>1, <1>3, Account DEF Start, StartExecution, SpawnFails, Base
            <4>2. QED  BY <1>1, <4>1 DEF Vm, Base, ThreadFits
        <3>2. QED  BY <1>2, <1>3, <3>1 DEF Start
    <2>2. QED  BY <2>1 DEF ReportsAreAskedFor
<1>4. ASSUME ~Start
      PROVE  Held /\ ~LetGo
    <2>1. UNCHANGED life
        BY <1>4, ServerIsServer
    <2>2. QED  BY <1>2, <2>1 DEF WaitedFor, Held
<1>5. CASE HideEntryStop
    <2>1. /\ TakeStop /\ UNCHANGED threads /\ pc = "first" /\ cmd_tx = event_rx
          /\ Send(cmd_tx, <<SetBreakpointsCmd(pending_breakpoints), ExecCmd("Continue")>>)
        BY <1>1, <1>5 DEF HideEntryStop, RunToBreakpoints, HandlesFit
    <2>2. event_rx = 1 /\ life = "alive" /\ phase = "stopped"
        BY <1>1, <2>1, StopIsTaken
    <2>3. events'[1] = <<>>
        BY <1>1, <2>1, <2>2, OneThread, WaitIsOver DEF Attention, Attended
    <2>4. commands'[1] = <<SetBreakpointsCmd(pending_breakpoints), ExecCmd("Continue")>>
        <3>1. vm[1] = "blocked" /\ commands[1] = <<>>
            BY <1>1, <2>1, <2>2, Account DEF Base, Vm, Attention, Attended
        <3>2. QED  BY <1>1, <2>1, <2>2, <3>1, OneThread DEF Send, TypeOK, None
    <2>5. commands'[1][Len(commands'[1])].kind # "Step"
        BY <2>4 DEF ExecCmd
    <2>6. QED  BY <1>2, <2>2, <2>3, <2>5 DEF ReportsAreAskedFor
<1>6. ASSUME NEW kind \in ExecKinds, ExecInSystem(kind)
      PROVE  ReportsAreAskedFor'
    <2>1. /\ pc = "idle" /\ Held /\ UNCHANGED events /\ Send(1, <<ExecCmd(kind)>>)
          /\ asked' = (kind = "Step")
        <3>1. ~Start
            BY <1>6 DEF ExecInSystem, Exec, Start, StartExecution, SpawnFails, Handling, threads,
                  TypeOK
        <3>2. QED  BY <1>4, <1>6, <3>1 DEF ExecInSystem, Exec, Handling, Held
    <2>2. phase = "stopped"
        BY <1>1, <2>1, HeldThreadRuns
    <2>3. vm[1] = "blocked" /\ events[1] = <<>>
        <3>1. Settled(1)
            BY <1>1, <2>1 DEF Attention, HandlesFit, Held, None
        <3>2. QED  BY <1>1, <2>1, <2>2, <3>1, Account DEF Base, Vm, Held, Settled
    <2>4. commands'[1] = commands[1] \o <<ExecCmd(kind)>> /\ commands[1] \in Seq(DapCommand)
        BY <1>1, <2>1, <2>3, OneThread DEF Send, TypeOK, None
    <2>5. commands'[1][Len(commands'[1])].kind = kind
        BY <2>4 DEF ExecCmd
    <2>6. QED  BY <1>2, <2>1, <2>2, <2>3, <2>5 DEF ReportsAreAskedFor
<1>7. CASE \/ TellStop
           \/ \E raw \in Files \cup Aliases, lines \in SUBSET LineNumbers :
                 SetBreakpointsInSystem(raw, lines)
    BY <1>7
    DEF WaitedFor, TellStop, StopAtEntry, WaitEnds, SetBreakpointsInSystem, SetBreakpoints,
        Handling
<1>8. CASE /\ ServerOnly
           /\ Launch \/ StartFails \/ Started \/ DropEventRx \/ Join \/ ClientGone
           /\ UNCHANGED history
    <2>1. ~Start
        <3>1. Start => pc = "idle" /\ pc' # "idle"
            BY DEF Start, StartExecution, SpawnFails, Handling
        <3>2. pc = "idle" => pc' = "idle"
            BY <1>8 DEF Launch, StartFails, Started, DropEventRx, Join, ClientGone, server
        <3>3. QED  BY <3>1, <3>2
    <2>2. UNCHANGED <<commands, events, pending_breakpoints, asked>>
        BY <1>8
        DEF Launch, StartFails, Started, DropEventRx, Join, ClientGone, server, queues, history
    <2>3. Held /\ pc \in {"starting", "first", "waiting"}
        BY <1>4, <1>8, <2>1
        DEF WaitedFor, Launch, StartFails, Started, DropEventRx, Join, ClientGone, Handling,
            server
    <2>4. QED  BY <1>1, <1>2, <2>2, <2>3 DEF ReportsAreAskedFor, WaitedFor
<1>9. QED
    BY <1>3, <1>4, <1>5, <1>6, <1>7, <1>8 DEF ServerNext

LEMMA AskInvariance == SysSpec => []AskInv
<1>1. SysInit => AskInv
    BY SysInvInit DEF SysInit, Init, AskInv, ReportsAreAskedFor, WaitedFor
<1>2. SysInv /\ [SysNext]_sys_vars => SysInv'
    BY SysInvStep
<1>3. ASSUME AskInv, [SysNext]_sys_vars
      PROVE  ReportsAreAskedFor'
    <2>1. CASE ~WaitedFor'
        BY <2>1 DEF ReportsAreAskedFor
    <2>2. CASE UNCHANGED sys_vars
        BY <1>3, <2>2
        DEF AskInv, ReportsAreAskedFor, WaitedFor, Held, sys_vars, vars, server, queues, thread,
            history
    <2>3. QED
        BY <1>3, <2>1, <2>2, AskedInThread, AskedInServer DEF SysNext, ThreadNext
<1>4. AskInv /\ [SysNext]_sys_vars => AskInv'
    BY <1>2, <1>3 DEF AskInv
<1>5. QED  BY <1>1, <1>4, PTL DEF SysSpec

(* Every stop the client is told of is one it asked for: by a breakpoint   *)
(* it still has there, or by its last command, but for the entry stop and  *)
(* a new worker context (parse_cmd_op, server.rs:193-227).                 *)
THEOREM ClientIsStoppedOnlyAsAsked == SysSpec => ClientStopsAreAskedFor
<1> DEFINE Asked == told' \in StopIds \ {told} =>
                       \/ reason = "Breakpoint" /\ line \in pending_breakpoints
                       \/ reason = "Step" /\ asked
<1>1. ASSUME AskInv, SysNext, told' \in StopIds \ {told}
      PROVE  \/ reason = "Breakpoint" /\ line \in pending_breakpoints
             \/ reason = "Step" /\ asked
    <2>1. Base /\ ReportsAreAskedFor
        BY <1>1 DEF AskInv, SysInv
    <2>2. ~ThreadMoves
        BY <1>1
        DEF ThreadMoves, PassInstruction, ReportStop, ReceiveCommand, SetFree, Interpret,
            Renew, Finish, Exit, Alive, client
    <2>3. told' # told => told' \notin StopIds \/ (TakeStop /\ (StopAtEntry \/ WaitEnds))
        BY <1>1, <2>2, StopIsNoWord
        DEF SysNext, ThreadNext, ServerNext, SetBreakpointsInSystem, Start, HideEntryStop,
            TellStop, ExecInSystem, LetGo, SetBreakpoints, StartExecution, SpawnFails,
            RunToBreakpoints, StopAtEntry, WaitEnds, DropCmdTx, Launch, StartFails, Started,
            Exec, DropEventRx, Join, ClientGone, Tell, client
    <2>4. /\ TakeStop /\ UNCHANGED threads /\ pc \in {"first", "waiting"}
        BY <1>1, <2>3 DEF StopAtEntry, WaitEnds
    <2>5. event_rx = 1 /\ cmd_tx = 1 /\ life = "alive" /\ phase = "stopped"
        BY <2>1, <2>4, StopIsTaken
    <2>6. events[1] # <<>>
        BY <2>4, <2>5 DEF TakeStop, TakeEvent
    <2>7. QED  BY <2>1, <2>4, <2>5, <2>6 DEF ReportsAreAskedFor, WaitedFor, Held
<1>2. AskInv /\ [SysNext]_sys_vars => [Asked]_sys_vars
    BY <1>1
<1>3. QED  BY AskInvariance, <1>2, PTL DEF SysSpec, ClientStopsAreAskedFor
=============================================================================
