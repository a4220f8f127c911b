-------------------------- MODULE DapContextProofs --------------------------
(***************************************************************************)
(* Proofs about DapContext, for every choice of its constants: it keeps    *)
(* its types, and it implements Debuggee.                                  *)
(***************************************************************************)
EXTENDS DapContext, TLAPS

(* What debug_loop does before it decides keeps the types of its state.    *)
LEMMA ReachTypes ==
    ASSUME TypeOK, NEW i \in Instrs, NEW ln \in MaybeLine, Reach(i, ln)
    PROVE  /\ moved_locals' \in [Depths -> FrameLocals]
           /\ last_breakpoint_hit' \in Hits
           /\ instr' \in Instrs
           /\ line' \in MaybeLine
           /\ breakpoints' \in SUBSET Lines
           /\ link' = link
           /\ depth' = depth
           /\ slots' = slots
  <1>1. moved_locals' \in [Depths -> FrameLocals]
    <2>1. CASE i.kind = "MoveLoc"
      <3>1. i.local \in Locals
        BY <2>1 DEF Instrs
      <3>2. moved_locals' =
              [moved_locals EXCEPT ![depth][i.local] = slots[depth][i.local]]
        BY <2>1 DEF Reach, MovedLocalsAfter
      <3>3. slots[depth][i.local] \in MaybeValue
        BY <3>1 DEF TypeOK, FrameLocals
      <3> QED BY <3>1, <3>2, <3>3 DEF TypeOK, FrameLocals
    <2>2. CASE i.kind = "Ret"
      <3>1. NothingHeld \in FrameLocals
        BY DEF NothingHeld, FrameLocals, MaybeValue
      <3> QED BY <2>2, <3>1 DEF Reach, MovedLocalsAfter, TypeOK
    <2>3. CASE i.kind \notin {"MoveLoc", "Ret"}
      BY <2>3 DEF Reach, MovedLocalsAfter, TypeOK
    <2> QED BY <2>1, <2>2, <2>3
  <1>2. last_breakpoint_hit' \in Hits
    <2>1. NoHit \in Hits
      BY DepthAssumption DEF NoHit, Hits, MaybeLine, Depths
    <2>2. [line |-> ln, depth |-> depth] \in Hits
      BY DEF Hits, TypeOK
    <2> QED BY <2>1, <2>2 DEF Reach, LastHitAfter, TypeOK
  <1> QED BY <1>1, <1>2 DEF Reach, TypeOK, frames

LEMMA OpTypes ==
    ASSUME NEW d \in Depths, NEW ln \in MaybeLine
    PROVE  /\ RunUntilBreakpoint \in DebuggerOps
           /\ \A cmd \in Commands : ParseCmdOp(cmd, d, ln) \in DebuggerOps
  <1>1. RunUntilBreakpoint \in DebuggerOps
    BY DepthAssumption DEF RunUntilBreakpoint, DebuggerOps, MaybeLine, Depths
  <1>2. StepInto(ln) \in DebuggerOps /\ StepOver(d, ln) \in DebuggerOps
    BY DepthAssumption DEF StepInto, StepOver, DebuggerOps, Depths
  <1>3. d # 0 => StepOut(d - 1) \in DebuggerOps
    BY DepthAssumption DEF StepOut, DebuggerOps, MaybeLine, Depths
  <1> QED BY <1>1, <1>2, <1>3 DEF Commands, ParseCmdOp

-----------------------------------------------------------------------------
(* A call is only fetched where the stack has room for it; the bound on    *)
(* the depth is part of what makes TypeOK inductive.                       *)
CallFits == phase # "fetch" /\ instr.kind = "Call" => depth < MaxDepth

TypeInv == TypeOK /\ CallFits

(* The fields of a new context.                                            *)
LEMMA NewContextTypes ==
    /\ StepInto(NoLine) \in DebuggerOps
    /\ EmptySlots \in [Depths -> FrameLocals]
    /\ NoHit \in Hits
    /\ 0 \in Depths
  <1>1. StepInto(NoLine) \in DebuggerOps
    BY DepthAssumption DEF StepInto, DebuggerOps, MaybeLine, Depths
  <1>2. EmptySlots \in [Depths -> FrameLocals]
    BY DEF EmptySlots, NothingHeld, FrameLocals, MaybeValue
  <1>3. NoHit \in Hits /\ 0 \in Depths
    BY DepthAssumption DEF NoHit, Hits, MaybeLine, Depths
  <1> QED BY <1>1, <1>2, <1>3

LEMMA TypeInit == Init => TypeInv
  <1> SUFFICES ASSUME Init PROVE TypeInv
    OBVIOUS
  <1>1. TypeOK
    BY NewContextTypes DEF Init, TypeOK, MaybeLine
  <1>2. CallFits
    BY DEF Init, CallFits, NoInstr
  <1> QED BY <1>1, <1>2 DEF TypeInv

LEMMA TypeStep == TypeInv /\ [Next]_vars => TypeOK'
  <1> SUFFICES ASSUME TypeOK, CallFits, [Next]_vars PROVE TypeOK'
    BY DEF TypeInv
  <1>1. ASSUME NEW i \in Instrs, NEW ln \in MaybeLine, LetRun(i, ln)
        PROVE  TypeOK'
    BY <1>1, ReachTypes DEF LetRun, TypeOK
  <1>2. ASSUME NEW i \in Instrs, NEW ln \in MaybeLine, Report(i, ln)
        PROVE  TypeOK'
    <2>1. next_cmd_op' \in DebuggerOps
      BY <1>2, OpTypes DEF Report, TypeOK
    <2>2. reason' \in {"None", "Step", "Breakpoint"}
      BY <1>2 DEF Report
    <2>3. phase' = "stopped" /\ Reach(i, ln)
      BY <1>2 DEF Report
    <2> QED BY <2>1, <2>2, <2>3, ReachTypes DEF TypeOK
  <1>3. ASSUME NEW i \in Instrs, NEW ln \in MaybeLine, ReportFails(i, ln)
        PROVE  TypeOK'
    <2>1. next_cmd_op' \in DebuggerOps
      BY <1>3, OpTypes DEF ReportFails, TypeOK
    <2> QED BY <1>3, <2>1, ReachTypes DEF ReportFails, TypeOK
  <1>4. ASSUME NEW S \in SUBSET Lines, RecvSetBreakpoints(S)
        PROVE  TypeOK'
    BY <1>4 DEF RecvSetBreakpoints, TypeOK, frames
  <1>5. ASSUME NEW cmd \in Commands, RecvCommand(cmd)
        PROVE  TypeOK'
    <2>1. ParseCmdOp(cmd, depth, line) \in DebuggerOps
      BY OpTypes DEF TypeOK
    <2> QED BY <1>5, <2>1 DEF RecvCommand, LeaveStop, TypeOK, frames
  <1>6. CASE RecvDisconnected
    <2>1. RunUntilBreakpoint \in DebuggerOps
      BY OpTypes DEF TypeOK
    <2> QED BY <1>6, <2>1 DEF RecvDisconnected, LeaveStop, TypeOK, frames
  <1>7. ASSUME NEW args \in FrameLocals, Begin(args)
        PROVE  TypeOK'
    BY <1>7 DEF Begin, TypeOK, context
  <1>8. CASE Execute
    <2>1. CASE ExecOther
      BY <2>1 DEF ExecOther, Executed, TypeOK, context, frames, MaybeLine
    <2>2. CASE ExecMoveLoc
      <3>1. slots' \in [Depths -> FrameLocals]
        BY <2>2 DEF ExecMoveLoc, TypeOK, FrameLocals, MaybeValue
      <3> QED BY <2>2, <3>1 DEF ExecMoveLoc, Executed, TypeOK, context, MaybeLine
    <2>3. ASSUME NEW v \in Values, ExecStLoc(v) PROVE TypeOK'
      <3>1. slots' \in [Depths -> FrameLocals]
        BY <2>3 DEF ExecStLoc, TypeOK, FrameLocals, MaybeValue
      <3> QED BY <2>3, <3>1 DEF ExecStLoc, Executed, TypeOK, context, MaybeLine
    <2>4. ASSUME NEW args \in FrameLocals, ExecCall(args) PROVE TypeOK'
      <3>1. depth + 1 \in Depths
        BY <2>4, DepthAssumption DEF ExecCall, Executed, CallFits, TypeOK, Depths
      <3>2. slots' \in [Depths -> FrameLocals]
        BY <2>4 DEF ExecCall, TypeOK
      <3> QED BY <2>4, <3>1, <3>2 DEF ExecCall, Executed, TypeOK, context, MaybeLine
    <2>5. CASE ExecRet
      <3>1. NothingHeld \in FrameLocals
        BY DEF NothingHeld, FrameLocals, MaybeValue
      <3>2. slots' \in [Depths -> FrameLocals]
        BY <2>5, <3>1 DEF ExecRet, TypeOK
      <3>3. depth' \in Depths /\ phase' \in {"idle", "fetch"}
        BY <2>5, DepthAssumption DEF ExecRet, TypeOK, Depths
      <3> QED BY <2>5, <3>2, <3>3 DEF ExecRet, Executed, TypeOK, context, MaybeLine
    <2>6. CASE ExecAbort
      <3>1. EmptySlots \in [Depths -> FrameLocals] /\ 0 \in Depths
        BY DepthAssumption
           DEF EmptySlots, NothingHeld, FrameLocals, MaybeValue, Depths
      <3> QED BY <2>6, <3>1 DEF ExecAbort, Executed, TypeOK, context, MaybeLine
    <2> QED BY <1>8, <2>1, <2>2, <2>3, <2>4, <2>5, <2>6 DEF Execute
  <1>9. CASE DropCmdTx
    BY <1>9 DEF DropCmdTx, TypeOK, context, frames
  <1>10. CASE DropEventRx
    BY <1>10 DEF DropEventRx, TypeOK, context, frames
  <1>11. CASE InstallOnThread
    BY <1>11, NewContextTypes DEF InstallOnThread, TypeOK, frames
  <1>12. CASE UNCHANGED vars
    BY <1>12 DEF vars, context, frames, TypeOK
  <1> QED
    BY <1>1, <1>2, <1>3, <1>4, <1>5, <1>6, <1>7, <1>8, <1>9, <1>10, <1>11, <1>12
       DEF Next

LEMMA CallFitsStep == TypeInv /\ [Next]_vars => CallFits'
  <1> SUFFICES ASSUME TypeOK, CallFits, [Next]_vars PROVE CallFits'
    BY DEF TypeInv
  <1>1. ASSUME NEW i \in Instrs, NEW ln \in MaybeLine, Reach(i, ln)
        PROVE  CallFits'
    BY <1>1 DEF Reach, CallFits, frames
  <1>2. ASSUME NEW S \in SUBSET Lines, RecvSetBreakpoints(S)
        PROVE  CallFits'
    BY <1>2 DEF RecvSetBreakpoints, CallFits, frames
  <1>3. ASSUME NEW op, LeaveStop(op)
        PROVE  CallFits'
    BY <1>3 DEF LeaveStop, CallFits, frames
  <1>4. ASSUME NEW args \in FrameLocals, Begin(args)
        PROVE  CallFits'
    BY <1>4 DEF Begin, CallFits
  <1>5. CASE Executed
    BY <1>5 DEF Executed, CallFits, NoInstr
  <1>6. CASE InstallOnThread \/ DropCmdTx \/ DropEventRx \/ UNCHANGED vars
    BY <1>6 DEF InstallOnThread, DropCmdTx, DropEventRx, vars, CallFits, frames
  <1> QED
    BY <1>1, <1>2, <1>3, <1>4, <1>5, <1>6
       DEF Next, LetRun, Report, ReportFails, RecvCommand, RecvDisconnected,
           Execute, ExecOther, ExecMoveLoc, ExecStLoc, ExecCall, ExecRet, ExecAbort

(* Every state of every execution is well typed; above all, a StepOut      *)
(* given in the outermost frame never yields a depth below zero.           *)
THEOREM TypeCorrect == SafetySpec => []TypeOK
  <1>1. Init => TypeInv
    BY TypeInit
  <1>2. TypeInv /\ [Next]_vars => TypeInv'
    BY TypeStep, CallFitsStep DEF TypeInv
  <1>3. TypeInv => TypeOK
    BY DEF TypeInv
  <1> QED BY <1>1, <1>2, <1>3, PTL DEF SafetySpec

-----------------------------------------------------------------------------
(* The refinement.  A step of the context is the step of Debuggee that has *)
(* its name, or leaves Debuggee's state alone.                             *)

LEMMA PromiseStep == TypeInv /\ [Next]_vars => [Promise!Next]_(Promise!vars)
  <1> SUFFICES ASSUME TypeOK, CallFits, [Next]_vars
               PROVE  [Promise!Next]_(Promise!vars)
    BY DEF TypeInv
  <1> USE DEF Promise!vars
  <1>1. ASSUME NEW i \in Instrs, NEW ln \in MaybeLine, LetRun(i, ln)
        PROVE  UNCHANGED Promise!vars
    BY <1>1 DEF LetRun, Reach
  <1>2. ASSUME NEW i \in Instrs, NEW ln \in MaybeLine, Report(i, ln)
        PROVE  Promise!Stop
    <2>1. next_cmd_op # RunUntilBreakpoint \/ breakpoints # {}
      <3>1. BreakpointHit(depth, ln) => breakpoints # {}
        BY DEF BreakpointHit
      <3>2. StepDone(depth, ln) => next_cmd_op # RunUntilBreakpoint
        BY DEF StepDone, RunUntilBreakpoint
      <3> QED BY <1>2, <3>1, <3>2 DEF Report, ShouldStop
    <2> QED BY <1>2, <2>1 DEF Report, Reach, Promise!Stop
  <1>3. ASSUME NEW i \in Instrs, NEW ln \in MaybeLine, ReportFails(i, ln)
        PROVE  Promise!GiveUp
    BY <1>3 DEF ReportFails, Reach, Promise!GiveUp
  <1>4. ASSUME NEW S \in SUBSET Lines, RecvSetBreakpoints(S)
        PROVE  Promise!SetBreakpoints(S)
    BY <1>4 DEF RecvSetBreakpoints, Promise!SetBreakpoints
  <1>5. ASSUME NEW cmd \in Commands, RecvCommand(cmd)
        PROVE  Promise!Resume(ParseCmdOp(cmd, depth, line) # RunUntilBreakpoint)
    BY <1>5 DEF RecvCommand, LeaveStop, Promise!Resume
  <1>6. CASE RecvDisconnected
    <2>1. Promise!SetFree
      BY <1>6 DEF RecvDisconnected, LeaveStop, Promise!SetFree
    <2> QED BY <2>1 DEF Promise!Next
  <1>7. ASSUME NEW args \in FrameLocals, Begin(args)
        PROVE  UNCHANGED Promise!vars
    BY <1>7 DEF Begin, context
  <1>8. CASE Execute
    <2>1. /\ phase = "execute" /\ phase' \in {"fetch", "idle"}
          /\ UNCHANGED <<context, link>>
      BY <1>8 DEF Execute, Executed, ExecOther, ExecMoveLoc, ExecStLoc,
                  ExecCall, ExecRet, ExecAbort
    <2> QED BY <2>1 DEF context
  <1>9. CASE DropCmdTx
    <2>1. Promise!DropCmdTx
      BY <1>9 DEF DropCmdTx, Promise!DropCmdTx, context
    <2> QED BY <2>1 DEF Promise!Next
  <1>10. CASE DropEventRx
    <2>1. Promise!DropEventRx
      BY <1>10 DEF DropEventRx, Promise!DropEventRx, context
    <2> QED BY <2>1 DEF Promise!Next
  <1>11. CASE InstallOnThread
    <2>1. next_cmd_op' # RunUntilBreakpoint
      BY <1>11 DEF InstallOnThread, StepInto, RunUntilBreakpoint
    <2>2. Promise!Renew
      BY <1>11, <2>1 DEF InstallOnThread, Promise!Renew
    <2> QED BY <2>2 DEF Promise!Next
  <1>12. CASE UNCHANGED vars
    BY <1>12 DEF vars, context
  <1> QED
    BY <1>1, <1>2, <1>3, <1>4, <1>5, <1>6, <1>7, <1>8, <1>9, <1>10, <1>11, <1>12
       DEF Next, Promise!Next

(* debug_loop keeps the safety half of the promise made in Debuggee: every *)
(* stop has a cause and somebody to report it to, breakpoints change only  *)
(* at a stop, and nothing but a command or the end of the session resumes. *)
THEOREM KeepsPromiseSafely == SafetySpec => Promise!SafetySpec
  <1>1. Init => Promise!Init
    BY DEF Init, Promise!Init, StepInto, RunUntilBreakpoint
  <1>2. Init => TypeInv
    BY TypeInit
  <1>3. TypeInv /\ [Next]_vars => TypeInv'
    BY TypeStep, CallFitsStep DEF TypeInv
  <1>4. TypeInv /\ [Next]_vars => [Promise!Next]_(Promise!vars)
    BY PromiseStep
  <1> QED
    BY <1>1, <1>2, <1>3, <1>4, PTL DEF SafetySpec, Promise!SafetySpec
=============================================================================
