------------------------- MODULE DapContextHistory -------------------------
(***************************************************************************)
(* What the user of the debugger is owed, over the history of one thread.  *)
(* The module adds auxiliary variables to DapContext - every step is a     *)
(* step of DapContext - and states the properties that need them: a        *)
(* breakpoint is neither missed nor reported twice, a step ends where the  *)
(* user expects, and the values shown at a stop are the frame's own.       *)
(*                                                                         *)
(* A visit <<d, ln>> is the time the frame at depth d spends on line ln,   *)
(* the calls it makes from there included.  It ends when that frame goes   *)
(* to another line or is left.  (An execution that starts on the very line *)
(* on which the last one ended continues the visit, which is what          *)
(* "consecutive bytecode instructions" amounts to across executions.)      *)
(***************************************************************************)
EXTENDS DapContext

VARIABLES
    stops,    \* visits in which the user was stopped on the line
    hits,     \* visits in which a breakpoint was reported on the line
    nested,   \* visits whose last report was followed by one further down
    orphaned, \* the slot's breakpoint was taken away since it was hit
    asked,    \* the step the last command asked for, as a DebuggerOp
    held,     \* per depth, the last value each local of the frame held
    stale     \* <<d, x>> for which an aborted frame left a moved value

history == <<stops, hits, nested, orphaned, asked, held, stale>>
hvars   == <<vars, history>>

Visits == Depths \X Lines

HTypeOK ==
    /\ TypeOK
    /\ stops \in SUBSET Visits
    /\ hits \in SUBSET Visits
    /\ nested \in SUBSET Visits
    /\ orphaned \in BOOLEAN
    /\ asked \in DebuggerOps
    /\ held \in [Depths -> FrameLocals]
    /\ stale \in SUBSET (Depths \X Locals)

HInit ==
    /\ Init
    /\ stops = {}
    /\ hits = {}
    /\ nested = {}
    /\ orphaned = FALSE
    /\ asked = StepInto(NoLine)
    /\ held = EmptySlots
    /\ stale = {}

-----------------------------------------------------------------------------
(* The visits that still last when the frame at depth d is on line ln.     *)
Lasting(visits, d, ln) ==
    {v \in visits : v[1] < d \/ (v[1] = d /\ v[2] = ln)}

(* Moved values are the frame's own from the first MoveLoc on, and gone    *)
(* with the frame's Ret.                                                   *)
StaleAfter(i) ==
    CASE i.kind = "MoveLoc" -> stale \ {<<depth, i.local>>}
      [] i.kind = "Ret" -> {s \in stale : s[1] # depth}
      [] OTHER -> stale

(* A slot emptied or filled anew is no longer an orphan's.                 *)
KeepOrphan == orphaned' = (orphaned /\ last_breakpoint_hit' = last_breakpoint_hit)

HLetRun(i, ln) ==
    /\ LetRun(i, ln)
    /\ stops' = Lasting(stops, depth, ln)
    /\ hits' = Lasting(hits, depth, ln)
    /\ nested' = Lasting(nested, depth, ln)
    /\ stale' = StaleAfter(i)
    /\ KeepOrphan
    /\ UNCHANGED <<asked, held>>

HReport(i, ln) ==
    /\ Report(i, ln)
    /\ stops' = Lasting(stops, depth, ln)
                  \cup (IF ln = NoLine THEN {} ELSE {<<depth, ln>>})
    /\ IF reason' = "Breakpoint"
       THEN /\ hits' = Lasting(hits, depth, ln) \cup {<<depth, ln>>}
            /\ nested' = {v \in Lasting(hits, depth, ln) : v[1] < depth}
       ELSE /\ hits' = Lasting(hits, depth, ln)
            /\ nested' = Lasting(nested, depth, ln)
    /\ stale' = StaleAfter(i)
    /\ KeepOrphan
    /\ UNCHANGED <<asked, held>>

HReportFails(i, ln) ==
    /\ ReportFails(i, ln)
    /\ stops' = Lasting(stops, depth, ln)
    /\ hits' = Lasting(hits, depth, ln)
    /\ nested' = Lasting(nested, depth, ln)
    /\ asked' = RunUntilBreakpoint
    /\ stale' = StaleAfter(i)
    /\ KeepOrphan
    /\ UNCHANGED held

HRecvSetBreakpoints(S) ==
    /\ RecvSetBreakpoints(S)
    /\ orphaned' = (/\ last_breakpoint_hit # NoHit
                    /\ orphaned \/ last_breakpoint_hit.line \notin S)
    /\ UNCHANGED <<stops, hits, nested, asked, held, stale>>

(* What the user asked for is told by the command, the frame and the line  *)
(* it was given on.  Stepping out of the outermost frame asks for nothing. *)
HRecvCommand(cmd) ==
    /\ RecvCommand(cmd)
    /\ asked' = CASE cmd = "StepInto" -> StepInto(line)
                  [] cmd = "StepOver" -> StepOver(depth, line)
                  [] cmd = "StepOut" /\ depth > 0 -> StepOut(depth - 1)
                  [] OTHER -> RunUntilBreakpoint
    /\ UNCHANGED <<stops, hits, nested, orphaned, held, stale>>

HRecvDisconnected ==
    /\ RecvDisconnected
    /\ asked' = RunUntilBreakpoint
    /\ UNCHANGED <<stops, hits, nested, orphaned, held, stale>>

HBegin(args) ==
    /\ Begin(args)
    /\ held' = [held EXCEPT ![0] = args]
    /\ UNCHANGED <<stops, hits, nested, orphaned, asked, stale>>

HExecOther   == ExecOther /\ UNCHANGED history
HExecMoveLoc == ExecMoveLoc /\ UNCHANGED history

HExecStLoc(v) ==
    /\ ExecStLoc(v)
    /\ held' = [held EXCEPT ![depth][instr.local] = v]
    /\ UNCHANGED <<stops, hits, nested, orphaned, asked, stale>>

HExecCall(args) ==
    /\ ExecCall(args)
    /\ held' = [held EXCEPT ![depth + 1] = args]
    /\ UNCHANGED <<stops, hits, nested, orphaned, asked, stale>>

HExecRet ==
    /\ ExecRet
    /\ held' = [held EXCEPT ![depth] = NothingHeld]
    /\ UNCHANGED <<stops, hits, nested, orphaned, asked, stale>>

HExecAbort ==
    /\ ExecAbort
    /\ held' = EmptySlots
    /\ stale' = {s \in Depths \X Locals : moved_locals[s[1]][s[2]] # Invalid}
    /\ UNCHANGED <<stops, hits, nested, orphaned, asked>>

(* The new context knows of no visit and has nothing saved.                *)
HInstallOnThread ==
    /\ InstallOnThread
    /\ stops' = {}
    /\ hits' = {}
    /\ nested' = {}
    /\ stale' = {}
    /\ asked' = StepInto(NoLine)
    /\ orphaned' = FALSE
    /\ UNCHANGED held

HDropCmdTx   == DropCmdTx /\ UNCHANGED history
HDropEventRx == DropEventRx /\ UNCHANGED history

HNext ==
    \/ \E i \in Instrs, ln \in MaybeLine :
          HLetRun(i, ln) \/ HReport(i, ln) \/ HReportFails(i, ln)
    \/ \E S \in SUBSET Lines : HRecvSetBreakpoints(S)
    \/ \E cmd \in Commands : HRecvCommand(cmd)
    \/ HRecvDisconnected
    \/ \E args \in FrameLocals : HBegin(args)
    \/ HExecOther
    \/ HExecMoveLoc
    \/ \E v \in Values : HExecStLoc(v)
    \/ \E args \in FrameLocals : HExecCall(args)
    \/ HExecRet
    \/ HExecAbort
    \/ HInstallOnThread
    \/ HDropCmdTx
    \/ HDropEventRx

HSpec == HInit /\ [][HNext]_hvars

FairHSpec == HSpec /\ WF_vars(RecvDisconnected)

-----------------------------------------------------------------------------
(* Breakpoints.                                                            *)

(* The one place where a breakpoint may pass unreported: it was hit on     *)
(* this line at this depth, taken away and set again, and the slot still   *)
(* names it.                                                               *)
SetAgain == orphaned /\ last_breakpoint_hit = [line |-> line, depth |-> depth]

(* No instruction of a line with a breakpoint runs before the user was     *)
(* stopped in that visit of the line, whatever was hit, stepped over or    *)
(* returned from before, and however breakpoints were set and taken away   *)
(* meanwhile.  (check_if_breakpoint_got_hit has a single slot for          *)
(* suppression, and a new set leaves it alone, dap_context.rs:132: hence   *)
(* SetAgain, see the README.)                                              *)
NoMissedBreakpoint ==
    phase = "execute" /\ link # "down" /\ line \in breakpoints
        => <<depth, line>> \in stops \/ SetAgain

(* "Suppress re-triggering the same breakpoint on consecutive bytecode     *)
(* instructions that map to the same source line" (dap_context.rs:203):    *)
(* a breakpoint is reported twice in one visit of its line only if another *)
(* one was reported in a call made from the line.                          *)
DuplicateHitOnlyAfterNestedHit ==
    [][\A i \in Instrs, ln \in MaybeLine :
          HReport(i, ln) /\ reason' = "Breakpoint" /\ <<depth, ln>> \in hits
              => <<depth, ln>> \in nested]_hvars

(* Why both hold, in terms of the one slot there is: while its breakpoint  *)
(* is set it suppresses a line only in a visit in which the user was       *)
(* stopped there, and it names every visit with a reported breakpoint,     *)
(* except those that a deeper hit has pushed out of it.                    *)
SuppressionIsEarned ==
    link # "down" /\ last_breakpoint_hit # NoHit /\ ~orphaned
        => <<last_breakpoint_hit.depth, last_breakpoint_hit.line>> \in stops

HitIsRemembered ==
    link # "down" =>
        \A v \in hits : \/ last_breakpoint_hit = [line |-> v[2], depth |-> v[1]]
                        \/ v \in nested

SlotInv == SuppressionIsEarned /\ HitIsRemembered

-----------------------------------------------------------------------------
(* Steps.                                                                  *)

(* The user's pending step would have ended on this line.                  *)
StepEndsHere ==
    \/ /\ asked.kind \in {"StepOver", "StepInto"}
       /\ line \notin {NoLine, asked.line}
       /\ asked.kind = "StepOver" => depth <= asked.depth
    \/ asked.kind = "StepOut" /\ depth <= asked.depth

(* A step command is kept to the letter, whatever calls, returns and       *)
(* breakpoints come in between: no instruction runs where the step ends    *)
(* unless the user was stopped there, and a stop that gives a step as its  *)
(* reason is at a place where the step asked for ends, not one left over   *)
(* from an earlier command (next_cmd_op, dap_context.rs:237-275).          *)
StepEndsWhereAsked ==
    /\ phase = "execute" => ~StepEndsHere
    /\ phase = "stopped" /\ reason = "Step" => StepEndsHere

-----------------------------------------------------------------------------
(* Moved locals.                                                           *)

(* At a stop every local of every frame on the stack shows the last value  *)
(* it held, though the VM's Locals have lost the moved ones.  Two cases    *)
(* are excepted: a stop on a Ret, where they are forgotten already (see    *)
(* NothingMovedIsLost), and a frame at a depth where an aborted execution  *)
(* has left its own, "those" being cleared "on `Ret` later" only           *)
(* (dap_context.rs:184): a local never set here shows what they held.      *)
MovedLocalsFaithful ==
    phase = "stopped" =>
        \A d \in 0 .. depth, x \in Locals :
            \/ Shown(d, x) = held[d][x]
            \/ d = depth /\ instr.kind = "Ret" /\ Shown(d, x) = slots[d][x]
            \/ <<d, x>> \in stale /\ held[d][x] = Invalid

(* "We still want to be able to inspect it in the Variables view, so we    *)
(* save all of those for later" (dap_context.rs:164).                      *)
NothingMovedIsLost ==
    phase = "stopped" =>
        \A d \in 0 .. depth, x \in Locals :
            held[d][x] # Invalid => Shown(d, x) # Invalid
=============================================================================
