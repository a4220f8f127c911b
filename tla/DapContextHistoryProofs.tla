---------------------- MODULE DapContextHistoryProofs ----------------------
(***************************************************************************)
(* Proofs about DapContextHistory, for every choice of its constants: no   *)
(* breakpoint is missed, one is reported twice only after a nested hit,    *)
(* steps end where they were asked to, and moved locals are shown as they  *)
(* were.                                                                   *)
(***************************************************************************)
EXTENDS DapContextHistory, DapContextProofs

(* The auxiliary variables do not change what the context does.            *)
LEMMA HistoryAddsNothing == [HNext]_hvars => [Next]_vars
  BY DEF HNext, Next, hvars, Execute, HLetRun, HReport, HReportFails,
         HRecvSetBreakpoints, HRecvCommand, HRecvDisconnected, HBegin,
         HExecOther, HExecMoveLoc, HExecStLoc, HExecCall, HExecRet, HExecAbort,
         HInstallOnThread, HDropCmdTx, HDropEventRx

LEMMA HTypeInv == HSpec => []TypeInv
  <1>1. HInit => TypeInv
    BY TypeInit DEF HInit
  <1>2. TypeInv /\ [HNext]_hvars => TypeInv'
    BY HistoryAddsNothing, TypeStep, CallFitsStep DEF TypeInv
  <1> QED BY <1>1, <1>2, PTL DEF HSpec

(* Visits stay visits while they last and when one is added.               *)
LEMMA VisitTypes ==
    ASSUME TypeOK, HTypeOK
    PROVE  /\ \A ln \in MaybeLine :
                 /\ Lasting(stops, depth, ln) \in SUBSET Visits
                 /\ Lasting(hits, depth, ln) \in SUBSET Visits
                 /\ Lasting(nested, depth, ln) \in SUBSET Visits
           /\ \A ln \in Lines : <<depth, ln>> \in Visits
  BY DEF Lasting, HTypeOK, TypeOK, Visits

LEMMA StaleTypes ==
    ASSUME TypeOK, HTypeOK, NEW i \in Instrs
    PROVE  StaleAfter(i) \in SUBSET (Depths \X Locals)
  BY DEF StaleAfter, HTypeOK

(* A step of the history keeps the auxiliary variables in their types.     *)
LEMMA HTypeStep == TypeInv /\ HTypeOK /\ [HNext]_hvars => HTypeOK'
  <1> SUFFICES ASSUME TypeInv, HTypeOK, [HNext]_hvars PROVE HTypeOK'
    OBVIOUS
  <1>1. TypeOK /\ TypeOK'
    BY HistoryAddsNothing, TypeStep DEF TypeInv
  <1> USE <1>1
  <1>2. ASSUME NEW i \in Instrs, NEW ln \in MaybeLine, HLetRun(i, ln)
        PROVE  HTypeOK'
    BY <1>2, VisitTypes, StaleTypes DEF HLetRun, KeepOrphan, HTypeOK
  <1>3. ASSUME NEW i \in Instrs, NEW ln \in MaybeLine, HReport(i, ln)
        PROVE  HTypeOK'
    <2>1. /\ stale' \in SUBSET (Depths \X Locals) /\ orphaned' \in BOOLEAN
          /\ UNCHANGED <<asked, held>>
      BY <1>3, StaleTypes DEF HReport, KeepOrphan
    <2>2. stops' \in SUBSET Visits
      <3>1. ln # NoLine => <<depth, ln>> \in Visits
        BY VisitTypes DEF MaybeLine
      <3> QED BY <1>3, <3>1, VisitTypes DEF HReport
    <2>3. hits' \in SUBSET Visits /\ nested' \in SUBSET Visits
      <3>1. reason' = "Breakpoint" => ln \in Lines
        BY <1>3 DEF HReport, Report, BreakpointHit, TypeOK
      <3>2. reason' = "Breakpoint" => <<depth, ln>> \in Visits
        BY <3>1, VisitTypes
      <3> QED BY <1>3, <3>2, VisitTypes DEF HReport
    <2> QED BY <2>1, <2>2, <2>3 DEF HTypeOK
  <1>4. ASSUME NEW i \in Instrs, NEW ln \in MaybeLine, HReportFails(i, ln)
        PROVE  HTypeOK'
    <2>1. RunUntilBreakpoint \in DebuggerOps
      BY OpTypes DEF TypeOK
    <2> QED BY <1>4, <2>1, VisitTypes, StaleTypes DEF HReportFails, KeepOrphan, HTypeOK
  <1>5. ASSUME NEW S \in SUBSET Lines, HRecvSetBreakpoints(S)
        PROVE  HTypeOK'
    BY <1>5 DEF HRecvSetBreakpoints, HTypeOK, TypeOK
  <1>6. ASSUME NEW cmd \in Commands, HRecvCommand(cmd)
        PROVE  HTypeOK'
    <2>1. asked' = ParseCmdOp(cmd, depth, line)
      <3>1. depth > 0 <=> depth # 0
        BY DepthAssumption DEF TypeOK, Depths
      <3> QED BY <1>6, <3>1 DEF HRecvCommand, ParseCmdOp, Commands
    <2>2. asked' \in DebuggerOps
      BY <2>1, OpTypes DEF TypeOK
    <2> QED BY <1>6, <2>2 DEF HRecvCommand, HTypeOK
  <1>7. CASE HRecvDisconnected
    <2>1. RunUntilBreakpoint \in DebuggerOps
      BY OpTypes DEF TypeOK
    <2> QED BY <1>7, <2>1 DEF HRecvDisconnected, HTypeOK
  <1>8. ASSUME NEW args \in FrameLocals, HBegin(args)
        PROVE  HTypeOK'
    BY <1>8, DepthAssumption DEF HBegin, HTypeOK, Depths
  <1>9. ASSUME NEW v \in Values, HExecStLoc(v)
        PROVE  HTypeOK'
    <2>1. held' \in [Depths -> FrameLocals]
      BY <1>9 DEF HExecStLoc, HTypeOK, FrameLocals, MaybeValue
    <2> QED BY <1>9, <2>1 DEF HExecStLoc, HTypeOK
  <1>10. ASSUME NEW args \in FrameLocals, HExecCall(args)
         PROVE  HTypeOK'
    BY <1>10 DEF HExecCall, HTypeOK
  <1>11. CASE HExecRet
    <2>1. NothingHeld \in FrameLocals
      BY DEF NothingHeld, FrameLocals, MaybeValue
    <2> QED BY <1>11, <2>1 DEF HExecRet, HTypeOK
  <1>12. CASE HExecAbort
    BY <1>12, NewContextTypes DEF HExecAbort, HTypeOK
  <1>13. CASE HInstallOnThread
    BY <1>13, NewContextTypes DEF HInstallOnThread, HTypeOK
  <1>14. CASE HExecOther \/ HExecMoveLoc \/ HDropCmdTx \/ HDropEventRx
    BY <1>14
       DEF HExecOther, HExecMoveLoc, HDropCmdTx, HDropEventRx, history, HTypeOK
  <1>15. CASE UNCHANGED hvars
    BY <1>15 DEF hvars, history, HTypeOK
  <1> QED
    BY <1>2, <1>3, <1>4, <1>5, <1>6, <1>7, <1>8, <1>9, <1>10, <1>11, <1>12, <1>13,
       <1>14, <1>15
       DEF HNext

(* The context with its history is type correct: in particular, every      *)
(* breakpoint reported and every stop is on a line of a frame.             *)
THEOREM HTypeCorrect == HSpec => []HTypeOK
  <1>1. HInit => TypeInv /\ HTypeOK
    <2> SUFFICES ASSUME HInit PROVE TypeInv /\ HTypeOK
      OBVIOUS
    <2>1. TypeInv
      BY TypeInit DEF HInit
    <2> QED BY <2>1, NewContextTypes DEF HInit, HTypeOK, TypeInv
  <1>2. TypeInv /\ HTypeOK /\ [HNext]_hvars => HTypeOK'
    BY HTypeStep
  <1> QED BY <1>1, <1>2, HTypeInv, PTL DEF HSpec

-----------------------------------------------------------------------------
(* Breakpoints.  The user was stopped in the visit that the thread is      *)
(* blocked in; the slot names a line with a breakpoint unless that was     *)
(* taken away since; and both history sets hold visits.                    *)
StoppedIsStopped ==
    phase = "stopped" /\ line # NoLine => <<depth, line>> \in stops

SlotLineKnown ==
    last_breakpoint_hit # NoHit /\ ~orphaned
        => last_breakpoint_hit.line \in breakpoints

BreakpointInv ==
    /\ hits \in SUBSET Visits
    /\ StoppedIsStopped
    /\ SlotLineKnown
    /\ SlotInv
    /\ NoMissedBreakpoint

LEMMA BreakpointInvInit == HInit => BreakpointInv
  BY LineAssumption
     DEF HInit, Init, BreakpointInv, StoppedIsStopped, SlotLineKnown, SlotInv,
         SuppressionIsEarned, HitIsRemembered, NoMissedBreakpoint, NoHit

(* A slot that is neither hit nor moved past belongs to a lasting visit.   *)
LEMMA SlotLasts ==
    ASSUME TypeOK, NEW ln \in MaybeLine, ~BreakpointHit(depth, ln),
           last_breakpoint_hit.line \in breakpoints,
           LastHitAfter(depth, ln) = last_breakpoint_hit
    PROVE  \/ last_breakpoint_hit.depth < depth
           \/ last_breakpoint_hit.depth = depth /\ last_breakpoint_hit.line = ln
  <1>1. last_breakpoint_hit # NoHit
    BY LineAssumption DEF TypeOK, NoHit
  <1>2. depth \in Int /\ last_breakpoint_hit.depth \in Int
    BY DepthAssumption DEF TypeOK, Hits, Depths
  <1>3. ~MovedPast(depth, ln)
    BY <1>1 DEF LastHitAfter
  <1> QED BY <1>1, <1>2, <1>3 DEF MovedPast, BreakpointHit, Suppressed

(* What a call of debug_loop that reports no breakpoint leaves in force.   *)
LEMMA QuietReach ==
    ASSUME TypeOK, BreakpointInv, link # "down",
           NEW i \in Instrs, NEW ln \in MaybeLine,
           Reach(i, ln), ~BreakpointHit(depth, ln),
           Lasting(stops, depth, ln) \subseteq stops',
           hits' = Lasting(hits, depth, ln),
           nested' = Lasting(nested, depth, ln),
           KeepOrphan
    PROVE  /\ SlotInv'
           /\ ln \in breakpoints =>
                 \/ <<depth, ln>> \in stops'
                 \/ /\ orphaned'
                    /\ last_breakpoint_hit' = [line |-> ln, depth |-> depth]
  <1>1. /\ breakpoints' = breakpoints
        /\ last_breakpoint_hit' = LastHitAfter(depth, ln)
        /\ last_breakpoint_hit' \in {NoHit, last_breakpoint_hit}
    BY DEF Reach, LastHitAfter
  <1>2. depth \in Int /\ last_breakpoint_hit.depth \in Int
    BY DepthAssumption DEF TypeOK, Hits, Depths
  <1>3. SuppressionIsEarned'
    <2> SUFFICES ASSUME last_breakpoint_hit' # NoHit, ~orphaned'
                 PROVE  <<last_breakpoint_hit'.depth, last_breakpoint_hit'.line>>
                          \in stops'
      BY <1>1 DEF SuppressionIsEarned
    <2>1. /\ last_breakpoint_hit' = last_breakpoint_hit
          /\ last_breakpoint_hit # NoHit /\ ~orphaned
      BY <1>1 DEF KeepOrphan
    <2>2. /\ <<last_breakpoint_hit.depth, last_breakpoint_hit.line>> \in stops
          /\ last_breakpoint_hit.line \in breakpoints
      BY <2>1 DEF BreakpointInv, SlotInv, SuppressionIsEarned, SlotLineKnown
    <2>3. \/ last_breakpoint_hit.depth < depth
          \/ last_breakpoint_hit.depth = depth /\ last_breakpoint_hit.line = ln
      BY <2>1, <2>2, <1>1, SlotLasts
    <2> QED BY <2>1, <2>2, <2>3 DEF Lasting
  <1>4. HitIsRemembered'
    <2> SUFFICES ASSUME NEW v \in Lasting(hits, depth, ln)
                 PROVE  \/ last_breakpoint_hit' = [line |-> v[2], depth |-> v[1]]
                        \/ v \in Lasting(nested, depth, ln)
      BY DEF HitIsRemembered
    <2>1. CASE v \in nested
      BY <2>1 DEF Lasting
    <2>2. CASE last_breakpoint_hit = [line |-> v[2], depth |-> v[1]]
      <3>1. v[1] < depth \/ (v[1] = depth /\ v[2] = ln)
        BY DEF Lasting
      <3>2. ~MovedPast(depth, ln)
        BY <1>2, <2>2, <3>1 DEF MovedPast
      <3> QED BY <1>1, <2>2, <3>2 DEF LastHitAfter
    <2> QED BY <2>1, <2>2 DEF BreakpointInv, SlotInv, HitIsRemembered, Lasting
  <1>5. ASSUME ln \in breakpoints
        PROVE  \/ <<depth, ln>> \in stops'
               \/ orphaned' /\ last_breakpoint_hit' = [line |-> ln, depth |-> depth]
    <2>1. last_breakpoint_hit.line = ln /\ last_breakpoint_hit.depth = depth
      BY <1>5 DEF BreakpointHit, Suppressed
    <2>2. last_breakpoint_hit = [line |-> ln, depth |-> depth]
      BY <2>1, <1>5, LineAssumption DEF TypeOK, Hits, NoHit
    <2>3. CASE orphaned
      <3>1. ~MovedPast(depth, ln)
        BY <1>2, <2>1 DEF MovedPast
      <3> QED BY <1>1, <2>2, <2>3, <3>1 DEF LastHitAfter, KeepOrphan
    <2>4. CASE ~orphaned
      <3>1. <<depth, ln>> \in stops
        BY <1>5, <2>1, <2>4, LineAssumption
           DEF BreakpointInv, SlotInv, SuppressionIsEarned, NoHit, TypeOK
      <3> QED BY <3>1 DEF Lasting
    <2> QED BY <2>3, <2>4
  <1> QED BY <1>3, <1>4, <1>5 DEF SlotInv

LEMMA BreakpointInvStep ==
    TypeInv /\ BreakpointInv /\ [HNext]_hvars => BreakpointInv'
  <1> SUFFICES ASSUME TypeOK, BreakpointInv, [HNext]_hvars
               PROVE  BreakpointInv'
    BY DEF TypeInv
  <1> USE DEF BreakpointInv
  <1>1. ASSUME NEW i \in Instrs, NEW ln \in MaybeLine, HLetRun(i, ln)
        PROVE  BreakpointInv'
    <2>1. /\ Reach(i, ln) /\ ~BreakpointHit(depth, ln)
          /\ stops' = Lasting(stops, depth, ln)
          /\ hits' = Lasting(hits, depth, ln)
          /\ nested' = Lasting(nested, depth, ln)
          /\ KeepOrphan /\ phase' = "execute"
      BY <1>1 DEF HLetRun, LetRun, ShouldStop
    <2>2. /\ breakpoints' = breakpoints /\ link' = link
          /\ depth' = depth /\ line' = ln
      BY <2>1 DEF Reach, frames
    <2>3. hits' \in SUBSET Visits /\ StoppedIsStopped'
      BY <2>1 DEF Lasting, StoppedIsStopped
    <2>4. SlotLineKnown'
      BY <2>1, <2>2 DEF SlotLineKnown, Reach, LastHitAfter, NoHit, KeepOrphan
    <2>5. SlotInv' /\ NoMissedBreakpoint'
      <3>1. CASE link = "down"
        BY <3>1, <2>2 DEF SlotInv, SuppressionIsEarned, HitIsRemembered,
                          NoMissedBreakpoint
      <3>2. CASE link # "down"
        BY <3>2, <2>1, <2>2, QuietReach DEF NoMissedBreakpoint, SetAgain
      <3> QED BY <3>1, <3>2
    <2> QED BY <2>3, <2>4, <2>5
  <1>2. ASSUME NEW i \in Instrs, NEW ln \in MaybeLine, HReport(i, ln)
        PROVE  BreakpointInv'
    <2>1. /\ Reach(i, ln) /\ link # "down" /\ phase' = "stopped"
          /\ KeepOrphan
          /\ stops' = Lasting(stops, depth, ln)
                        \cup (IF ln = NoLine THEN {} ELSE {<<depth, ln>>})
      BY <1>2 DEF HReport, Report
    <2>2. /\ breakpoints' = breakpoints /\ link' = link
          /\ depth' = depth /\ line' = ln
          /\ last_breakpoint_hit' = LastHitAfter(depth, ln)
      BY <2>1 DEF Reach, frames
    <2>3. StoppedIsStopped' /\ NoMissedBreakpoint'
      BY <2>1, <2>2 DEF StoppedIsStopped, NoMissedBreakpoint
    <2>4. SlotLineKnown'
      BY <2>1, <2>2 DEF SlotLineKnown, LastHitAfter, NoHit, BreakpointHit, KeepOrphan
    <2>5. CASE BreakpointHit(depth, ln)
      <3>1. ln \in breakpoints /\ ln # NoLine
        BY <2>5, LineAssumption DEF BreakpointHit, TypeOK
      <3>2. last_breakpoint_hit' = [line |-> ln, depth |-> depth]
        BY <2>2, <2>5 DEF LastHitAfter
      <3>3. /\ hits' = Lasting(hits, depth, ln) \cup {<<depth, ln>>}
            /\ nested' = {v \in Lasting(hits, depth, ln) : v[1] < depth}
        BY <1>2, <2>5 DEF HReport, Report
      <3>4. hits' \in SUBSET Visits
        BY <3>1, <3>3 DEF Lasting, Visits, TypeOK
      <3>5. SuppressionIsEarned'
        BY <3>1, <3>2, <2>1 DEF SuppressionIsEarned
      <3>6. HitIsRemembered'
        BY <3>2, <3>3 DEF HitIsRemembered, Lasting
      <3> QED BY <2>3, <2>4, <3>4, <3>5, <3>6 DEF SlotInv
    <2>6. CASE ~BreakpointHit(depth, ln)
      <3>1. /\ hits' = Lasting(hits, depth, ln)
            /\ nested' = Lasting(nested, depth, ln)
        BY <1>2, <2>6 DEF HReport, Report
      <3>2. hits' \in SUBSET Visits
        BY <3>1 DEF Lasting
      <3>3. SlotInv'
        BY <2>1, <2>6, <3>1, QuietReach
      <3> QED BY <2>3, <2>4, <3>2, <3>3
    <2> QED BY <2>5, <2>6
  <1>3. ASSUME NEW i \in Instrs, NEW ln \in MaybeLine, HReportFails(i, ln)
        PROVE  BreakpointInv'
    <2>1. /\ Reach(i, ln) /\ link = "down" /\ phase' = "execute"
          /\ hits' = Lasting(hits, depth, ln) /\ KeepOrphan
      BY <1>3 DEF HReportFails, ReportFails
    <2>2. breakpoints' = breakpoints /\ link' = "down"
      BY <2>1 DEF Reach
    <2>3. SlotLineKnown'
      BY <2>1, <2>2
         DEF Reach, SlotLineKnown, LastHitAfter, NoHit, BreakpointHit, KeepOrphan
    <2> QED
      BY <2>1, <2>2, <2>3
         DEF Lasting, StoppedIsStopped, SlotInv, SuppressionIsEarned,
             HitIsRemembered, NoMissedBreakpoint
  <1>4. ASSUME NEW S \in SUBSET Lines, HRecvSetBreakpoints(S)
        PROVE  BreakpointInv'
    <2>1. /\ phase = "stopped" /\ breakpoints' = S
          /\ orphaned' = (/\ last_breakpoint_hit # NoHit
                          /\ orphaned \/ last_breakpoint_hit.line \notin S)
          /\ UNCHANGED <<last_breakpoint_hit, link, phase, depth, line,
                         stops, hits, nested>>
      BY <1>4 DEF HRecvSetBreakpoints, RecvSetBreakpoints, frames
    <2>2. last_breakpoint_hit # NoHit /\ ~orphaned' => ~orphaned
      BY <2>1
    <2>3. SlotLineKnown'
      BY <2>1 DEF SlotLineKnown, NoHit
    <2> QED
      BY <2>1, <2>2, <2>3
         DEF StoppedIsStopped, SlotInv, SuppressionIsEarned, HitIsRemembered,
             NoMissedBreakpoint
  <1>5. ASSUME NEW op, LeaveStop(op),
               UNCHANGED <<stops, hits, nested, orphaned>>
        PROVE  BreakpointInv'
    <2>1. /\ phase = "stopped" /\ phase' = "execute"
          /\ UNCHANGED <<breakpoints, last_breakpoint_hit, link, depth, line>>
      BY <1>5 DEF LeaveStop, frames
    <2>2. line \in breakpoints => <<depth, line>> \in stops
      BY <2>1, LineAssumption DEF StoppedIsStopped, TypeOK
    <2> QED
      BY <1>5, <2>1, <2>2
         DEF StoppedIsStopped, SlotLineKnown, SlotInv, SuppressionIsEarned,
             HitIsRemembered, NoMissedBreakpoint
  <1>6. ASSUME phase' \in {"idle", "fetch"},
               UNCHANGED <<context, link, stops, hits, nested, orphaned>>
        PROVE  BreakpointInv'
    BY <1>6
       DEF context, StoppedIsStopped, SlotLineKnown, SlotInv,
           SuppressionIsEarned, HitIsRemembered, NoMissedBreakpoint, SetAgain
  <1>7. ASSUME link' # "down" => link # "down",
               UNCHANGED <<context, phase, depth, line, stops, hits, nested, orphaned>>
        PROVE  BreakpointInv'
    BY <1>7
       DEF context, StoppedIsStopped, SlotLineKnown, SlotInv,
           SuppressionIsEarned, HitIsRemembered, NoMissedBreakpoint, SetAgain
  <1>8. ASSUME NEW args \in FrameLocals, HBegin(args)
        PROVE  BreakpointInv'
    BY <1>6, <1>8 DEF HBegin, Begin
  <1>9. CASE HDropCmdTx \/ HDropEventRx \/ UNCHANGED hvars
    BY <1>7, <1>9 DEF HDropCmdTx, HDropEventRx, DropCmdTx, DropEventRx, hvars,
                      vars, history, frames
  <1>10. CASE HExecOther \/ HExecMoveLoc \/ HExecRet \/ HExecAbort
    BY <1>6, <1>10 DEF HExecOther, HExecMoveLoc, HExecRet, HExecAbort, ExecOther,
                       ExecMoveLoc, ExecRet, ExecAbort, Executed, history
  <1>11. ASSUME NEW v \in Values, HExecStLoc(v)
         PROVE  BreakpointInv'
    BY <1>6, <1>11 DEF HExecStLoc, ExecStLoc, Executed
  <1>12. ASSUME NEW args \in FrameLocals, HExecCall(args)
         PROVE  BreakpointInv'
    BY <1>6, <1>12 DEF HExecCall, ExecCall, Executed
  <1>13. ASSUME NEW cmd \in Commands, HRecvCommand(cmd)
         PROVE  BreakpointInv'
    BY <1>5, <1>13 DEF HRecvCommand, RecvCommand
  <1>14. CASE HRecvDisconnected
    BY <1>5, <1>14 DEF HRecvDisconnected, RecvDisconnected
  <1>15. CASE HInstallOnThread
    BY <1>15, LineAssumption
       DEF HInstallOnThread, InstallOnThread, StoppedIsStopped, SlotLineKnown,
           SlotInv, SuppressionIsEarned, HitIsRemembered, NoMissedBreakpoint, NoHit
  <1> QED
    BY <1>1, <1>2, <1>3, <1>4, <1>8, <1>9, <1>10, <1>11, <1>12, <1>13, <1>14, <1>15
       DEF HNext

(* No instruction of a line with a breakpoint runs while the session       *)
(* listens unless the user was stopped on that line in that visit, or the  *)
(* breakpoint was hit there before, taken away and set again.              *)
THEOREM NoBreakpointIsMissed == HSpec => []NoMissedBreakpoint
  <1>1. HInit => BreakpointInv
    BY BreakpointInvInit
  <1>2. TypeInv /\ BreakpointInv /\ [HNext]_hvars => BreakpointInv'
    BY BreakpointInvStep
  <1>3. BreakpointInv => NoMissedBreakpoint
    BY DEF BreakpointInv
  <1> QED BY <1>1, <1>2, <1>3, HTypeInv, PTL DEF HSpec

(* The one slot is enough for that: it only ever suppresses a line in a    *)
(* visit in which the user was stopped there.                              *)
THEOREM SlotIsSound == HSpec => []SlotInv
  <1>1. HInit => BreakpointInv
    BY BreakpointInvInit
  <1>2. TypeInv /\ BreakpointInv /\ [HNext]_hvars => BreakpointInv'
    BY BreakpointInvStep
  <1>3. BreakpointInv => SlotInv
    BY DEF BreakpointInv
  <1> QED BY <1>1, <1>2, <1>3, HTypeInv, PTL DEF HSpec

(* A breakpoint is reported a second time in one visit only after another  *)
(* one was reported in a call made from the line.                          *)
THEOREM DuplicatesAreNested == HSpec => DuplicateHitOnlyAfterNestedHit
  <1> DEFINE OnlyNested ==
        \A i \in Instrs, ln \in MaybeLine :
           HReport(i, ln) /\ reason' = "Breakpoint" /\ <<depth, ln>> \in hits
               => <<depth, ln>> \in nested
  <1>1. HInit => BreakpointInv
    BY BreakpointInvInit
  <1>2. TypeInv /\ BreakpointInv /\ [HNext]_hvars => BreakpointInv'
    BY BreakpointInvStep
  <1>3. TypeInv /\ BreakpointInv => OnlyNested
    <2> SUFFICES ASSUME TypeInv, BreakpointInv,
                        NEW i \in Instrs, NEW ln \in MaybeLine,
                        HReport(i, ln), reason' = "Breakpoint",
                        <<depth, ln>> \in hits
                 PROVE  <<depth, ln>> \in nested
      OBVIOUS
    <2>1. BreakpointHit(depth, ln) /\ link # "down"
      BY DEF HReport, Report
    <2>2. ln # NoLine
      BY <2>1, LineAssumption DEF BreakpointHit, TypeInv, TypeOK
    <2>3. last_breakpoint_hit # [line |-> ln, depth |-> depth]
      BY <2>1, <2>2 DEF BreakpointHit, Suppressed, NoHit
    <2> QED BY <2>1, <2>3 DEF BreakpointInv, SlotInv, HitIsRemembered
  <1>4. TypeInv /\ BreakpointInv /\ [HNext]_hvars => [OnlyNested]_hvars
    BY <1>3
  <1> QED
    BY <1>1, <1>2, <1>4, HTypeInv, PTL DEF HSpec, DuplicateHitOnlyAfterNestedHit

-----------------------------------------------------------------------------
(* Steps.  Whenever the thread is not blocked, its next_cmd_op is what the *)
(* last command asked for.                                                 *)
StepInv == (phase # "stopped" => asked = next_cmd_op) /\ StepEndsWhereAsked

LEMMA StepInvStep == TypeInv /\ StepInv /\ [HNext]_hvars => StepInv'
  <1> SUFFICES ASSUME TypeOK, StepInv, [HNext]_hvars PROVE StepInv'
    BY DEF TypeInv
  <1> USE DEF StepInv, StepEndsWhereAsked
  <1>1. ASSUME NEW i \in Instrs, NEW ln \in MaybeLine,
               Reach(i, ln), asked' = asked
        PROVE  StepEndsHere' <=> StepDone(depth, ln)
    <2>1. phase = "fetch" /\ line' = ln /\ depth' = depth
      BY <1>1 DEF Reach, frames
    <2>2. asked = next_cmd_op /\ next_cmd_op \in DebuggerOps
      BY <2>1 DEF TypeOK
    <2>3. next_cmd_op.kind \in {"StepOver", "StepInto", "StepOut", "Run"}
      BY <2>2 DEF DebuggerOps
    <2> QED BY <1>1, <2>1, <2>2, <2>3 DEF StepEndsHere, StepDone, LineChanged
  <1>2. ASSUME NEW i \in Instrs, NEW ln \in MaybeLine, HLetRun(i, ln)
        PROVE  StepInv'
    <2>1. /\ Reach(i, ln) /\ ~StepDone(depth, ln) /\ asked' = asked
          /\ phase = "fetch" /\ phase' = "execute" /\ next_cmd_op' = next_cmd_op
      BY <1>2 DEF HLetRun, LetRun, ShouldStop, Reach
    <2> QED BY <1>1, <2>1
  <1>3. ASSUME NEW i \in Instrs, NEW ln \in MaybeLine, HReport(i, ln)
        PROVE  StepInv'
    <2>1. Reach(i, ln) /\ phase' = "stopped" /\ asked' = asked
      BY <1>3 DEF HReport, Report
    <2>2. reason' = "Step" => StepDone(depth, ln)
      BY <1>3 DEF HReport, Report, ShouldStop
    <2> QED BY <1>1, <2>1, <2>2
  <1>4. ASSUME NEW i \in Instrs, NEW ln \in MaybeLine, HReportFails(i, ln)
        PROVE  StepInv'
    <2>1. /\ phase' = "execute"
          /\ asked' = RunUntilBreakpoint /\ next_cmd_op' = RunUntilBreakpoint
      BY <1>4 DEF HReportFails, ReportFails
    <2> QED BY <2>1 DEF StepEndsHere, RunUntilBreakpoint
  <1>5. ASSUME NEW S \in SUBSET Lines, HRecvSetBreakpoints(S)
        PROVE  StepInv'
    BY <1>5 DEF HRecvSetBreakpoints, RecvSetBreakpoints, frames, StepEndsHere
  <1>6. ASSUME NEW cmd \in Commands, HRecvCommand(cmd)
        PROVE  StepInv'
    <2>1. /\ phase' = "execute" /\ line' = line /\ depth' = depth
          /\ next_cmd_op' = ParseCmdOp(cmd, depth, line)
      BY <1>6 DEF HRecvCommand, RecvCommand, LeaveStop, frames
    <2>2. depth \in Nat
      BY DepthAssumption DEF TypeOK, Depths
    <2>3. CASE cmd = "StepInto"
      <3>1. asked' = StepInto(line) /\ next_cmd_op' = StepInto(line)
        BY <1>6, <2>1, <2>3 DEF HRecvCommand, ParseCmdOp
      <3> QED BY <2>1, <3>1 DEF StepEndsHere, StepInto
    <2>4. CASE cmd = "StepOver"
      <3>1. asked' = StepOver(depth, line) /\ next_cmd_op' = StepOver(depth, line)
        BY <1>6, <2>1, <2>4 DEF HRecvCommand, ParseCmdOp
      <3> QED BY <2>1, <3>1 DEF StepEndsHere, StepOver
    <2>5. CASE cmd = "StepOut" /\ depth > 0
      <3>1. asked' = StepOut(depth - 1) /\ next_cmd_op' = StepOut(depth - 1)
        BY <1>6, <2>1, <2>2, <2>5 DEF HRecvCommand, ParseCmdOp
      <3> QED BY <2>1, <2>2, <3>1 DEF StepEndsHere, StepOut
    <2>6. CASE cmd = "Continue" \/ (cmd = "StepOut" /\ ~(depth > 0))
      <3>1. asked' = RunUntilBreakpoint /\ next_cmd_op' = RunUntilBreakpoint
        BY <1>6, <2>1, <2>2, <2>6 DEF HRecvCommand, ParseCmdOp
      <3> QED BY <2>1, <3>1 DEF StepEndsHere, RunUntilBreakpoint
    <2> QED BY <2>3, <2>4, <2>5, <2>6 DEF Commands
  <1>7. CASE HRecvDisconnected
    <2>1. /\ phase' = "execute"
          /\ asked' = RunUntilBreakpoint /\ next_cmd_op' = RunUntilBreakpoint
      BY <1>7 DEF HRecvDisconnected, RecvDisconnected, LeaveStop
    <2> QED BY <2>1 DEF StepEndsHere, RunUntilBreakpoint
  <1>8. ASSUME phase # "stopped", phase' \in {"idle", "fetch"},
               UNCHANGED <<context, asked>>
        PROVE  StepInv'
    BY <1>8 DEF context
  <1>9. ASSUME NEW args \in FrameLocals, HBegin(args)
        PROVE  StepInv'
    BY <1>8, <1>9 DEF HBegin, Begin
  <1>10. CASE HDropCmdTx \/ HDropEventRx \/ UNCHANGED hvars
    BY <1>10 DEF HDropCmdTx, HDropEventRx, DropCmdTx, DropEventRx, hvars,
                 vars, history, frames, context, StepEndsHere
  <1>11. CASE HExecOther \/ HExecMoveLoc \/ HExecRet \/ HExecAbort
    BY <1>8, <1>11 DEF HExecOther, HExecMoveLoc, HExecRet, HExecAbort, ExecOther,
                       ExecMoveLoc, ExecRet, ExecAbort, Executed, history
  <1>12. ASSUME NEW v \in Values, HExecStLoc(v)
         PROVE  StepInv'
    BY <1>8, <1>12 DEF HExecStLoc, ExecStLoc, Executed
  <1>13. ASSUME NEW args \in FrameLocals, HExecCall(args)
         PROVE  StepInv'
    BY <1>8, <1>13 DEF HExecCall, ExecCall, Executed
  <1>14. CASE HInstallOnThread
    BY <1>14 DEF HInstallOnThread, InstallOnThread
  <1> QED
    BY <1>2, <1>3, <1>4, <1>5, <1>6, <1>7, <1>9, <1>10, <1>11, <1>12, <1>13, <1>14
       DEF HNext

(* A step ends at the first place where the user's step ends, and a stop   *)
(* is called a step only there, whatever breakpoints intervene.            *)
THEOREM StepsEndWhereAsked == HSpec => []StepEndsWhereAsked
  <1>1. HInit => StepInv
    BY DEF HInit, Init, StepInv, StepEndsWhereAsked
  <1>2. TypeInv /\ StepInv /\ [HNext]_hvars => StepInv'
    BY StepInvStep
  <1>3. StepInv => StepEndsWhereAsked
    BY DEF StepInv
  <1> QED BY <1>1, <1>2, <1>3, HTypeInv, PTL DEF HSpec

-----------------------------------------------------------------------------
(* Moved locals.  For every depth, whether a frame is there or not: a      *)
(* local that holds a value holds its last one; one that was moved out of  *)
(* has been saved, except under the very frame that is returning; and a    *)
(* value saved for a local that never held one is an aborted frame's.      *)
Pending(kind) == phase \in {"stopped", "execute"} /\ instr.kind = kind

LiveIsHeld ==
    \A d \in Depths, x \in Locals : slots[d][x] # Invalid => held[d][x] = slots[d][x]

MovedIsSaved ==
    \A d \in Depths, x \in Locals :
        slots[d][x] = Invalid /\ held[d][x] # Invalid
            => moved_locals[d][x] = held[d][x] \/ (d = depth /\ Pending("Ret"))

OthersAreStale ==
    \A d \in Depths, x \in Locals :
        held[d][x] = Invalid => moved_locals[d][x] = Invalid \/ <<d, x>> \in stale

NoFrameAbove ==
    \A d \in Depths, x \in Locals :
        d > depth \/ phase = "idle" => held[d][x] = Invalid

MoveIsSaved ==
    Pending("MoveLoc") =>
        /\ instr.local \in Locals
        /\ moved_locals[depth][instr.local] = slots[depth][instr.local]
        /\ slots[depth][instr.local] # Invalid

RetForgets ==
    Pending("Ret") => \A x \in Locals : moved_locals[depth][x] = Invalid

MovedInv ==
    /\ held \in [Depths -> FrameLocals]
    /\ phase = "idle" => depth = 0
    /\ LiveIsHeld
    /\ MovedIsSaved
    /\ OthersAreStale
    /\ NoFrameAbove
    /\ MoveIsSaved
    /\ RetForgets

LEMMA MovedInvInit == HInit => MovedInv
  <1> SUFFICES ASSUME HInit PROVE MovedInv
    OBVIOUS
  <1>1. \A d \in Depths, x \in Locals : EmptySlots[d][x] = Invalid
    BY DEF EmptySlots, NothingHeld
  <1>2. EmptySlots \in [Depths -> FrameLocals]
    BY DEF EmptySlots, NothingHeld, FrameLocals, MaybeValue
  <1> QED
    BY <1>1, <1>2
       DEF HInit, Init, MovedInv, LiveIsHeld, MovedIsSaved, OthersAreStale,
           NoFrameAbove, MoveIsSaved, RetForgets, Pending

(* The bookkeeping at the head of debug_loop.                              *)
LEMMA ReachMoved ==
    ASSUME TypeOK, MovedInv, NEW i \in Instrs, NEW ln \in MaybeLine,
           Reach(i, ln), phase' \in {"stopped", "execute"},
           held' = held, stale' = StaleAfter(i)
    PROVE  MovedInv'
  <1> USE DEF MovedInv
  <1>1. /\ slots' = slots /\ depth' = depth /\ instr' = i
        /\ moved_locals' = MovedLocalsAfter(i)
        /\ phase = "fetch" /\ depth \in Depths
        /\ ~Pending("Ret")
    BY DEF Reach, frames, TypeOK, Pending
  <1>2. LiveIsHeld' /\ NoFrameAbove'
    BY <1>1 DEF LiveIsHeld, NoFrameAbove
  <1>3. CASE i.kind = "MoveLoc"
    <2>1. /\ i.local \in Locals
          /\ slots[depth][i.local] # Invalid
          /\ held[depth][i.local] = slots[depth][i.local]
      BY <1>1, <1>3 DEF Instrs, Reach, LiveIsHeld
    <2>2. \A d \in Depths, x \in Locals :
             moved_locals'[d][x] = IF d = depth /\ x = i.local
                                   THEN slots[depth][i.local]
                                   ELSE moved_locals[d][x]
      BY <1>1, <1>3, <2>1 DEF MovedLocalsAfter, TypeOK, FrameLocals
    <2>3. stale' = stale \ {<<depth, i.local>>}
      BY <1>3 DEF StaleAfter
    <2>4. MovedIsSaved' /\ OthersAreStale'
      BY <1>1, <2>1, <2>2, <2>3 DEF MovedIsSaved, OthersAreStale
    <2>5. MoveIsSaved' /\ RetForgets'
      BY <1>1, <1>3, <2>1, <2>2 DEF MoveIsSaved, RetForgets, Pending
    <2> QED BY <1>1, <1>2, <2>4, <2>5
  <1>4. CASE i.kind = "Ret"
    <2>1. \A d \in Depths, x \in Locals :
             moved_locals'[d][x] = IF d = depth THEN Invalid
                                   ELSE moved_locals[d][x]
      BY <1>1, <1>4 DEF MovedLocalsAfter, TypeOK, NothingHeld
    <2>2. stale' = {s \in stale : s[1] # depth}
      BY <1>4 DEF StaleAfter
    <2>3. Pending("Ret")'
      BY <1>1, <1>4 DEF Pending
    <2>4. MovedIsSaved' /\ OthersAreStale'
      BY <1>1, <2>1, <2>2, <2>3 DEF MovedIsSaved, OthersAreStale
    <2>5. MoveIsSaved' /\ RetForgets'
      BY <1>1, <1>4, <2>1 DEF MoveIsSaved, RetForgets, Pending
    <2> QED BY <1>1, <1>2, <2>4, <2>5
  <1>5. CASE i.kind \notin {"MoveLoc", "Ret"}
    <2>1. moved_locals' = moved_locals /\ stale' = stale
      BY <1>1, <1>5 DEF MovedLocalsAfter, StaleAfter
    <2>2. MovedIsSaved' /\ OthersAreStale'
      BY <1>1, <2>1 DEF MovedIsSaved, OthersAreStale
    <2>3. MoveIsSaved' /\ RetForgets'
      BY <1>1, <1>5 DEF MoveIsSaved, RetForgets, Pending
    <2> QED BY <1>1, <1>2, <2>2, <2>3
  <1> QED BY <1>3, <1>4, <1>5

(* An instruction that gives the frame at depth d the values args.         *)
LEMMA EnterMoved ==
    ASSUME TypeOK, MovedInv, NEW d \in Depths, NEW args \in FrameLocals,
           \A x \in Locals : held[d][x] = Invalid,
           slots' = [slots EXCEPT ![d] = args],
           held' = [held EXCEPT ![d] = args],
           depth' = d, phase' = "fetch",
           \A k \in Depths : k > d => k > depth \/ phase = "idle",
           ~Pending("Ret"),
           UNCHANGED <<moved_locals, stale>>
    PROVE  MovedInv'
  <1> USE DEF MovedInv
  <1>1. \A k \in Depths, x \in Locals :
           /\ slots'[k][x] = IF k = d THEN args[x] ELSE slots[k][x]
           /\ held'[k][x] = IF k = d THEN args[x] ELSE held[k][x]
    BY DEF TypeOK
  <1>2. LiveIsHeld' /\ MovedIsSaved'
    BY <1>1 DEF LiveIsHeld, MovedIsSaved
  <1>3. OthersAreStale'
    BY <1>1 DEF OthersAreStale
  <1>4. NoFrameAbove'
    BY <1>1, DepthAssumption DEF NoFrameAbove, Depths, TypeOK
  <1>5. MoveIsSaved' /\ RetForgets'
    BY DEF MoveIsSaved, RetForgets, Pending
  <1> QED BY <1>2, <1>3, <1>4, <1>5

LEMMA MovedInvStep == TypeInv /\ MovedInv /\ [HNext]_hvars => MovedInv'
  <1> SUFFICES ASSUME TypeOK, CallFits, MovedInv, [HNext]_hvars PROVE MovedInv'
    BY DEF TypeInv
  <1> USE DEF MovedInv
  <1>1. ASSUME NEW i \in Instrs, NEW ln \in MaybeLine,
               HLetRun(i, ln) \/ HReport(i, ln) \/ HReportFails(i, ln)
        PROVE  MovedInv'
    BY <1>1, ReachMoved DEF HLetRun, HReport, HReportFails, LetRun, Report, ReportFails
  <1>2. ASSUME phase' \in {"stopped", "execute"} <=> phase \in {"stopped", "execute"},
               phase' = "idle" <=> phase = "idle",
               UNCHANGED <<moved_locals, depth, slots, instr, held, stale>>
        PROVE  MovedInv'
    BY <1>2 DEF LiveIsHeld, MovedIsSaved, OthersAreStale, NoFrameAbove, MoveIsSaved,
                RetForgets, Pending
  <1>3. ASSUME NEW S \in SUBSET Lines, HRecvSetBreakpoints(S)
        PROVE  MovedInv'
    BY <1>2, <1>3 DEF HRecvSetBreakpoints, RecvSetBreakpoints, frames
  <1>4. ASSUME NEW op, LeaveStop(op), UNCHANGED <<held, stale>>
        PROVE  MovedInv'
    BY <1>2, <1>4 DEF LeaveStop, frames
  <1>5. ASSUME NEW cmd \in Commands, HRecvCommand(cmd)
        PROVE  MovedInv'
    BY <1>4, <1>5 DEF HRecvCommand, RecvCommand
  <1>6. CASE HRecvDisconnected
    BY <1>4, <1>6 DEF HRecvDisconnected, RecvDisconnected
  <1>7. CASE HDropCmdTx \/ HDropEventRx \/ UNCHANGED hvars
    BY <1>2, <1>7 DEF HDropCmdTx, HDropEventRx, DropCmdTx, DropEventRx, hvars,
                      vars, history, frames, context
  <1>8. ASSUME NEW args \in FrameLocals, HBegin(args)
        PROVE  MovedInv'
    <2>1. /\ phase = "idle" /\ phase' = "fetch" /\ depth = 0 /\ depth' = depth
          /\ slots' = [slots EXCEPT ![0] = args]
          /\ held' = [held EXCEPT ![0] = args]
          /\ UNCHANGED <<moved_locals, stale>>
      BY <1>8 DEF HBegin, Begin, context
    <2>2. 0 \in Depths /\ \A x \in Locals : held[0][x] = Invalid
      BY <2>1, DepthAssumption DEF NoFrameAbove, Depths
    <2> QED BY <2>1, <2>2, EnterMoved DEF Pending
  <1>9. CASE HExecOther
    <2>1. /\ phase = "execute" /\ instr.kind = "Other" /\ phase' = "fetch"
          /\ UNCHANGED <<moved_locals, depth, slots, held, stale>>
      BY <1>9 DEF HExecOther, ExecOther, Executed, history, context, frames
    <2> QED
      BY <2>1 DEF LiveIsHeld, MovedIsSaved, OthersAreStale, NoFrameAbove,
                  MoveIsSaved, RetForgets, Pending
  <1>10. CASE HExecMoveLoc
    <2>1. /\ phase = "execute" /\ instr.kind = "MoveLoc" /\ phase' = "fetch"
          /\ slots' = [slots EXCEPT ![depth][instr.local] = Invalid]
          /\ UNCHANGED <<moved_locals, depth, held, stale>>
      BY <1>10 DEF HExecMoveLoc, ExecMoveLoc, Executed, history, context
    <2>2. \A d \in Depths, x \in Locals :
             slots'[d][x] = IF d = depth /\ x = instr.local THEN Invalid
                            ELSE slots[d][x]
      BY <2>1 DEF TypeOK, FrameLocals
    <2>3. MovedIsSaved'
      <3>1. /\ moved_locals[depth][instr.local] = slots[depth][instr.local]
            /\ slots[depth][instr.local] # Invalid /\ instr.local \in Locals
        BY <2>1 DEF MoveIsSaved, Pending
      <3>2. held[depth][instr.local] = slots[depth][instr.local]
        BY <3>1 DEF LiveIsHeld, TypeOK
      <3> QED BY <2>1, <2>2, <3>1, <3>2 DEF MovedIsSaved, Pending
    <2>4. LiveIsHeld'
      BY <2>1, <2>2 DEF LiveIsHeld
    <2> QED
      BY <2>1, <2>3, <2>4
         DEF OthersAreStale, NoFrameAbove, MoveIsSaved, RetForgets, Pending
  <1>11. ASSUME NEW v \in Values, HExecStLoc(v)
         PROVE  MovedInv'
    <2>1. /\ phase = "execute" /\ instr.kind = "StLoc" /\ phase' = "fetch"
          /\ slots' = [slots EXCEPT ![depth][instr.local] = v]
          /\ held' = [held EXCEPT ![depth][instr.local] = v]
          /\ UNCHANGED <<moved_locals, depth, stale>>
      BY <1>11 DEF HExecStLoc, ExecStLoc, Executed, context
    <2>2. \A d \in Depths, x \in Locals :
             /\ slots'[d][x] = IF d = depth /\ x = instr.local THEN v ELSE slots[d][x]
             /\ held'[d][x] = IF d = depth /\ x = instr.local THEN v ELSE held[d][x]
      BY <2>1 DEF TypeOK, FrameLocals
    <2>3. v # Invalid
      BY ValueAssumption
    <2>4. held' \in [Depths -> FrameLocals]
      BY <2>1 DEF FrameLocals, MaybeValue, TypeOK
    <2>5. LiveIsHeld' /\ MovedIsSaved' /\ OthersAreStale'
      BY <2>1, <2>2, <2>3 DEF LiveIsHeld, MovedIsSaved, OthersAreStale, Pending
    <2>6. NoFrameAbove'
      BY <2>1, <2>2, DepthAssumption DEF NoFrameAbove, TypeOK, Depths
    <2> QED BY <2>1, <2>4, <2>5, <2>6 DEF MoveIsSaved, RetForgets, Pending
  <1>12. ASSUME NEW args \in FrameLocals, HExecCall(args)
         PROVE  MovedInv'
    <2>1. /\ phase = "execute" /\ instr.kind = "Call" /\ phase' = "fetch"
          /\ depth' = depth + 1
          /\ slots' = [slots EXCEPT ![depth + 1] = args]
          /\ held' = [held EXCEPT ![depth + 1] = args]
          /\ UNCHANGED <<moved_locals, stale>>
      BY <1>12 DEF HExecCall, ExecCall, Executed, context
    <2>2. depth + 1 \in Depths /\ depth \in Nat
      BY <2>1, DepthAssumption DEF CallFits, TypeOK, Depths
    <2>3. \A x \in Locals : held[depth + 1][x] = Invalid
      BY <2>2 DEF NoFrameAbove
    <2>4. \A k \in Depths : k > depth + 1 => k > depth
      BY <2>2 DEF Depths
    <2> QED BY <2>1, <2>2, <2>3, <2>4, EnterMoved DEF Pending
  <1>13. CASE HExecRet
    <2>1. /\ phase = "execute" /\ Pending("Ret")
          /\ phase' = IF depth = 0 THEN "idle" ELSE "fetch"
          /\ depth' = IF depth = 0 THEN 0 ELSE depth - 1
          /\ slots' = [slots EXCEPT ![depth] = NothingHeld]
          /\ held' = [held EXCEPT ![depth] = NothingHeld]
          /\ UNCHANGED <<moved_locals, stale>>
      BY <1>13 DEF HExecRet, ExecRet, Executed, context, Pending
    <2>2. \A d \in Depths, x \in Locals :
             /\ slots'[d][x] = IF d = depth THEN Invalid ELSE slots[d][x]
             /\ held'[d][x] = IF d = depth THEN Invalid ELSE held[d][x]
      BY <2>1 DEF TypeOK, NothingHeld
    <2>3. NothingHeld \in FrameLocals
      BY DEF NothingHeld, FrameLocals, MaybeValue
    <2>4. held' \in [Depths -> FrameLocals]
      BY <2>1, <2>3
    <2>5. LiveIsHeld' /\ MovedIsSaved'
      BY <2>1, <2>2 DEF LiveIsHeld, MovedIsSaved
    <2>6. OthersAreStale'
      BY <2>1, <2>2 DEF OthersAreStale, RetForgets
    <2>7. NoFrameAbove'
      <3> SUFFICES ASSUME NEW d \in Depths, NEW x \in Locals,
                          d > depth' \/ phase' = "idle"
                   PROVE  held'[d][x] = Invalid
        BY DEF NoFrameAbove
      <3>1. d \in Nat /\ depth \in Nat
        BY DepthAssumption DEF TypeOK, Depths
      <3>2. d > depth \/ d = depth
        BY <2>1, <3>1
      <3>3. d > depth => held[d][x] = Invalid
        BY DEF NoFrameAbove
      <3> QED BY <2>2, <3>2, <3>3
    <2>8. phase' \in {"idle", "fetch"} /\ (phase' = "idle" => depth' = 0)
      BY <2>1
    <2>9. MoveIsSaved' /\ RetForgets'
      BY <2>8 DEF MoveIsSaved, RetForgets, Pending
    <2> QED BY <2>4, <2>5, <2>6, <2>7, <2>8, <2>9
  <1>14. CASE HExecAbort
    <2>1. /\ phase' = "idle" /\ depth' = 0
          /\ slots' = EmptySlots /\ held' = EmptySlots
          /\ stale' = {s \in Depths \X Locals : moved_locals[s[1]][s[2]] # Invalid}
          /\ moved_locals' = moved_locals
      BY <1>14 DEF HExecAbort, ExecAbort, Executed, context
    <2>2. \A d \in Depths, x \in Locals : EmptySlots[d][x] = Invalid
      BY DEF EmptySlots, NothingHeld
    <2>3. EmptySlots \in [Depths -> FrameLocals]
      BY DEF EmptySlots, NothingHeld, FrameLocals, MaybeValue
    <2>4. LiveIsHeld' /\ MovedIsSaved' /\ OthersAreStale' /\ NoFrameAbove'
      BY <2>1, <2>2 DEF LiveIsHeld, MovedIsSaved, OthersAreStale, NoFrameAbove
    <2>5. MoveIsSaved' /\ RetForgets'
      BY <2>1 DEF MoveIsSaved, RetForgets, Pending
    <2>6. held' \in [Depths -> FrameLocals]
      BY <2>1, <2>3
    <2> QED BY <2>1, <2>4, <2>5, <2>6
  <1>15. CASE HInstallOnThread
    <2>1. /\ phase = "idle" /\ phase' = "idle"
          /\ moved_locals' = EmptySlots /\ stale' = {}
          /\ UNCHANGED <<depth, slots, held>>
      BY <1>15 DEF HInstallOnThread, InstallOnThread, frames
    <2>2. \A d \in Depths, x \in Locals :
             EmptySlots[d][x] = Invalid /\ held[d][x] = Invalid
      BY <2>1 DEF EmptySlots, NothingHeld, NoFrameAbove
    <2>3. LiveIsHeld' /\ MovedIsSaved' /\ OthersAreStale' /\ NoFrameAbove'
      BY <2>1, <2>2 DEF LiveIsHeld, MovedIsSaved, OthersAreStale, NoFrameAbove
    <2>4. MoveIsSaved' /\ RetForgets'
      BY <2>1 DEF MoveIsSaved, RetForgets, Pending
    <2> QED BY <2>1, <2>3, <2>4
  <1> QED
    BY <1>1, <1>3, <1>5, <1>6, <1>7, <1>8, <1>9, <1>10, <1>11, <1>12, <1>13, <1>14,
       <1>15
       DEF HNext

(* The variables view is faithful for every frame at every stop, with the  *)
(* two exceptions the property names.                                      *)
THEOREM MovedLocalsAreFaithful == HSpec => []MovedLocalsFaithful
  <1>1. HInit => MovedInv
    BY MovedInvInit
  <1>2. TypeInv /\ MovedInv /\ [HNext]_hvars => MovedInv'
    BY MovedInvStep
  <1>3. TypeInv /\ MovedInv => MovedLocalsFaithful
    <2> SUFFICES ASSUME TypeOK, MovedInv, phase = "stopped",
                        NEW d \in 0 .. depth, NEW x \in Locals
                 PROVE  \/ Shown(d, x) = held[d][x]
                        \/ d = depth /\ instr.kind = "Ret" /\ Shown(d, x) = slots[d][x]
                        \/ <<d, x>> \in stale /\ held[d][x] = Invalid
      BY DEF TypeInv, MovedLocalsFaithful
    <2>1. d \in Depths
      BY DepthAssumption DEF TypeOK, Depths
    <2>2. CASE slots[d][x] # Invalid
      BY <2>1, <2>2 DEF MovedInv, LiveIsHeld, Shown
    <2>3. CASE slots[d][x] = Invalid /\ held[d][x] # Invalid
      BY <2>1, <2>3 DEF MovedInv, MovedIsSaved, RetForgets, Pending, Shown
    <2>4. CASE slots[d][x] = Invalid /\ held[d][x] = Invalid
      BY <2>1, <2>4 DEF MovedInv, OthersAreStale, Shown
    <2> QED BY <2>2, <2>3, <2>4
  <1> QED BY <1>1, <1>2, <1>3, HTypeInv, PTL DEF HSpec
=============================================================================
