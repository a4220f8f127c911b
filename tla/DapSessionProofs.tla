------------------------- MODULE DapSessionProofs -------------------------
(***************************************************************************)
(* Proofs about DapSession, for any files, any number of executions and    *)
(* any bounds: what the server and its threads know of each other, though  *)
(* they share nothing but two channels.                                    *)
(***************************************************************************)
EXTENDS DapSession, SequenceTheorems, TLAPS

(* Which handles the server holds where.                                   *)
HandlesFit ==
    /\ pc \in {"idle", "first", "waiting"} => cmd_tx = event_rx
    /\ pc \in {"starting", "failing"} =>
          cmd_tx # None /\ cmd_tx # event_rx /\ cmd_tx # vm_thread
    /\ pc = "failing" => vm[cmd_tx] = "exited" /\ events[cmd_tx] = <<>>
    /\ pc \in {"first", "waiting"} => event_rx # None
    /\ pc \in {"idle", "first", "waiting"} /\ event_rx # None
          => vm_thread = event_rx \/ vm[event_rx] = "exited"
    /\ pc \notin {"idle", "starting", "failing", "first", "waiting"} => cmd_tx = None
    /\ pc \in {"joining", "ended"} => event_rx = None

(* Nobody knows a thread before it starts.                                 *)
UnbornUnknown ==
    \A g \in Sessions : vm[g] = "unborn" =>
        /\ cmd_tx # g /\ event_rx # g /\ vm_thread # g
        /\ events[g] = <<>> /\ commands[g] = <<>> /\ bps[g] = {}

(* A blocked thread is in a stop, which did away with its step command.    *)
BlockedHasStopped ==
    \A g \in Sessions : vm[g] = "blocked" => stop_no[g] > 0 /\ ~stepping[g]

(* The thread whose events the server is waiting for, or will be.          *)
Attended == IF pc = "starting" THEN cmd_tx ELSE event_rx

NoExec(g) ==
    \A i \in DOMAIN commands[g] : commands[g][i].kind = "SetBreakpoints"

ExecIsLast(g) ==
    /\ commands[g] # <<>>
    /\ commands[g][Len(commands[g])].kind \in ExecKinds
    /\ \A i \in DOMAIN commands[g] :
          i < Len(commands[g]) => commands[g][i].kind = "SetBreakpoints"

(* There is something to come from g, or there is its end to notice.       *)
Awaited(g) ==
    \/ vm[g] = "running" /\ events[g] = <<>> /\ commands[g] = <<>>
    \/ vm[g] = "blocked" /\ events[g] = <<"Stopped">> /\ NoExec(g)
    \/ vm[g] = "blocked" /\ events[g] = <<>> /\ ExecIsLast(g)
    \/ vm[g] \in {"finished", "exited"} /\ events[g] \in {<<>>, <<"Terminated">>}

(* Everything g had to say has been read, and it has not been told to go   *)
(* on.                                                                     *)
Settled(g) ==
    /\ events[g] = <<>>
    /\ \/ vm[g] = "blocked" /\ NoExec(g)
       \/ vm[g] \in {"finished", "exited"}

Attention ==
    /\ pc \in {"starting", "first", "waiting"} => Awaited(Attended)
    /\ pc \in {"starting", "first"} =>
          commands[Attended] = <<>> /\ bps[Attended] = {}
    /\ pc = "idle" /\ event_rx # None => Settled(event_rx)

(* The snapshot is that of the thread the server would join.               *)
SnapshotIsCurrent ==
    pc = "idle" /\ event_rx # None /\ event_rx = vm_thread =>
        vm_stopped_state = IF vm[event_rx] = "blocked"
                           THEN <<event_rx, stop_no[event_rx]>> ELSE <<>>

(* What a client that reads has been told last, at every point.            *)
ClientInformed ==
    client_reads =>
        /\ pc \in {"starting", "failing", "first", "waiting"} => told = <<"running">>
        /\ pc = "idle" =>
              /\ told # <<"running">>
              /\ told = <<"terminated">> /\ event_rx # None
                    => vm[event_rx] \in {"finished", "exited"}
              /\ told \in StopIds =>
                    /\ event_rx = told[1]
                    /\ vm[told[1]] = "blocked"
                    /\ stop_no[told[1]] = told[2]
                    /\ vm_stopped_state = told

Synced(g) ==
    \/ WillHave(g, pending_breakpoints)
    \/ WillHave(g, {}) /\ renews[g] > 0

(* The breakpoints arrive, however far the thread has read.                *)
BreakpointsArrive ==
    (pc = "waiting" \/ (pc = "idle" /\ client_reads)) /\ event_rx # None
      /\ vm[event_rx] \in {"running", "blocked"} => Synced(event_rx)

Inv ==
    /\ TypeOK
    /\ HandlesFit
    /\ UnbornUnknown
    /\ BlockedHasStopped
    /\ Attention
    /\ SnapshotIsCurrent
    /\ ClientInformed
    /\ BreakpointsArrive
    /\ FilesKeepLastRequest

-----------------------------------------------------------------------------
(* What sending and receiving do to a command queue.                       *)

LEMMA SetBreakpointsCmdType ==
    ASSUME NEW S \in SUBSET Locs
    PROVE  SetBreakpointsCmd(S) \in DapCommand
BY DEF SetBreakpointsCmd, DapCommand

LEMMA ExecCmdType ==
    ASSUME NEW kind \in ExecKinds
    PROVE  ExecCmd(kind) \in DapCommand
BY DEF ExecCmd, DapCommand

LEMMA PendingType ==
    ASSUME pending_breakpoints \in SUBSET Locs,
           NEW raw \in Files \cup Aliases, NEW lines \in SUBSET LineNumbers
    PROVE  /\ Canonical(raw) \in Files
           /\ PendingAfter(raw, lines) \in SUBSET Locs
<1>1. Canonical(raw) \in Files
    BY PathAssumption DEF Canonical
<1>2. QED  BY <1>1 DEF PendingAfter, Locs

LEMMA SendType ==
    ASSUME TypeOK, NEW g \in Handles, NEW cmds \in Seq(DapCommand), Send(g, cmds)
    PROVE  commands' \in [Sessions -> Seq(DapCommand)]
<1>1. CASE g = None \/ vm[g] = "exited"
    BY <1>1 DEF Send, TypeOK
<1>2. CASE ~(g = None \/ vm[g] = "exited")
    <2>1. g \in Sessions
        BY <1>2 DEF Handles
    <2>2. commands[g] \o cmds \in Seq(DapCommand)
        BY <2>1, ConcatProperties DEF TypeOK
    <2>3. QED  BY <1>2, <2>1, <2>2 DEF Send, TypeOK
<1>3. QED  BY <1>1, <1>2

-----------------------------------------------------------------------------
(* Types.                                                                  *)

LEMMA InitType == Init => TypeOK
<1> SUFFICES ASSUME Init
             PROVE  TypeOK
    OBVIOUS
<1>1. /\ pc = "idle" /\ txn_session = FALSE /\ client_reads = TRUE
      /\ cmd_tx \in Handles /\ event_rx \in Handles /\ vm_thread \in Handles
    BY DEF Init, Handles, None
<1>2. vm_stopped_state \in StopIds \cup {<<>>} /\ pending_breakpoints \in SUBSET Locs
    BY DEF Init
<1>3. told \in StopIds \cup {<<"nothing">>, <<"running">>, <<"failed">>, <<"terminated">>}
    BY Zenon DEF Init
<1>4. /\ vm \in [Sessions -> {"unborn", "running", "blocked", "finished", "exited"}]
      /\ stepping \in [Sessions -> BOOLEAN]
      /\ bps \in [Sessions -> SUBSET Locs]
      /\ stop_no \in [Sessions -> 0 .. MaxStops]
      /\ renews \in [Sessions -> 0 .. MaxRenews]
    BY BoundAssumption DEF Init
<1>5. /\ commands \in [Sessions -> Seq(DapCommand)]
      /\ events \in [Sessions -> Seq({"Stopped", "Terminated"})]
    BY DEF Init
<1>6. wanted \in [Files -> SUBSET LineNumbers] /\ misnamed \in SUBSET Files
    BY DEF Init
<1>7. QED  BY <1>1, <1>2, <1>3, <1>4, <1>5, <1>6 DEF TypeOK

LEMMA StepTypeThreads ==
    ASSUME TypeOK, NEW g \in Sessions, VmNext(g)
    PROVE  TypeOK'
<1> USE BoundAssumption DEF TypeOK, server, threads, queues, client
<1>1. CASE VmStop(g)
    BY <1>1 DEF VmStop
<1>2. CASE VmFinish(g)
    BY <1>2 DEF VmFinish
<1>3. CASE VmExit(g)
    BY <1>3 DEF VmExit
<1>4. CASE VmGiveUp(g)
    BY <1>4 DEF VmGiveUp
<1>5. CASE VmSetBreakpoints(g)
    <2>1. Head(commands[g]) \in DapCommand /\ Tail(commands[g]) \in Seq(DapCommand)
        BY <1>5, HeadTailProperties DEF VmSetBreakpoints
    <2>2. Head(commands[g]).bps \in SUBSET Locs
        BY <2>1 DEF DapCommand
    <2>3. QED  BY <1>5, <2>1, <2>2 DEF VmSetBreakpoints
<1>6. ASSUME NEW step \in BOOLEAN, VmResume(g, step)
      PROVE  TypeOK'
    <2>1. Tail(commands[g]) \in Seq(DapCommand)
        BY <1>6, HeadTailProperties DEF VmResume
    <2>2. QED  BY <1>6, <2>1 DEF VmResume
<1>7. CASE VmSetFree(g)
    BY <1>7 DEF VmSetFree
<1>8. CASE VmRenew(g)
    BY <1>8 DEF VmRenew
<1>9. QED
    BY <1>1, <1>2, <1>3, <1>4, <1>5, <1>6, <1>7, <1>8 DEF VmNext, VmRuns

(* A stop that is reported has a number. *)
LEMMA TakeStopType ==
    ASSUME TypeOK, event_rx # None, TakeStop, stop_no[event_rx] > 0
    PROVE  /\ vm_stopped_state' \in StopIds
           /\ events' \in [Sessions -> Seq({"Stopped", "Terminated"})]
<1>1. event_rx \in Sessions
    BY DEF TypeOK, Handles
<1>2. stop_no[event_rx] \in 1 .. MaxStops
    BY <1>1, BoundAssumption DEF TypeOK
<1>3. Tail(events[event_rx]) \in Seq({"Stopped", "Terminated"})
    BY <1>1, HeadTailProperties DEF TakeStop, TakeEvent, TypeOK
<1>4. QED  BY <1>1, <1>2, <1>3 DEF TakeStop, TakeEvent, TypeOK, StopIds

LEMMA TakeEndType ==
    ASSUME TypeOK, event_rx # None, TakeEnd
    PROVE  /\ vm_stopped_state' = <<>>
           /\ events' \in [Sessions -> Seq({"Stopped", "Terminated"})]
<1>1. event_rx \in Sessions
    BY DEF TypeOK, Handles
<1>2. CASE TakeEvent("Terminated")
    <2>1. Tail(events[event_rx]) \in Seq({"Stopped", "Terminated"})
        BY <1>1, <1>2, HeadTailProperties DEF TakeEvent, TypeOK
    <2>2. QED  BY <1>1, <1>2, <2>1 DEF TakeEnd, TakeEvent, TypeOK
<1>3. QED  BY <1>2 DEF TakeEnd, TypeOK

LEMMA StepTypeServer ==
    ASSUME TypeOK, event_rx # None, pc \in {"first", "waiting"},
           events[event_rx] # <<>> /\ Head(events[event_rx]) = "Stopped"
               => stop_no[event_rx] > 0,
           RunToBreakpoints \/ StopAtEntry \/ WaitEnds
    PROVE  TypeOK'
<1> USE DEF threads, client
<1>1. CASE RunToBreakpoints
    <2>1. /\ vm_stopped_state' \in StopIds
          /\ events' \in [Sessions -> Seq({"Stopped", "Terminated"})]
        BY <1>1, TakeStopType DEF RunToBreakpoints, TakeStop, TakeEvent
    <2>2. <<SetBreakpointsCmd(pending_breakpoints), ExecCmd("Continue")>> \in Seq(DapCommand)
        BY SetBreakpointsCmdType, ExecCmdType DEF TypeOK, ExecKinds
    <2>3. commands' \in [Sessions -> Seq(DapCommand)]
        BY <1>1, <2>2, SendType DEF RunToBreakpoints, TypeOK
    <2>4. QED  BY <1>1, <2>1, <2>3 DEF RunToBreakpoints, TypeOK
<1>2. CASE TakeStop /\ Tell(vm_stopped_state') /\ (StopAtEntry \/ WaitEnds)
    <2>1. /\ vm_stopped_state' \in StopIds
          /\ events' \in [Sessions -> Seq({"Stopped", "Terminated"})]
        BY <1>2, TakeStopType DEF TakeStop, TakeEvent
    <2>2. told' \in StopIds \cup {<<"nothing">>, <<"running">>, <<"failed">>, <<"terminated">>}
        BY <1>2, <2>1 DEF Tell, TypeOK
    <2>3. pc' = "idle"
        BY <1>2 DEF StopAtEntry, WaitEnds
    <2>4. UNCHANGED <<txn_session, cmd_tx, event_rx, vm_thread, pending_breakpoints,
                      threads, commands, client_reads, wanted, misnamed>>
        BY <1>2 DEF StopAtEntry, WaitEnds
    <2>5. QED  BY <2>1, <2>2, <2>3, <2>4 DEF TypeOK
<1>3. CASE TakeEnd /\ Tell(<<"terminated">>) /\ WaitEnds
    <2>1. /\ vm_stopped_state' = <<>>
          /\ events' \in [Sessions -> Seq({"Stopped", "Terminated"})]
        BY <1>3, TakeEndType
    <2>2. told' \in StopIds \cup {<<"nothing">>, <<"running">>, <<"failed">>, <<"terminated">>}
        BY <1>3, Zenon DEF Tell, TypeOK
    <2>3. QED  BY <1>3, <2>1, <2>2 DEF WaitEnds, TypeOK
<1>4. QED  BY <1>1, <1>2, <1>3 DEF StopAtEntry, WaitEnds

LEMMA StepTypeRequest ==
    ASSUME TypeOK,
           \/ Launch
           \/ \E raw \in Files \cup Aliases, lines \in SUBSET LineNumbers :
                 SetBreakpoints(raw, lines)
           \/ StartFails
           \/ \E g \in Sessions : StartExecution(g) \/ SpawnFails(g)
           \/ \E kind \in ExecKinds : Exec(kind)
           \/ DropCmdTx \/ Started \/ DropEventRx \/ Join \/ ClientGone
    PROVE  TypeOK'
<1> USE DEF server, threads, queues, client
<1>1. CASE Launch
    BY <1>1 DEF Launch, TypeOK
<1>2. ASSUME NEW raw \in Files \cup Aliases, NEW lines \in SUBSET LineNumbers,
             SetBreakpoints(raw, lines)
      PROVE  TypeOK'
    <2>1. Canonical(raw) \in Files /\ PendingAfter(raw, lines) \in SUBSET Locs
        BY PendingType DEF TypeOK
    <2>2. <<SetBreakpointsCmd(PendingAfter(raw, lines))>> \in Seq(DapCommand)
        BY <2>1, SetBreakpointsCmdType
    <2>3. commands' \in [Sessions -> Seq(DapCommand)]
        BY <1>2, <2>2, SendType DEF SetBreakpoints, TypeOK
    <2>4. QED  BY <1>2, <2>1, <2>3 DEF SetBreakpoints, TypeOK
<1>3. CASE StartFails
    BY <1>3 DEF StartFails, TypeOK
<1>4. ASSUME NEW g \in Sessions, StartExecution(g) \/ SpawnFails(g)
      PROVE  TypeOK'
    BY <1>4 DEF StartExecution, SpawnFails, TypeOK, Handles
<1>5. ASSUME NEW kind \in ExecKinds, Exec(kind)
      PROVE  TypeOK'
    <2>1. <<ExecCmd(kind)>> \in Seq(DapCommand)
        BY ExecCmdType
    <2>2. commands' \in [Sessions -> Seq(DapCommand)]
        BY <1>5, <2>1, SendType DEF Exec, TypeOK
    <2>3. QED  BY <1>5, <2>2 DEF Exec, TypeOK
<1>6. CASE DropCmdTx
    BY <1>6 DEF DropCmdTx, TypeOK, Handles
<1>7. CASE Started
    BY <1>7 DEF Started, Tell, TypeOK
<1>8. CASE DropEventRx
    BY <1>8 DEF DropEventRx, TypeOK, Handles
<1>9. CASE Join
    BY <1>9 DEF Join, Tell, TypeOK, Handles
<1>10. CASE ClientGone
    BY <1>10 DEF ClientGone, TypeOK
<1>11. QED
    BY <1>1, <1>2, <1>3, <1>4, <1>5, <1>6, <1>7, <1>8, <1>9, <1>10

LEMMA StepType == Inv /\ [Next]_vars => TypeOK'
<1> SUFFICES ASSUME Inv, [Next]_vars
             PROVE  TypeOK'
    OBVIOUS
<1>1. CASE RunToBreakpoints \/ StopAtEntry \/ WaitEnds
    <2>1. pc \in {"first", "waiting"} /\ event_rx # None
        BY <1>1 DEF RunToBreakpoints, StopAtEntry, WaitEnds, Inv, HandlesFit
    <2>2. Awaited(event_rx) /\ event_rx \in Sessions
        BY <2>1 DEF Inv, Attention, Attended, TypeOK, Handles
    <2>3. events[event_rx] # <<>> /\ Head(events[event_rx]) = "Stopped"
            => stop_no[event_rx] > 0
        BY <2>2 DEF Awaited, Inv, BlockedHasStopped
    <2>4. QED  BY <1>1, <2>1, <2>3, StepTypeServer DEF Inv
<1>2. ASSUME NEW g \in Sessions, VmNext(g)
      PROVE  TypeOK'
    BY <1>2, StepTypeThreads DEF Inv
<1>3. CASE UNCHANGED vars
    BY <1>3 DEF Inv, TypeOK, vars, server, threads, queues, client
<1>4. QED
    BY <1>1, <1>2, <1>3, StepTypeRequest DEF Inv, Next, ServerMoves

-----------------------------------------------------------------------------
(* The handles, and threads that have not started.                         *)

(* A thread touches nothing but itself and its own ends of the channels.   *)
LEMMA ThreadStepIsLocal ==
    ASSUME TypeOK, NEW g \in Sessions, VmNext(g)
    PROVE  /\ UNCHANGED server /\ UNCHANGED client
           /\ vm[g] \notin {"unborn", "exited"} /\ vm'[g] # "unborn"
           /\ \A h \in Sessions : h # g =>
                 /\ vm'[h] = vm[h] /\ stepping'[h] = stepping[h]
                 /\ bps'[h] = bps[h] /\ stop_no'[h] = stop_no[h]
                 /\ renews'[h] = renews[h]
                 /\ events'[h] = events[h] /\ commands'[h] = commands[h]
BY DEF TypeOK, VmNext, VmRuns, VmStop, VmFinish, VmExit, VmGiveUp,
       VmSetBreakpoints, VmResume, VmSetFree, VmRenew, threads, queues

LEMMA StepHandles == Inv /\ [Next]_vars => HandlesFit'
<1> SUFFICES ASSUME Inv, [Next]_vars
             PROVE  HandlesFit'
    OBVIOUS
<1> USE DEF server, threads, queues, client
<1>1. TypeOK /\ HandlesFit /\ UnbornUnknown
    BY DEF Inv
<1>2. CASE Launch \/ StartFails \/ ClientGone
    BY <1>1, <1>2 DEF Launch, StartFails, ClientGone, HandlesFit
<1>3. ASSUME NEW raw \in Files \cup Aliases, NEW lines \in SUBSET LineNumbers,
             SetBreakpoints(raw, lines)
      PROVE  HandlesFit'
    BY <1>1, <1>3 DEF SetBreakpoints, HandlesFit
<1>4. ASSUME NEW g \in Sessions, StartExecution(g) \/ SpawnFails(g)
      PROVE  HandlesFit'
    <2>1. g # None /\ g # event_rx /\ g # vm_thread /\ events[g] = <<>>
        BY <1>1, <1>4 DEF StartExecution, SpawnFails, UnbornUnknown, Sessions, None
    <2>2. pc' \in {"starting", "failing"} /\ cmd_tx' = g /\ UNCHANGED <<event_rx, vm_thread, events>>
        BY <1>4 DEF StartExecution, SpawnFails
    <2>3. pc' = "failing" => vm'[g] = "exited"
        BY <1>1, <1>4 DEF StartExecution, SpawnFails, TypeOK
    <2>4. QED  BY <2>1, <2>2, <2>3 DEF HandlesFit
<1>5. ASSUME NEW kind \in ExecKinds, Exec(kind)
      PROVE  HandlesFit'
    BY <1>1, <1>5 DEF Exec, Handling, HandlesFit
<1>6. CASE DropCmdTx \/ DropEventRx \/ Join
    BY <1>1, <1>6 DEF DropCmdTx, DropEventRx, Join, HandlesFit
<1>7. CASE Started
    BY <1>1, <1>7 DEF Started, HandlesFit
<1>8. CASE RunToBreakpoints \/ StopAtEntry \/ WaitEnds
    BY <1>1, <1>8 DEF RunToBreakpoints, StopAtEntry, WaitEnds, HandlesFit
<1>9. ASSUME NEW g \in Sessions, VmNext(g)
      PROVE  HandlesFit'
    <2>1. /\ pc = "failing" => cmd_tx \in Sessions
          /\ event_rx # None => event_rx \in Sessions
        BY <1>1 DEF HandlesFit, TypeOK, Handles
    <2>2. QED  BY <1>1, <1>9, <2>1, ThreadStepIsLocal DEF HandlesFit
<1>10. CASE UNCHANGED vars
    BY <1>1, <1>10 DEF vars, HandlesFit
<1>11. QED
    BY <1>2, <1>3, <1>4, <1>5, <1>6, <1>7, <1>8, <1>9, <1>10 DEF Next, ServerMoves

LEMMA StepUnborn == Inv /\ [Next]_vars => UnbornUnknown'
<1> SUFFICES ASSUME Inv, [Next]_vars
             PROVE  UnbornUnknown'
    OBVIOUS
<1> USE DEF server, threads, queues, client
<1>1. TypeOK /\ HandlesFit /\ UnbornUnknown
    BY DEF Inv
<1>2. CASE Launch \/ StartFails \/ ClientGone
    BY <1>1, <1>2 DEF Launch, StartFails, ClientGone, UnbornUnknown
<1>3. ASSUME NEW raw \in Files \cup Aliases, NEW lines \in SUBSET LineNumbers,
             SetBreakpoints(raw, lines)
      PROVE  UnbornUnknown'
    BY <1>1, <1>3 DEF SetBreakpoints, Send, UnbornUnknown, TypeOK, Handles
<1>4. ASSUME NEW g \in Sessions, StartExecution(g) \/ SpawnFails(g)
      PROVE  UnbornUnknown'
    BY <1>1, <1>4 DEF StartExecution, SpawnFails, UnbornUnknown, TypeOK
<1>5. ASSUME NEW kind \in ExecKinds, Exec(kind)
      PROVE  UnbornUnknown'
    BY <1>1, <1>5 DEF Exec, Send, UnbornUnknown, TypeOK, Handles
<1>6. CASE DropCmdTx \/ DropEventRx \/ Join
    BY <1>1, <1>6 DEF DropCmdTx, DropEventRx, Join, UnbornUnknown, None, Sessions
<1>7. CASE Started
    BY <1>1, <1>7 DEF Started, UnbornUnknown
<1>8. CASE RunToBreakpoints \/ StopAtEntry \/ WaitEnds
    <2>1. event_rx # None /\ cmd_tx = event_rx
        BY <1>1, <1>8 DEF RunToBreakpoints, StopAtEntry, WaitEnds, HandlesFit
    <2>2. UNCHANGED <<threads, cmd_tx, event_rx, vm_thread>>
        BY <1>8 DEF RunToBreakpoints, StopAtEntry, WaitEnds
    <2>3. \A g \in Sessions : g # event_rx => events'[g] = events[g]
        BY <1>1, <1>8, <2>1 DEF RunToBreakpoints, StopAtEntry, WaitEnds, TakeStop,
              TakeEnd, TakeEvent, TypeOK
    <2>4. \A g \in Sessions : g # event_rx => commands'[g] = commands[g]
        BY <1>1, <1>8, <2>1 DEF RunToBreakpoints, StopAtEntry, WaitEnds, Send, TypeOK
    <2>5. QED  BY <1>1, <2>2, <2>3, <2>4 DEF UnbornUnknown
<1>9. ASSUME NEW g \in Sessions, VmNext(g)
      PROVE  UnbornUnknown'
    BY <1>1, <1>9, ThreadStepIsLocal DEF UnbornUnknown
<1>10. CASE UNCHANGED vars
    BY <1>1, <1>10 DEF vars, UnbornUnknown
<1>11. QED
    BY <1>2, <1>3, <1>4, <1>5, <1>6, <1>7, <1>8, <1>9, <1>10 DEF Next, ServerMoves

LEMMA StepBlocked == Inv /\ [Next]_vars => BlockedHasStopped'
<1> SUFFICES ASSUME Inv, [Next]_vars
             PROVE  BlockedHasStopped'
    OBVIOUS
<1> USE BoundAssumption DEF server, threads, queues, client
<1>1. TypeOK /\ BlockedHasStopped
    BY DEF Inv
<1>2. CASE UNCHANGED threads
    BY <1>1, <1>2 DEF BlockedHasStopped
<1>3. ASSUME NEW g \in Sessions, StartExecution(g) \/ SpawnFails(g)
      PROVE  BlockedHasStopped'
    BY <1>1, <1>3 DEF StartExecution, SpawnFails, BlockedHasStopped, TypeOK
<1>4. ASSUME NEW g \in Sessions, VmNext(g)
      PROVE  BlockedHasStopped'
    BY <1>1, <1>4 DEF TypeOK, BlockedHasStopped, VmNext, VmRuns, VmStop, VmFinish,
          VmExit, VmGiveUp, VmSetBreakpoints, VmResume, VmSetFree, VmRenew
<1>5. QED
    BY <1>2, <1>3, <1>4 DEF Next, ServerMoves, Launch, SetBreakpoints, StartFails, Exec,
       DropCmdTx, Started, RunToBreakpoints, StopAtEntry, WaitEnds, DropEventRx,
       Join, ClientGone, vars

-----------------------------------------------------------------------------
(* The thread the server attends to.                                       *)

(* Reading a command leaves what the queue's last command is.              *)
LEMMA ReadCommand ==
    ASSUME TypeOK, NEW g \in Sessions, commands[g] # <<>>,
           commands'[g] = Tail(commands[g])
    PROVE  /\ NoExec(g) => NoExec(g)' /\ Head(commands[g]).kind = "SetBreakpoints"
           /\ ExecIsLast(g) /\ Head(commands[g]).kind = "SetBreakpoints"
                 => ExecIsLast(g)'
           /\ ExecIsLast(g) /\ Head(commands[g]).kind \in ExecKinds
                 => commands'[g] = <<>>
<1> DEFINE cs == commands[g]
<1>1. cs \in Seq(DapCommand)
    BY DEF TypeOK
<1>2. Len(cs) \in Nat /\ Len(cs) > 0
    BY <1>1, EmptySeq
<1>3. DOMAIN cs = 1 .. Len(cs) /\ Head(cs) = cs[1]
    BY <1>1, LenProperties
<1>4. Tail(cs) \in Seq(DapCommand) /\ Len(Tail(cs)) = Len(cs) - 1
    BY <1>1, HeadTailProperties
<1>5. DOMAIN Tail(cs) = 1 .. (Len(cs) - 1)
    BY <1>4, LenProperties
<1>6. \A i \in 1 .. (Len(cs) - 1) : Tail(cs)[i] = cs[i + 1]
    BY <1>1, <1>4, HeadTailProperties
<1>7. Tail(cs) = <<>> <=> Len(cs) - 1 = 0
    BY <1>4, EmptySeq
<1>8. ASSUME NoExec(g)
      PROVE  NoExec(g)' /\ Head(cs).kind = "SetBreakpoints"
    <2>1. 1 \in DOMAIN cs /\ \A i \in 1 .. (Len(cs) - 1) : i + 1 \in DOMAIN cs
        BY <1>2, <1>3
    <2>2. QED  BY <1>3, <1>5, <1>6, <1>8, <2>1 DEF NoExec
<1>9. ASSUME ExecIsLast(g), Head(cs).kind = "SetBreakpoints"
      PROVE  ExecIsLast(g)'
    <2>1. cs[1].kind # cs[Len(cs)].kind
        BY <1>3, <1>9 DEF ExecIsLast, ExecKinds
    <2>2. Len(cs) - 1 \in 1 .. (Len(cs) - 1) /\ (Len(cs) - 1) + 1 = Len(cs)
        BY <1>2, <2>1
    <2>3. Tail(cs)[Len(cs) - 1] = cs[Len(cs)] /\ Tail(cs) # <<>>
        BY <1>6, <1>7, <2>2
    <2>4. ASSUME NEW i \in 1 .. (Len(cs) - 1), i < Len(cs) - 1
          PROVE  Tail(cs)[i].kind = "SetBreakpoints"
        <3>1. i + 1 \in DOMAIN cs /\ i + 1 < Len(cs)
            BY <1>2, <1>3, <2>4
        <3>2. QED  BY <1>6, <1>9, <3>1 DEF ExecIsLast
    <2>5. cs[Len(cs)].kind \in ExecKinds
        BY <1>9 DEF ExecIsLast
    <2>6. QED  BY <1>4, <1>5, <2>3, <2>4, <2>5 DEF ExecIsLast
<1>10. ASSUME ExecIsLast(g), Head(cs).kind \in ExecKinds
       PROVE  commands'[g] = <<>>
    <2>1. 1 \in DOMAIN cs /\ cs[1].kind # "SetBreakpoints"
        BY <1>2, <1>3, <1>10 DEF ExecKinds
    <2>2. ~(1 < Len(cs))
        BY <1>10, <2>1 DEF ExecIsLast
    <2>3. Len(cs) # 1 => 1 < Len(cs)
        <3> HIDE DEF cs
        <3> QED  BY <1>2
    <2>4. QED  BY <1>7, <2>2, <2>3
<1>11. QED  BY <1>8, <1>9, <1>10

(* Sending to a thread that can read leaves nothing else changed.          *)
LEMMA SendSetBreakpoints ==
    ASSUME TypeOK, NEW g \in Sessions, NEW S \in SUBSET Locs,
           Send(g, <<SetBreakpointsCmd(S)>>), NoExec(g)
    PROVE  NoExec(g)'
<1>1. CASE vm[g] = "exited"
    BY <1>1 DEF Send, NoExec
<1>2. CASE vm[g] # "exited"
    <2>1. g # None /\ commands'[g] = commands[g] \o <<SetBreakpointsCmd(S)>>
        BY <1>2 DEF Send, TypeOK, Sessions, None
    <2>2. QED  BY <2>1 DEF TypeOK, NoExec, SetBreakpointsCmd
<1>3. QED  BY <1>1, <1>2

LEMMA SendExec ==
    ASSUME TypeOK, NEW g \in Sessions, NEW kind \in ExecKinds,
           Send(g, <<ExecCmd(kind)>>), NoExec(g), vm[g] # "exited"
    PROVE  ExecIsLast(g)'
<1>1. commands'[g] = commands[g] \o <<ExecCmd(kind)>>
    BY DEF Send, TypeOK, Sessions, None
<1>2. commands[g] \in Seq(DapCommand) /\ ExecCmd(kind).kind = kind
    BY DEF TypeOK, ExecCmd
<1>3. QED  BY <1>1, <1>2 DEF NoExec, ExecIsLast

(* While the server is idle its thread stays where it is: blocked, or done *)
(* for.                                                                    *)
LEMMA IdleThreadStays ==
    ASSUME Inv, pc = "idle", NEW g \in Sessions, event_rx = g, VmNext(g)
    PROVE  /\ Settled(g)'
           /\ vm'[g] = "blocked" <=> vm[g] = "blocked"
           /\ stop_no'[g] = stop_no[g]
<1>1. TypeOK /\ Settled(g) /\ cmd_tx = g
    BY DEF Inv, Attention, HandlesFit, Sessions, None
<1>2. CASE VmExit(g)
    BY <1>1, <1>2 DEF VmExit, Settled, TypeOK
<1>3. CASE VmSetBreakpoints(g)
    <2>1. commands'[g] = Tail(commands[g]) /\ commands[g] # <<>>
        BY <1>1, <1>3 DEF VmSetBreakpoints, TypeOK
    <2>2. NoExec(g) => NoExec(g)'
        BY <1>1, <2>1, ReadCommand
    <2>3. QED  BY <1>1, <1>3, <2>2 DEF VmSetBreakpoints, Settled
<1>4. ASSUME NEW step \in BOOLEAN, VmResume(g, step)
      PROVE  FALSE
    <2>1. commands'[g] = Tail(commands[g]) /\ commands[g] # <<>>
        BY <1>1, <1>4 DEF VmResume, TypeOK
    <2>2. QED
        BY <1>1, <1>4, <2>1, ReadCommand DEF VmResume, Settled, ExecKinds
<1>5. CASE VmSetFree(g)
    BY <1>1, <1>5 DEF VmSetFree
<1>6. QED
    BY <1>1, <1>2, <1>3, <1>4, <1>5
    DEF VmNext, VmRuns, VmStop, VmFinish, VmGiveUp, VmRenew, Settled

LEMMA StepAttentionThreads ==
    ASSUME Inv, NEW g \in Sessions, VmNext(g)
    PROVE  Attention'
<1> USE DEF server, threads, queues, client
<1>1. TypeOK /\ HandlesFit /\ Attention
    BY DEF Inv
<1>2. Attended \in Handles /\ UNCHANGED Attended
    BY <1>1, ThreadStepIsLocal DEF Attended, TypeOK
<1>3. pc \in {"starting", "first", "waiting"} => Attended \in Sessions
    BY <1>1, <1>2 DEF Attended, HandlesFit, Handles
<1>4. pc = "idle" /\ event_rx # None => event_rx \in Sessions
    BY <1>1 DEF TypeOK, Handles
<1>5. ASSUME NEW h \in Sessions, h # g
      PROVE  /\ Awaited(h) => Awaited(h)'
             /\ Settled(h) => Settled(h)'
             /\ UNCHANGED <<commands[h], bps[h]>>
    BY <1>1, <1>5, ThreadStepIsLocal DEF Awaited, Settled, NoExec, ExecIsLast
<1>6. ASSUME pc \in {"starting", "first", "waiting"}, Attended = g
      PROVE  /\ Awaited(g)'
             /\ commands[g] = <<>> /\ bps[g] = {}
                   => commands'[g] = <<>> /\ bps'[g] = {}
    <2>1. Awaited(g) /\ Listening(g) /\ cmd_tx = g
        BY <1>1, <1>6 DEF Attention, Attended, HandlesFit, Listening
    <2>2. CASE VmStop(g)
        BY <1>1, <2>1, <2>2 DEF VmStop, Awaited, NoExec, TypeOK
    <2>3. CASE VmFinish(g)
        BY <1>1, <2>1, <2>3 DEF VmFinish, Awaited, TypeOK
    <2>4. CASE VmExit(g)
        BY <1>1, <2>1, <2>4 DEF VmExit, Awaited, TypeOK
    <2>5. CASE VmGiveUp(g)
        BY <2>1, <2>5 DEF VmGiveUp
    <2>6. CASE VmSetBreakpoints(g)
        <3>1. commands'[g] = Tail(commands[g]) /\ commands[g] # <<>>
            BY <1>1, <2>6 DEF VmSetBreakpoints, TypeOK
        <3>2. (NoExec(g) => NoExec(g)') /\ (ExecIsLast(g) => ExecIsLast(g)')
            BY <1>1, <2>6, <3>1, ReadCommand DEF VmSetBreakpoints
        <3>3. QED  BY <2>1, <2>6, <3>1, <3>2 DEF VmSetBreakpoints, Awaited
    <2>7. ASSUME NEW step \in BOOLEAN, VmResume(g, step)
          PROVE  Awaited(g)' /\ commands[g] # <<>>
        <3>1. commands'[g] = Tail(commands[g]) /\ commands[g] # <<>> /\ vm'[g] = "running"
            BY <1>1, <2>7 DEF VmResume, TypeOK
        <3>2. vm[g] = "blocked" /\ Head(commands[g]).kind \in ExecKinds
            BY <2>7 DEF VmResume
        <3>3. ~NoExec(g)
            BY <1>1, <3>1, <3>2, ReadCommand DEF ExecKinds
        <3>4. events[g] = <<>> /\ commands'[g] = <<>>
            BY <1>1, <2>1, <3>1, <3>2, <3>3, ReadCommand DEF Awaited
        <3>5. QED  BY <2>7, <3>1, <3>4 DEF VmResume, Awaited
    <2>8. CASE VmSetFree(g)
        BY <2>1, <2>8 DEF VmSetFree
    <2>9. CASE VmRenew(g)
        BY <1>1, <2>1, <2>9 DEF VmRenew, Awaited, NoExec, ExecIsLast, TypeOK
    <2>10. UNCHANGED <<commands, bps>> \/ VmExit(g) \/ VmSetBreakpoints(g)
             \/ VmRenew(g) \/ \E step \in BOOLEAN : VmResume(g, step)
        BY DEF VmNext, VmRuns, VmStop, VmFinish, VmGiveUp, VmSetFree
    <2>11. commands[g] = <<>> /\ bps[g] = {} => commands'[g] = <<>> /\ bps'[g] = {}
        BY <1>1, <2>7, <2>10 DEF VmExit, VmSetBreakpoints, VmRenew, TypeOK
    <2>12. QED
        BY <2>2, <2>3, <2>4, <2>5, <2>6, <2>7, <2>8, <2>9, <2>11 DEF VmNext, VmRuns
<1>7. pc = "idle" /\ event_rx = g => Settled(g)'
    BY IdleThreadStays
<1>8. QED
    <2>1. pc' = pc /\ event_rx' = event_rx
        BY <1>1, ThreadStepIsLocal
    <2>2. pc \in {"starting", "first", "waiting"} => Awaited(Attended)'
        BY <1>1, <1>2, <1>3, <1>5, <1>6 DEF Attention
    <2>3. pc \in {"starting", "first"} =>
             commands'[Attended] = <<>> /\ bps'[Attended] = {}
        BY <1>1, <1>2, <1>3, <1>5, <1>6 DEF Attention
    <2>4. pc = "idle" /\ event_rx # None => Settled(event_rx)'
        BY <1>1, <1>4, <1>5, <1>7, <2>1 DEF Attention
    <2>5. QED  BY <1>2, <2>1, <2>2, <2>3, <2>4 DEF Attention

(* What the end of a wait leaves behind.                                   *)
LEMMA WaitIsOver ==
    ASSUME TypeOK, event_rx \in Sessions, Awaited(event_rx),
           TakeStop \/ TakeEnd, UNCHANGED threads
    PROVE  /\ events'[event_rx] = <<>>
           /\ TakeStop => vm[event_rx] = "blocked" /\ NoExec(event_rx)
           /\ TakeEnd => vm[event_rx] \in {"finished", "exited"}
<1>1. Head(<<"Stopped">>) = "Stopped" /\ Head(<<"Terminated">>) = "Terminated"
      /\ Tail(<<"Stopped">>) = <<>> /\ Tail(<<"Terminated">>) = <<>>
    OBVIOUS
<1>2. ~(TakeStop /\ TakeEnd)
    BY DEF TakeStop, TakeEnd, TakeEvent
<1>3. CASE TakeStop
    <2>1. events[event_rx] # <<>> /\ Head(events[event_rx]) = "Stopped"
        BY <1>3 DEF TakeStop, TakeEvent
    <2>2. vm[event_rx] = "blocked" /\ events[event_rx] = <<"Stopped">> /\ NoExec(event_rx)
        BY <1>1, <2>1 DEF Awaited
    <2>3. events'[event_rx] = Tail(events[event_rx])
        BY <1>3 DEF TakeStop, TakeEvent, TypeOK
    <2>4. QED  BY <1>1, <1>2, <1>3, <2>2, <2>3
<1>4. CASE TakeEnd
    <2>1. CASE TakeEvent("Terminated")
        <3>1. events[event_rx] # <<>> /\ Head(events[event_rx]) = "Terminated"
            BY <2>1 DEF TakeEvent
        <3>2. vm[event_rx] \in {"finished", "exited"} /\ events[event_rx] = <<"Terminated">>
            BY <1>1, <3>1 DEF Awaited
        <3>3. events'[event_rx] = Tail(events[event_rx])
            BY <2>1 DEF TakeEvent, TypeOK
        <3>4. QED  BY <1>1, <1>2, <1>4, <3>2, <3>3
    <2>2. QED  BY <1>2, <1>4, <2>1 DEF TakeEnd
<1>5. QED  BY <1>3, <1>4

LEMMA StepAttention == Inv /\ [Next]_vars => Attention'
<1> SUFFICES ASSUME Inv, [Next]_vars
             PROVE  Attention'
    OBVIOUS
<1> USE DEF server, threads, queues, client
<1>1. TypeOK /\ HandlesFit /\ UnbornUnknown /\ Attention
    BY DEF Inv
<1>2. CASE /\ UNCHANGED <<vm, bps, queues>>
           /\ UNCHANGED <<pc, cmd_tx, event_rx>>
    BY <1>1, <1>2 DEF Attention, Attended, Awaited, Settled, NoExec, ExecIsLast
<1>3. ASSUME NEW raw \in Files \cup Aliases, NEW lines \in SUBSET LineNumbers,
             SetBreakpoints(raw, lines)
      PROVE  Attention'
    <2>1. pc = "idle" /\ cmd_tx = event_rx
        BY <1>1, <1>3 DEF SetBreakpoints, Handling, HandlesFit
    <2>2. CASE event_rx = None
        BY <1>3, <2>1, <2>2 DEF SetBreakpoints, Attention
    <2>3. CASE event_rx # None
        <3>1. event_rx \in Sessions /\ Settled(event_rx)
            BY <1>1, <2>1, <2>3 DEF Attention, TypeOK, Handles
        <3>2. PendingAfter(raw, lines) \in SUBSET Locs
            BY <1>1, PendingType DEF TypeOK
        <3>3. NoExec(event_rx) => NoExec(event_rx)'
            BY <1>1, <1>3, <2>1, <3>1, <3>2, SendSetBreakpoints DEF SetBreakpoints
        <3>4. QED
            BY <1>3, <2>1, <3>1, <3>3 DEF SetBreakpoints, Attention, Settled
    <2>4. QED  BY <2>2, <2>3
<1>4. ASSUME NEW g \in Sessions, StartExecution(g)
      PROVE  Attention'
    <2>1. pc' = "starting" /\ Attended' = g
        BY <1>4 DEF StartExecution, Attended
    <2>2. vm'[g] = "running" /\ events'[g] = <<>> /\ commands'[g] = <<>> /\ bps'[g] = {}
        BY <1>1, <1>4 DEF StartExecution, UnbornUnknown, TypeOK
    <2>3. Awaited(g)'
        BY <2>2 DEF Awaited
    <2>4. QED  BY <2>1, <2>2, <2>3 DEF Attention
<1>5. ASSUME NEW g \in Sessions, SpawnFails(g)
      PROVE  Attention'
    BY <1>5 DEF SpawnFails, Attention
<1>6. ASSUME NEW kind \in ExecKinds, Exec(kind)
      PROVE  Attention'
    <2>1. pc = "idle" /\ cmd_tx = event_rx
        BY <1>1, <1>6 DEF Exec, Handling, HandlesFit
    <2>2. CASE event_rx = None
        BY <1>6, <2>1, <2>2 DEF Exec, Attention
    <2>3. CASE event_rx # None
        <3>1. event_rx \in Sessions /\ Settled(event_rx)
            BY <1>1, <2>1, <2>3 DEF Attention, TypeOK, Handles
        <3>2. vm[event_rx] = "blocked" => ExecIsLast(event_rx)'
            BY <1>1, <1>6, <2>1, <3>1, SendExec DEF Exec, Settled
        <3>3. pc' = "waiting" /\ UNCHANGED <<vm, events, event_rx>>
            BY <1>6, <2>3 DEF Exec
        <3>4. Awaited(event_rx)'
            BY <3>1, <3>2, <3>3 DEF Awaited, Settled
        <3>5. QED  BY <3>3, <3>4 DEF Attention, Attended
    <2>4. QED  BY <2>2, <2>3
<1>7. CASE DropCmdTx \/ DropEventRx \/ Join
    BY <1>1, <1>7 DEF DropCmdTx, DropEventRx, Join, Attention, HandlesFit
<1>8. CASE Started
    <2>1. UNCHANGED <<vm, bps, commands, events, cmd_tx>> /\ event_rx' = cmd_tx
        BY <1>8 DEF Started
    <2>2. CASE pc = "starting"
        <3>1. pc' = "first" /\ Attended = cmd_tx /\ Attended' = cmd_tx
            BY <1>8, <2>1, <2>2 DEF Started, Attended
        <3>2. Awaited(cmd_tx)' /\ commands'[cmd_tx] = <<>> /\ bps'[cmd_tx] = {}
            BY <1>1, <2>1, <2>2, <3>1 DEF Attention, Awaited, NoExec, ExecIsLast
        <3>3. QED  BY <2>1, <3>1, <3>2 DEF Attention, Attended
    <2>3. CASE pc = "failing"
        BY <1>1, <1>8, <2>1, <2>3 DEF Started, Attention, HandlesFit, Settled
    <2>4. QED  BY <1>8, <2>2, <2>3 DEF Started
<1>9. CASE RunToBreakpoints \/ StopAtEntry \/ WaitEnds
    <2>1. /\ pc \in {"first", "waiting"} /\ cmd_tx = event_rx /\ event_rx \in Sessions
          /\ Awaited(event_rx)
        BY <1>1, <1>9 DEF RunToBreakpoints, StopAtEntry, WaitEnds, HandlesFit,
              Attention, Attended, TypeOK, Handles
    <2>2. UNCHANGED <<threads, event_rx>> /\ (TakeStop \/ TakeEnd)
        BY <1>9 DEF RunToBreakpoints, StopAtEntry, WaitEnds
    <2>3. events'[event_rx] = <<>>
        BY <1>1, <2>1, <2>2, WaitIsOver
    <2>4. CASE RunToBreakpoints
        <3>1. /\ pc = "first" /\ TakeStop /\ pc' = "waiting"
              /\ Send(cmd_tx, <<SetBreakpointsCmd(pending_breakpoints), ExecCmd("Continue")>>)
            BY <2>4 DEF RunToBreakpoints
        <3>2. vm[event_rx] = "blocked" /\ commands[event_rx] = <<>>
            BY <1>1, <2>1, <2>2, <3>1, WaitIsOver DEF Attention, Attended
        <3>3. commands'[event_rx]
                = <<SetBreakpointsCmd(pending_breakpoints), ExecCmd("Continue")>>
            BY <1>1, <2>1, <3>1, <3>2 DEF Send, TypeOK, Sessions, None
        <3>4. ExecIsLast(event_rx)'
            BY <2>2, <3>3 DEF ExecIsLast, SetBreakpointsCmd, ExecCmd, ExecKinds
        <3>5. Awaited(event_rx)'
            BY <2>2, <2>3, <3>2, <3>4 DEF Awaited
        <3>6. QED  BY <3>1, <3>5 DEF Attention, Attended
    <2>5. CASE StopAtEntry \/ WaitEnds
        <3>1. pc' = "idle" /\ UNCHANGED commands
            BY <2>5 DEF StopAtEntry, WaitEnds
        <3>2. Settled(event_rx)'
            BY <1>1, <2>1, <2>2, <2>3, <3>1, WaitIsOver DEF Settled, NoExec
        <3>3. QED  BY <3>1, <3>2 DEF Attention
    <2>6. QED  BY <1>9, <2>4, <2>5
<1>10. ASSUME NEW g \in Sessions, VmNext(g)
       PROVE  Attention'
    BY <1>10, StepAttentionThreads
<1>11. QED
    BY <1>2, <1>3, <1>4, <1>5, <1>6, <1>7, <1>8, <1>9, <1>10
    DEF Next, ServerMoves, Launch, StartFails, ClientGone, vars

-----------------------------------------------------------------------------
(* The snapshot, and what the client was told.                             *)

LEMMA StepSnapshot == Inv /\ [Next]_vars => SnapshotIsCurrent'
<1> SUFFICES ASSUME Inv, [Next]_vars
             PROVE  SnapshotIsCurrent'
    OBVIOUS
<1> USE DEF server, threads, queues, client
<1>1. TypeOK /\ HandlesFit /\ Attention /\ SnapshotIsCurrent
    BY DEF Inv
<1>2. CASE UNCHANGED <<pc, event_rx, vm_thread, vm_stopped_state, vm, stop_no>>
    BY <1>1, <1>2 DEF SnapshotIsCurrent
<1>3. CASE pc' # "idle"
    BY <1>3 DEF SnapshotIsCurrent
<1>4. CASE pc = "failing" /\ Started
    BY <1>1, <1>4 DEF Started, SnapshotIsCurrent, HandlesFit
<1>5. CASE StopAtEntry \/ WaitEnds
    <2>1. event_rx \in Sessions /\ Awaited(event_rx)
        BY <1>1, <1>5 DEF StopAtEntry, WaitEnds, HandlesFit, Attention, Attended,
              TypeOK, Handles
    <2>2. UNCHANGED <<threads, event_rx>> /\ (TakeStop \/ TakeEnd)
        BY <1>5 DEF StopAtEntry, WaitEnds
    <2>3. QED
        BY <1>1, <2>1, <2>2, WaitIsOver DEF SnapshotIsCurrent, TakeStop, TakeEnd
<1>6. CASE Join
    BY <1>1, <1>6 DEF Join, SnapshotIsCurrent, HandlesFit
<1>7. ASSUME NEW g \in Sessions, VmNext(g), pc = "idle"
      PROVE  SnapshotIsCurrent'
    <2>1. UNCHANGED server
        BY <1>1, <1>7, ThreadStepIsLocal
    <2>2. CASE event_rx = g
        BY <1>1, <1>7, <2>1, <2>2, IdleThreadStays DEF SnapshotIsCurrent
    <2>3. CASE event_rx # g
        BY <1>1, <1>7, <2>1, <2>3, ThreadStepIsLocal DEF SnapshotIsCurrent, TypeOK, Handles
    <2>4. QED  BY <2>2, <2>3
<1>8. ASSUME NEW g \in Sessions, VmNext(g), pc # "idle"
      PROVE  pc' # "idle"
    BY <1>1, <1>8, ThreadStepIsLocal
<1>9. ASSUME Next, ~StopAtEntry, ~WaitEnds, ~Join, ~(pc = "failing" /\ Started),
             \A g \in Sessions : ~VmNext(g)
      PROVE  \/ pc' # "idle"
             \/ UNCHANGED <<pc, event_rx, vm_thread, vm_stopped_state, vm, stop_no>>
    BY <1>9 DEF Next, ServerMoves, Launch, SetBreakpoints, StartFails, StartExecution,
       SpawnFails, Exec, Handling, DropCmdTx, DropEventRx, Started, RunToBreakpoints,
       ClientGone
<1>10. CASE UNCHANGED vars
    BY <1>2, <1>10 DEF vars
<1>11. QED
    BY <1>2, <1>3, <1>4, <1>5, <1>6, <1>7, <1>8, <1>9, <1>10

(* A stop is not a word.                                                   *)
LEMMA StopIsNoWord ==
    ASSUME NEW word
    PROVE  <<word>> \notin StopIds
BY DEF StopIds

LEMMA StepClient == Inv /\ [Next]_vars => ClientInformed'
<1> SUFFICES ASSUME Inv, [Next]_vars, client_reads'
             PROVE  ClientInformed'
    BY DEF ClientInformed
<1> USE DEF server, threads, queues, client
<1>1. TypeOK /\ HandlesFit /\ Attention /\ ClientInformed
    BY DEF Inv
<1>2. client_reads
    BY <1>1, ThreadStepIsLocal DEF Next, ServerMoves, Launch, SetBreakpoints, StartFails,
       StartExecution, SpawnFails, Exec, DropCmdTx, DropEventRx, Started,
       RunToBreakpoints, StopAtEntry, WaitEnds, Join, ClientGone, vars
<1>3. CASE UNCHANGED <<pc, told, event_rx, vm_stopped_state, vm, stop_no>>
    BY <1>1, <1>2, <1>3 DEF ClientInformed
<1>4. CASE StartFails
    BY <1>4, StopIsNoWord DEF StartFails, Handling, ClientInformed
<1>5. ASSUME NEW g \in Sessions, StartExecution(g) \/ SpawnFails(g)
      PROVE  ClientInformed'
    BY <1>5 DEF StartExecution, SpawnFails, ClientInformed
<1>6. ASSUME NEW kind \in ExecKinds, Exec(kind)
      PROVE  ClientInformed'
    BY <1>6, StopIsNoWord DEF Exec, ClientInformed
<1>7. CASE DropCmdTx \/ DropEventRx
    BY <1>1, <1>7 DEF DropCmdTx, DropEventRx, ClientInformed
<1>8. CASE Started
    BY <1>1, <1>2, <1>8, StopIsNoWord DEF Started, Tell, ClientInformed
<1>9. CASE RunToBreakpoints
    BY <1>1, <1>2, <1>9 DEF RunToBreakpoints, ClientInformed
<1>10. CASE StopAtEntry \/ WaitEnds
    <2>1. event_rx \in Sessions /\ Awaited(event_rx)
        BY <1>1, <1>10 DEF StopAtEntry, WaitEnds, HandlesFit, Attention, Attended,
              TypeOK, Handles
    <2>2. pc' = "idle" /\ UNCHANGED <<threads, event_rx, client_reads>>
        BY <1>10 DEF StopAtEntry, WaitEnds
    <2>3. CASE TakeStop /\ Tell(vm_stopped_state')
        <3>1. told' = <<event_rx, stop_no[event_rx]>> /\ vm_stopped_state' = told'
            BY <1>2, <2>3 DEF Tell, TakeStop
        <3>2. vm[event_rx] = "blocked"
            BY <1>1, <2>1, <2>2, <2>3, WaitIsOver
        <3>3. told' # <<"running">> /\ told' # <<"terminated">>
            BY <3>1
        <3>4. told'[1] = event_rx /\ told'[2] = stop_no[event_rx]
            BY <3>1
        <3>5. QED  BY <2>2, <3>1, <3>2, <3>3, <3>4 DEF ClientInformed
    <2>4. CASE TakeEnd /\ Tell(<<"terminated">>)
        <3>1. told' = <<"terminated">>
            BY <1>2, <2>4 DEF Tell
        <3>2. vm[event_rx] \in {"finished", "exited"}
            BY <1>1, <2>1, <2>2, <2>4, WaitIsOver
        <3>3. QED  BY <2>2, <3>1, <3>2, StopIsNoWord DEF ClientInformed
    <2>5. QED  BY <1>10, <2>3, <2>4 DEF StopAtEntry, WaitEnds
<1>11. CASE Join
    BY <1>2, <1>11, StopIsNoWord DEF Join, Tell, ClientInformed
<1>12. ASSUME NEW g \in Sessions, VmNext(g)
       PROVE  ClientInformed'
    <2>1. UNCHANGED server /\ UNCHANGED client
        BY <1>1, <1>12, ThreadStepIsLocal
    <2>2. CASE pc = "idle" /\ event_rx = g
        <3>1. /\ Settled(g) /\ Settled(g)'
              /\ vm'[g] = "blocked" <=> vm[g] = "blocked"
              /\ stop_no'[g] = stop_no[g]
            BY <1>1, <1>12, <2>2, IdleThreadStays DEF Attention, Sessions, None
        <3>2. QED  BY <1>1, <1>2, <2>1, <2>2, <3>1 DEF ClientInformed, Settled
    <2>3. CASE pc = "idle" /\ event_rx # g
        <3>1. event_rx # None => event_rx \in Sessions
            BY <1>1 DEF TypeOK, Handles
        <3>2. told \in StopIds => told[1] \in Sessions
            BY DEF StopIds
        <3>3. QED
            BY <1>1, <1>2, <1>12, <2>1, <2>3, <3>1, <3>2, ThreadStepIsLocal DEF ClientInformed
    <2>4. CASE pc # "idle"
        BY <1>1, <1>2, <2>1, <2>4 DEF ClientInformed
    <2>5. QED  BY <2>2, <2>3, <2>4
<1>13. CASE Launch \/ ClientGone \/ UNCHANGED vars
    BY <1>3, <1>13 DEF Launch, ClientGone, vars
<1>14. ASSUME NEW raw \in Files \cup Aliases, NEW lines \in SUBSET LineNumbers,
              SetBreakpoints(raw, lines)
       PROVE  ClientInformed'
    BY <1>3, <1>14 DEF SetBreakpoints
<1>15. QED
    BY <1>4, <1>5, <1>6, <1>7, <1>8, <1>9, <1>10, <1>11, <1>12, <1>13, <1>14
    DEF Next, ServerMoves

-----------------------------------------------------------------------------
(* The breakpoints.                                                        *)

(* WillHave is settled by the last SetBreakpoints in the queue.            *)
LEMMA WillHaveAfterSend ==
    ASSUME TypeOK, NEW g \in Sessions, NEW cmd \in DapCommand, NEW S,
           commands'[g] = commands[g] \o <<cmd>>, bps'[g] = bps[g]
    PROVE  /\ cmd.kind = "SetBreakpoints" => WillHave(g, cmd.bps)'
           /\ cmd.kind # "SetBreakpoints" /\ WillHave(g, S) => WillHave(g, S)'
<1> DEFINE cs == commands[g]
           n  == Len(cs)
<1>1. cs \in Seq(DapCommand) /\ n \in Nat /\ DOMAIN cs = 1 .. n
    BY LenProperties DEF TypeOK
<1>2. /\ DOMAIN commands'[g] = 1 .. (n + 1)
      /\ commands'[g][n + 1] = cmd
      /\ \A i \in 1 .. n : commands'[g][i] = cs[i]
    BY <1>1
<1>3. ASSUME cmd.kind = "SetBreakpoints"
      PROVE  WillHave(g, cmd.bps)'
    <2>1. n + 1 \in DOMAIN commands'[g] /\ \A j \in DOMAIN commands'[g] : j <= n + 1
        BY <1>1, <1>2
    <2>2. QED  BY <1>2, <1>3, <2>1 DEF WillHave
<1>4. ASSUME cmd.kind # "SetBreakpoints", WillHave(g, S)
      PROVE  WillHave(g, S)'
    <2>1. {i \in DOMAIN commands'[g] : commands'[g][i].kind = "SetBreakpoints"}
            = {i \in DOMAIN cs : cs[i].kind = "SetBreakpoints"}
        BY <1>1, <1>2, <1>4
    <2>2. \A i \in DOMAIN cs : commands'[g][i] = cs[i]
        BY <1>1, <1>2
    <2>3. QED  BY <1>4, <2>1, <2>2 DEF WillHave
<1>5. QED  BY <1>3, <1>4

LEMMA WillHaveAfterRead ==
    ASSUME TypeOK, NEW g \in Sessions, NEW S, commands[g] # <<>>, WillHave(g, S),
           commands'[g] = Tail(commands[g]),
           bps'[g] = IF Head(commands[g]).kind = "SetBreakpoints"
                     THEN Head(commands[g]).bps ELSE bps[g]
    PROVE  WillHave(g, S)'
<1> DEFINE cs == commands[g]
           n  == Len(cs)
           ts == Tail(cs)
<1>1. cs \in Seq(DapCommand) /\ n \in Nat /\ n > 0
    BY EmptySeq DEF TypeOK
<1>2. DOMAIN cs = 1 .. n /\ Head(cs) = cs[1]
    BY <1>1, LenProperties
<1>3. DOMAIN ts = 1 .. (n - 1) /\ \A i \in 1 .. (n - 1) : ts[i] = cs[i + 1]
    BY <1>1, HeadTailProperties, LenProperties
<1>4. CASE \A i \in DOMAIN cs : cs[i].kind # "SetBreakpoints"
    <2>1. \A i \in DOMAIN ts : i + 1 \in DOMAIN cs
        BY <1>1, <1>2, <1>3
    <2>2. bps'[g] = S
        BY <1>1, <1>2, <1>4 DEF WillHave
    <2>3. QED  BY <1>3, <1>4, <2>1, <2>2 DEF WillHave
<1>5. ASSUME NEW i \in DOMAIN cs, cs[i].kind = "SetBreakpoints", cs[i].bps = S,
             \A j \in DOMAIN cs : cs[j].kind = "SetBreakpoints" => j <= i
      PROVE  WillHave(g, S)'
    <2>1. CASE i = 1
        <3>1. \A j \in DOMAIN ts : ts[j].kind # "SetBreakpoints"
            BY <1>1, <1>2, <1>3, <1>5, <2>1
        <3>2. bps'[g] = S
            BY <1>2, <1>5, <2>1
        <3>3. QED  BY <3>1, <3>2 DEF WillHave
    <2>2. CASE i > 1
        <3>1. i - 1 \in DOMAIN ts /\ ts[i - 1] = cs[i]
            BY <1>1, <1>2, <1>3, <2>2
        <3>2. \A j \in DOMAIN ts : ts[j].kind = "SetBreakpoints" => j <= i - 1
            BY <1>1, <1>2, <1>3, <1>5
        <3>3. QED  BY <1>5, <3>1, <3>2 DEF WillHave
    <2>3. QED  BY <1>1, <1>2, <2>1, <2>2
<1>6. QED  BY <1>4, <1>5 DEF WillHave

(* A thread that has not ended, and keeps what it has been sent, stays in  *)
(* sync; a new worker context is out of it.                                *)
LEMMA ThreadStaysSynced ==
    ASSUME Inv, NEW g \in Sessions, VmNext(g), event_rx = g,
           pc \in {"idle", "waiting"}, Synced(g), vm[g] \in {"running", "blocked"}
    PROVE  Synced(g)'
<1>1. TypeOK /\ Attention
    BY DEF Inv
<1>2. UNCHANGED pending_breakpoints
    BY <1>1, ThreadStepIsLocal DEF server
<1>3. CASE UNCHANGED <<commands, bps, renews>>
    BY <1>2, <1>3 DEF Synced, WillHave
<1>4. CASE VmExit(g)
    <2>1. commands[g] = <<>>
        BY <1>1, <1>4 DEF VmExit, Attention, Attended, Awaited, Settled, Sessions, None
    <2>2. commands'[g] = <<>> /\ UNCHANGED <<bps, renews>>
        BY <1>1, <1>4 DEF VmExit, TypeOK, threads
    <2>3. QED  BY <1>2, <2>1, <2>2 DEF Synced, WillHave
<1>5. CASE VmSetBreakpoints(g)
    <2>1. /\ commands[g] # <<>> /\ commands'[g] = Tail(commands[g])
          /\ Head(commands[g]).kind = "SetBreakpoints"
          /\ bps'[g] = Head(commands[g]).bps /\ UNCHANGED renews
        BY <1>1, <1>5 DEF VmSetBreakpoints, TypeOK
    <2>2. QED  BY <1>1, <1>2, <2>1, WillHaveAfterRead DEF Synced
<1>6. ASSUME NEW step \in BOOLEAN, VmResume(g, step)
      PROVE  Synced(g)'
    <2>1. /\ commands[g] # <<>> /\ commands'[g] = Tail(commands[g])
          /\ Head(commands[g]).kind # "SetBreakpoints"
          /\ UNCHANGED <<bps, renews>>
        BY <1>1, <1>6 DEF VmResume, TypeOK, ExecKinds
    <2>2. QED  BY <1>1, <1>2, <2>1, WillHaveAfterRead DEF Synced
<1>7. CASE VmRenew(g)
    <2>1. commands[g] = <<>>
        BY <1>1, <1>7 DEF VmRenew, Attention, Attended, Awaited, Settled, Sessions, None
    <2>2. commands'[g] = <<>> /\ bps'[g] = {} /\ renews'[g] > 0
        BY <1>1, <1>7, <2>1, BoundAssumption DEF VmRenew, TypeOK, queues
    <2>3. QED  BY <2>2 DEF Synced, WillHave
<1>8. QED
    BY <1>3, <1>4, <1>5, <1>6, <1>7
    DEF VmNext, VmRuns, VmStop, VmFinish, VmGiveUp, VmSetFree, queues

LEMMA StepBreakpoints == Inv /\ [Next]_vars => BreakpointsArrive'
<1> SUFFICES ASSUME Inv, [Next]_vars,
                    pc' = "waiting" \/ (pc' = "idle" /\ client_reads'), event_rx' # None, vm'[event_rx'] \in {"running", "blocked"}
             PROVE  Synced(event_rx)'
    BY DEF BreakpointsArrive
<1> USE DEF server, threads, queues, client
<1>1. TypeOK /\ HandlesFit /\ Attention /\ BreakpointsArrive
    BY DEF Inv
<1>2. client_reads' => client_reads
    BY <1>1, ThreadStepIsLocal DEF Next, ServerMoves, Launch, SetBreakpoints, StartFails,
       StartExecution, SpawnFails, Exec, DropCmdTx, DropEventRx, Started,
       RunToBreakpoints, StopAtEntry, WaitEnds, Join, ClientGone, vars
<1>3. CASE UNCHANGED <<pc, event_rx, vm, pending_breakpoints, commands, bps, renews>>
    BY <1>1, <1>2, <1>3 DEF BreakpointsArrive, Synced, WillHave
<1>4. ASSUME NEW raw \in Files \cup Aliases, NEW lines \in SUBSET LineNumbers,
             SetBreakpoints(raw, lines)
      PROVE  Synced(event_rx)'
    <2>1. UNCHANGED <<threads, event_rx>> /\ cmd_tx = event_rx
        BY <1>1, <1>4 DEF SetBreakpoints, Handling, HandlesFit
    <2>2. event_rx \in Sessions /\ vm[event_rx] # "exited"
        BY <1>1, <2>1 DEF TypeOK, Handles
    <2>3. pending_breakpoints' = PendingAfter(raw, lines)
          /\ pending_breakpoints' \in SUBSET Locs
        BY <1>1, <1>4, PendingType DEF SetBreakpoints, TypeOK
    <2>4. commands'[event_rx]
            = commands[event_rx] \o <<SetBreakpointsCmd(pending_breakpoints')>>
        BY <1>1, <1>4, <2>1, <2>2, <2>3 DEF SetBreakpoints, Send, TypeOK, Sessions, None
    <2>5. /\ SetBreakpointsCmd(pending_breakpoints') \in DapCommand
          /\ SetBreakpointsCmd(pending_breakpoints').kind = "SetBreakpoints"
          /\ SetBreakpointsCmd(pending_breakpoints').bps = pending_breakpoints'
        BY <2>3, SetBreakpointsCmdType DEF SetBreakpointsCmd
    <2>6. WillHave(event_rx, pending_breakpoints)'
        BY <1>1, <2>1, <2>2, <2>4, <2>5, WillHaveAfterSend
    <2>7. QED  BY <2>6 DEF Synced
<1>5. ASSUME NEW kind \in ExecKinds, Exec(kind)
      PROVE  Synced(event_rx)'
    <2>1. /\ UNCHANGED <<threads, event_rx, pending_breakpoints>> /\ cmd_tx = event_rx
          /\ pc = "idle"
        BY <1>1, <1>5 DEF Exec, Handling, HandlesFit
    <2>2. event_rx \in Sessions /\ vm[event_rx] # "exited" /\ Synced(event_rx)
        BY <1>1, <1>5, <2>1 DEF Exec, Handling, TypeOK, Handles, BreakpointsArrive
    <2>3. commands'[event_rx] = commands[event_rx] \o <<ExecCmd(kind)>>
        BY <1>1, <1>5, <2>1, <2>2 DEF Exec, Send, TypeOK, Sessions, None
    <2>4. ExecCmd(kind) \in DapCommand /\ ExecCmd(kind).kind # "SetBreakpoints"
        BY ExecCmdType DEF ExecCmd, ExecKinds
    <2>5. QED  BY <1>1, <2>1, <2>2, <2>3, <2>4, WillHaveAfterSend DEF Synced
<1>6. CASE Started
    <2>1. vm'[event_rx'] = "exited"
        BY <1>1, <1>6 DEF Started, HandlesFit
    <2>2. QED  BY <2>1
<1>7. CASE RunToBreakpoints \/ StopAtEntry \/ WaitEnds
    <2>1. /\ pc \in {"first", "waiting"} /\ cmd_tx = event_rx /\ event_rx \in Sessions
          /\ Awaited(event_rx)
        BY <1>1, <1>7 DEF RunToBreakpoints, StopAtEntry, WaitEnds, HandlesFit,
              Attention, Attended, TypeOK, Handles
    <2>2. UNCHANGED <<threads, event_rx, pending_breakpoints>> /\ (TakeStop \/ TakeEnd)
        BY <1>7 DEF RunToBreakpoints, StopAtEntry, WaitEnds
    <2>3. ~TakeEnd
        BY <1>1, <2>1, <2>2, WaitIsOver
    <2>4. pc = "first" => commands[event_rx] = <<>> /\ bps[event_rx] = {}
        BY <1>1 DEF Attention, Attended
    <2>5. CASE RunToBreakpoints
        <3>1. commands'[event_rx]
                = <<SetBreakpointsCmd(pending_breakpoints), ExecCmd("Continue")>>
            <4>1. Send(cmd_tx, <<SetBreakpointsCmd(pending_breakpoints), ExecCmd("Continue")>>)
                  /\ pc = "first"
                BY <2>5 DEF RunToBreakpoints
            <4>2. QED
                BY <1>1, <2>1, <2>2, <2>4, <4>1 DEF Send, TypeOK, Sessions, None
        <3>2. \A i \in DOMAIN commands'[event_rx] :
                 commands'[event_rx][i].kind = "SetBreakpoints" <=> i = 1
            BY <3>1 DEF SetBreakpointsCmd, ExecCmd
        <3>3. 1 \in DOMAIN commands'[event_rx]
              /\ commands'[event_rx][1].bps = pending_breakpoints
            BY <3>1 DEF SetBreakpointsCmd
        <3>4. WillHave(event_rx, pending_breakpoints)'
            BY <2>2, <3>2, <3>3 DEF WillHave
        <3>5. QED  BY <3>4 DEF Synced
    <2>6. CASE StopAtEntry
        <3>1. pc = "first" /\ pending_breakpoints = {} /\ UNCHANGED commands
            BY <1>2, <2>6 DEF StopAtEntry
        <3>2. QED  BY <2>2, <2>4, <3>1 DEF Synced, WillHave
    <2>7. CASE WaitEnds
        <3>1. pc = "waiting" /\ UNCHANGED commands
            BY <2>3, <2>7 DEF WaitEnds
        <3>2. Synced(event_rx)
            BY <1>1, <1>2, <2>1, <2>2, <3>1 DEF BreakpointsArrive, Sessions, None
        <3>3. QED  BY <2>2, <3>1, <3>2 DEF Synced, WillHave
    <2>8. QED  BY <1>7, <2>5, <2>6, <2>7
<1>8. CASE Join
    BY <1>1, <1>8 DEF Join, HandlesFit
<1>9. ASSUME NEW g \in Sessions, VmNext(g)
      PROVE  Synced(event_rx)'
    <2>1. UNCHANGED server /\ event_rx \in Sessions
        BY <1>1, <1>9, ThreadStepIsLocal DEF TypeOK, Handles
    <2>2. CASE event_rx # g
        <3>1. Synced(event_rx)
            BY <1>1, <1>2, <1>9, <2>1, <2>2, ThreadStepIsLocal DEF BreakpointsArrive
        <3>2. UNCHANGED <<event_rx, pending_breakpoints, commands[event_rx],
                          bps[event_rx], renews[event_rx]>>
            BY <1>1, <1>9, <2>1, <2>2, ThreadStepIsLocal
        <3>3. QED  BY <3>1, <3>2 DEF Synced, WillHave
    <2>3. CASE event_rx = g
        <3>1. vm[g] \in {"running", "blocked"}
            BY <1>1, <1>9, <2>1, <2>3 DEF TypeOK, VmNext, VmRuns, VmStop, VmFinish, VmExit,
                  VmGiveUp, VmSetBreakpoints, VmResume, VmSetFree, VmRenew
        <3>2. Synced(g)
            BY <1>1, <1>2, <2>1, <2>3, <3>1 DEF BreakpointsArrive
        <3>3. QED  BY <1>9, <2>1, <2>3, <3>1, <3>2, ThreadStaysSynced
    <2>4. QED  BY <2>2, <2>3
<1>10. CASE Launch \/ StartFails \/ ClientGone \/ UNCHANGED vars
    BY <1>3, <1>10 DEF Launch, StartFails, ClientGone, vars
<1>11. ASSUME Next
       PROVE  ~DropCmdTx /\ ~DropEventRx
              /\ \A g \in Sessions : ~StartExecution(g) /\ ~SpawnFails(g)
    BY DEF DropCmdTx, DropEventRx, StartExecution, SpawnFails
<1>12. QED
    BY <1>4, <1>5, <1>6, <1>7, <1>8, <1>9, <1>10, <1>11 DEF Next, ServerMoves

(* Paths: a request for one file leaves the others alone.                  *)
LEMMA StepFiles == Inv /\ [Next]_vars => FilesKeepLastRequest'
<1> SUFFICES ASSUME Inv, [Next]_vars
             PROVE  FilesKeepLastRequest'
    OBVIOUS
<1>1. TypeOK /\ FilesKeepLastRequest
    BY DEF Inv
<1>2. CASE UNCHANGED <<pending_breakpoints, wanted, misnamed>>
    BY <1>1, <1>2 DEF FilesKeepLastRequest
<1>3. ASSUME NEW raw \in Files \cup Aliases, NEW lines \in SUBSET LineNumbers,
             SetBreakpoints(raw, lines)
      PROVE  FilesKeepLastRequest'
    <2> DEFINE file == Canonical(raw)
               path == IF lines = {} THEN raw ELSE file
    <2>1. file \in Files
        BY <1>1, PendingType DEF TypeOK
    <2>2. /\ wanted' = [wanted EXCEPT ![file] = lines]
          /\ misnamed' = IF lines = {} /\ raw \in Aliases
                         THEN misnamed \cup {file} ELSE misnamed \ {file}
          /\ pending_breakpoints' = {bp \in pending_breakpoints : bp[1] # path}
                                        \cup {<<file, ln>> : ln \in lines}
        BY <1>3 DEF SetBreakpoints, PendingAfter
    <2>3. SUFFICES ASSUME NEW f \in Files, f \notin misnamed'
                   PROVE  {ln \in LineNumbers : <<f, ln>> \in pending_breakpoints'}
                             = wanted'[f]
        BY DEF FilesKeepLastRequest
    <2>4. CASE f = file
        <3>1. path = file
            BY <2>2, <2>3, <2>4 DEF Canonical
        <3>2. \A ln \in LineNumbers : <<f, ln>> \in pending_breakpoints' <=> ln \in lines
            BY <2>2, <2>4, <3>1
        <3>3. wanted'[f] = lines
            BY <1>1, <2>2, <2>4 DEF TypeOK
        <3>4. QED  BY <3>2, <3>3
    <2>5. CASE f # file
        <3>1. f \notin misnamed /\ wanted'[f] = wanted[f]
            BY <1>1, <2>2, <2>3, <2>5 DEF TypeOK
        <3>2. path # f
            BY <2>5, PathAssumption DEF Canonical
        <3>3. \A ln \in LineNumbers :
                 <<f, ln>> \in pending_breakpoints' <=> <<f, ln>> \in pending_breakpoints
            BY <2>2, <2>5, <3>2
        <3>4. QED  BY <1>1, <2>3, <3>1, <3>3 DEF FilesKeepLastRequest
    <2>6. QED  BY <2>4, <2>5
<1>4. ASSUME NEW g \in Sessions, VmNext(g)
      PROVE  UNCHANGED <<pending_breakpoints, wanted, misnamed>>
    BY <1>1, <1>4, ThreadStepIsLocal DEF server, client
<1>5. QED
    BY <1>2, <1>3, <1>4 DEF Next, ServerMoves, Launch, StartFails, StartExecution,
       SpawnFails, Exec, DropCmdTx, DropEventRx, Started, RunToBreakpoints,
       StopAtEntry, WaitEnds, Join, ClientGone, vars, server, client

-----------------------------------------------------------------------------
(* The theorems.                                                           *)

LEMMA InitInv == Init => Inv
<1> SUFFICES ASSUME Init
             PROVE  Inv
    OBVIOUS
<1>1. TypeOK
    BY InitType
<1>2. HandlesFit /\ BlockedHasStopped /\ SnapshotIsCurrent /\ BreakpointsArrive
    BY DEF Init, HandlesFit, BlockedHasStopped, SnapshotIsCurrent, BreakpointsArrive
<1>3. UnbornUnknown
    BY DEF Init, UnbornUnknown, Sessions, None
<1>4. Attention
    BY DEF Init, Attention
<1>5. ClientInformed
    BY StopIsNoWord DEF Init, ClientInformed
<1>6. FilesKeepLastRequest
    BY DEF Init, FilesKeepLastRequest
<1>7. QED  BY <1>1, <1>2, <1>3, <1>4, <1>5, <1>6 DEF Inv

LEMMA StepInv == Inv /\ [Next]_vars => Inv'
BY StepType, StepHandles, StepUnborn, StepBlocked, StepAttention, StepSnapshot,
   StepClient, StepBreakpoints, StepFiles DEF Inv

LEMMA Invariance == SafetySpec => []Inv
<1>1. QED  BY InitInv, StepInv, PTL DEF SafetySpec

(* TypeOK holds in every state of the server and its threads.              *)
THEOREM SessionTypeCorrect == SafetySpec => []TypeOK
<1>1. Inv => TypeOK  BY DEF Inv
<1>2. QED  BY Invariance, <1>1, PTL

(* A server that reads a request has read every event of its thread; the   *)
(* thread is blocked in the stop of the snapshot, or done with none        *)
(* (wait_for_vm_event).                                                    *)
THEOREM ServerAndThreadInLockstep == SafetySpec => []Lockstep
<1>1. Inv => Lockstep
    BY DEF Inv, HandlesFit, Attention, Settled, SnapshotIsCurrent, Lockstep
<1>2. QED  BY Invariance, <1>1, PTL

(* A stop the client was told of last is the one its thread is in, however *)
(* many executions came before (server.rs:229-302).                        *)
THEOREM ClientStopIsCurrent == SafetySpec => []ClientSeesCurrentStop
<1>1. Inv => ClientSeesCurrentStop
    BY DEF Inv, ClientInformed, ClientSeesCurrentStop
<1>2. QED  BY Invariance, <1>1, PTL

(* No request leaves the client with only the promise that its program     *)
(* runs (server.rs:100-104, 229-302).                                      *)
THEOREM ClientHearsOutcome == SafetySpec => []ClientHearsHowItEnded
<1>1. Inv => ClientHearsHowItEnded
    BY DEF Inv, ClientInformed, ClientHearsHowItEnded
<1>2. QED  BY Invariance, <1>1, PTL

(* The server waits for no thread that waits for the server                *)
(* (wait_for_vm_event, debug_loop's recv).                                 *)
THEOREM ServerAndThreadNeverWaitForEachOther == SafetySpec => []NoMutualWait
<1>1. Inv => NoMutualWait
    BY DEF Inv, Attention, Attended, Awaited, ExecIsLast, NoMutualWait
<1>2. QED  BY Invariance, <1>1, PTL

(* At every stop the thread has, or is about to read, the breakpoints of   *)
(* the server, unless its worker context is new (handle_set_breakpoints,   *)
(* handle_configuration_done).                                             *)
THEOREM ThreadHasTheBreakpoints == SafetySpec => []BreakpointsInSync
<1>1. Inv => BreakpointsInSync
    BY DEF Inv, BreakpointsArrive, Synced, BreakpointsInSync
<1>2. QED  BY Invariance, <1>1, PTL

(* setBreakpoints replaces the breakpoints of one file, unless an empty    *)
(* list names it by an alias (server.rs:199-205).                          *)
THEOREM RequestsReplaceOneFile == SafetySpec => []FilesKeepLastRequest
<1>1. Inv => FilesKeepLastRequest  BY DEF Inv
<1>2. QED  BY Invariance, <1>1, PTL

-----------------------------------------------------------------------------
(* The refinement.  A step of the first thread is the step of Debuggee     *)
(* that has its name; a step of the server is one that drops an end of its *)
(* channels, or it leaves Debuggee's state alone.                          *)

LEMMA OneIsSession ==
    ASSUME MaxSessions > 0
    PROVE  1 \in Sessions
BY BoundAssumption DEF Sessions

(* What the server's handles say of the first thread's channels.           *)
FirstLink == IF cmd_tx = 1 \/ vm[1] = "unborn" THEN "up"
             ELSE IF Listening(1) THEN "closing" ELSE "down"

LEMMA FirstStepThread ==
    ASSUME MaxSessions > 0, Inv, NEW g \in Sessions, VmNext(g)
    PROVE  [First!Next]_(First!vars)
<1> USE DEF First!vars
<1>1. TypeOK /\ HandlesFit /\ BlockedHasStopped /\ 1 \in Sessions
    BY OneIsSession DEF Inv
<1>2. UNCHANGED FirstLink
    BY <1>1, ThreadStepIsLocal DEF FirstLink, Listening, server
<1>3. CASE g # 1
    <2>1. UNCHANGED <<vm[1], stepping[1], bps[1]>>
        BY <1>1, <1>3, ThreadStepIsLocal
    <2>2. QED  BY <1>2, <2>1 DEF FirstLink
<1>4. ASSUME vm[1] # "unborn", cmd_tx = 1
      PROVE  Listening(1) \/ vm[1] = "exited"
    BY <1>1, <1>4 DEF HandlesFit, TypeOK, Listening, None
<1>5. ASSUME VmStop(1)
      PROVE  First!Stop
    BY <1>1, <1>2, <1>5 DEF VmStop, TypeOK, FirstLink, First!Stop
<1>6. CASE VmFinish(1) \/ VmExit(1)
    <2>1. UNCHANGED <<vm[1] = "blocked", stepping[1], bps[1]>>
        BY <1>1, <1>6 DEF VmFinish, VmExit, TypeOK
    <2>2. QED  BY <1>2, <2>1 DEF FirstLink
<1>7. ASSUME VmGiveUp(1)
      PROVE  First!GiveUp
    BY <1>1, <1>2, <1>4, <1>7 DEF VmGiveUp, TypeOK, FirstLink, First!GiveUp
<1>8. ASSUME VmSetBreakpoints(1)
      PROVE  \E S \in SUBSET Locs : First!SetBreakpoints(S)
    <2>1. Head(commands[1]) \in DapCommand
        BY <1>1, <1>8, HeadTailProperties DEF VmSetBreakpoints, TypeOK
    <2>2. Head(commands[1]).bps \in SUBSET Locs
        BY <2>1 DEF DapCommand
    <2>3. First!SetBreakpoints(Head(commands[1]).bps)
        BY <1>1, <1>2, <1>8 DEF VmSetBreakpoints, TypeOK, FirstLink, First!SetBreakpoints
    <2>4. QED  BY <2>2, <2>3
<1>9. ASSUME NEW step \in BOOLEAN, VmResume(1, step)
      PROVE  First!Resume(step)
    BY <1>1, <1>2, <1>9 DEF VmResume, TypeOK, FirstLink, First!Resume
<1>10. ASSUME VmSetFree(1)
       PROVE  First!SetFree
    BY <1>1, <1>2, <1>10 DEF VmSetFree, TypeOK, BlockedHasStopped, FirstLink, First!SetFree
<1>11. ASSUME VmRenew(1)
       PROVE  First!Renew
    BY <1>1, <1>2, <1>11 DEF VmRenew, TypeOK, FirstLink, First!Renew
<1>12. QED
    BY <1>3, <1>5, <1>6, <1>7, <1>8, <1>9, <1>10, <1>11
    DEF VmNext, VmRuns, First!Next

LEMMA FirstStep ==
    ASSUME MaxSessions > 0
    PROVE  Inv /\ [Next]_vars => [First!Next]_(First!vars)
<1> SUFFICES ASSUME Inv, [Next]_vars
             PROVE  [First!Next]_(First!vars)
    OBVIOUS
<1> USE DEF First!vars, server, threads, queues, client
<1>1. TypeOK /\ HandlesFit /\ UnbornUnknown /\ 1 \in Sessions /\ None # 1
    BY OneIsSession DEF Inv, None
<1>2. CASE UNCHANGED <<vm, stepping, bps, pc, cmd_tx, event_rx>>
    BY <1>2 DEF Listening
<1>3. ASSUME NEW raw \in Files \cup Aliases, NEW lines \in SUBSET LineNumbers,
             SetBreakpoints(raw, lines)
      PROVE  [First!Next]_(First!vars)
    BY <1>2, <1>3 DEF SetBreakpoints
<1>4. ASSUME NEW g \in Sessions, StartExecution(g) \/ SpawnFails(g)
      PROVE  [First!Next]_(First!vars)
    <2>1. /\ pc = "idle" /\ cmd_tx = event_rx /\ cmd_tx' = g
          /\ pc' \in {"starting", "failing"}
          /\ UNCHANGED <<event_rx, stepping, bps>>
          /\ vm[g] = "unborn" /\ vm'[g] \in {"running", "exited"}
          /\ \A h \in Sessions : h # g => vm'[h] = vm[h]
        BY <1>1, <1>4 DEF StartExecution, SpawnFails, Handling, HandlesFit, TypeOK
    <2>2. UNCHANGED <<vm[1] = "blocked", stepping[1], bps[1]>>
        BY <1>1, <2>1
    <2>3. CASE FirstLink = FirstLink'
        BY <2>2, <2>3 DEF FirstLink
    <2>4. CASE FirstLink # FirstLink'
        <3>1. FirstLink = "up" /\ FirstLink' = "closing"
            BY <1>1, <2>1, <2>4 DEF FirstLink, Listening
        <3>2. First!DropCmdTx
            BY <2>2, <3>1 DEF FirstLink, First!DropCmdTx
        <3>3. QED  BY <3>2 DEF First!Next
    <2>5. QED  BY <2>3, <2>4
<1>5. ASSUME NEW kind \in ExecKinds, Exec(kind)
      PROVE  [First!Next]_(First!vars)
    <2>1. pc = "idle" /\ pc' \in {"idle", "waiting"}
          /\ UNCHANGED <<vm, stepping, bps, cmd_tx, event_rx>>
        BY <1>5 DEF Exec, Handling
    <2>2. QED  BY <2>1 DEF Listening
<1>6. CASE DropCmdTx
    <2>1. /\ cmd_tx = event_rx /\ cmd_tx' = None
          /\ UNCHANGED <<vm, stepping, bps, event_rx>>
          /\ pc = "idle" /\ pc' # "starting"
        BY <1>1, <1>6 DEF DropCmdTx, HandlesFit
    <2>2. CASE cmd_tx = 1
        <3>1. FirstLink = "up" /\ FirstLink' = "closing"
            BY <1>1, <2>1, <2>2 DEF FirstLink, Listening, UnbornUnknown
        <3>2. First!DropCmdTx
            BY <2>1, <3>1 DEF FirstLink, First!DropCmdTx
        <3>3. QED  BY <3>2 DEF First!Next
    <2>3. CASE cmd_tx # 1
        BY <1>1, <2>1, <2>3 DEF Listening
    <2>4. QED  BY <2>2, <2>3
<1>7. CASE Started \/ DropEventRx
    <2>1. UNCHANGED <<vm, stepping, bps, cmd_tx>>
        BY <1>7 DEF Started, DropEventRx
    <2>2. CASE FirstLink = FirstLink'
        BY <2>1, <2>2 DEF FirstLink
    <2>3. CASE FirstLink # FirstLink'
        <3>1. FirstLink = "closing" /\ FirstLink' = "down"
            BY <1>1, <1>7, <2>1, <2>3 DEF FirstLink, Listening, Started, DropEventRx,
                  HandlesFit, TypeOK
        <3>2. First!DropEventRx
            BY <2>1, <3>1 DEF FirstLink, First!DropEventRx
        <3>3. QED  BY <3>2 DEF First!Next
    <2>4. QED  BY <2>2, <2>3
<1>8. CASE RunToBreakpoints \/ StopAtEntry \/ WaitEnds \/ Join
    <2>1. pc # "starting" /\ pc' # "starting"
          /\ UNCHANGED <<vm, stepping, bps, cmd_tx, event_rx>>
        BY <1>8 DEF RunToBreakpoints, StopAtEntry, WaitEnds, Join
    <2>2. QED  BY <2>1 DEF Listening
<1>9. ASSUME NEW g \in Sessions, VmNext(g)
      PROVE  [First!Next]_(First!vars)
    BY <1>9, FirstStepThread
<1>10. CASE Launch \/ StartFails \/ ClientGone \/ UNCHANGED vars
    BY <1>2, <1>10 DEF Launch, StartFails, ClientGone, vars
<1>11. QED
    BY <1>3, <1>4, <1>5, <1>6, <1>7, <1>8, <1>9, <1>10 DEF Next, ServerMoves

(* The thread behind the server's channels keeps the safety half of the    *)
(* promise made in Debuggee, the one debug_loop keeps: both sides of the   *)
(* channels mean the same contract.                                        *)
THEOREM FirstThreadKeepsPromiseSafely ==
    ASSUME MaxSessions > 0
    PROVE  SafetySpec => First!SafetySpec
<1>1. Init => First!Init
    BY OneIsSession DEF Init, First!Init
<1>2. Inv /\ [Next]_vars => [First!Next]_(First!vars)
    BY FirstStep
<1>3. QED  BY Invariance, <1>1, <1>2, PTL DEF SafetySpec, First!SafetySpec

-----------------------------------------------------------------------------
(* Commands that belong to a stop, and stops that have been read: on top   *)
(* of Inv.                                                                 *)

(* Which stop of the attended thread the server has read last.             *)
StopsCounted ==
    /\ \A g \in Sessions : vm[g] = "unborn" => stop_no[g] = 0
    /\ pc \in {"starting", "first"} =>
          /\ vm[Attended] = "running" => stop_no[Attended] = 0
          /\ vm[Attended] = "blocked" => stop_no[Attended] = 1
    /\ pc = "waiting" /\ vm[event_rx] \in {"running", "blocked"} =>
          vm_stopped_state = <<event_rx, IF events[event_rx] = <<>> THEN stop_no[event_rx]
                                         ELSE stop_no[event_rx] - 1>>

OrderInv == Inv /\ CommandsAreForThisStop /\ StopsCounted

(* A queue whose last command is the only one to be obeyed stays such when *)
(* it is read, and is empty once the thread has been told to go on.        *)
LEMMA ReadInOrder ==
    ASSUME TypeOK, NEW g \in Sessions, commands[g] # <<>>,
           commands'[g] = Tail(commands[g]),
           \A i \in DOMAIN commands[g] :
               i < Len(commands[g]) => commands[g][i].kind = "SetBreakpoints"
    PROVE  /\ \A i \in DOMAIN commands'[g] :
                 i < Len(commands'[g]) => commands'[g][i].kind = "SetBreakpoints"
           /\ Head(commands[g]).kind \in ExecKinds => commands'[g] = <<>>
<1> DEFINE cs == commands[g]
           n  == Len(cs)
           ts == Tail(cs)
<1>1. cs \in Seq(DapCommand) /\ n \in Nat /\ n > 0
    BY EmptySeq DEF TypeOK
<1>2. DOMAIN cs = 1 .. n /\ Head(cs) = cs[1]
    BY <1>1, LenProperties
<1>3. /\ ts \in Seq(DapCommand) /\ Len(ts) = n - 1 /\ DOMAIN ts = 1 .. (n - 1)
      /\ \A i \in 1 .. (n - 1) : ts[i] = cs[i + 1]
    BY <1>1, HeadTailProperties, LenProperties
<1>4. ASSUME NEW i \in DOMAIN ts, i < n - 1
      PROVE  ts[i].kind = "SetBreakpoints"
    <2>1. i + 1 \in DOMAIN cs /\ i + 1 < n
        BY <1>1, <1>2, <1>3, <1>4
    <2>2. QED  BY <1>3, <2>1
<1>5. ASSUME Head(cs).kind \in ExecKinds
      PROVE  ts = <<>>
    <2>1. ~(1 < n)
        BY <1>1, <1>2, <1>5 DEF ExecKinds
    <2>2. n - 1 = 0
        <3> HIDE DEF n
        <3> QED  BY <1>1, <2>1
    <2>3. QED  BY <1>3, <2>2, EmptySeq
<1>6. QED  BY <1>3, <1>4, <1>5

LEMMA StepOrderThreads ==
    ASSUME OrderInv, NEW g \in Sessions, VmNext(g)
    PROVE  CommandsAreForThisStop'
<1>1. TypeOK /\ CommandsAreForThisStop
    BY DEF OrderInv, Inv
<1>2. ASSUME NEW h \in Sessions, h # g
      PROVE  UNCHANGED <<vm[h], commands[h]>>
    BY <1>1, <1>2, ThreadStepIsLocal
<1>3. /\ vm'[g] = "running" => commands'[g] = <<>>
      /\ vm'[g] = "blocked" =>
            \A i \in DOMAIN commands'[g] :
                i < Len(commands'[g]) => commands'[g][i].kind = "SetBreakpoints"
    <2>1. CASE VmStop(g)
        BY <1>1, <2>1 DEF VmStop, CommandsAreForThisStop, TypeOK
    <2>2. CASE VmFinish(g) \/ VmExit(g)
        BY <1>1, <2>2 DEF VmFinish, VmExit, TypeOK
    <2>3. CASE VmGiveUp(g) \/ VmRenew(g)
        BY <1>1, <2>3 DEF VmGiveUp, VmRenew, queues, CommandsAreForThisStop
    <2>4. CASE VmSetBreakpoints(g)
        BY <1>1, <2>4, ReadInOrder DEF VmSetBreakpoints, CommandsAreForThisStop, TypeOK
    <2>5. ASSUME NEW step \in BOOLEAN, VmResume(g, step)
          PROVE  vm'[g] = "running" /\ commands'[g] = <<>>
        BY <1>1, <2>5, ReadInOrder DEF VmResume, CommandsAreForThisStop, TypeOK
    <2>6. CASE VmSetFree(g)
        BY <1>1, <2>6 DEF VmSetFree, queues, TypeOK
    <2>7. QED  BY <2>1, <2>2, <2>3, <2>4, <2>5, <2>6 DEF VmNext, VmRuns
<1>4. QED  BY <1>1, <1>2, <1>3 DEF CommandsAreForThisStop

LEMMA StepOrder == OrderInv /\ [Next]_vars => CommandsAreForThisStop'
<1> SUFFICES ASSUME OrderInv, [Next]_vars
             PROVE  CommandsAreForThisStop'
    OBVIOUS
<1> USE DEF server, threads, queues, client
<1>1. TypeOK /\ HandlesFit /\ UnbornUnknown /\ Attention /\ CommandsAreForThisStop
    BY DEF OrderInv, Inv
<1>2. CASE UNCHANGED <<vm, commands>>
    BY <1>1, <1>2 DEF CommandsAreForThisStop
    \* What the server sends to a thread it attends to.
<1>3. ASSUME UNCHANGED vm, NEW cmds, Send(cmd_tx, cmds), cmd_tx # None,
             vm[cmd_tx] \notin {"exited", "finished"} =>
                /\ vm[cmd_tx] = "blocked"
                /\ \A i \in DOMAIN commands'[cmd_tx] :
                      i < Len(commands'[cmd_tx])
                        => commands'[cmd_tx][i].kind = "SetBreakpoints"
      PROVE  CommandsAreForThisStop'
    <2>1. cmd_tx \in Sessions
        BY <1>1, <1>3 DEF TypeOK, Handles
    <2>2. \A g \in Sessions : g # cmd_tx => commands'[g] = commands[g]
        BY <1>1, <1>3 DEF Send, TypeOK
    <2>3. QED  BY <1>1, <1>3, <2>1, <2>2 DEF CommandsAreForThisStop
<1>4. ASSUME NEW raw \in Files \cup Aliases, NEW lines \in SUBSET LineNumbers,
             SetBreakpoints(raw, lines)
      PROVE  CommandsAreForThisStop'
    <2>1. pc = "idle" /\ cmd_tx = event_rx /\ UNCHANGED vm
          /\ Send(cmd_tx, <<SetBreakpointsCmd(PendingAfter(raw, lines))>>)
        BY <1>1, <1>4 DEF SetBreakpoints, Handling, HandlesFit
    <2>2. CASE cmd_tx = None
        BY <1>2, <2>1, <2>2 DEF Send
    <2>3. CASE cmd_tx # None
        <3>1. cmd_tx \in Sessions /\ Settled(cmd_tx)
            BY <1>1, <2>1, <2>3 DEF Attention, TypeOK, Handles
        <3>2. PendingAfter(raw, lines) \in SUBSET Locs
            BY <1>1, PendingType DEF TypeOK
        <3>3. NoExec(cmd_tx) =>
                 \A i \in DOMAIN commands'[cmd_tx] :
                     commands'[cmd_tx][i].kind = "SetBreakpoints"
            BY <1>1, <2>1, <3>1, <3>2, SendSetBreakpoints DEF NoExec
        <3>4. QED  BY <1>3, <2>1, <2>3, <3>1, <3>3 DEF Settled
    <2>4. QED  BY <2>2, <2>3
<1>5. ASSUME NEW kind \in ExecKinds, Exec(kind)
      PROVE  CommandsAreForThisStop'
    <2>1. pc = "idle" /\ cmd_tx = event_rx /\ UNCHANGED vm
          /\ Send(cmd_tx, <<ExecCmd(kind)>>)
        BY <1>1, <1>5 DEF Exec, Handling, HandlesFit
    <2>2. CASE cmd_tx = None
        BY <1>2, <2>1, <2>2 DEF Send
    <2>3. CASE cmd_tx # None
        <3>1. cmd_tx \in Sessions /\ Settled(cmd_tx)
            BY <1>1, <2>1, <2>3 DEF Attention, TypeOK, Handles
        <3>2. NoExec(cmd_tx) /\ vm[cmd_tx] # "exited" =>
                 \A i \in DOMAIN commands'[cmd_tx] :
                     i < Len(commands'[cmd_tx])
                       => commands'[cmd_tx][i].kind = "SetBreakpoints"
            BY <1>1, <2>1, <3>1, SendExec DEF ExecIsLast
        <3>3. QED  BY <1>3, <2>1, <2>3, <3>1, <3>2 DEF Settled
    <2>4. QED  BY <2>2, <2>3
<1>6. CASE RunToBreakpoints
    <2>1. /\ pc = "first" /\ cmd_tx = event_rx /\ event_rx # None /\ event_rx \in Sessions
          /\ Awaited(event_rx) /\ commands[event_rx] = <<>> /\ TakeStop
          /\ Send(cmd_tx, <<SetBreakpointsCmd(pending_breakpoints), ExecCmd("Continue")>>)
          /\ UNCHANGED threads
        BY <1>1, <1>6 DEF RunToBreakpoints, HandlesFit, Attention, Attended, TypeOK, Handles
    <2>2. vm[event_rx] = "blocked"
        BY <1>1, <2>1, WaitIsOver
    <2>3. commands'[event_rx]
            = <<SetBreakpointsCmd(pending_breakpoints), ExecCmd("Continue")>>
        BY <1>1, <2>1, <2>2 DEF Send, TypeOK
    <2>4. \A i \in DOMAIN commands'[event_rx] :
              i < Len(commands'[event_rx])
                => commands'[event_rx][i].kind = "SetBreakpoints"
        BY <2>3 DEF SetBreakpointsCmd
    <2>5. QED  BY <1>3, <2>1, <2>2, <2>4
<1>7. ASSUME NEW g \in Sessions, StartExecution(g) \/ SpawnFails(g)
      PROVE  CommandsAreForThisStop'
    BY <1>1, <1>7 DEF StartExecution, SpawnFails, UnbornUnknown, CommandsAreForThisStop,
       TypeOK
<1>8. ASSUME NEW g \in Sessions, VmNext(g)
      PROVE  CommandsAreForThisStop'
    BY <1>8, StepOrderThreads
<1>9. QED
    BY <1>2, <1>4, <1>5, <1>6, <1>7, <1>8
    DEF Next, ServerMoves, Launch, StartFails, DropCmdTx, Started, StopAtEntry, WaitEnds,
        DropEventRx, Join, ClientGone, vars

(* What a step of the attended thread does to its count.                   *)
LEMMA StepStopsThreads ==
    ASSUME OrderInv, NEW g \in Sessions, VmNext(g)
    PROVE  StopsCounted'
<1>1. TypeOK /\ HandlesFit /\ UnbornUnknown /\ Attention /\ StopsCounted
    BY DEF OrderInv, Inv
<1>2. UNCHANGED <<pc, cmd_tx, event_rx, vm_stopped_state>> /\ UNCHANGED Attended
    BY <1>1, ThreadStepIsLocal DEF server, Attended
<1>3. ASSUME NEW h \in Sessions, h # g
      PROVE  UNCHANGED <<vm[h], stop_no[h], events[h]>>
    BY <1>1, <1>3, ThreadStepIsLocal
<1>4. \A h \in Sessions : vm'[h] = "unborn" => stop_no'[h] = 0
    BY <1>1, <1>3, ThreadStepIsLocal DEF StopsCounted
<1>5. /\ pc \in {"starting", "first", "waiting"} => Attended \in Sessions /\ Awaited(Attended)
      /\ pc \in {"starting", "first"} => commands[Attended] = <<>>
      /\ pc = "waiting" => Attended = event_rx
      /\ pc \in {"starting", "first", "waiting"} => cmd_tx = Attended
    BY <1>1 DEF Attention, Attended, HandlesFit, TypeOK, Handles
<1>6. ASSUME pc \in {"starting", "first", "waiting"}, Attended = g,
             vm'[g] \in {"running", "blocked"}
      PROVE  \/ /\ vm[g] = "running" /\ vm'[g] = "blocked"
                /\ stop_no'[g] = stop_no[g] + 1
                /\ events[g] = <<>> /\ events'[g] # <<>>
             \/ /\ vm[g] \in {"running", "blocked"}
                /\ UNCHANGED <<stop_no[g], events[g]>>
                /\ vm'[g] = vm[g] \/ commands[g] # <<>>
    <2>1. CASE VmStop(g)
        <3>1. vm[g] = "running" /\ events[g] = <<>>
            BY <1>5, <1>6, <2>1 DEF VmStop, Awaited
        <3>2. vm'[g] = "blocked" /\ stop_no'[g] = stop_no[g] + 1
            BY <1>1, <2>1 DEF VmStop, TypeOK
        <3>3. events'[g] = Append(<<>>, "Stopped")
            BY <1>1, <2>1, <3>1 DEF VmStop, TypeOK
        <3>4. Append(<<>>, "Stopped") # <<>>
            OBVIOUS
        <3>5. QED  BY <3>1, <3>2, <3>3, <3>4
    <2>2. CASE VmFinish(g) \/ VmExit(g)
        BY <1>1, <1>6, <2>2 DEF VmFinish, VmExit, TypeOK
    <2>3. CASE VmGiveUp(g) \/ VmRenew(g) \/ VmSetBreakpoints(g)
        BY <1>1, <2>3 DEF VmGiveUp, VmRenew, VmSetBreakpoints, queues
    <2>4. ASSUME NEW step \in BOOLEAN, VmResume(g, step)
          PROVE  /\ vm[g] = "blocked" /\ commands[g] # <<>>
                 /\ UNCHANGED <<stop_no[g], events[g]>>
        BY <2>4 DEF VmResume
    <2>5. CASE VmSetFree(g)
        BY <1>5, <1>6, <2>5 DEF VmSetFree
    <2>6. QED  BY <2>1, <2>2, <2>3, <2>4, <2>5 DEF VmNext, VmRuns
<1>7. stop_no[g] \in Nat
    BY <1>1, BoundAssumption DEF TypeOK
<1>8. pc \in {"starting", "first"} =>
          /\ vm'[Attended] = "running" => stop_no'[Attended] = 0
          /\ vm'[Attended] = "blocked" => stop_no'[Attended] = 1
    <2>1. CASE Attended = g
        BY <1>1, <1>5, <1>6, <1>7, <2>1 DEF StopsCounted
    <2>2. CASE Attended # g
        BY <1>1, <1>3, <1>5, <2>2 DEF StopsCounted
    <2>3. QED  BY <2>1, <2>2
<1>9. ASSUME pc = "waiting", vm'[event_rx] \in {"running", "blocked"}
      PROVE  vm_stopped_state =
                <<event_rx, IF events'[event_rx] = <<>> THEN stop_no'[event_rx]
                            ELSE stop_no'[event_rx] - 1>>
    <2>1. CASE event_rx = g
        BY <1>1, <1>5, <1>6, <1>7, <1>9, <2>1 DEF StopsCounted
    <2>2. CASE event_rx # g
        <3>1. UNCHANGED <<vm[event_rx], stop_no[event_rx], events[event_rx]>>
            BY <1>2, <1>3, <1>5, <1>9, <2>2
        <3>2. QED  BY <1>1, <1>2, <1>9, <3>1 DEF StopsCounted
    <2>3. QED  BY <2>1, <2>2
<1>10. QED  BY <1>2, <1>4, <1>8, <1>9 DEF StopsCounted

LEMMA StepStops == OrderInv /\ [Next]_vars => StopsCounted'
<1> SUFFICES ASSUME OrderInv, [Next]_vars
             PROVE  StopsCounted'
    OBVIOUS
<1> USE DEF server, threads, queues, client
<1>1. /\ TypeOK /\ HandlesFit /\ UnbornUnknown /\ Attention /\ SnapshotIsCurrent
      /\ StopsCounted
    BY DEF OrderInv, Inv
<1>2. CASE /\ UNCHANGED <<vm, stop_no, event_rx, vm_stopped_state>>
           /\ pc' \notin {"starting", "first", "waiting"}
    BY <1>1, <1>2 DEF StopsCounted
<1>3. CASE UNCHANGED <<pc, cmd_tx, event_rx, vm, stop_no, events, vm_stopped_state>>
    BY <1>1, <1>3 DEF StopsCounted, Attended
<1>4. ASSUME NEW g \in Sessions, StartExecution(g) \/ SpawnFails(g)
      PROVE  StopsCounted'
    <2>1. /\ pc' \in {"starting", "failing"}
          /\ pc' = "starting" => Attended' = g
          /\ UNCHANGED stop_no
          /\ vm[g] = "unborn" /\ vm'[g] \in {"running", "exited"}
          /\ \A h \in Sessions : h # g => vm'[h] = vm[h]
        BY <1>1, <1>4 DEF StartExecution, SpawnFails, Attended, TypeOK
    <2>2. stop_no[g] = 0
        BY <1>1, <2>1 DEF StopsCounted
    <2>3. \A h \in Sessions : vm'[h] = "unborn" => stop_no'[h] = 0
        BY <1>1, <2>1 DEF StopsCounted
    <2>4. QED  BY <2>1, <2>2, <2>3 DEF StopsCounted
<1>5. ASSUME NEW kind \in ExecKinds, Exec(kind)
      PROVE  StopsCounted'
    <2>1. /\ pc = "idle" /\ pc' = (IF event_rx = None THEN "idle" ELSE "waiting")
          /\ UNCHANGED <<vm, stop_no, events, event_rx, vm_thread, vm_stopped_state>>
        BY <1>5 DEF Exec, Handling
    <2>2. CASE event_rx = None
        BY <1>1, <2>1, <2>2 DEF StopsCounted
    <2>3. ASSUME event_rx # None, vm[event_rx] \in {"running", "blocked"}
          PROVE  vm_stopped_state = <<event_rx, stop_no[event_rx]>> /\ events[event_rx] = <<>>
        <3>1. Settled(event_rx) /\ vm_thread = event_rx
            BY <1>1, <2>1, <2>3 DEF Attention, HandlesFit
        <3>2. QED  BY <1>1, <2>1, <2>3, <3>1 DEF Settled, SnapshotIsCurrent
    <2>4. QED  BY <1>1, <2>1, <2>2, <2>3 DEF StopsCounted
<1>6. CASE Started
    <2>1. /\ UNCHANGED <<vm, stop_no>>
          /\ pc' \in {"first", "idle"} /\ event_rx' = cmd_tx
          /\ pc' = "first" => pc = "starting"
        BY <1>6 DEF Started
    <2>2. pc = "starting" => Attended = cmd_tx
        BY DEF Attended
    <2>3. pc' = "first" => Attended' = cmd_tx
        BY <2>1 DEF Attended
    <2>4. QED  BY <1>1, <2>1, <2>2, <2>3 DEF StopsCounted
<1>7. CASE RunToBreakpoints
    <2>1. /\ pc = "first" /\ event_rx # None /\ event_rx \in Sessions
          /\ Awaited(event_rx) /\ TakeStop /\ pc' = "waiting"
          /\ UNCHANGED <<threads, event_rx>>
        BY <1>1, <1>7 DEF RunToBreakpoints, HandlesFit, Attention, Attended, TypeOK, Handles
    <2>2. events'[event_rx] = <<>>
        BY <1>1, <2>1, WaitIsOver
    <2>3. vm_stopped_state' = <<event_rx, stop_no[event_rx]>>
        BY <2>1 DEF TakeStop
    <2>4. QED  BY <1>1, <2>1, <2>2, <2>3 DEF StopsCounted
<1>8. CASE StopAtEntry \/ WaitEnds
    BY <1>1, <1>8 DEF StopAtEntry, WaitEnds, StopsCounted
<1>9. CASE DropCmdTx \/ DropEventRx \/ Join
    BY <1>1, <1>9 DEF DropCmdTx, DropEventRx, Join, StopsCounted
<1>10. ASSUME NEW g \in Sessions, VmNext(g)
       PROVE  StopsCounted'
    BY <1>10, StepStopsThreads
<1>11. ASSUME NEW raw \in Files \cup Aliases, NEW lines \in SUBSET LineNumbers,
              SetBreakpoints(raw, lines)
       PROVE  StopsCounted'
    BY <1>3, <1>11 DEF SetBreakpoints
<1>12. QED
    BY <1>3, <1>4, <1>5, <1>6, <1>7, <1>8, <1>9, <1>10, <1>11
    DEF Next, ServerMoves, Launch, StartFails, ClientGone, vars

LEMMA OrderInvariance == SafetySpec => []OrderInv
<1>1. Init => OrderInv
    <2>1. Init => CommandsAreForThisStop /\ StopsCounted
        BY DEF Init, CommandsAreForThisStop, StopsCounted
    <2>2. QED  BY <2>1, InitInv DEF OrderInv
<1>2. OrderInv /\ [Next]_vars => OrderInv'
    BY StepInv, StepOrder, StepStops DEF OrderInv
<1>3. QED  BY <1>1, <1>2, PTL DEF SafetySpec

(* A thread obeys a command in the stop it was sent in: a running thread   *)
(* has nothing left to read (debug_loop's recv, server.rs:276-279).        *)
THEOREM CommandsBelongToTheirStop == SafetySpec => []CommandsAreForThisStop
<1>1. OrderInv => CommandsAreForThisStop  BY DEF OrderInv
<1>2. QED  BY OrderInvariance, <1>1, PTL

(* The snapshots of an execution are those of all its stops, in order and  *)
(* each once (wait_for_vm_event).                                          *)
THEOREM SnapshotsFollowStops == SafetySpec => EveryStopIsTaken
<1> DEFINE Taken ==
        vm_stopped_state' \notin {<<>>, vm_stopped_state} =>
          \/ vm_stopped_state'[2] = 1
          \/ vm_stopped_state = <<vm_stopped_state'[1], vm_stopped_state'[2] - 1>>
<1>1. ASSUME OrderInv, Next
      PROVE  Taken
    <2>1. TypeOK /\ HandlesFit /\ Attention /\ StopsCounted
        BY <1>1 DEF OrderInv, Inv
    <2>2. CASE RunToBreakpoints \/ StopAtEntry \/ (WaitEnds /\ TakeStop)
        <3>1. /\ pc \in {"first", "waiting"} /\ event_rx \in Sessions /\ Awaited(event_rx)
              /\ TakeStop /\ UNCHANGED threads
              /\ WaitEnds => pc = "waiting"
            <4>1. ~(TakeStop /\ TakeEnd)
                BY DEF TakeStop, TakeEnd, TakeEvent
            <4>2. QED
                BY <2>1, <2>2, <4>1 DEF RunToBreakpoints, StopAtEntry, WaitEnds, HandlesFit,
                      Attention, Attended, TypeOK, Handles
        <3>2. vm[event_rx] = "blocked" /\ events[event_rx] # <<>>
            BY <2>1, <3>1, WaitIsOver DEF TakeStop, TakeEvent
        <3>3. /\ vm_stopped_state' = <<event_rx, stop_no[event_rx]>>
              /\ vm_stopped_state'[1] = event_rx
              /\ vm_stopped_state'[2] = stop_no[event_rx]
            BY <3>1 DEF TakeStop
        <3>4. CASE pc = "first"
            BY <2>1, <3>2, <3>3, <3>4 DEF StopsCounted, Attended
        <3>5. CASE pc = "waiting"
            BY <2>1, <3>2, <3>3, <3>5 DEF StopsCounted
        <3>6. QED  BY <3>1, <3>4, <3>5
    <2>3. CASE WaitEnds /\ ~TakeStop
        BY <2>3 DEF WaitEnds, TakeEnd
    <2>4. ASSUME NEW g \in Sessions, VmNext(g)
          PROVE  UNCHANGED vm_stopped_state
        BY <2>1, <2>4, ThreadStepIsLocal DEF server
    <2>5. QED
        BY <1>1, <2>2, <2>3, <2>4
        DEF Next, ServerMoves, Launch, SetBreakpoints, StartFails, StartExecution,
            SpawnFails, Exec, DropCmdTx, Started, DropEventRx, Join, ClientGone, server
<1>2. OrderInv /\ [Next]_vars => [Taken]_vars
    BY <1>1
<1>3. QED  BY OrderInvariance, <1>2, PTL DEF SafetySpec, EveryStopIsTaken

-----------------------------------------------------------------------------
(* Progress: with NoMutualWait, what the end of a wait rests on.           *)

LEMMA ThreadStepCounts ==
    ASSUME TypeOK, NEW g \in Sessions, VmNext(g)
    PROVE  \/ StepsLeft(g)' < StepsLeft(g)
           \/ Len(events'[g]) > Len(events[g])
<1>1. /\ renews[g] \in Nat /\ renews[g] <= MaxRenews /\ MaxRenews \in Nat
      /\ Len(commands[g]) \in Nat /\ events[g] \in Seq({"Stopped", "Terminated"})
    BY BoundAssumption, LenProperties DEF TypeOK
<1>2. CASE VmStop(g)
    <2>1. events'[g] = Append(events[g], "Stopped")
        BY <1>2 DEF VmStop, TypeOK
    <2>2. QED  BY <1>1, <2>1
<1>3. CASE VmFinish(g)
    <2>1. vm[g] = "running" /\ vm'[g] = "finished"
        BY <1>3 DEF VmFinish, TypeOK
    <2>2. QED  BY <1>1, <2>1 DEF StepsLeft
<1>4. CASE VmExit(g)
    <2>1. vm[g] \in {"running", "finished"} /\ vm'[g] = "exited"
        BY <1>4 DEF VmExit, TypeOK
    <2>2. QED  BY <1>1, <2>1 DEF StepsLeft
<1>5. CASE VmGiveUp(g)
    <2>1. /\ vm[g] = "running" /\ UNCHANGED <<vm[g], renews[g]>>
          /\ stepping[g] /\ ~stepping'[g]
        BY <1>5 DEF VmGiveUp, TypeOK
    <2>2. QED  BY <1>1, <2>1 DEF StepsLeft
<1>6. CASE VmSetBreakpoints(g)
    <2>1. /\ vm[g] = "blocked" /\ UNCHANGED <<vm[g], renews[g]>>
          /\ commands[g] # <<>> /\ commands'[g] = Tail(commands[g])
        BY <1>6 DEF VmSetBreakpoints, TypeOK
    <2>2. Len(commands'[g]) = Len(commands[g]) - 1
        BY <2>1, HeadTailProperties DEF TypeOK
    <2>3. QED  BY <1>1, <2>1, <2>2 DEF StepsLeft
<1>7. ASSUME vm[g] = "blocked", vm'[g] = "running", UNCHANGED renews[g]
      PROVE  StepsLeft(g)' < StepsLeft(g)
    BY <1>1, <1>7 DEF StepsLeft
<1>8. ASSUME NEW step \in BOOLEAN, VmResume(g, step)
      PROVE  StepsLeft(g)' < StepsLeft(g)
    BY <1>7, <1>8 DEF VmResume, TypeOK
<1>9. CASE VmSetFree(g)
    BY <1>7, <1>9 DEF VmSetFree, TypeOK
<1>10. CASE VmRenew(g)
    <2>1. /\ vm[g] = "running" /\ UNCHANGED vm[g]
          /\ renews'[g] = renews[g] + 1
        BY <1>10 DEF VmRenew, TypeOK
    <2>2. 2 * (MaxRenews - (renews[g] + 1)) = 2 * (MaxRenews - renews[g]) - 2
        BY <1>1
    <2>3. QED  BY <1>1, <2>1, <2>2 DEF StepsLeft
<1>11. QED
    BY <1>2, <1>3, <1>4, <1>5, <1>6, <1>8, <1>9, <1>10 DEF VmNext, VmRuns

(* A server that sends something sends it between two waits.               *)
LEMMA SendingIsCounted ==
    ASSUME TypeOK, NEW g \in Sessions, NEW h \in Handles, NEW cmds \in Seq(DapCommand),
           cmds # <<>>, Send(h, cmds), commands'[g] # commands[g]
    PROVE  Len(commands'[g]) > Len(commands[g])
<1>1. commands'[g] = commands[g] \o cmds
    BY DEF Send, TypeOK
<1>2. Len(cmds) \in Nat /\ Len(cmds) # 0
    BY EmptySeq, LenProperties
<1>3. Len(commands[g]) \in Nat /\ Len(commands[g] \o cmds) = Len(commands[g]) + Len(cmds)
    BY LenProperties, ConcatProperties DEF TypeOK
<1>4. QED  BY <1>1, <1>2, <1>3

(* Every step of a thread is one of finitely many before it ends, reports  *)
(* or is sent a command (debug_loop, wait_for_vm_event).                   *)
THEOREM ThreadsRunOut == SafetySpec => EveryStepCounts
<1>1. ASSUME Inv, Next, NEW g \in Sessions
      PROVE  StepCounts(g)
    <2> USE DEF server, threads, queues, client
    <2>1. TypeOK
        BY <1>1 DEF Inv
    <2>2. ASSUME NEW h \in Sessions, VmNext(h)
          PROVE  StepCounts(g)
        <3>1. CASE h = g
            BY <2>1, <2>2, <3>1, ThreadStepCounts DEF StepCounts
        <3>2. CASE h # g
            BY <2>1, <2>2, <3>2, ThreadStepIsLocal DEF StepCounts
        <3>3. QED  BY <3>1, <3>2
    <2>3. CASE UNCHANGED <<threads, commands>>
        BY <2>3 DEF StepCounts
    <2>4. ASSUME UNCHANGED threads, pc \in {"idle", "first"},
                 NEW cmds \in Seq(DapCommand), cmds # <<>>, Send(cmd_tx, cmds)
          PROVE  StepCounts(g)
        <3>1. commands'[g] # commands[g] => Len(commands'[g]) > Len(commands[g])
            BY <2>1, <2>4, SendingIsCounted DEF TypeOK
        <3>2. QED  BY <2>4, <3>1 DEF StepCounts
    <2>5. ASSUME NEW raw \in Files \cup Aliases, NEW lines \in SUBSET LineNumbers,
                 SetBreakpoints(raw, lines)
          PROVE  StepCounts(g)
        <3>1. PendingAfter(raw, lines) \in SUBSET Locs
            BY <2>1, PendingType DEF TypeOK
        <3>2. <<SetBreakpointsCmd(PendingAfter(raw, lines))>> \in Seq(DapCommand)
            BY <3>1, SetBreakpointsCmdType
        <3>3. QED  BY <2>4, <2>5, <3>2 DEF SetBreakpoints, Handling
    <2>6. ASSUME NEW kind \in ExecKinds, Exec(kind)
          PROVE  StepCounts(g)
        <3>1. <<ExecCmd(kind)>> \in Seq(DapCommand)
            BY ExecCmdType
        <3>2. QED  BY <2>4, <2>6, <3>1 DEF Exec, Handling
    <2>7. CASE RunToBreakpoints
        <3>1. <<SetBreakpointsCmd(pending_breakpoints), ExecCmd("Continue")>> \in Seq(DapCommand)
            BY <2>1, SetBreakpointsCmdType, ExecCmdType DEF TypeOK, ExecKinds
        <3>2. QED  BY <2>4, <2>7, <3>1 DEF RunToBreakpoints
    <2>8. ASSUME NEW h \in Sessions, StartExecution(h) \/ SpawnFails(h)
          PROVE  StepCounts(g)
        BY <2>1, <2>8 DEF StartExecution, SpawnFails, TypeOK, StepCounts
    <2>9. QED
        BY <1>1, <2>2, <2>3, <2>5, <2>6, <2>7, <2>8
        DEF Next, ServerMoves, Launch, StartFails, DropCmdTx, Started, StopAtEntry,
            WaitEnds, DropEventRx, Join, ClientGone
<1>2. Inv /\ [Next]_vars => [\A g \in Sessions : StepCounts(g)]_vars
    BY <1>1
<1>3. QED  BY Invariance, <1>2, PTL DEF SafetySpec, EveryStepCounts
=============================================================================
