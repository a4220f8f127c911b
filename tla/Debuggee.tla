------------------------------ MODULE Debuggee ------------------------------
(***************************************************************************)
(* What the execution thread of a debugged Move program promises to the    *)
(* session that debugs it, with every detail of bytecode left out.  The    *)
(* thread runs until it has a reason to stop, reports the stop, and then   *)
(* blocks until it is told how to go on.  Dropping the session's ends of   *)
(* the two channels, the command sender first and the event receiver       *)
(* second, always sets it free again.                                      *)
(*                                                                         *)
(* DapContext (the debug_loop of one thread) and DapSession (the channels  *)
(* and the server around it) are both shown to implement this module.      *)
(***************************************************************************)
CONSTANT Locs        \* the source locations a breakpoint can be set on

VARIABLES
    blocked,         \* the thread waits for a command inside debug_loop
    stepping,        \* a step command is pending, so a stop may come anywhere
    bps,             \* the breakpoints the thread has been given
    link             \* "up", "closing" (command sender dropped), "down" (both)

vars == <<blocked, stepping, bps, link>>

Init ==
    /\ blocked = FALSE
    /\ stepping = TRUE
    /\ bps = {}
    /\ link = "up"

(* A stop has a cause, and is only ever reported to somebody.              *)
Stop ==
    /\ ~blocked
    /\ stepping \/ bps # {}
    /\ link # "down"
    /\ blocked' = TRUE
    /\ stepping' = FALSE
    /\ UNCHANGED <<bps, link>>

(* Breakpoints change only while the thread is blocked.  A command sent    *)
(* before the sender was dropped is still received after.                  *)
SetBreakpoints(S) ==
    /\ blocked
    /\ bps' = S
    /\ UNCHANGED <<blocked, stepping, link>>

Resume(step) ==
    /\ blocked
    /\ blocked' = FALSE
    /\ stepping' = step
    /\ UNCHANGED <<bps, link>>

(* The command sender is gone: go on to the end of the program.            *)
SetFree ==
    /\ blocked
    /\ link # "up"
    /\ blocked' = FALSE
    /\ stepping' = FALSE
    /\ UNCHANGED <<bps, link>>

(* The event receiver is gone too: a due stop is not taken.                *)
GiveUp ==
    /\ ~blocked
    /\ link = "down"
    /\ stepping' = FALSE
    /\ UNCHANGED <<blocked, bps, link>>

(* The execution goes on in a worker thread, whose context starts afresh.  *)
Renew ==
    /\ ~blocked
    /\ stepping' = TRUE
    /\ bps' = {}
    /\ UNCHANGED <<blocked, link>>

DropCmdTx ==
    /\ link = "up"
    /\ link' = "closing"
    /\ UNCHANGED <<blocked, stepping, bps>>

DropEventRx ==
    /\ link = "closing"
    /\ link' = "down"
    /\ UNCHANGED <<blocked, stepping, bps>>

Next ==
    \/ Stop
    \/ \E S \in SUBSET Locs : SetBreakpoints(S)
    \/ \E step \in BOOLEAN : Resume(step)
    \/ SetFree
    \/ GiveUp
    \/ Renew
    \/ DropCmdTx
    \/ DropEventRx

SafetySpec == Init /\ [][Next]_vars

Spec == SafetySpec /\ WF_vars(SetFree)
=============================================================================
