-------------------------- MODULE StoredVariables --------------------------
(***************************************************************************)
(* The variables references of one debug session: server/variables.rs, the *)
(* scopes and variables requests of server.rs and the transaction scope of *)
(* server/replay.rs.  A reference is a number, and the ranges of numbers   *)
(* say what it stands for: 1 is the transaction, the range from            *)
(* FRAME_LOCALS_OFFSET the locals of a frame, the range from               *)
(* EXPANDABLE_VARS_OFFSET an index into a table that grows by one entry    *)
(* per compound value shown and is emptied at every stop.                  *)
(***************************************************************************)
EXTENDS Integers, Sequences

CONSTANTS
    DebugValues,             \* values, as far as they differ here
    Compound,                \* those that get a reference of their own
    Children,                \* the values inside each value, in order
    TxnArgs,                 \* the decoded arguments, as one struct
    Replay,                  \* a transaction with arguments is loaded
    Snapshots,               \* VmStoppedStates: per frame, its locals
    NoSnapshot,
    FRAME_LOCALS_OFFSET,
    EXPANDABLE_VARS_OFFSET,
    MaxExpandable            \* bound on the size of the table

SCOPE_TRANSACTION_INFO == 1

ASSUME ValueAssumption ==
    /\ Compound \subseteq DebugValues
    /\ Children \in [DebugValues -> Seq(DebugValues)]
    /\ Replay => TxnArgs \in Compound
    /\ Replay \in BOOLEAN

ASSUME SnapshotAssumption ==
    /\ NoSnapshot \notin Snapshots
    /\ Snapshots \subseteq Seq(Seq(DebugValues))

(* Frames never run into the range of the table: the Move VM's call stack  *)
(* is far shorter than the distance of the offsets.                        *)
ASSUME OffsetAssumption ==
    /\ FRAME_LOCALS_OFFSET \in Nat /\ EXPANDABLE_VARS_OFFSET \in Nat
    /\ SCOPE_TRANSACTION_INFO < FRAME_LOCALS_OFFSET
    /\ FRAME_LOCALS_OFFSET < EXPANDABLE_VARS_OFFSET
    /\ \A s \in Snapshots :
          FRAME_LOCALS_OFFSET + Len(s) <= EXPANDABLE_VARS_OFFSET

VARIABLES
    vm_stopped_state,  \* a snapshot, or NoSnapshot
    expandable_vars,   \* the table of compound values shown
    issued             \* what the client holds: <<reference, meaning>>

vars == <<vm_stopped_state, expandable_vars, issued>>

(* What a reference can mean to the client.                                *)
ValueMeaning(v) == <<"value", v>>
FrameMeaning(k) == <<"frame", k>>
TxnMeaning      == <<"transaction">>

TypeOK ==
    /\ vm_stopped_state \in Snapshots \cup {NoSnapshot}
    /\ expandable_vars \in Seq(Compound)
    /\ \A p \in issued : p[1] \in Int

Init ==
    /\ vm_stopped_state = NoSnapshot
    /\ expandable_vars = <<>>
    /\ issued = {}

-----------------------------------------------------------------------------
frame_locals_ref_id(frame_id) == FRAME_LOCALS_OFFSET + frame_id

(* Slip: every value gets an entry.                                        *)
StoredAll(values) == DOMAIN values

(* Where the values are whose conversion to a Variable calls               *)
(* store_expandable.                                                       *)
Stored(values) == {i \in DOMAIN values : values[i] \in Compound}

(* Slip: the length is read after the push.                                *)
store_expandable_after(j) == EXPANDABLE_VARS_OFFSET + Len(expandable_vars) + j

(* The reference of the j-th of the values a request stores.               *)
store_expandable(j) == EXPANDABLE_VARS_OFFSET + Len(expandable_vars) + j - 1

(* A request that shows these values, in their order: the table grows, and *)
(* the client learns the new references.                                   *)
Show(values) ==
    \E n \in 0 .. Len(values) :
        \E at \in [1 .. n -> DOMAIN values] :
            /\ \A i, j \in 1 .. n : i < j => at[i] < at[j]
            /\ {at[j] : j \in 1 .. n} = Stored(values)
            /\ Len(expandable_vars) + n <= MaxExpandable
            /\ expandable_vars' = expandable_vars \o [j \in 1 .. n |-> values[at[j]]]
            /\ issued' = issued \cup
                 {<<store_expandable(j), ValueMeaning(values[at[j]])>> : j \in 1 .. n}
            /\ UNCHANGED vm_stopped_state

(* get_variables, by range of the reference.                               *)
Meaning(ref) ==
    IF ref = SCOPE_TRANSACTION_INFO THEN TxnMeaning
    ELSE IF ref \in FRAME_LOCALS_OFFSET .. EXPANDABLE_VARS_OFFSET - 1
         THEN FrameMeaning(ref - FRAME_LOCALS_OFFSET)
    ELSE IF ref - EXPANDABLE_VARS_OFFSET \in 0 .. Len(expandable_vars) - 1
         THEN ValueMeaning(expandable_vars[ref - EXPANDABLE_VARS_OFFSET + 1])
    ELSE <<"nothing">>

(* locals_for_frame.  The locals that hold nothing, which it leaves out,   *)
(* would get no reference either.                                          *)
locals_for_frame(k) ==
    IF vm_stopped_state # NoSnapshot /\ k < Len(vm_stopped_state)
    THEN vm_stopped_state[k + 1]
    ELSE <<>>

-----------------------------------------------------------------------------
(* handle_scopes for one of the frames of the stack trace.                 *)
Scopes(frame_id) ==
    /\ issued' = issued
         \cup (IF frame_id = 0 /\ Replay
               THEN {<<SCOPE_TRANSACTION_INFO, TxnMeaning>>} ELSE {})
         \cup (IF vm_stopped_state # NoSnapshot
               THEN {<<frame_locals_ref_id(frame_id), FrameMeaning(frame_id)>>}
               ELSE {})
    /\ UNCHANGED <<vm_stopped_state, expandable_vars>>

(* handle_variables, for a reference of each kind.                         *)
TransactionInfo(ref) ==
    /\ Meaning(ref) = TxnMeaning
    /\ Show(IF Replay THEN <<TxnArgs>> ELSE <<>>)

FrameVariables(ref) ==
    /\ Meaning(ref)[1] = "frame"
    /\ Show(locals_for_frame(Meaning(ref)[2]))

ValueVariables(ref) ==
    /\ Meaning(ref)[1] = "value"
    /\ Show(Children[Meaning(ref)[2]])

(* Slip: the table is not emptied.                                         *)
StoppedUncleared(snapshot) ==
    /\ vm_stopped_state' = snapshot
    /\ issued' = {}
    /\ UNCHANGED expandable_vars

(* wait_for_vm_event: a stop replaces the snapshot and empties the table,  *)
(* an end only drops the snapshot.  Told of either, the client forgets the *)
(* references it holds.                                                    *)
Stopped(snapshot) ==
    /\ vm_stopped_state' = snapshot
    /\ expandable_vars' = <<>>
    /\ issued' = {}

Terminated ==
    /\ vm_stopped_state' = NoSnapshot
    /\ issued' = {}
    /\ UNCHANGED expandable_vars

FrameIds ==
    IF vm_stopped_state = NoSnapshot THEN {0} ELSE 0 .. Len(vm_stopped_state) - 1

Next ==
    \/ \E frame_id \in FrameIds : Scopes(frame_id)
    \/ \E p \in issued :
          TransactionInfo(p[1]) \/ FrameVariables(p[1]) \/ ValueVariables(p[1])
    \/ \E snapshot \in Snapshots : Stopped(snapshot)
    \/ Terminated

Spec == Init /\ [][Next]_vars

-----------------------------------------------------------------------------
(* Every reference the client was given since the last stop or end still   *)
(* means what it meant when it was given, however many values were shown   *)
(* in between, and no two kinds of references collide at the offsets.      *)
ReferencesStayGood == \A p \in issued : Meaning(p[1]) = p[2]

(* Expanding never shows a value of another stop: all the table holds      *)
(* while the client looks at a stop comes from that stop's snapshot or     *)
(* from the transaction.                                                   *)
Inside(v) == {Children[v][i] : i \in DOMAIN Children[v]}

TableIsOfThisStop ==
    vm_stopped_state # NoSnapshot =>
        \A i \in DOMAIN expandable_vars :
            \/ expandable_vars[i] = TxnArgs /\ Replay
            \/ \E k \in DOMAIN vm_stopped_state :
                  \E j \in DOMAIN vm_stopped_state[k] :
                      vm_stopped_state[k][j] = expandable_vars[i]
            \/ \E h \in 1 .. i - 1 : expandable_vars[i] \in Inside(expandable_vars[h])
=============================================================================
