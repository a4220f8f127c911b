----------------------- MODULE StoredVariablesProofs -----------------------
(***************************************************************************)
(* Proofs about StoredVariables, for any values and snapshots: a reference *)
(* the client holds keeps its meaning, and an expansion shows nothing of   *)
(* another stop.                                                           *)
(***************************************************************************)
EXTENDS StoredVariables, SequenceTheorems, TLAPS

(* The references the client holds, kind by kind.  A frame's reference     *)
(* lies below the table's range, and the reference of a value is the place *)
(* it has in the table.                                                    *)
IsTransaction(p) == p = <<SCOPE_TRANSACTION_INFO, TxnMeaning>>
IsFrame(p) ==
    \E k \in Nat :
        /\ frame_locals_ref_id(k) < EXPANDABLE_VARS_OFFSET
        /\ p = <<frame_locals_ref_id(k), FrameMeaning(k)>>
IsValue(p) ==
    \E i \in 1 .. Len(expandable_vars) :
        p = <<EXPANDABLE_VARS_OFFSET + i - 1, ValueMeaning(expandable_vars[i])>>

IssuedFits == \A p \in issued : IsTransaction(p) \/ IsFrame(p) \/ IsValue(p)

TableType == expandable_vars \in Seq(Compound)

SnapshotType == vm_stopped_state \in Snapshots \cup {NoSnapshot}

Inv == SnapshotType /\ TableType /\ IssuedFits /\ TableIsOfThisStop

-----------------------------------------------------------------------------
(* The operators.                                                          *)

(* The table only grows, by compound ones of the values shown, and the     *)
(* client learns where they are.                                           *)
LEMMA ShowGrows ==
    ASSUME TableType, NEW values \in Seq(DebugValues), Show(values)
    PROVE  /\ TableType' /\ UNCHANGED vm_stopped_state
           /\ Len(expandable_vars) \in Nat /\ Len(expandable_vars') \in Nat
           /\ Len(expandable_vars) <= Len(expandable_vars')
           /\ \A i \in 1 .. Len(expandable_vars) : expandable_vars'[i] = expandable_vars[i]
           /\ \A i \in 1 .. Len(expandable_vars') :
                 i <= Len(expandable_vars) \/ \E j \in DOMAIN values : expandable_vars'[i] = values[j]
           /\ \A p \in issued' : p \in issued \/ IsValue(p)'
<1> DEFINE len == Len(expandable_vars)
<1>1. PICK n \in 0 .. Len(values) : \E at \in [1 .. n -> DOMAIN values] :
         /\ {at[j] : j \in 1 .. n} = Stored(values)
         /\ expandable_vars' = expandable_vars \o [j \in 1 .. n |-> values[at[j]]]
         /\ issued' = issued \cup
              {<<store_expandable(j), ValueMeaning(values[at[j]])>> : j \in 1 .. n}
         /\ UNCHANGED vm_stopped_state
    BY Zenon DEF Show
<1>2. PICK at \in [1 .. n -> DOMAIN values] :
         /\ {at[j] : j \in 1 .. n} = Stored(values)
         /\ expandable_vars' = expandable_vars \o [j \in 1 .. n |-> values[at[j]]]
         /\ issued' = issued \cup
              {<<store_expandable(j), ValueMeaning(values[at[j]])>> : j \in 1 .. n}
         /\ UNCHANGED vm_stopped_state
    BY <1>1
<1> DEFINE new == [j \in 1 .. n |-> values[at[j]]]
<1>3. n \in Nat /\ len \in Nat
    BY LenProperties DEF TableType
<1>4. \A j \in 1 .. n : at[j] \in DOMAIN values /\ values[at[j]] \in Compound
    BY <1>2 DEF Stored
<1>5. new \in Seq(Compound) /\ Len(new) = n
    BY <1>3, <1>4
<1>6. /\ expandable_vars' \in Seq(Compound)
      /\ Len(expandable_vars') = len + n
      /\ \A i \in 1 .. len : expandable_vars'[i] = expandable_vars[i]
      /\ \A j \in 1 .. n : expandable_vars'[len + j] = new[j]
    BY <1>2, <1>3, <1>5, ConcatProperties DEF TableType
<1>7. ASSUME NEW i \in 1 .. Len(expandable_vars'), ~(i <= len)
      PROVE  \E j \in DOMAIN values : expandable_vars'[i] = values[j]
    <2>1. i - len \in 1 .. n /\ len + (i - len) = i
        BY <1>3, <1>6, <1>7
    <2>2. expandable_vars'[i] = values[at[i - len]]
        BY <1>6, <2>1
    <2>3. QED  BY <1>4, <2>1, <2>2
<1>8. ASSUME NEW j \in 1 .. n
      PROVE  \E i \in 1 .. Len(expandable_vars') :
                 /\ store_expandable(j) = EXPANDABLE_VARS_OFFSET + i - 1
                 /\ values[at[j]] = expandable_vars'[i]
    <2>1. len + j \in 1 .. Len(expandable_vars')
        BY <1>3, <1>6
    <2>2. store_expandable(j) = EXPANDABLE_VARS_OFFSET + (len + j) - 1
        BY <1>3, OffsetAssumption DEF store_expandable
    <2>3. QED  BY <1>6, <2>1, <2>2
<1>9. \A p \in issued' : p \in issued \/ IsValue(p)'
    BY <1>2, <1>8 DEF IsValue
<1>10. QED  BY <1>2, <1>3, <1>6, <1>7, <1>9 DEF TableType

(* No two kinds of references collide, and each finds what it stands for.  *)
LEMMA MeaningOfIssued ==
    ASSUME TableType, NEW p, IsTransaction(p) \/ IsFrame(p) \/ IsValue(p)
    PROVE  p[1] \in Int /\ Meaning(p[1]) = p[2]
<1> USE OffsetAssumption DEF SCOPE_TRANSACTION_INFO
<1>1. CASE IsTransaction(p)
    BY <1>1 DEF IsTransaction, Meaning
<1>2. CASE IsFrame(p)
    <2>1. PICK k \in Nat : /\ FRAME_LOCALS_OFFSET + k < EXPANDABLE_VARS_OFFSET
                           /\ p = <<FRAME_LOCALS_OFFSET + k, FrameMeaning(k)>>
        BY <1>2 DEF IsFrame, frame_locals_ref_id
    <2>2. /\ p[1] = FRAME_LOCALS_OFFSET + k /\ p[2] = FrameMeaning(k)
          /\ p[1] # SCOPE_TRANSACTION_INFO
          /\ p[1] \in FRAME_LOCALS_OFFSET .. EXPANDABLE_VARS_OFFSET - 1
          /\ p[1] - FRAME_LOCALS_OFFSET = k
        BY <2>1
    <2>3. QED  BY <2>2 DEF Meaning
<1>3. CASE IsValue(p)
    <2>1. Len(expandable_vars) \in Nat
        BY LenProperties DEF TableType
    <2>2. PICK i \in 1 .. Len(expandable_vars) :
             p = <<EXPANDABLE_VARS_OFFSET + i - 1, ValueMeaning(expandable_vars[i])>>
        BY <1>3 DEF IsValue
    <2>3. /\ p[1] = EXPANDABLE_VARS_OFFSET + i - 1 /\ p[2] = ValueMeaning(expandable_vars[i])
          /\ p[1] # SCOPE_TRANSACTION_INFO
          /\ p[1] \notin FRAME_LOCALS_OFFSET .. EXPANDABLE_VARS_OFFSET - 1
          /\ p[1] - EXPANDABLE_VARS_OFFSET \in 0 .. Len(expandable_vars) - 1
          /\ p[1] - EXPANDABLE_VARS_OFFSET + 1 = i
        BY <2>1, <2>2
    <2>4. p[1] \in Int
        BY <2>1, <2>3
    <2>5. QED  BY <2>3, <2>4 DEF Meaning
<1>4. QED  BY <1>1, <1>2, <1>3

(* What the table holds of this stop stays so while it grows with values   *)
(* of this stop.                                                           *)
LEMMA ShowStaysInStop ==
    ASSUME Inv, NEW values \in Seq(DebugValues), Show(values),
           vm_stopped_state # NoSnapshot =>
               \A v \in {values[j] : j \in DOMAIN values} :
                   \/ v = TxnArgs /\ Replay
                   \/ \E k \in DOMAIN vm_stopped_state :
                         \E j \in DOMAIN vm_stopped_state[k] : vm_stopped_state[k][j] = v
                   \/ \E h \in 1 .. Len(expandable_vars) : v \in Inside(expandable_vars[h])
    PROVE  Inv'
<1> DEFINE len == Len(expandable_vars)
<1>1. /\ TableType' /\ UNCHANGED vm_stopped_state
      /\ len \in Nat /\ Len(expandable_vars') \in Nat /\ len <= Len(expandable_vars')
      /\ \A i \in 1 .. len : expandable_vars'[i] = expandable_vars[i]
      /\ \A i \in 1 .. Len(expandable_vars') :
            i <= len \/ \E j \in DOMAIN values : expandable_vars'[i] = values[j]
      /\ \A p \in issued' : p \in issued \/ IsValue(p)'
    BY ShowGrows DEF Inv
<1>2. SnapshotType'
    BY <1>1 DEF Inv, SnapshotType
<1>3. IssuedFits'
    <2> SUFFICES ASSUME NEW p \in issued'
                 PROVE  (IsTransaction(p) \/ IsFrame(p) \/ IsValue(p))'
        BY DEF IssuedFits
    <2>1. IsValue(p) => IsValue(p)'
        BY <1>1 DEF IsValue
    <2>2. IsTransaction(p)' = IsTransaction(p) /\ IsFrame(p)' = IsFrame(p)
        BY DEF IsTransaction, IsFrame, frame_locals_ref_id, FrameMeaning, TxnMeaning
    <2>3. QED  BY <1>1, <2>1, <2>2 DEF Inv, IssuedFits
<1>4. TableIsOfThisStop'
    <2> SUFFICES ASSUME vm_stopped_state # NoSnapshot, NEW i \in DOMAIN expandable_vars'
                 PROVE  \/ expandable_vars'[i] = TxnArgs /\ Replay
                        \/ \E k \in DOMAIN vm_stopped_state :
                              \E j \in DOMAIN vm_stopped_state[k] :
                                  vm_stopped_state[k][j] = expandable_vars'[i]
                        \/ \E h \in 1 .. i - 1 :
                              expandable_vars'[i] \in Inside(expandable_vars'[h])
        BY <1>1 DEF TableIsOfThisStop, Inside
    <2>1. /\ DOMAIN expandable_vars = 1 .. len
          /\ DOMAIN expandable_vars' = 1 .. Len(expandable_vars')
        BY <1>1, LenProperties DEF Inv, TableType
    <2>2. CASE i <= len
        <3>1. i \in 1 .. len /\ \A h \in 1 .. i - 1 : h \in 1 .. len
            BY <1>1, <2>1, <2>2
        <3>2. QED  BY <1>1, <2>1, <3>1 DEF Inv, TableIsOfThisStop
    <2>3. CASE ~(i <= len)
        <3>1. PICK j \in DOMAIN values : expandable_vars'[i] = values[j]
            BY <1>1, <2>1, <2>3
        <3>2. \A h \in 1 .. len :
                 h \in 1 .. i - 1 /\ expandable_vars'[h] = expandable_vars[h]
            BY <1>1, <2>1, <2>3
        <3>3. QED  BY <3>1, <3>2
    <2>4. QED  BY <2>2, <2>3
<1>5. QED  BY <1>1, <1>2, <1>3, <1>4 DEF Inv

-----------------------------------------------------------------------------
(* The invariant.                                                          *)

LEMMA InitInv == Init => Inv
BY DEF Init, Inv, SnapshotType, TableType, IssuedFits, TableIsOfThisStop

LEMMA StepScopes ==
    ASSUME Inv, NEW frame_id \in FrameIds, Scopes(frame_id)
    PROVE  Inv'
<1>1. UNCHANGED <<vm_stopped_state, expandable_vars>>
    BY DEF Scopes
<1>2. vm_stopped_state # NoSnapshot =>
         /\ frame_id \in Nat
         /\ frame_locals_ref_id(frame_id) < EXPANDABLE_VARS_OFFSET
    <2> SUFFICES ASSUME vm_stopped_state # NoSnapshot
                 PROVE  /\ frame_id \in Nat
                        /\ frame_locals_ref_id(frame_id) < EXPANDABLE_VARS_OFFSET
        OBVIOUS
    <2>1. vm_stopped_state \in Snapshots /\ Len(vm_stopped_state) \in Nat
        BY SnapshotAssumption, LenProperties DEF Inv, SnapshotType
    <2>2. frame_id \in 0 .. Len(vm_stopped_state) - 1
        BY DEF FrameIds
    <2>3. FRAME_LOCALS_OFFSET + Len(vm_stopped_state) <= EXPANDABLE_VARS_OFFSET
        BY <2>1, OffsetAssumption
    <2>4. QED  BY <2>1, <2>2, <2>3, OffsetAssumption DEF frame_locals_ref_id
<1>3. \A p \in issued' : p \in issued \/ IsTransaction(p) \/ IsFrame(p)
    BY <1>2 DEF Scopes, IsTransaction, IsFrame
<1>4. \A p : /\ IsTransaction(p)' = IsTransaction(p)
             /\ IsFrame(p)' = IsFrame(p) /\ IsValue(p)' = IsValue(p)
    BY <1>1 DEF IsTransaction, IsFrame, IsValue
<1>5. IssuedFits'
    BY <1>3, <1>4 DEF Inv, IssuedFits
<1>6. QED
    BY <1>1, <1>5 DEF Inv, SnapshotType, TableType, TableIsOfThisStop

LEMMA StepVariables ==
    ASSUME Inv, NEW p \in issued,
           TransactionInfo(p[1]) \/ FrameVariables(p[1]) \/ ValueVariables(p[1])
    PROVE  Inv'
<1>1. CASE TransactionInfo(p[1])
    <2> DEFINE values == IF Replay THEN <<TxnArgs>> ELSE <<>>
    <2>1. values \in Seq(DebugValues) /\ \A j \in DOMAIN values : values[j] = TxnArgs /\ Replay
        BY ValueAssumption
    <2>2. Show(values)
        BY <1>1 DEF TransactionInfo
    <2>3. QED  BY <2>1, <2>2, ShowStaysInStop
<1>2. CASE FrameVariables(p[1])
    <2> DEFINE k      == Meaning(p[1])[2]
               values == locals_for_frame(k)
    <2>1. k \in Nat
        <3>1. Meaning(p[1])[1] = "frame"
            BY <1>2 DEF FrameVariables
        <3>2. p[1] \in Int
            BY MeaningOfIssued DEF Inv, IssuedFits
        <3>3. p[1] \in FRAME_LOCALS_OFFSET .. EXPANDABLE_VARS_OFFSET - 1
              /\ Meaning(p[1]) = FrameMeaning(p[1] - FRAME_LOCALS_OFFSET)
            BY <3>1 DEF Meaning, FrameMeaning, ValueMeaning, TxnMeaning
        <3>4. QED  BY <3>2, <3>3, OffsetAssumption DEF FrameMeaning
    <2>2. CASE vm_stopped_state # NoSnapshot /\ k < Len(vm_stopped_state)
        <3>1. vm_stopped_state \in Seq(Seq(DebugValues))
            BY <2>2, SnapshotAssumption DEF Inv, SnapshotType
        <3>2. k + 1 \in DOMAIN vm_stopped_state /\ values = vm_stopped_state[k + 1]
            BY <2>1, <2>2, <3>1, LenProperties DEF locals_for_frame
        <3>3. values \in Seq(DebugValues)
            BY <3>1, <3>2, ElementOfSeq, LenProperties
        <3>4. Show(values)
            BY <1>2 DEF FrameVariables
        <3>5. \A v \in {values[j] : j \in DOMAIN values} :
                 \E i \in DOMAIN vm_stopped_state :
                     \E j \in DOMAIN vm_stopped_state[i] : vm_stopped_state[i][j] = v
            BY <3>2
        <3>6. QED  BY <3>3, <3>4, <3>5, ShowStaysInStop
    <2>3. CASE ~(vm_stopped_state # NoSnapshot /\ k < Len(vm_stopped_state))
        <3>1. values = <<>>
            BY <2>3 DEF locals_for_frame
        <3>2. Show(<<>>)
            BY <1>2, <3>1 DEF FrameVariables
        <3>3. <<>> \in Seq(DebugValues) /\ DOMAIN <<>> = {}
            OBVIOUS
        <3>4. QED  BY <3>2, <3>3, ShowStaysInStop
    <2>4. QED  BY <2>2, <2>3
<1>3. CASE ValueVariables(p[1])
    <2>1. Len(expandable_vars) \in Nat /\ DOMAIN expandable_vars = 1 .. Len(expandable_vars)
        BY LenProperties DEF Inv, TableType
    <2>2. PICK h \in 1 .. Len(expandable_vars) :
             Meaning(p[1]) = ValueMeaning(expandable_vars[h])
        <3>1. Meaning(p[1])[1] = "value"
            BY <1>3 DEF ValueVariables
        <3>2. Meaning(p[1]) = p[2]
            BY MeaningOfIssued DEF Inv, IssuedFits
        <3>3. IsValue(p)
            BY <3>1, <3>2 DEF Inv, IssuedFits, IsTransaction, IsFrame, TxnMeaning, FrameMeaning
        <3>4. QED  BY <3>2, <3>3 DEF IsValue
    <2> DEFINE values == Children[expandable_vars[h]]
    <2>3. expandable_vars[h] \in DebugValues
        BY <2>1, ValueAssumption DEF Inv, TableType
    <2>4. values \in Seq(DebugValues)
        BY <2>3, ValueAssumption
    <2>5. Show(values)
        BY <1>3, <2>2 DEF ValueVariables, ValueMeaning
    <2>6. \A v \in {values[j] : j \in DOMAIN values} : v \in Inside(expandable_vars[h])
        BY DEF Inside
    <2>7. QED  BY <2>4, <2>5, <2>6, ShowStaysInStop
<1>4. QED  BY <1>1, <1>2, <1>3

LEMMA StepInv == Inv /\ [Next]_vars => Inv'
<1> SUFFICES ASSUME Inv, [Next]_vars
             PROVE  Inv'
    OBVIOUS
<1>1. ASSUME NEW frame_id \in FrameIds, Scopes(frame_id)
      PROVE  Inv'
    BY <1>1, StepScopes
<1>2. ASSUME NEW p \in issued,
             TransactionInfo(p[1]) \/ FrameVariables(p[1]) \/ ValueVariables(p[1])
      PROVE  Inv'
    BY <1>2, StepVariables
<1>3. ASSUME NEW snapshot \in Snapshots, Stopped(snapshot)
      PROVE  Inv'
    BY <1>3 DEF Stopped, Inv, SnapshotType, TableType, IssuedFits, TableIsOfThisStop
<1>4. CASE Terminated
    BY <1>4 DEF Terminated, Inv, SnapshotType, TableType, IssuedFits, TableIsOfThisStop
<1>5. CASE UNCHANGED vars
    BY <1>5 DEF vars, Inv, SnapshotType, TableType, IssuedFits, IsTransaction, IsFrame,
       IsValue, TableIsOfThisStop
<1>6. QED  BY <1>1, <1>2, <1>3, <1>4, <1>5 DEF Next

LEMMA Invariance == Spec => []Inv
<1>1. QED  BY InitInv, StepInv, PTL DEF Spec

-----------------------------------------------------------------------------
(* The theorems.                                                           *)

(* TypeOK: only compound values get an entry in the table.                 *)
THEOREM VariablesTypeCorrect == Spec => []TypeOK
<1>1. Inv => TypeOK
    BY MeaningOfIssued DEF Inv, SnapshotType, TableType, IssuedFits, TypeOK
<1>2. QED  BY Invariance, <1>1, PTL

(* A reference means the same until the next stop or end, whatever is      *)
(* expanded in between, and no two kinds of references collide             *)
(* (server/variables.rs:33-52).                                            *)
THEOREM ReferencesKeepTheirMeaning == Spec => []ReferencesStayGood
<1>1. Inv => ReferencesStayGood
    BY MeaningOfIssued DEF Inv, IssuedFits, ReferencesStayGood
<1>2. QED  BY Invariance, <1>1, PTL

(* What can be expanded at a stop comes from that stop's snapshot or from  *)
(* the transaction (server.rs, wait_for_vm_event).                         *)
THEOREM TableHoldsThisStop == Spec => []TableIsOfThisStop
<1>1. Inv => TableIsOfThisStop  BY DEF Inv
<1>2. QED  BY Invariance, <1>1, PTL
=============================================================================
