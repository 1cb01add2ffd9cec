-------------------------- MODULE CreateGateProofs --------------------------
(***************************************************************************)
(* Proofs about CreateGate, for any finite set of names, any number of      *)
(* handlers and any cap.  The types hold whatever fails; that the count      *)
(* covers the disk and the cap holds is proved for an environment in which   *)
(* handlers, the pass and the whole machine may die at any step, but a read  *)
(* of the count file does not fail.                                         *)
(***************************************************************************)
EXTENDS CreateGate, FiniteSetTheorems, TLAPS

Readable == "unreadable" \notin Env

----------------------------------------------------------------------------
(* Sets of names.                                                          *)

LEMMA SizeType ==
  ASSUME NEW S, S \subseteq Names
  PROVE  IsFiniteSet(S) /\ Cardinality(S) \in Nat
BY FS_Subset, FS_CardinalityType, GateAssumption

LEMMA Smaller ==
  ASSUME NEW S, S \subseteq Names, NEW T, T \subseteq S
  PROVE  Cardinality(T) <= Cardinality(S)
BY FS_Subset, SizeType

LEMMA OneMore ==
  ASSUME NEW S, S \subseteq Names, NEW n
  PROVE  Cardinality(S \cup {n}) <= Cardinality(S) + 1
<1>1. IsFiniteSet(S) /\ Cardinality(S) \in Nat
  BY SizeType
<1>2. Cardinality(S \cup {n}) = IF n \in S THEN Cardinality(S) ELSE Cardinality(S) + 1
  BY <1>1, FS_AddElement
<1> QED
  BY <1>1, <1>2

LEMMA OneLess ==
  ASSUME NEW S, S \subseteq Names, NEW n \in S
  PROVE  Cardinality(S \ {n}) = Cardinality(S) - 1
BY FS_RemoveElement, SizeType

LEMMA Together ==
  ASSUME NEW S, S \subseteq Names, NEW T, T \subseteq Names
  PROVE  Cardinality(S \cup T) <= Cardinality(S) + Cardinality(T)
<1>1. IsFiniteSet(S) /\ IsFiniteSet(T) /\ Cardinality(S \cap T) \in Nat
  BY SizeType
<1>2. Cardinality(S) \in Nat /\ Cardinality(T) \in Nat
  BY SizeType
<1>3. Cardinality(S \cup T) = Cardinality(S) + Cardinality(T) - Cardinality(S \cap T)
  BY <1>1, FS_Union
<1> QED
  BY <1>1, <1>2, <1>3

LEMMA CoveredNames ==
  ASSUME TypeOK
  PROVE  InFlight \subseteq Names /\ Covered \subseteq Names
BY DEF TypeOK, InFlight, Covered

LEMMA CoveredNamesNext ==
  ASSUME TypeOK'
  PROVE  Covered' \subseteq Names
BY DEF TypeOK, InFlight, Covered

----------------------------------------------------------------------------
(* Types.                                                                  *)

LEMMA TotalsType ==
  ASSUME TypeOK, NEW r \in Readings
  PROVE  r \in Nat \cup {Missing} /\ Totals(r) \in Nat
<1>1. Cardinality(files) \in Nat
  BY SizeType DEF TypeOK
<1> QED
  BY <1>1 DEF TypeOK, Readings, Totals, Missing

LEMMA SettledType ==
  ASSUME TypeOK, NEW r \in Readings
  PROVE  Settled(After0(r)) \in Nat
<1>1. Cardinality(kept) \in Nat
  BY SizeType DEF TypeOK
<1>2. r \in Nat \cup {Missing}
  BY TotalsType
<1> QED
  BY <1>1, <1>2 DEF TypeOK, Settled, After0, Larger, Missing

LEMMA TypeInit ==
  ASSUME Init
  PROVE  TypeOK
<1>1. Cardinality(files) \in Nat
  BY SizeType DEF Init
<1> QED
  BY <1>1 DEF Init, TypeOK, Missing

LEMMA TypeStep ==
  ASSUME TypeOK, [Next]_vars
  PROVE  TypeOK'
<1>1. ASSUME NEW w \in Workers, Begin(w)
      PROVE  TypeOK'
  BY <1>1 DEF TypeOK, Begin, Go, diskVars, passVars
<1>2. ASSUME NEW w \in Workers, Look(w) \/ Check(w) \/ TakeSpan(w) \/ TakePath(w) \/ LookAgain(w)
                                  \/ TakeGate(w) \/ RelockPath(w)
      PROVE  TypeOK'
  BY <1>2 DEF TypeOK, Look, Check, TakeSpan, TakePath, LookAgain, TakeGate,
              RelockPath, Go, Stay, diskVars, passVars
<1>3. ASSUME NEW w \in Workers, RefuseInBody(w) \/ RefuseRewrite(w) \/ RetakeGate(w)
      PROVE  TypeOK'
  BY <1>3 DEF TypeOK, RefuseInBody, RefuseRewrite, RetakeGate, Go, Stay, diskVars, passVars
<1>4. ASSUME NEW w \in Workers, Reserve(w)
      PROVE  TypeOK'
  <2>1. count' \in Nat
    BY <1>4, TotalsType DEF Reserve
  <2> QED
    BY <1>4, <2>1 DEF TypeOK, Reserve, Go, diskVars, passVars
<1>5. ASSUME NEW w \in Workers, Write(w)
      PROVE  TypeOK'
  BY <1>5 DEF TypeOK, Write, PutFile, Go, passVars
<1>6. ASSUME NEW w \in Workers, After(w)
      PROVE  TypeOK'
  BY <1>6 DEF TypeOK, After, Go, diskVars, passVars
<1>7. ASSUME NEW w \in Workers, Return(w)
      PROVE  TypeOK'
  <2>1. count' \in Nat
    BY <1>7, TotalsType DEF Return, AtLeast0
  <2> QED
    BY <1>7, <2>1 DEF TypeOK, Return, Go, diskVars, passVars
<1>8. ASSUME NEW w \in Workers, Rewrite(w)
      PROVE  TypeOK'
  BY <1>8 DEF TypeOK, Rewrite, PutFile, Go, passVars
<1>9. ASSUME NEW w \in Workers, CrashWorker(w)
      PROVE  TypeOK'
  BY <1>9 DEF TypeOK, CrashWorker, diskVars, passVars
<1>10. ASSUME CountedAt
       PROVE  TypeOK'
  <2>1. before' \in Nat \cup {Missing}
    BY <1>10, TotalsType DEF CountedAt
  <2> QED
    BY <1>10, <2>1 DEF TypeOK, CountedAt, RGo, diskVars
<1>11. ASSUME NEW n \in Names, Visit(n)
       PROVE  TypeOK'
  BY <1>11 DEF TypeOK, Visit, RGo, diskVars
<1>12. ASSUME LockTarget \/ CrashPass
       PROVE  TypeOK'
  BY <1>12 DEF TypeOK, LockTarget, CrashPass, RGo, diskVars
<1>13. ASSUME Delete
       PROVE  TypeOK'
  BY <1>13 DEF TypeOK, Delete, RGo
<1>14. ASSUME Settle
       PROVE  TypeOK'
  <2>1. count' \in Nat
    BY <1>14, SettledType DEF Settle
  <2> QED
    BY <1>14, <2>1 DEF TypeOK, Settle, RGo
<1>15. ASSUME Age \/ PowerLoss
       PROVE  TypeOK'
  BY <1>15 DEF TypeOK, Age, PowerLoss, diskVars, passVars
<1>16. ASSUME UNCHANGED vars
       PROVE  TypeOK'
  BY <1>16 DEF TypeOK, vars, diskVars, passVars
<1> QED
  BY <1>1, <1>2, <1>3, <1>4, <1>5, <1>6, <1>7, <1>8, <1>9, <1>10, <1>11, <1>12, <1>13, <1>14,
     <1>15, <1>16 DEF Next, Worker, Step, Acquire, Pass

\* Every variable keeps its type, and a reservation is only held on the way
\* from the gate to the file or back, whatever fails.
THEOREM TypeCorrect == Spec => []TypeOK
BY TypeInit, TypeStep, PTL DEF Spec

----------------------------------------------------------------------------
(* Who holds what.                                                         *)

LEMMA HolderStep ==
  ASSUME TypeOK, HolderInv, [Next]_vars
  PROVE  HolderInv'
<1>1. ASSUME NEW w \in Workers, TakePath(w) \/ RelockPath(w)
      PROVE  HolderInv'
  <2>1. /\ \A v \in Workers : HasPath(v) => name[v] # name[w]
        /\ name' = name
        /\ \A v \in Workers : v # w => pc'[v] = pc[v]
        /\ pc'[w] \notin {"reserve", "return"}
    BY <1>1 DEF TakePath, RelockPath, PathFree, Go, Stay, TypeOK
  <2> QED
    BY <2>1 DEF HolderInv, HasPath, InGate
<1>2. ASSUME NEW w \in Workers, TakeGate(w) \/ RetakeGate(w)
      PROVE  HolderInv'
  <2>1. /\ \A v \in Workers : ~InGate(v)
        /\ name' = name
        /\ \A v \in Workers : v # w => pc'[v] = pc[v]
        /\ HasPath(w)
    BY <1>2 DEF TakeGate, RetakeGate, GateFree, HasPath, Go, Stay, TypeOK
  <2> QED
    BY <2>1 DEF HolderInv, HasPath, InGate
<1>3. ASSUME NEW w \in Workers,
             \/ Begin(w) \/ Look(w) \/ Check(w) \/ TakeSpan(w) \/ LookAgain(w) \/ Reserve(w)
             \/ Write(w) \/ RefuseInBody(w) \/ After(w) \/ Return(w)
             \/ Rewrite(w) \/ RefuseRewrite(w) \/ CrashWorker(w)
      PROVE  HolderInv'
  <2>1. /\ \A v \in Workers : v # w => pc'[v] = pc[v] /\ name'[v] = name[v]
        /\ pc'[w] \notin {"reserve", "return"}
        /\ \/ name' = name /\ HasPath(w)
           \/ pc'[w] \in {"idle", "look", "relock", "check", "span", "path"}
    BY <1>3 DEF Begin, Look, Check, TakeSpan, LookAgain, Reserve, Write, RefuseInBody, After,
                Return, Rewrite, RefuseRewrite, CrashWorker, HasPath, Go, Stay, TypeOK
  <2> QED
    BY <2>1 DEF HolderInv, HasPath, InGate
<1>4. ASSUME Pass \/ Age \/ UNCHANGED vars
      PROVE  HolderInv'
  <2>1. pc' = pc /\ name' = name
    BY <1>4 DEF Pass, CountedAt, Visit, LockTarget, Delete, Settle, CrashPass, Age, vars, passVars
  <2> QED
    BY <2>1 DEF HolderInv, HasPath, InGate
<1>5. ASSUME PowerLoss
      PROVE  HolderInv'
  BY <1>5 DEF PowerLoss, HolderInv, HasPath, InGate
<1> QED
  BY <1>1, <1>2, <1>3, <1>4, <1>5 DEF Next, Worker, Step, Acquire

----------------------------------------------------------------------------
(* What a handler decided still stands.                                    *)

LEMMA OneReading ==
  ASSUME Readable, NEW r \in Readings
  PROVE  r = count
BY DEF Readable, Readings

LEMMA StillDecided ==
  ASSUME TypeOK, NEW v \in Workers, Decided(v),
         pc'[v] = pc[v], name'[v] = name[v], reserved'[v] = reserved[v],
         name[v] \in files' => name[v] \in files,
         pc[v] # "reserve" \/ (count' = count /\ files' \ uncounted' \subseteq files \ uncounted)
  PROVE  Decided(v)'
<1>1. CASE pc[v] # "reserve"
  BY <1>1 DEF Decided
<1>2. CASE pc[v] = "reserve"
  <2>1. count' = count /\ Cardinality(files' \ uncounted') <= Cardinality(files \ uncounted)
    BY <1>2, Smaller DEF TypeOK
  <2>2. /\ Cardinality(files' \ uncounted') \in Nat
        /\ Cardinality(files \ uncounted) \in Nat
        /\ Cap \in Nat
    BY <1>2, SizeType, GateAssumption DEF TypeOK
  <2> QED
    BY <1>2, <2>1, <2>2 DEF Decided
<1> QED
  BY <1>1, <1>2

LEMMA WriterDecided ==
  ASSUME Readable, TypeOK, HolderInv, DecidedInv, LostInv,
         NEW w \in Workers, Worker(w), NEW v \in Workers
  PROVE  Decided(v)'
<1>1. /\ Decided(v)
      /\ v # w => pc'[v] = pc[v] /\ name'[v] = name[v] /\ reserved'[v] = reserved[v]
  BY DEF DecidedInv, TypeOK, Worker, Step, Acquire, Begin, Look, Check, TakeSpan, LookAgain,
         Reserve, Write, RefuseInBody, After, Return, Rewrite, RefuseRewrite, TakePath, TakeGate,
         RetakeGate, RelockPath, CrashWorker, Go, Stay, diskVars
<1>2. ASSUME UNCHANGED <<files, uncounted, count>>,
             v = w => pc'[w] \notin {"gate", "reserve", "regate", "return"}
      PROVE  Decided(v)'
  <2>1. CASE v # w
    BY <1>1, <1>2, <2>1, StillDecided
  <2>2. CASE v = w
    BY <1>2, <2>2 DEF Decided
  <2> QED
    BY <2>1, <2>2
<1>3. CASE \/ Begin(w) \/ Look(w) \/ Check(w) \/ TakeSpan(w) \/ RefuseInBody(w)
           \/ RefuseRewrite(w) \/ TakePath(w) \/ RelockPath(w) \/ CrashWorker(w)
  BY <1>2, <1>3 DEF TypeOK, Begin, Look, Check, TakeSpan, RefuseInBody, RefuseRewrite, TakePath,
                    RelockPath, CrashWorker, Go, Stay, diskVars
<1>4. CASE LookAgain(w)
  <2>1. CASE v # w
    BY <1>1, <1>4, <2>1, StillDecided DEF LookAgain, Stay, diskVars
  <2>2. CASE v = w
    BY <1>4, <2>2 DEF LookAgain, Go, Stay, diskVars, TypeOK, Decided
  <2> QED
    BY <2>1, <2>2
<1>5. CASE TakeGate(w)
  <2>1. CASE v # w
    BY <1>1, <1>5, <2>1, StillDecided DEF TakeGate, Stay, diskVars
  <2>2. CASE v = w
    <3>1. pc[w] = "gate" /\ name[w] \notin files
      BY <1>1, <1>5, <2>2 DEF TakeGate, Go, Decided
    <3>2. CASE pc'[w] = "reserve"
      <4>1. Totals(count) < Cap
        BY <1>5, <3>1, <3>2, OneReading DEF TakeGate, Room, Go, TypeOK
      <4>2. Cardinality(files \ uncounted) <= Cardinality(files)
        BY Smaller DEF TypeOK
      <4>3. Cardinality(files \ uncounted) \in Nat /\ Cardinality(files) \in Nat /\ Cap \in Nat
        BY SizeType, GateAssumption DEF TypeOK
      <4>4. IF count = Missing THEN Cardinality(files \ uncounted) < Cap ELSE count < Cap
        BY <4>1, <4>2, <4>3 DEF Totals
      <4> QED
        BY <1>5, <2>2, <3>1, <3>2, <4>4 DEF TakeGate, Stay, diskVars, Decided
    <3>3. CASE pc'[w] = "idle"
      BY <2>2, <3>3 DEF Decided
    <3> QED
      BY <1>5, <3>2, <3>3 DEF TakeGate, Go, TypeOK
  <2> QED
    BY <2>1, <2>2
<1>6. CASE Reserve(w) \/ Return(w)
  <2>1. CASE v # w
    <3>1. pc[v] # "reserve"
      BY <1>6, <2>1 DEF Reserve, Return, Go, HolderInv, InGate
    <3> QED
      BY <1>1, <1>6, <2>1, <3>1, StillDecided DEF Reserve, Return, diskVars
  <2>2. CASE v = w
    <3>1. pc'[v] \in {"body", "idle"}
      BY <1>6, <2>2 DEF Reserve, Return, Go, TypeOK
    <3> QED
      BY <3>1 DEF Decided
  <2> QED
    BY <2>1, <2>2
<1>7. CASE Write(w) \/ Rewrite(w)
  <2>1. CASE v # w
    <3>1. files' \ uncounted' \subseteq files \ uncounted \/ count # Missing
      <4>1. CASE reserved[w]
        <5>1. name[w] \in InFlight
          BY <4>1 DEF InFlight
        <5> QED
          BY <5>1 DEF LostInv
      <4>2. CASE ~reserved[w]
        BY <1>7, <4>2 DEF Write, Rewrite, PutFile
      <4> QED
        BY <4>1, <4>2
    <3>2. CASE HasPath(v)
      <4>1. name[v] # name[w]
        BY <1>7, <2>1, <3>2 DEF Write, Rewrite, Go, HolderInv, HasPath
      <4>2. name[v] \in files' => name[v] \in files
        BY <1>7, <4>1 DEF Write, Rewrite, PutFile
      <4>3. CASE files' \ uncounted' \subseteq files \ uncounted
        BY <1>1, <1>7, <2>1, <4>2, <4>3, StillDecided DEF Write, Rewrite
      <4>4. CASE count # Missing
        BY <1>1, <1>7, <2>1, <4>2, <4>4 DEF Write, Rewrite, Decided
      <4> QED
        BY <3>1, <4>3, <4>4
    <3>3. CASE ~HasPath(v)
      BY <1>1, <2>1, <3>3 DEF HasPath, Decided
    <3> QED
      BY <3>2, <3>3
  <2>2. CASE v = w
    <3>1. pc'[v] \in {"after", "idle"}
      BY <1>7, <2>2 DEF Write, Rewrite, Go, TypeOK
    <3> QED
      BY <3>1 DEF Decided
  <2> QED
    BY <2>1, <2>2
<1>8. CASE After(w)
  <2>1. CASE v # w
    BY <1>1, <1>8, <2>1, StillDecided DEF After, diskVars
  <2>2. CASE v = w
    BY <1>8, <2>2 DEF After, Go, diskVars, TypeOK, Decided
  <2> QED
    BY <2>1, <2>2
<1>9. CASE RetakeGate(w)
  <2>1. CASE v # w
    BY <1>1, <1>9, <2>1, StillDecided DEF RetakeGate, Stay, diskVars
  <2>2. CASE v = w
    BY <1>1, <1>9, <2>2 DEF RetakeGate, Go, Stay, diskVars, TypeOK, Decided
  <2> QED
    BY <2>1, <2>2
<1> QED
  BY <1>3, <1>4, <1>5, <1>6, <1>7, <1>8, <1>9 DEF Worker, Step, Acquire

LEMMA DecidedStep ==
  ASSUME Readable, TypeOK, HolderInv, DecidedInv, LostInv, [Next]_vars
  PROVE  DecidedInv'
<1> SUFFICES ASSUME NEW v \in Workers PROVE Decided(v)'
  BY DEF DecidedInv
<1>1. Decided(v)
  BY DEF DecidedInv
<1>2. CASE \E w \in Workers : Worker(w)
  BY <1>2, WriterDecided
<1>3. CASE UNCHANGED <<pc, name, reserved>> /\ files' \subseteq files
           /\ (pc[v] # "reserve" \/ (count' = count /\ files' \ uncounted' \subseteq files \ uncounted))
  BY <1>1, <1>3, StillDecided
<1>4. CASE CountedAt \/ (\E n \in Names : Visit(n)) \/ LockTarget \/ Delete \/ CrashPass \/ Age
           \/ UNCHANGED vars
  BY <1>3, <1>4 DEF CountedAt, Visit, LockTarget, Delete, CrashPass, Age, vars, diskVars, passVars
<1>5. CASE Settle
  BY <1>3, <1>5 DEF Settle, SpanFree, InSpan
<1>6. CASE PowerLoss
  BY <1>6 DEF PowerLoss, Decided
<1> QED
  BY <1>2, <1>4, <1>5, <1>6 DEF Next, Pass

----------------------------------------------------------------------------
(* The count covers the disk.                                              *)

Balanced == LostInv /\ WindowInv /\ CountCovers /\ CapHolds

\* A step that covers no new name, and leaves the count and what was reserved
\* in the window alone, unbalances nothing.
LEMMA Shrinks ==
  ASSUME TypeOK, TypeOK', Balanced,
         Covered' \subseteq Covered, InFlight' \subseteq InFlight,
         count' = count, since' = since,
         rpc' # "off" => /\ rpc # "off" /\ before' = before
                         /\ Covered' \ since \subseteq kept' \cup todo'
  PROVE  Balanced'
<1>1. /\ Cardinality(Covered') <= Cardinality(Covered)
      /\ Cardinality(since \cap Covered') <= Cardinality(since \cap Covered)
  BY CoveredNames, Smaller
<1>2. /\ Cardinality(Covered') \in Nat /\ Cardinality(Covered) \in Nat
      /\ Cardinality(since \cap Covered') \in Nat /\ Cardinality(since \cap Covered) \in Nat
  BY CoveredNames, SizeType
<1>3. count \in Nat \cup {Missing} /\ before \in Nat \cup {Missing} /\ Cap \in Nat
  BY GateAssumption DEF TypeOK
<1>4. LostInv'
  BY DEF Balanced, LostInv
<1>5. CountCovers'
  <2>1. count # Missing => Cardinality(Covered) <= count
    BY DEF Balanced, CountCovers
  <2>2. count # Missing => Cardinality(Covered') <= count
    BY <1>1, <1>2, <1>3, <2>1 DEF Missing
  <2> QED
    BY <2>2 DEF CountCovers
<1>6. CapHolds'
  <2>1. InFlight' # {} => Cardinality(Covered) <= Cap
    BY DEF Balanced, CapHolds
  <2> QED
    BY <1>1, <1>2, <1>3, <2>1 DEF CapHolds
<1>7. WindowInv'
  <2> SUFFICES ASSUME rpc' # "off"
               PROVE  /\ InFlight' \subseteq since'
                      /\ Covered' \ since' \subseteq kept' \cup todo'
                      /\ before' # Missing => Cardinality(since' \cap Covered') <= count' - before'
    BY DEF WindowInv
  <2>1. /\ InFlight \subseteq since
        /\ before # Missing => Cardinality(since \cap Covered) <= count - before
    BY DEF Balanced, WindowInv
  <2>2. before # Missing => Cardinality(since \cap Covered') <= count - before
    BY <1>1, <1>2, <1>3, <2>1 DEF Missing
  <2> QED
    BY <2>1, <2>2
<1> QED
  BY <1>4, <1>5, <1>6, <1>7 DEF Balanced

LEMMA SameCover ==
  ASSUME UNCHANGED <<files, uncounted, name, reserved>>
  PROVE  Covered' = Covered /\ InFlight' = InFlight
BY DEF Covered, InFlight

LEMMA WindowStands ==
  ASSUME Balanced, rpc # "off"
  PROVE  /\ InFlight \subseteq since
         /\ Covered \ since \subseteq kept \cup todo
         /\ before # Missing => Cardinality(since \cap Covered) <= count - before
BY DEF Balanced, WindowInv

LEMMA StaysBalanced ==
  ASSUME TypeOK, TypeOK', Balanced, Covered' \subseteq Covered, InFlight' \subseteq InFlight,
         UNCHANGED <<count, since>>,
         rpc' = "off" \/ UNCHANGED <<rpc, before, kept, todo>>
  PROVE  Balanced'
BY Shrinks, WindowStands

LEMMA Waited ==
  ASSUME TypeOK, SpanFree
  PROVE  InFlight = {}
BY DEF TypeOK, SpanFree, InSpan, InFlight

\* The reservation: one more name covered, one more in the count.
LEMMA ReserveBalanced ==
  ASSUME Readable, TypeOK, TypeOK', Balanced, NEW w \in Workers, Decided(w), Reserve(w)
  PROVE  Balanced'
<1>1. /\ Covered' = Covered \cup {name[w]}
      /\ InFlight' = InFlight \cup {name[w]}
      /\ since' = since \cup {name[w]}
  <2>1. /\ reserved' = [reserved EXCEPT ![w] = TRUE] /\ reserved \in [Workers -> BOOLEAN]
        /\ UNCHANGED <<files, uncounted, name>> /\ since' = since \cup {name[w]}
    BY DEF Reserve, diskVars, TypeOK
  <2>2. \A v \in Workers : reserved'[v] <=> (reserved[v] \/ v = w)
    BY <2>1
  <2>3. InFlight' = InFlight \cup {name[w]}
    BY <2>1, <2>2 DEF InFlight
  <2> QED
    BY <2>1, <2>3 DEF Covered
<1>2. /\ count' = Totals(count) + 1
      /\ UNCHANGED <<files, uncounted, rpc, before, kept, todo>>
      /\ pc[w] = "reserve"
  BY OneReading DEF Reserve, Go, diskVars, passVars
<1>3. /\ Covered \subseteq Names /\ Covered' \subseteq Names
      /\ Cardinality(Covered) \in Nat /\ Cardinality(Covered') \in Nat
      /\ Cardinality(files) \in Nat /\ Cardinality(files \ uncounted) \in Nat
      /\ count \in Nat \cup {Missing} /\ count' \in Nat \cup {Missing} /\ Cap \in Nat
  <2>1. Covered \subseteq Names /\ Covered' \subseteq Names
    BY CoveredNames, CoveredNamesNext
  <2>2. files \subseteq Names /\ count \in Nat \cup {Missing} /\ count' \in Nat \cup {Missing}
    BY DEF TypeOK
  <2> QED
    BY <2>1, <2>2, SizeType, GateAssumption
<1>4. Cardinality(Covered') <= Cardinality(Covered) + 1
  BY <1>1, <1>3, OneMore
<1>5. CASE count = Missing
  <2>1. Covered = files \ uncounted
    BY <1>5 DEF Balanced, LostInv, Covered
  <2>2. Cardinality(Covered) <= Cardinality(files) /\ Cardinality(Covered) < Cap
    BY <1>2, <1>5, <2>1, Smaller DEF Decided, TypeOK
  <2>3. count' = Cardinality(files) + 1
    BY <1>2, <1>5 DEF Totals
  <2>4. Cardinality(Covered') <= count' /\ Cardinality(Covered') <= Cap /\ count' # Missing
    BY <1>3, <1>4, <2>2, <2>3 DEF Missing
  <2>5. WindowInv'
    <3>1. ASSUME rpc # "off"
          PROVE  before = Missing /\ InFlight \subseteq since /\ Covered \ since \subseteq kept \cup todo
      BY <1>5, <3>1, WindowStands DEF Balanced, LostInv
    <3> QED
      BY <1>1, <1>2, <3>1 DEF WindowInv
  <2> QED
    BY <2>4, <2>5 DEF Balanced, LostInv, CountCovers, CapHolds
<1>6. CASE count # Missing
  <2>1. Cardinality(Covered) <= count /\ count < Cap /\ count' = count + 1
    BY <1>2, <1>6 DEF Balanced, CountCovers, Decided, Totals
  <2>2. Cardinality(Covered') <= count' /\ Cardinality(Covered') <= Cap /\ count' # Missing
    BY <1>3, <1>4, <1>6, <2>1 DEF Missing
  <2>3. WindowInv'
    <3> SUFFICES ASSUME rpc # "off"
                 PROVE  /\ InFlight' \subseteq since'
                        /\ Covered' \ since' \subseteq kept \cup todo
                        /\ before # Missing => Cardinality(since' \cap Covered') <= count' - before
      BY <1>2 DEF WindowInv
    <3>1. /\ InFlight \subseteq since
          /\ Covered \ since \subseteq kept \cup todo
          /\ before # Missing => Cardinality(since \cap Covered) <= count - before
      BY WindowStands
    <3>2. since' \cap Covered' = (since \cap Covered) \cup {name[w]}
      BY <1>1, <3>1 DEF Covered
    <3>3. Cardinality(since' \cap Covered') <= Cardinality(since \cap Covered) + 1
      BY <1>3, <3>2, OneMore
    <3>4. /\ Cardinality(since \cap Covered) \in Nat
          /\ Cardinality(since' \cap Covered') \in Nat
          /\ before \in Nat \cup {Missing}
      BY <1>3, SizeType DEF TypeOK
    <3>5. before # Missing => Cardinality(since' \cap Covered') <= count' - before
      BY <1>3, <1>6, <2>1, <3>1, <3>3, <3>4
    <3> QED
      BY <1>1, <3>1, <3>5
  <2> QED
    BY <2>2, <2>3 DEF Balanced, LostInv, CountCovers, CapHolds
<1> QED
  BY <1>5, <1>6

\* Giving back: the name was covered by this reservation alone.
LEMMA ReturnBalanced ==
  ASSUME Readable, TypeOK, TypeOK', HolderInv, Balanced,
         NEW w \in Workers, Decided(w), Return(w)
  PROVE  Balanced'
<1>1. /\ pc[w] = "return" /\ reserved[w] /\ name[w] \notin files /\ name[w] \in InFlight
      /\ UNCHANGED <<files, uncounted, name, rpc, before, kept, todo, since>>
      /\ reserved' = [reserved EXCEPT ![w] = FALSE]
  BY DEF Return, Go, Decided, InFlight, diskVars, passVars
<1>2. ASSUME NEW v \in Workers, reserved[v], name[v] = name[w]
      PROVE  v = w
  BY <1>1, <1>2 DEF TypeOK, HolderInv, HasPath
<1>3. InFlight' = InFlight \ {name[w]} /\ Covered' = Covered \ {name[w]} /\ name[w] \in Covered
  BY <1>1, <1>2 DEF InFlight, Covered, TypeOK
<1>4. count # Missing /\ Cardinality(Covered) <= count /\ InFlight # {}
  BY <1>1 DEF Balanced, LostInv, CountCovers
<1>5. /\ Cardinality(Covered) \in Nat /\ Cardinality(Covered') = Cardinality(Covered) - 1
      /\ Cardinality(Covered') \in Nat
      /\ count \in Nat /\ Cap \in Nat
  BY <1>3, <1>4, CoveredNames, SizeType, OneLess, GateAssumption DEF TypeOK
<1>6. count' = count - 1
  BY <1>4, <1>5, OneReading DEF Return, Totals, AtLeast0
<1>7. Cardinality(Covered') <= count' /\ count' # Missing /\ Cardinality(Covered') <= Cap
  <2>1. Cardinality(Covered) <= Cap
    BY <1>4 DEF Balanced, CapHolds
  <2> QED
    BY <1>4, <1>5, <1>6, <2>1 DEF Missing
<1>8. WindowInv'
  <2> SUFFICES ASSUME rpc # "off"
               PROVE  /\ InFlight' \subseteq since
                      /\ Covered' \ since \subseteq kept \cup todo
                      /\ before # Missing => Cardinality(since \cap Covered') <= count' - before
    BY <1>1 DEF WindowInv
  <2>1. /\ InFlight \subseteq since
        /\ Covered \ since \subseteq kept \cup todo
        /\ before # Missing => Cardinality(since \cap Covered) <= count - before
    BY WindowStands
  <2>2. since \cap Covered' = (since \cap Covered) \ {name[w]} /\ name[w] \in since \cap Covered
    BY <1>1, <1>3, <2>1
  <2>3. Cardinality(since \cap Covered') = Cardinality(since \cap Covered) - 1
    BY <2>2, CoveredNames, OneLess
  <2>4. Cardinality(since \cap Covered) \in Nat /\ before \in Nat \cup {Missing}
    BY CoveredNames, SizeType DEF TypeOK
  <2>5. before # Missing => Cardinality(since \cap Covered') <= count' - before
    BY <1>5, <1>6, <2>1, <2>3, <2>4
  <2> QED
    BY <1>3, <2>1, <2>5
<1> QED
  BY <1>7, <1>8 DEF Balanced, LostInv, CountCovers, CapHolds

LEMMA WriterBalanced ==
  ASSUME Readable, TypeOK, TypeOK', HolderInv, Balanced, DecidedInv,
         NEW w \in Workers, Worker(w)
  PROVE  Balanced'
<1>1. CASE \/ Look(w) \/ Check(w) \/ TakeSpan(w) \/ TakePath(w) \/ LookAgain(w) \/ TakeGate(w)
           \/ RefuseInBody(w) \/ RetakeGate(w) \/ RelockPath(w) \/ RefuseRewrite(w)
  <2>1. Stay
    BY <1>1 DEF Look, Check, TakeSpan, TakePath, LookAgain, TakeGate, RefuseInBody, RetakeGate,
                RelockPath, RefuseRewrite
  <2> QED
    BY <2>1, SameCover, StaysBalanced DEF Stay, diskVars, passVars
<1>2. CASE Begin(w)
  <2>1. /\ ~reserved[w] /\ UNCHANGED <<files, uncounted, reserved, count, since, passVars>>
        /\ \A v \in Workers : v # w => name'[v] = name[v]
    BY <1>2 DEF Begin, Go, TypeOK, diskVars
  <2>2. InFlight' \subseteq InFlight /\ Covered' \subseteq Covered
    BY <2>1 DEF InFlight, Covered
  <2> QED
    BY <2>1, <2>2, StaysBalanced DEF passVars
<1>3. CASE Write(w) \/ Rewrite(w)
  <2>1. /\ PutFile(w) /\ UNCHANGED <<name, reserved, count, since, passVars>>
    BY <1>3 DEF Write, Rewrite
  <2>2. InFlight' = InFlight
    BY <2>1 DEF InFlight
  <2>3. reserved[w] => name[w] \in InFlight
    BY DEF InFlight
  <2>4. Covered' \subseteq Covered
    BY <2>1, <2>2, <2>3 DEF PutFile, Covered
  <2> QED
    BY <2>1, <2>2, <2>4, StaysBalanced DEF passVars
<1>4. CASE After(w) \/ CrashWorker(w)
  <2>1. UNCHANGED <<files, uncounted, name, count, since, passVars>>
    BY <1>4 DEF After, CrashWorker, diskVars
  <2>2. \A v \in Workers : reserved'[v] => reserved[v]
    BY <1>4 DEF After, CrashWorker, TypeOK
  <2>3. InFlight' \subseteq InFlight /\ Covered' \subseteq Covered
    BY <2>1, <2>2 DEF InFlight, Covered
  <2> QED
    BY <2>1, <2>3, StaysBalanced DEF passVars
<1>5. CASE Reserve(w)
  BY <1>5, ReserveBalanced DEF DecidedInv
<1>6. CASE Return(w)
  BY <1>6, ReturnBalanced DEF DecidedInv
<1> QED
  BY <1>1, <1>2, <1>3, <1>4, <1>5, <1>6 DEF Worker, Step, Acquire

\* The first reading opens the window: nothing is in flight, and the walk has
\* every file before it.
LEMMA WindowOpens ==
  ASSUME Readable, TypeOK, TypeOK', Balanced, CountedAt
  PROVE  Balanced'
<1>1. /\ InFlight = {} /\ SpanFree
      /\ UNCHANGED <<files, uncounted, name, reserved, count>>
      /\ before' = count /\ todo' = Names /\ since' = {}
  BY Waited, OneReading DEF CountedAt, diskVars
<1>2. Covered' = Covered /\ InFlight' = {}
  BY <1>1, SameCover
<1>3. Covered' \subseteq Names /\ count \in Nat \cup {Missing}
  BY <1>2, CoveredNames DEF TypeOK
<1>4. Cardinality(since' \cap Covered') = 0
  <2>1. since' \cap Covered' = {}
    BY <1>1
  <2> QED
    BY <2>1, FS_EmptySet
<1>5. WindowInv'
  <2>1. before' # Missing => Cardinality(since' \cap Covered') <= count' - before'
    BY <1>1, <1>3, <1>4 DEF Missing
  <2> QED
    BY <1>1, <1>2, <1>3, <2>1 DEF WindowInv
<1>6. LostInv' /\ CountCovers' /\ CapHolds'
  BY <1>1, <1>2 DEF Balanced, LostInv, CountCovers, CapHolds
<1> QED
  BY <1>5, <1>6 DEF Balanced

\* The last one closes it: what the walk kept, and what was reserved since, is
\* everything there is.
LEMMA WindowCloses ==
  ASSUME Readable, TypeOK, TypeOK', Balanced, Settle
  PROVE  Balanced'
<1>1. /\ InFlight = {} /\ InFlight' = {} /\ rpc # "off" /\ rpc' = "off" /\ todo = {}
      /\ files' = files
      /\ count' = Settled(After0(count))
      /\ uncounted' = IF before = Missing THEN uncounted ELSE uncounted \ kept
  <2>1. InFlight = {} /\ UNCHANGED <<name, reserved>>
    BY Waited DEF Settle
  <2>2. InFlight' = {}
    BY <2>1 DEF InFlight
  <2> QED
    BY <2>1, <2>2, OneReading DEF Settle, RGo
<1>2. Covered \ since \subseteq kept
  BY <1>1, WindowStands
<1>3. /\ Covered \subseteq Names /\ Covered' \subseteq Names /\ kept \subseteq Names
      /\ since \cap Covered \subseteq Names
  <2>1. kept \subseteq Names
    BY DEF TypeOK
  <2> QED
    BY <2>1, CoveredNames, CoveredNamesNext
<1>4. /\ Cardinality(Covered) \in Nat /\ Cardinality(Covered') \in Nat
      /\ Cardinality(kept) \in Nat /\ Cardinality(since \cap Covered) \in Nat
  BY <1>3, SizeType
<1>5. count \in Nat \cup {Missing} /\ before \in Nat \cup {Missing} /\ count' \in Nat
  BY <1>1, SettledType DEF TypeOK, Readings
<1>6. Cardinality(Covered') <= count'
  <2>1. CASE before = Missing
    <3>1. Covered' = Covered
      BY <1>1, <2>1 DEF Covered
    <3>2. CASE count = Missing
      <4>1. Covered \subseteq kept
        BY <1>1, <1>2, <3>2 DEF Balanced, LostInv
      <4>2. Cardinality(Covered) <= Cardinality(kept)
        BY <1>3, <4>1, Smaller
      <4>3. count' = Cardinality(kept)
        BY <1>1, <1>4, <2>1, <3>2 DEF Settled, After0, Larger
      <4> QED
        BY <3>1, <4>2, <4>3
    <3>3. CASE count # Missing
      <4>1. Cardinality(Covered) <= count
        BY <3>3 DEF Balanced, CountCovers
      <4>2. count' >= count
        BY <1>1, <1>4, <1>5, <2>1, <3>3 DEF Settled, After0, Larger
      <4> QED
        BY <1>4, <1>5, <3>1, <3>3, <4>1, <4>2
    <3> QED
      BY <3>2, <3>3
  <2>2. CASE before # Missing
    <3>1. Covered' \subseteq kept \cup (since \cap Covered)
      BY <1>1, <1>2, <2>2 DEF Covered
    <3>2. Cardinality(Covered') <= Cardinality(kept \cup (since \cap Covered))
      BY <1>3, <3>1, Smaller
    <3>3. Cardinality(kept \cup (since \cap Covered))
            <= Cardinality(kept) + Cardinality(since \cap Covered)
      BY <1>3, Together
    <3>4. Cardinality(kept \cup (since \cap Covered)) \in Nat
      BY <1>3, SizeType
    <3>5. Cardinality(since \cap Covered) <= count - before /\ count # Missing
      BY <1>1, <2>2, WindowStands DEF Balanced, LostInv
    <3>6. count' = Cardinality(kept) + (count - before)
      <4>1. Larger(0, count - before) = count - before
        BY <1>4, <1>5, <2>2, <3>5 DEF Larger
      <4> QED
        BY <1>1, <2>2, <3>5, <4>1 DEF Settled, After0
    <3> QED
      BY <1>4, <1>5, <2>2, <3>2, <3>3, <3>4, <3>5, <3>6
  <2> QED
    BY <2>1, <2>2
<1>7. count' # Missing
  BY <1>5 DEF Missing
<1> QED
  BY <1>1, <1>6, <1>7 DEF Balanced, LostInv, WindowInv, CountCovers, CapHolds

LEMMA PassBalanced ==
  ASSUME Readable, TypeOK, TypeOK', Balanced, Pass \/ Age \/ PowerLoss \/ UNCHANGED vars
  PROVE  Balanced'
<1>1. ASSUME NEW n \in Names, Visit(n)
      PROVE  Balanced'
  <2>1. /\ UNCHANGED <<files, uncounted, name, reserved, count, since, before>>
        /\ rpc # "off" /\ todo' = todo \ {n} /\ kept' = kept \cup ({n} \cap files)
    BY <1>1 DEF Visit, RGo, diskVars
  <2>2. Covered' = Covered /\ InFlight' = InFlight
    BY <2>1, SameCover
  <2>3. InFlight \subseteq since /\ Covered \ since \subseteq kept \cup todo
    BY <2>1, WindowStands
  <2>4. Covered \ since \subseteq kept' \cup todo'
    BY <2>1, <2>3 DEF Covered
  <2> QED
    BY <2>1, <2>2, <2>4, Shrinks
<1>2. CASE Delete
  <2>1. /\ UNCHANGED <<name, reserved, count, since, before, todo>> /\ rpc # "off"
        /\ files' = files \ ({target} \cap idle) /\ uncounted' = uncounted \ ({target} \cap idle)
        /\ kept' = kept \ ({target} \cap idle)
    BY <1>2 DEF Delete, RGo
  <2>2. InFlight' = InFlight
    BY <2>1 DEF InFlight
  <2>3. Covered' \subseteq Covered
    BY <2>1, <2>2 DEF Covered
  <2>4. InFlight \subseteq since /\ Covered \ since \subseteq kept \cup todo
    BY <2>1, WindowStands
  <2>5. Covered' \ since \subseteq kept' \cup todo'
    BY <2>1, <2>2, <2>3, <2>4 DEF Covered
  <2> QED
    BY <2>1, <2>2, <2>3, <2>5, Shrinks
<1>3. CASE LockTarget \/ CrashPass \/ Age \/ UNCHANGED vars
  <2>1. /\ UNCHANGED <<files, uncounted, name, reserved, count, since, before, kept, todo>>
        /\ rpc' = "off" \/ UNCHANGED rpc \/ rpc # "off"
    BY <1>3 DEF LockTarget, CrashPass, Age, RGo, vars, diskVars, passVars
  <2>2. Covered' = Covered /\ InFlight' = InFlight
    BY <2>1, SameCover
  <2> QED
    BY <2>1, <2>2, Shrinks, WindowStands
<1>4. CASE PowerLoss
  <2>1. InFlight' = {} /\ Covered' \subseteq Covered /\ rpc' = "off" /\ count' \in {count, Missing}
    BY <1>4 DEF PowerLoss, InFlight, Covered, diskVars
  <2>2. Cardinality(Covered') <= Cardinality(Covered)
    BY <2>1, CoveredNames, Smaller
  <2>3. Cardinality(Covered') \in Nat /\ Cardinality(Covered) \in Nat /\ count \in Nat \cup {Missing}
    <3>1. count \in Nat \cup {Missing}
      BY DEF TypeOK
    <3> QED
      BY <3>1, CoveredNames, CoveredNamesNext, SizeType
  <2>4. count' # Missing => Cardinality(Covered) <= count /\ count' = count
    BY <2>1 DEF Balanced, CountCovers
  <2>5. CountCovers'
    BY <2>2, <2>3, <2>4 DEF CountCovers
  <2> QED
    BY <2>1, <2>5 DEF Balanced, LostInv, WindowInv, CapHolds
<1>5. CASE CountedAt
  BY <1>5, WindowOpens
<1>6. CASE Settle
  BY <1>6, WindowCloses
<1> QED
  BY <1>1, <1>2, <1>3, <1>4, <1>5, <1>6 DEF Pass

LEMMA InductiveInit ==
  ASSUME Init
  PROVE  Inductive
<1>1. TypeOK
  BY TypeInit
<1>2. InFlight = {} /\ Covered = files
  BY DEF Init, InFlight, Covered
<1>3. Cardinality(files) \in Nat
  BY <1>1, SizeType DEF TypeOK
<1>4. HolderInv /\ DecidedInv /\ LostInv /\ WindowInv /\ CapHolds
  BY <1>2 DEF Init, HolderInv, HasPath, InGate, DecidedInv, Decided, LostInv, WindowInv, CapHolds
<1>5. CountCovers
  BY <1>2, <1>3 DEF Init, CountCovers
<1> QED
  BY <1>1, <1>4, <1>5 DEF Inductive

LEMMA InductiveStep ==
  ASSUME Readable, Inductive, [Next]_vars
  PROVE  Inductive'
<1>1. TypeOK /\ HolderInv /\ DecidedInv /\ LostInv /\ Balanced
  BY DEF Inductive, Balanced
<1>2. TypeOK' /\ HolderInv' /\ DecidedInv'
  BY <1>1, TypeStep, HolderStep, DecidedStep
<1>3. Balanced'
  BY <1>1, <1>2, WriterBalanced, PassBalanced DEF Next
<1> QED
  BY <1>2, <1>3 DEF Inductive, Balanced

\* The invariant behind the two theorems below, in an environment where reads of
\* the count file do not fail.
THEOREM Accounting ==
  ASSUME Readable
  PROVE  Spec => []Inductive
BY InductiveInit, InductiveStep, PTL DEF Spec

\* The count file never admits what is not there to be had: it is at least the
\* files counted plus the reservations in flight, for any interleaving of creates
\* with a reap pass and any crash of either (`_create_gate`, `_settle_count`).
THEOREM NeverLow ==
  ASSUME Readable
  PROVE  Spec => []CountCovers
<1>1. Inductive => CountCovers
  BY DEF Inductive
<1> QED
  BY <1>1, Accounting, PTL

\* However many creates run at once, none of them takes the counted files past
\* the cap (`_check_room_capacity` and `_count_new_room` in one critical section).
THEOREM CapNeverPassed ==
  ASSUME Readable
  PROVE  Spec => []CapHolds
<1>1. Inductive => CapHolds
  BY DEF Inductive
<1> QED
  BY <1>1, Accounting, PTL

----------------------------------------------------------------------------
(* A pass that heals.                                                      *)

\* What the walk kept is on disk, and while nothing has been reserved since the
\* first reading the count has not grown.
WalkInv ==
  rpc # "off" =>
    /\ kept \subseteq files
    /\ since = {} /\ before # Missing => count <= before

LEMMA WalkStep ==
  ASSUME Readable, Inductive, WalkInv, [Next]_vars
  PROVE  WalkInv'
<1>1. CASE UNCHANGED vars
  BY <1>1 DEF WalkInv, vars, diskVars, passVars
<1>2. ASSUME NEW w \in Workers, Worker(w) PROVE WalkInv'
  <2>1. UNCHANGED passVars
    BY <1>2 DEF Worker, Step, Acquire, Begin, Look, Check, TakeSpan, TakePath, LookAgain, TakeGate, Reserve,
                Write, RefuseInBody, After, RetakeGate, Return, RelockPath, Rewrite, RefuseRewrite,
                CrashWorker, Stay
  <2>2. files \subseteq files'
    BY <1>2 DEF Worker, Step, Acquire, Begin, Look, Check, TakeSpan, TakePath, LookAgain, TakeGate, Reserve,
                Write, RefuseInBody, After, RetakeGate, Return, RelockPath, Rewrite, RefuseRewrite,
                CrashWorker, Stay, PutFile, diskVars
  <2>3. CASE Reserve(w)
    <3>1. since' # {}
      BY <2>3 DEF Reserve
    <3> QED
      BY <2>1, <2>2, <3>1 DEF WalkInv, passVars
  <2>4. CASE Return(w)
    <3>1. count # Missing /\ count \in Nat
      BY <2>4 DEF Inductive, DecidedInv, Decided, LostInv, InFlight, TypeOK, Return, Go
    <3>2. count' = AtLeast0(count - 1) /\ since' = since
      BY <2>4, <3>1, OneReading DEF Return, Totals
    <3>3. count' <= count /\ count' \in Nat
      BY <3>1, <3>2 DEF AtLeast0
    <3>4. before \in Nat \cup {Missing}
      BY DEF Inductive, TypeOK
    <3>5. rpc # "off" /\ since = {} /\ before # Missing => count' <= before
      BY <3>1, <3>3, <3>4 DEF WalkInv, Missing
    <3> QED
      BY <2>1, <2>2, <3>2, <3>5 DEF WalkInv, passVars
  <2>5. CASE ~Reserve(w) /\ ~Return(w)
    <3>1. UNCHANGED <<count, since>>
      BY <1>2, <2>5 DEF Worker, Step, Acquire, Begin, Look, Check, TakeSpan, TakePath, LookAgain, TakeGate,
                Write, RefuseInBody, After, RetakeGate, RelockPath, Rewrite, RefuseRewrite, CrashWorker, Stay
    <3> QED
      BY <2>1, <2>2, <3>1 DEF WalkInv, passVars
  <2> QED
    BY <2>3, <2>4, <2>5
<1>3. CASE CountedAt
  <2>1. before' = count /\ count' = count /\ kept' = {}
    BY <1>3, OneReading DEF CountedAt
  <2>2. before' # Missing => count' <= before'
    BY <2>1 DEF Inductive, TypeOK
  <2> QED
    BY <2>1, <2>2 DEF WalkInv
<1>4. ASSUME NEW n \in Names, Visit(n) PROVE WalkInv'
  BY <1>4 DEF WalkInv, Visit, RGo, diskVars
<1>5. CASE LockTarget
  BY <1>5 DEF WalkInv, LockTarget, RGo, diskVars
<1>6. CASE Delete
  BY <1>6 DEF WalkInv, Delete, RGo
<1>7. CASE Settle \/ CrashPass \/ PowerLoss
  BY <1>7 DEF WalkInv, Settle, CrashPass, PowerLoss, RGo
<1>8. CASE Age
  BY <1>8 DEF WalkInv, Age, passVars
<1> QED
  BY <1>1, <1>2, <1>3, <1>4, <1>5, <1>6, <1>7, <1>8 DEF Next, Pass

LEMMA WalkInit == Init => WalkInv
BY DEF Init, WalkInv

\* A pass that nobody created a file under leaves the exact count, whatever a
\* crash had left in it (`_settle_count`: "exact on a quiet store").
THEOREM QuietStoreHeals ==
  ASSUME Readable
  PROVE  Spec => PassHeals
<1>1. ASSUME Inductive, WalkInv, Settle, before # Missing, since = {}, uncounted \subseteq kept
      PROVE  count' = Cardinality(files)
  <2>1. rpc = "walk" /\ todo = {} /\ count' = Settled(After0(count))
    BY <1>1, OneReading DEF Settle, RGo
  <2>2. count \in Nat /\ before \in Nat /\ count <= before /\ kept \subseteq files
    BY <1>1, <2>1 DEF Inductive, LostInv, WalkInv, TypeOK
  <2>3. files \subseteq kept
    BY <1>1, <2>1 DEF Inductive, WindowInv, Covered
  <2>4. kept = files /\ Cardinality(files) \in Nat
    BY <1>1, <2>2, <2>3, SizeType DEF Inductive, TypeOK
  <2>5. After0(count) = count
    BY <2>2 DEF After0, Missing
  <2>6. Larger(0, count - before) = 0
    BY <2>2 DEF Larger
  <2> QED
    BY <1>1, <2>1, <2>4, <2>5, <2>6 DEF Settled
<1>2. Inductive /\ WalkInv => [(Settle /\ before # Missing /\ since = {} /\ uncounted \subseteq kept)
                                 => count' = Cardinality(files)]_vars
  BY <1>1
<1>3. Inductive /\ WalkInv /\ [Next]_vars => WalkInv'
  BY WalkStep
<1> QED
  BY <1>2, <1>3, WalkInit, Accounting, PTL DEF Spec, PassHeals

----------------------------------------------------------------------------
(* No drift.                                                               *)

Present == files \cup InFlight

LEMMA PresentSize ==
  ASSUME TypeOK
  PROVE  Present \subseteq Names /\ IsFiniteSet(Present) /\ Cardinality(Present) \in Nat
<1>1. Present \subseteq Names
  BY DEF TypeOK, Present, InFlight
<1> QED
  BY <1>1, SizeType

\* Each step of a handler that lives moves the count and what is there together.
LEMMA HandlerKeepsDrift ==
  ASSUME Readable, Env \cap {"crash"} = {}, Inductive, NEW w \in Workers, Worker(w),
         uncounted' = uncounted, count # Missing
  PROVE  Drift' = Drift
<1>1. CASE \/ Look(w) \/ Check(w) \/ TakeSpan(w) \/ TakePath(w) \/ LookAgain(w) \/ TakeGate(w)
           \/ RefuseInBody(w) \/ RetakeGate(w) \/ RelockPath(w) \/ RefuseRewrite(w)
  <2>1. Stay
    BY <1>1 DEF Look, Check, TakeSpan, TakePath, LookAgain, TakeGate, RefuseInBody, RetakeGate,
                RelockPath, RefuseRewrite
  <2>2. Present' = Present /\ count' = count
    BY <2>1, SameCover DEF Stay, diskVars, Present
  <2> QED
    BY <2>2 DEF Drift, Present
<1>2. CASE Begin(w)
  <2>1. /\ ~reserved[w] /\ UNCHANGED <<files, reserved, count>>
        /\ \A v \in Workers : v # w => name'[v] = name[v]
    BY <1>2 DEF Begin, Go, Inductive, TypeOK, diskVars
  <2>2. Present' = Present
    BY <2>1 DEF Present, InFlight
  <2> QED
    BY <2>1, <2>2 DEF Drift, Present
<1>3. CASE Write(w) \/ Rewrite(w)
  <2>1. PutFile(w) /\ UNCHANGED <<name, reserved, count>>
    BY <1>3 DEF Write, Rewrite
  <2>2. name[w] \in files \/ reserved[w]
    BY <2>1 DEF PutFile, Inductive, TypeOK
  <2>3. Present' = Present
    BY <2>1, <2>2 DEF PutFile, Present, InFlight
  <2> QED
    BY <2>1, <2>3 DEF Drift, Present
<1>4. CASE After(w)
  <2>1. /\ UNCHANGED <<files, name, count>>
        /\ reserved' = [reserved EXCEPT ![w] = reserved[w] /\ name[w] \notin files]
        /\ reserved \in [Workers -> BOOLEAN]
    BY <1>4 DEF After, diskVars, Inductive, TypeOK
  <2>2. \A v \in Workers : reserved'[v] => reserved[v]
    BY <2>1
  <2>3. \A v \in Workers : reserved[v] /\ ~reserved'[v] => name[v] \in files
    BY <2>1
  <2>4. Present' = Present
    BY <2>1, <2>2, <2>3 DEF Present, InFlight
  <2> QED
    BY <2>1, <2>4 DEF Drift, Present
<1>5. CASE Reserve(w)
  <2>1. /\ reserved' = [reserved EXCEPT ![w] = TRUE] /\ reserved \in [Workers -> BOOLEAN]
        /\ UNCHANGED <<files, name>> /\ pc[w] = "reserve" /\ count' = count + 1
    BY <1>5, OneReading DEF Reserve, Go, Totals, diskVars, Inductive, TypeOK
  <2>2. \A v \in Workers : reserved'[v] <=> (reserved[v] \/ v = w)
    BY <2>1
  <2>3. Present' = Present \cup {name[w]}
    BY <2>1, <2>2 DEF Present, InFlight
  <2>4. name[w] \notin files
    BY <2>1 DEF Inductive, DecidedInv, Decided
  <2>5. name[w] \notin InFlight
    BY <2>1 DEF InFlight, Inductive, TypeOK, HolderInv, HasPath
  <2>6. Cardinality(Present') = Cardinality(Present) + 1
    BY <2>3, <2>4, <2>5, PresentSize, FS_AddElement DEF Inductive, Present
  <2>7. Cardinality(Present) \in Nat /\ count \in Nat
    BY PresentSize DEF Inductive, TypeOK
  <2>8. count' - Cardinality(Present') = count - Cardinality(Present)
    BY <2>1, <2>6, <2>7
  <2> QED
    BY <2>8 DEF Drift, Present
<1>6. CASE Return(w)
  <2>1. /\ pc[w] = "return" /\ reserved[w] /\ name[w] \notin files /\ name[w] \in InFlight
        /\ UNCHANGED <<files, name>>
        /\ reserved' = [reserved EXCEPT ![w] = FALSE] /\ reserved \in [Workers -> BOOLEAN]
    BY <1>6 DEF Return, Go, Inductive, DecidedInv, Decided, InFlight, diskVars, TypeOK
  <2>2. ASSUME NEW v \in Workers, reserved[v], name[v] = name[w]
        PROVE  v = w
    BY <2>1, <2>2 DEF Inductive, TypeOK, HolderInv, HasPath
  <2>3. \A v \in Workers : reserved'[v] <=> (reserved[v] /\ v # w)
    BY <2>1
  <2>4. Present' = Present \ {name[w]} /\ name[w] \in Present
    BY <2>1, <2>2, <2>3 DEF Present, InFlight
  <2>5. count \in Nat /\ Cardinality(Covered) <= count /\ name[w] \in Covered /\ Covered \subseteq Names
    BY <2>1, CoveredNames DEF Inductive, CountCovers, TypeOK, Covered
  <2>6. Cardinality(Covered) # 0
    BY <2>5, SizeType, FS_EmptySet
  <2>7. count - 1 >= 0
    BY <2>5, <2>6, SizeType
  <2>8. count' = count - 1
    <3>1. PICK r \in Readings : count' = AtLeast0(Totals(r) - 1)
      BY <1>6 DEF Return
    <3>2. Totals(r) = count
      BY <3>1, OneReading DEF Totals
    <3> QED
      BY <2>5, <2>7, <3>1, <3>2 DEF AtLeast0
  <2>9. Cardinality(Present') = Cardinality(Present) - 1 /\ Cardinality(Present) \in Nat
    BY <2>4, PresentSize, FS_RemoveElement DEF Inductive
  <2>10. count' - Cardinality(Present') = count - Cardinality(Present)
    BY <2>5, <2>8, <2>9
  <2> QED
    BY <2>10 DEF Drift, Present
<1>7. ~CrashWorker(w)
  BY DEF CrashWorker
<1> QED
  BY <1>1, <1>2, <1>3, <1>4, <1>5, <1>6, <1>7 DEF Worker, Step, Acquire

\* Whatever handlers do leaves the count as far from the files and reservations as
\* it was: a file two of them race to create is counted once, and a refused body
\* costs nothing (`_create_gate`).  Here nothing dies; what a death costs is the
\* business of NeverLow and QuietStoreHeals.
THEOREM CreatesCountOnce ==
  ASSUME Env = {}
  PROVE  Spec => NoDrift
<1>1. Readable /\ Env \cap {"crash"} = {} /\ "powerloss" \notin Env
  BY DEF Readable
<1>2. ASSUME Inductive, [Next]_vars, rpc' = rpc, uncounted' = uncounted, count # Missing
      PROVE  Drift' = Drift
  <2>1. CASE UNCHANGED vars \/ Age \/ \E n \in Names : Visit(n)
    <3>1. UNCHANGED <<files, uncounted, name, reserved, count>>
      BY <1>2, <2>1 DEF vars, diskVars, Age, Visit
    <3> QED
      BY <3>1, SameCover DEF Drift
  <2>2. CASE CountedAt \/ LockTarget \/ Delete \/ Settle \/ CrashPass
    BY <1>2, <2>2 DEF CountedAt, LockTarget, Delete, Settle, CrashPass, RGo
  <2>3. ~PowerLoss
    BY <1>1 DEF PowerLoss
  <2>4. ASSUME NEW w \in Workers, Worker(w) PROVE Drift' = Drift
    BY <1>1, <1>2, <2>4, HandlerKeepsDrift
  <2> QED
    BY <1>2, <2>1, <2>2, <2>3, <2>4 DEF Next, Pass
<1>3. Inductive /\ [Next]_vars
      => [rpc' = rpc /\ uncounted' = uncounted /\ count # Missing => Drift' = Drift]_vars
  BY <1>2
<1> QED
  BY <1>1, <1>3, Accounting, PTL DEF Spec, NoDrift
=============================================================================
