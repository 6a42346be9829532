-------------------------- MODULE PausePoints_proofs --------------------------
(***************************************************************************)
(* What an abort, a pause and a failed preparation may count on, for any    *)
(* runs, checkouts, tool calls and bounds.                                  *)
(***************************************************************************)
EXTENDS PausePoints, FiniteSetTheorems, TLAPS

\* A preparation under way has its run wait for the prompt; a run past its prompt
\* has an answer for it.
PrepInv == \A r \in Runs :
    /\ prep[r] \in {"queued", "checkout", "resources", "failing"} => stage[r] = "prompt"
    /\ holding[r] => prep[r] \in {"checkout", "resources"}
    /\ stage[r] \in {"request", "heldRequest", "asking"} => prep[r] \in {"done", "plain", "failed"}

\* The preparation in a checkout is the first of its line.
LineInv == \A r \in Runs :
    prep[r] = "checkout" =>
        line[CheckoutOf[r]] # <<>> /\ Head(line[CheckoutOf[r]]) = r

\* Tools are called in their stage only, and a call that is made is counted.
CallInv == \A r \in Runs : \A c \in Calls :
    /\ call[r][c] # "none" => stage[r] = "tools"
    /\ call[r][c] = "running" => c \in inFlight[r]

\* Only an abort requested of Pi stops the preparation of a run that is not closed.
AbortInv == \A r \in Runs :
    /\ caller[r] \in {"requested", "waiting"} => aborting[r]
    /\ caller[r] = "closing" => r \in Closable
    /\ stopped[r] /\ r \notin Closable => aborting[r]
    /\ prep[r] \in {"plain", "failed"} /\ r \notin Closable => aborting[r]

IInv == TypeOK /\ PrepInv /\ LineInv /\ CallInv /\ AbortInv /\ PromptSent /\ HeldCounted
-----------------------------------------------------------------------------
USE PauseAssumption

LEMMA HeldCallsFinite == ASSUME NEW r \in Runs PROVE IsFiniteSet(HeldCalls(r))
  BY FS_Subset DEF HeldCalls

\* The count does not change with what it does not count.
LEMMA CountKept ==
    ASSUME UNCHANGED <<held, holding>>, HeldCounted,
           \A r \in Runs : HeldCalls(r)' = HeldCalls(r),
           \A r \in Runs : stage'[r] = "heldRequest" <=> stage[r] = "heldRequest"
    PROVE  HeldCounted'
  BY DEF HeldCounted, One

\* Nothing is held of a run that calls no tool, waits for no node and no request.
LEMMA NoHeldCalls ==
    ASSUME NEW r \in Runs, \A c \in Calls : call[r][c] # "held"
    PROVE  HeldCalls(r) = {}
  BY DEF HeldCalls

LEMMA CountsAreNumbers == ASSUME NEW r \in Runs PROVE Cardinality(HeldCalls(r)) \in Nat
  BY HeldCallsFinite, FS_CardinalityType

\* While something of a run waits, its count can be lowered.
LEMMA HeldIsPositive ==
    ASSUME IInv, NEW r \in Runs,
           holding[r] \/ stage[r] = "heldRequest" \/ \E c \in Calls : call[r][c] = "held"
    PROVE  held[r] - 1 \in Nat
<1>1. Cardinality(HeldCalls(r)) \in Nat
  BY CountsAreNumbers
<1>2. (\E c \in Calls : call[r][c] = "held") => Cardinality(HeldCalls(r)) # 0
  BY HeldCallsFinite, FS_EmptySet DEF HeldCalls
<1>3. held[r] = Cardinality(HeldCalls(r)) + One(holding[r]) + One(stage[r] = "heldRequest")
  BY DEF IInv, HeldCounted
<1>4. QED
  BY <1>1, <1>2, <1>3 DEF One

\* One wait of a run begins or is over, and is counted or no longer is.
LEMMA CountMoved ==
    ASSUME HeldCounted, NEW r \in Runs, NEW d \in {-1, 1}, UNCHANGED stage,
           \A q \in Runs \ {r} : /\ held'[q] = held[q] /\ holding'[q] = holding[q]
                                /\ Cardinality(HeldCalls(q)') = Cardinality(HeldCalls(q)),
           held'[r] = held[r] + d,
           Cardinality(HeldCalls(r)') + One(holding'[r]) = Cardinality(HeldCalls(r)) + One(holding[r]) + d
    PROVE  HeldCounted'
<1>1. held[r] = Cardinality(HeldCalls(r)) + One(holding[r]) + One(stage[r] = "heldRequest")
  BY DEF HeldCounted
<1>2. /\ Cardinality(HeldCalls(r)) \in Nat /\ One(holding[r]) \in Nat
      /\ One(stage[r] = "heldRequest") \in Nat /\ d \in Int
  BY CountsAreNumbers DEF One
<1>3. held'[r] = Cardinality(HeldCalls(r)') + One(holding'[r]) + One(stage[r] = "heldRequest")
  BY <1>1, <1>2
<1>4. ASSUME NEW q \in Runs \ {r}
      PROVE  held'[q] = Cardinality(HeldCalls(q)') + One(holding'[q]) + One(stage[q] = "heldRequest")
  BY DEF HeldCounted
<1> QED BY <1>3, <1>4 DEF HeldCounted

\* A line keeps its head when a run joins it, and is a line without it.
LEMMA AppendToLine ==
    ASSUME NEW s \in Seq(Runs), NEW r \in Runs
    PROVE  /\ Append(s, r) \in Seq(Runs) /\ Append(s, r) # <<>>
           /\ s # <<>> => Head(Append(s, r)) = Head(s)
<1>1. /\ Append(s, r) \in Seq(Runs) /\ Len(Append(s, r)) = Len(s) + 1 /\ Len(s) \in Nat
      /\ \A i \in 1..Len(s) : Append(s, r)[i] = s[i]
  OBVIOUS
<1>2. Append(s, r) # <<>>
  BY <1>1
<1>3. s # <<>> => 1 \in 1..Len(s) /\ Head(s) = s[1]
  BY <1>1
<1>4. Head(Append(s, r)) = Append(s, r)[1]
  BY <1>1, <1>2
<1> QED BY <1>1, <1>2, <1>3, <1>4

LEMMA TailInLine == ASSUME NEW s \in Seq(Runs), s # <<>> PROVE Tail(s) \in Seq(Runs)
  OBVIOUS

LEMMA CallMoved ==
    ASSUME TypeOK, NEW r \in Runs, NEW c \in Calls, NEW step \in CallSteps, CallTo(r, c, step)
    PROVE  /\ call' \in [Runs -> [Calls -> CallSteps]]
           /\ \A q \in Runs : \A d \in Calls :
                 call'[q][d] = IF q = r /\ d = c THEN step ELSE call[q][d]
  BY DEF TypeOK, CallTo

LEMMA InitIInv == Init => IInv
<1> SUFFICES ASSUME Init PROVE IInv
  OBVIOUS
<1>1. TypeOK
  BY DEF Init, TypeOK, Stages, Preps, CallSteps
<1>2. PrepInv /\ LineInv /\ CallInv /\ AbortInv /\ PromptSent
  BY DEF Init, PrepInv, LineInv, CallInv, AbortInv, PromptSent
<1>3. \A r \in Runs : Cardinality(HeldCalls(r)) = 0
  BY NoHeldCalls, FS_EmptySet DEF Init
<1>4. HeldCounted
  BY <1>3 DEF Init, HeldCounted, One
<1>5. QED
  BY <1>1, <1>2, <1>4 DEF IInv

LEMMA BeginIInv == ASSUME NEW r \in Runs, IInv, Begin(r) PROVE IInv'
<1>1. TypeOK'
  BY DEF IInv, TypeOK, Begin, At, Up, Go, process, preparation, tools, stops, Stages, Preps,
     CallSteps
<1>2. PrepInv'
  BY DEF IInv, TypeOK, PrepInv, Begin, At, Up, Go, process, preparation, tools, stops
<1>3. CallInv'
  BY DEF IInv, TypeOK, CallInv, Begin, At, Up, Go, process, preparation, tools, stops
<1>4. PromptSent'
  BY DEF IInv, TypeOK, PrepInv, AbortInv, PromptSent, Begin, At, Up, Go, process,
     preparation, tools, stops
<1>5. HeldCounted'
  BY CountKept DEF IInv, TypeOK, Begin, At, Up, Go, process, preparation, tools, stops,
     HeldCalls
<1>6. LineInv' /\ AbortInv'
  BY DEF IInv, LineInv, AbortInv, Begin, At, Up, Go, process, preparation, tools, stops
<1>7. QED
  BY <1>1, <1>2, <1>3, <1>4, <1>5, <1>6 DEF IInv

LEMMA AskPromptIInv == ASSUME NEW r \in Runs, IInv, AskPrompt(r) PROVE IInv'
<1>1. TypeOK'
  <2>1. CheckoutOf[r] \in Checkouts /\ line[CheckoutOf[r]] \in Seq(Runs)
    BY DEF IInv, TypeOK
  <2>2. Append(line[CheckoutOf[r]], r) \in Seq(Runs)
    BY <2>1, AppendToLine
  <2>3. line' \in [Checkouts -> Seq(Runs)]
    BY <2>2 DEF IInv, TypeOK, AskPrompt
  <2>4. QED
    BY <2>3 DEF IInv, TypeOK, Stages, Preps, AskPrompt, At, Up, Go, process, tools, stops
<1>2. PrepInv'
  BY DEF IInv, TypeOK, PrepInv, AskPrompt, At, Up, Go, process, tools, stops
<1>3. LineInv'
  <2>1. CheckoutOf[r] \in Checkouts /\ line[CheckoutOf[r]] \in Seq(Runs)
    BY DEF IInv, TypeOK
  <2>2. /\ Append(line[CheckoutOf[r]], r) # <<>>
        /\ line[CheckoutOf[r]] # <<>> => Head(Append(line[CheckoutOf[r]], r)) = Head(line[CheckoutOf[r]])
    BY <2>1, AppendToLine
  <2>3. \A q \in Runs : line[CheckoutOf[q]] # <<>> =>
          line'[CheckoutOf[q]] # <<>> /\ Head(line'[CheckoutOf[q]]) = Head(line[CheckoutOf[q]])
    BY <2>1, <2>2 DEF IInv, TypeOK, AskPrompt
  <2>4. QED
    BY <2>3 DEF IInv, TypeOK, PrepInv, LineInv, AskPrompt, At, Up, Go, process, tools, stops
<1>4. CallInv'
  BY DEF IInv, TypeOK, CallInv, AskPrompt, At, Up, Go, process, tools, stops
<1>5. AbortInv'
  BY DEF IInv, TypeOK, PrepInv, AbortInv, AskPrompt, At, Up, Go, process, tools, stops
<1>6. PromptSent'
  BY DEF IInv, TypeOK, PrepInv, AbortInv, PromptSent, AskPrompt, At, Up, Go, process, tools,
     stops
<1>7. HeldCounted'
  BY CountKept DEF IInv, TypeOK, AskPrompt, At, Up, Go, process, tools, stops, HeldCalls
<1>8. QED
  BY <1>1, <1>2, <1>3, <1>4, <1>5, <1>6, <1>7 DEF IInv

LEMMA StartPreparingIInv == ASSUME NEW r \in Runs, IInv, StartPreparing(r) PROVE IInv'
<1>1. TypeOK'
  BY DEF IInv, TypeOK, StartPreparing, Up, process, tools, stops, Stages, Preps, CallSteps
<1>2. PrepInv'
  BY DEF IInv, TypeOK, PrepInv, StartPreparing, Up, process, tools, stops
<1>3. LineInv'
  BY DEF IInv, TypeOK, PrepInv, LineInv, StartPreparing, Up, process, tools, stops
<1>4. AbortInv'
  BY DEF IInv, TypeOK, PrepInv, AbortInv, StartPreparing, Up, process, tools, stops
<1>5. PromptSent'
  BY DEF IInv, TypeOK, PrepInv, AbortInv, PromptSent, StartPreparing, Up, process, tools,
     stops
<1>6. CallInv' /\ HeldCounted'
  BY DEF IInv, CallInv, HeldCounted, HeldCalls, One, StartPreparing, Up, process, tools,
     stops
<1>7. QED
  BY <1>1, <1>2, <1>3, <1>4, <1>5, <1>6 DEF IInv

LEMMA WaitForNodeIInv == ASSUME NEW r \in Runs, IInv, WaitForNode(r) PROVE IInv'
<1>1. TypeOK'
  BY DEF IInv, TypeOK, WaitForNode, Preparing, Up, Hold, process, tools, stops, Stages,
     Preps, CallSteps
<1>2. PrepInv'
  BY DEF IInv, TypeOK, PrepInv, WaitForNode, Preparing, Up, Hold, process, tools, stops
<1>3. HeldCounted'
  <2>1. \A q \in Runs : Cardinality(HeldCalls(q)') = Cardinality(HeldCalls(q))
    BY DEF HeldCalls, WaitForNode, Preparing, Up, Hold, process, tools, stops
  <2>2. Cardinality(HeldCalls(r)) \in Nat /\ held[r] \in Nat
    BY CountsAreNumbers DEF IInv, TypeOK
  <2>3. /\ held' = [held EXCEPT ![r] = @ + 1] /\ UNCHANGED stage
        /\ holding' = [holding EXCEPT ![r] = TRUE] /\ ~holding[r]
    BY DEF WaitForNode, Preparing, Up, Hold, process, tools, stops
  <2>4. /\ held'[r] = held[r] + (1) /\ One(holding'[r]) = One(holding[r]) + (1) /\ One(holding[r]) \in Nat
        /\ \A q \in Runs \ {r} : held'[q] = held[q] /\ holding'[q] = holding[q]
    BY <2>2, <2>3 DEF IInv, TypeOK, One
  <2>5. Cardinality(HeldCalls(r)') + One(holding'[r]) = Cardinality(HeldCalls(r)) + One(holding[r]) + (1)
    BY <2>1, <2>2, <2>4
  <2> QED BY <2>1, <2>3, <2>4, <2>5, CountMoved DEF IInv
<1>4. LineInv' /\ CallInv' /\ AbortInv' /\ PromptSent'
  BY DEF IInv, LineInv, CallInv, AbortInv, PromptSent, WaitForNode, Preparing, Up, Hold,
     process, tools, stops
<1>5. QED
  BY <1>1, <1>2, <1>3, <1>4 DEF IInv

LEMMA NodeBackIInv == ASSUME NEW r \in Runs, IInv, NodeBack(r) PROVE IInv'
<1>1. TypeOK'
  <2>1. held' \in [Runs -> Nat]
    BY HeldIsPositive DEF IInv, TypeOK, NodeBack, Preparing, Up, Release, process, tools, stops
  <2>2. QED
    BY <2>1 DEF IInv, TypeOK, Stages, NodeBack, Preparing, Up, Release, process, tools, stops
<1>2. PrepInv'
  BY DEF IInv, TypeOK, PrepInv, NodeBack, Preparing, Up, Release, process, tools, stops
<1>3. HeldCounted'
  <2>1. \A q \in Runs : Cardinality(HeldCalls(q)') = Cardinality(HeldCalls(q))
    BY DEF HeldCalls, NodeBack, Preparing, Up, Release, process, tools, stops
  <2>2. Cardinality(HeldCalls(r)) \in Nat /\ held[r] \in Nat
    BY CountsAreNumbers DEF IInv, TypeOK
  <2>3. /\ held' = [held EXCEPT ![r] = @ - 1] /\ UNCHANGED stage
        /\ holding' = [holding EXCEPT ![r] = FALSE] /\ holding[r]
    BY DEF NodeBack, Preparing, Up, Release, process, tools, stops
  <2>4. /\ held'[r] = held[r] + (-1) /\ One(holding'[r]) = One(holding[r]) + (-1) /\ One(holding[r]) \in Nat
        /\ \A q \in Runs \ {r} : held'[q] = held[q] /\ holding'[q] = holding[q]
    BY <2>2, <2>3 DEF IInv, TypeOK, One
  <2>5. Cardinality(HeldCalls(r)') + One(holding'[r]) = Cardinality(HeldCalls(r)) + One(holding[r]) + (-1)
    BY <2>1, <2>2, <2>4
  <2> QED BY <2>1, <2>3, <2>4, <2>5, CountMoved DEF IInv
<1>4. LineInv' /\ CallInv' /\ AbortInv' /\ PromptSent'
  BY DEF IInv, LineInv, CallInv, AbortInv, PromptSent, NodeBack, Preparing, Up, Release,
     process, tools, stops
<1>5. QED
  BY <1>1, <1>2, <1>3, <1>4 DEF IInv

LEMMA PreparedIInv == ASSUME NEW r \in Runs, IInv, Prepared(r) PROVE IInv'
<1>1. TypeOK'
  <2>1. held' \in [Runs -> Nat]
    BY HeldIsPositive DEF IInv, TypeOK, Prepared, Preparing, Up, PrepareTo, process, tools, stops
  <2>2. line' \in [Checkouts -> Seq(Runs)]
    BY TailInLine DEF IInv, TypeOK, LineInv, Prepared, Preparing, Up, PrepareTo, process, tools, stops
  <2>3. holding' \in [Runs -> BOOLEAN]
    BY Zenon DEF IInv, TypeOK, Prepared, Preparing, Up, PrepareTo, process, tools, stops
  <2>4. QED
    BY <2>1, <2>2, <2>3 DEF IInv, TypeOK, Preps, Prepared, Preparing, Up, PrepareTo, process, tools, stops
<1>2. PrepInv'
  BY DEF IInv, TypeOK, PrepInv, Prepared, Preparing, Up, PrepareTo, process, tools, stops
<1>3. LineInv'
  BY DEF IInv, TypeOK, PrepInv, LineInv, Prepared, Preparing, Up, PrepareTo, process, tools,
     stops
<1>4. AbortInv'
  BY DEF IInv, TypeOK, PrepInv, AbortInv, Prepared, Preparing, Up, PrepareTo, process,
     tools, stops
<1>5. PromptSent'
  BY DEF IInv, TypeOK, PrepInv, AbortInv, PromptSent, Prepared, Preparing, Up, PrepareTo,
     process, tools, stops
<1>6. CallInv' /\ HeldCounted'
  BY DEF IInv, CallInv, HeldCounted, HeldCalls, One, Prepared, Preparing, Up, PrepareTo,
     process, tools, stops
<1>7. QED
  BY <1>1, <1>2, <1>3, <1>4, <1>5, <1>6 DEF IInv

LEMMA CannotPrepareIInv == ASSUME NEW r \in Runs, IInv, CannotPrepare(r) PROVE IInv'
<1>1. TypeOK'
  <2>1. held' \in [Runs -> Nat]
    <3>1. held \in [Runs -> Nat]
      BY DEF IInv, TypeOK
    <3>2. UNCHANGED held \/ (holding[r] /\ held' = [held EXCEPT ![r] = @ - 1])
      BY DEF CannotPrepare, Preparing, Up, PrepareTo, StopHolding, Release, process, tools, stops
    <3>3. holding[r] => held[r] - 1 \in Nat
      BY HeldIsPositive
    <3> QED BY <3>1, <3>2, <3>3
  <2>2. line' \in [Checkouts -> Seq(Runs)]
    BY TailInLine DEF IInv, TypeOK, LineInv, CannotPrepare, Preparing, Up, PrepareTo, StopHolding, Release, process, tools, stops
  <2>3. holding' \in [Runs -> BOOLEAN]
    BY Zenon DEF IInv, TypeOK, CannotPrepare, Preparing, Up, PrepareTo, StopHolding, Release, process, tools, stops
  <2>4. QED
    BY <2>1, <2>2, <2>3 DEF IInv, TypeOK, Preps, CannotPrepare, Preparing, Up, PrepareTo, StopHolding, Release, process, tools, stops
<1>2. PrepInv'
  BY DEF IInv, TypeOK, PrepInv, CannotPrepare, Preparing, Up, PrepareTo, StopHolding,
     Release, process, tools, stops
<1>3. LineInv'
  BY DEF IInv, TypeOK, PrepInv, LineInv, CannotPrepare, Preparing, Up, PrepareTo,
     StopHolding, Release, process, tools, stops
<1>4. AbortInv'
  BY DEF IInv, TypeOK, PrepInv, AbortInv, CannotPrepare, Preparing, Up, PrepareTo,
     StopHolding, Release, process, tools, stops
<1>5. PromptSent'
  BY DEF IInv, TypeOK, PrepInv, AbortInv, PromptSent, CannotPrepare, Preparing, Up,
     PrepareTo, StopHolding, Release, process, tools, stops
<1>6. HeldCounted'
  <2>1. \A q \in Runs : Cardinality(HeldCalls(q)') = Cardinality(HeldCalls(q))
    BY DEF HeldCalls, CannotPrepare, Preparing, Up, PrepareTo, StopHolding, Release, process, tools, stops
  <2>2. \A q \in Runs : Cardinality(HeldCalls(q)) \in Nat
    BY CountsAreNumbers
  <2>3. \A q \in Runs : stage'[q] = stage[q] /\ (q # r => held'[q] = held[q] /\ holding'[q] = holding[q])
    BY DEF IInv, TypeOK, CannotPrepare, Preparing, Up, PrepareTo, StopHolding, Release, process, tools, stops
  <2>4. held'[r] = held[r] - One(holding[r]) /\ holding'[r] = FALSE
    <3>1. /\ held \in [Runs -> Nat] /\ holding \in [Runs -> BOOLEAN]
          /\ holding' = [holding EXCEPT ![r] = FALSE]
          /\ held' = IF holding[r] THEN [held EXCEPT ![r] = @ - 1] ELSE held
      BY DEF IInv, TypeOK, CannotPrepare, StopHolding, Release
    <3> QED BY <3>1 DEF One
  <2>5. held'[r] = Cardinality(HeldCalls(r)') + One(holding'[r]) + One(stage'[r] = "heldRequest")
    <3>1. held[r] = Cardinality(HeldCalls(r)) + One(holding[r]) + One(stage[r] = "heldRequest")
      BY DEF IInv, HeldCounted
    <3>2. One(holding'[r]) = 0
      BY <2>4 DEF One
    <3>3. One(holding[r]) \in Nat /\ One(stage[r] = "heldRequest") \in Nat
      BY DEF One
    <3>4. One(stage'[r] = "heldRequest") = One(stage[r] = "heldRequest")
      BY <2>3
    <3>5. QED
      BY <2>1, <2>2, <2>4, <3>1, <3>2, <3>3, <3>4
  <2>6. QED
    BY <2>1, <2>3, <2>5 DEF IInv, HeldCounted
<1>7. CallInv'
  BY DEF IInv, CallInv, CannotPrepare, Preparing, Up, PrepareTo, StopHolding, Release,
     process, tools, stops
<1>8. QED
  BY <1>1, <1>2, <1>3, <1>4, <1>5, <1>6, <1>7 DEF IInv

LEMMA StopPreparingIInv == ASSUME NEW r \in Runs, IInv, StopPreparing(r) PROVE IInv'
<1>1. TypeOK'
  <2>1. held' \in [Runs -> Nat]
    <3>1. held \in [Runs -> Nat]
      BY DEF IInv, TypeOK
    <3>2. UNCHANGED held \/ (holding[r] /\ held' = [held EXCEPT ![r] = @ - 1])
      BY DEF StopPreparing, Preparing, Up, PrepareTo, StopHolding, Release, process, tools, stops
    <3>3. holding[r] => held[r] - 1 \in Nat
      BY HeldIsPositive
    <3> QED BY <3>1, <3>2, <3>3
  <2>2. line' \in [Checkouts -> Seq(Runs)]
    BY TailInLine DEF IInv, TypeOK, LineInv, StopPreparing, Preparing, Up, PrepareTo, StopHolding, Release, process, tools, stops
  <2>3. holding' \in [Runs -> BOOLEAN]
    BY Zenon DEF IInv, TypeOK, StopPreparing, Preparing, Up, PrepareTo, StopHolding, Release, process, tools, stops
  <2>4. QED
    BY <2>1, <2>2, <2>3 DEF IInv, TypeOK, Preps, StopPreparing, Preparing, Up, PrepareTo, StopHolding, Release, process, tools, stops
<1>2. PrepInv'
  BY DEF IInv, TypeOK, PrepInv, StopPreparing, Preparing, Up, PrepareTo, StopHolding,
     Release, process, tools, stops
<1>3. LineInv'
  BY DEF IInv, TypeOK, PrepInv, LineInv, StopPreparing, Preparing, Up, PrepareTo,
     StopHolding, Release, process, tools, stops
<1>4. AbortInv'
  BY DEF IInv, TypeOK, PrepInv, AbortInv, StopPreparing, Preparing, Up, PrepareTo,
     StopHolding, Release, process, tools, stops
<1>5. PromptSent'
  BY DEF IInv, TypeOK, PrepInv, AbortInv, PromptSent, StopPreparing, Preparing, Up,
     PrepareTo, StopHolding, Release, process, tools, stops
<1>6. HeldCounted'
  <2>1. \A q \in Runs : Cardinality(HeldCalls(q)') = Cardinality(HeldCalls(q))
    BY DEF HeldCalls, StopPreparing, Preparing, Up, PrepareTo, StopHolding, Release, process, tools, stops
  <2>2. \A q \in Runs : Cardinality(HeldCalls(q)) \in Nat
    BY CountsAreNumbers
  <2>3. \A q \in Runs : stage'[q] = stage[q] /\ (q # r => held'[q] = held[q] /\ holding'[q] = holding[q])
    BY DEF IInv, TypeOK, StopPreparing, Preparing, Up, PrepareTo, StopHolding, Release, process, tools, stops
  <2>4. held'[r] = held[r] - One(holding[r]) /\ holding'[r] = FALSE
    <3>1. /\ held \in [Runs -> Nat] /\ holding \in [Runs -> BOOLEAN]
          /\ holding' = [holding EXCEPT ![r] = FALSE]
          /\ held' = IF holding[r] THEN [held EXCEPT ![r] = @ - 1] ELSE held
      BY DEF IInv, TypeOK, StopPreparing, StopHolding, Release
    <3> QED BY <3>1 DEF One
  <2>5. held'[r] = Cardinality(HeldCalls(r)') + One(holding'[r]) + One(stage'[r] = "heldRequest")
    <3>1. held[r] = Cardinality(HeldCalls(r)) + One(holding[r]) + One(stage[r] = "heldRequest")
      BY DEF IInv, HeldCounted
    <3>2. One(holding'[r]) = 0
      BY <2>4 DEF One
    <3>3. One(holding[r]) \in Nat /\ One(stage[r] = "heldRequest") \in Nat
      BY DEF One
    <3>4. One(stage'[r] = "heldRequest") = One(stage[r] = "heldRequest")
      BY <2>3
    <3>5. QED
      BY <2>1, <2>2, <2>4, <3>1, <3>2, <3>3, <3>4
  <2>6. QED
    BY <2>1, <2>3, <2>5 DEF IInv, HeldCounted
<1>7. CallInv'
  BY DEF IInv, CallInv, StopPreparing, Preparing, Up, PrepareTo, StopHolding, Release,
     process, tools, stops
<1>8. QED
  BY <1>1, <1>2, <1>3, <1>4, <1>5, <1>6, <1>7 DEF IInv

LEMMA AbortUnpreparedIInv == ASSUME NEW r \in Runs, IInv, AbortUnprepared(r) PROVE IInv'
<1>1. TypeOK'
  BY DEF IInv, TypeOK, AbortUnprepared, Up, PrepareTo, process, tools, Stages, Preps,
     CallSteps
<1>2. PrepInv'
  BY DEF IInv, TypeOK, PrepInv, AbortUnprepared, Up, PrepareTo, process, tools
<1>3. LineInv'
  BY DEF IInv, TypeOK, PrepInv, LineInv, AbortUnprepared, Up, PrepareTo, process, tools
<1>4. AbortInv'
  BY DEF IInv, TypeOK, PrepInv, AbortInv, AbortUnprepared, Up, PrepareTo, process, tools
<1>5. PromptSent'
  BY DEF IInv, TypeOK, PrepInv, AbortInv, PromptSent, AbortUnprepared, Up, PrepareTo,
     process, tools
<1>6. CallInv' /\ HeldCounted'
  BY DEF IInv, CallInv, HeldCounted, HeldCalls, One, AbortUnprepared, Up, PrepareTo,
     process, tools
<1>7. QED
  BY <1>1, <1>2, <1>3, <1>4, <1>5, <1>6 DEF IInv

LEMMA PromptAnsweredIInv == ASSUME NEW r \in Runs, IInv, PromptAnswered(r) PROVE IInv'
<1>1. TypeOK'
  BY DEF IInv, TypeOK, PromptAnswered, At, Up, Go, process, preparation, tools, stops,
     Stages, Preps, CallSteps
<1>2. PrepInv'
  BY DEF IInv, TypeOK, PrepInv, PromptAnswered, At, Up, Go, process, preparation, tools,
     stops
<1>3. CallInv'
  BY DEF IInv, TypeOK, CallInv, PromptAnswered, At, Up, Go, process, preparation, tools,
     stops
<1>4. PromptSent'
  BY DEF IInv, TypeOK, PrepInv, AbortInv, PromptSent, PromptAnswered, At, Up, Go, process,
     preparation, tools, stops
<1>5. HeldCounted'
  BY CountKept DEF IInv, TypeOK, PromptAnswered, At, Up, Go, process, preparation, tools,
     stops, HeldCalls
<1>6. LineInv' /\ AbortInv'
  BY DEF IInv, LineInv, AbortInv, PromptAnswered, At, Up, Go, process, preparation, tools,
     stops
<1>7. QED
  BY <1>1, <1>2, <1>3, <1>4, <1>5, <1>6 DEF IInv

LEMMA BeforeRequestIInv == ASSUME NEW r \in Runs, IInv, BeforeRequest(r) PROVE IInv'
<1>1. TypeOK'
  <2>1. held' \in [Runs -> Nat]
    <3>1. CASE Hold(r)
      BY <3>1 DEF IInv, TypeOK, Hold
    <3>2. CASE UNCHANGED held
      BY <3>2 DEF IInv, TypeOK
    <3>3. QED
      BY <3>1, <3>2 DEF BeforeRequest
  <2>2. turns' \in [Runs -> Nat]
    <3>1. CASE turns' = [turns EXCEPT ![r] = @ + 1]
      BY <3>1 DEF IInv, TypeOK
    <3>2. CASE UNCHANGED turns
      BY <3>2 DEF IInv, TypeOK
    <3>3. QED
      BY <3>1, <3>2 DEF BeforeRequest
  <2>3. stage' \in [Runs -> Stages]
    BY DEF IInv, TypeOK, Stages, BeforeRequest, Go
  <2>4. QED
    BY <2>1, <2>2, <2>3 DEF IInv, TypeOK, BeforeRequest, At, Up, Go, Hold, process, preparation, tools, stops
<1>2. PrepInv'
  BY DEF IInv, TypeOK, PrepInv, BeforeRequest, At, Up, Go, Hold, process, preparation,
     tools, stops
<1>3. CallInv'
  BY DEF IInv, TypeOK, CallInv, BeforeRequest, At, Up, Go, Hold, process, preparation,
     tools, stops
<1>4. PromptSent'
  BY DEF IInv, TypeOK, PrepInv, AbortInv, PromptSent, BeforeRequest, At, Up, Go, Hold,
     process, preparation, tools, stops
<1>5. HeldCounted'
  <2>1. \A q \in Runs : Cardinality(HeldCalls(q)') = Cardinality(HeldCalls(q))
    BY DEF HeldCalls, BeforeRequest, At, Up, Go, Hold, process, preparation, tools, stops
  <2>2. \A q \in Runs : Cardinality(HeldCalls(q)) \in Nat
    BY CountsAreNumbers
  <2>3. CASE Go(r, "heldRequest") /\ Hold(r)
    BY <2>1, <2>2, <2>3 DEF IInv, TypeOK, HeldCounted, One, BeforeRequest, At, Up, Go, Hold, process, preparation, tools, stops
  <2>4. CASE (Go(r, "asking") \/ Go(r, "ending")) /\ UNCHANGED held
    BY <2>1, <2>2, <2>4 DEF IInv, TypeOK, HeldCounted, One, BeforeRequest, At, Up, Go, Hold, process, preparation, tools, stops
  <2>5. QED
    BY <2>3, <2>4 DEF BeforeRequest
<1>6. LineInv' /\ AbortInv'
  BY DEF IInv, LineInv, AbortInv, BeforeRequest, At, Up, Go, Hold, process, preparation,
     tools, stops
<1>7. QED
  BY <1>1, <1>2, <1>3, <1>4, <1>5, <1>6 DEF IInv

LEMMA ReleaseRequestIInv == ASSUME NEW r \in Runs, IInv, ReleaseRequest(r) PROVE IInv'
<1>1. TypeOK'
  <2>1. held' \in [Runs -> Nat]
    BY HeldIsPositive DEF IInv, TypeOK, ReleaseRequest, At, Up, Go, Release, process, preparation, tools, stops
  <2>2. QED
    BY <2>1 DEF IInv, TypeOK, Stages, ReleaseRequest, At, Up, Go, Release, process, preparation, tools, stops
<1>2. PrepInv'
  BY DEF IInv, TypeOK, PrepInv, ReleaseRequest, At, Up, Go, Release, process, preparation,
     tools, stops
<1>3. CallInv'
  BY DEF IInv, TypeOK, CallInv, ReleaseRequest, At, Up, Go, Release, process, preparation,
     tools, stops
<1>4. PromptSent'
  BY DEF IInv, TypeOK, PrepInv, AbortInv, PromptSent, ReleaseRequest, At, Up, Go, Release,
     process, preparation, tools, stops
<1>5. HeldCounted'
  <2>1. \A q \in Runs : Cardinality(HeldCalls(q)') = Cardinality(HeldCalls(q))
    BY DEF HeldCalls, ReleaseRequest, At, Up, Go, Release, process, preparation, tools, stops
  <2>2. \A q \in Runs : Cardinality(HeldCalls(q)) \in Nat
    BY CountsAreNumbers
  <2>3. QED
    BY <2>1, <2>2 DEF IInv, TypeOK, HeldCounted, One, ReleaseRequest, At, Up, Go, Release, process, preparation, tools, stops
<1>6. LineInv' /\ AbortInv'
  BY DEF IInv, LineInv, AbortInv, ReleaseRequest, At, Up, Go, Release, process, preparation,
     tools, stops
<1>7. QED
  BY <1>1, <1>2, <1>3, <1>4, <1>5, <1>6 DEF IInv

LEMMA RespondIInv == ASSUME NEW r \in Runs, IInv, Respond(r) PROVE IInv'
<1>1. TypeOK'
  <2>1. call' \in [Runs -> [Calls -> CallSteps]]
    <3>1. CASE UNCHANGED call
      BY <3>1 DEF IInv, TypeOK
    <3>2. CASE ~UNCHANGED call
      <4>1. PICK planned \in SUBSET Calls :
               call' = [call EXCEPT ![r] = [c \in Calls |-> IF c \in planned THEN "planned" ELSE "none"]]
        BY <3>2 DEF Respond
      <4>2. QED
        BY <4>1 DEF IInv, TypeOK, CallSteps
    <3>3. QED
      BY <3>1, <3>2
  <2>2. stage' \in [Runs -> Stages]
    BY DEF IInv, TypeOK, Stages, Respond, Go
  <2>3. QED
    BY <2>1, <2>2 DEF IInv, TypeOK, Respond, At, Up, Go, process, preparation, stops
<1>2. PrepInv'
  BY DEF IInv, TypeOK, PrepInv, Respond, At, Up, Go, process, preparation, stops
<1>3. CallInv'
  <2>1. \A c \in Calls : call[r][c] = "none"
    BY DEF IInv, CallInv, Respond, At
  <2>2. \A c \in Calls : call'[r][c] # "running" /\ (stage'[r] # "tools" => call'[r][c] = "none")
    <3>1. CASE Go(r, "ending") /\ UNCHANGED call
      BY <2>1, <3>1
    <3>2. CASE Go(r, "tools") /\ call' # call
      <4>1. PICK planned \in SUBSET Calls :
               call' = [call EXCEPT ![r] = [c \in Calls |-> IF c \in planned THEN "planned" ELSE "none"]]
        BY <3>2 DEF Respond
      <4>2. stage'[r] = "tools"
        BY <3>2 DEF IInv, TypeOK, Go
      <4>3. QED
        BY <4>1, <4>2 DEF IInv, TypeOK
    <3>3. CASE Go(r, "tools") /\ call' = call
      BY <2>1, <3>3
    <3>4. QED
      BY <3>1, <3>2, <3>3 DEF Respond
  <2>3. \A q \in Runs : q # r => call'[q] = call[q] /\ stage'[q] = stage[q]
    BY DEF IInv, TypeOK, Respond, At, Up, Go, process, preparation, stops
  <2>4. QED
    BY <2>1, <2>2, <2>3 DEF IInv, CallInv, Respond, At, Up, Go, process, preparation, stops
<1>4. PromptSent'
  BY DEF IInv, TypeOK, PrepInv, AbortInv, PromptSent, Respond, At, Up, Go, process,
     preparation, stops
<1>5. HeldCounted'
  <2>1. \A c \in Calls : call[r][c] # "held" /\ call'[r][c] # "held"
    <3>1. \A c \in Calls : call[r][c] = "none"
      BY DEF IInv, CallInv, Respond, At
    <3>2. CASE UNCHANGED call
      BY <3>1, <3>2
    <3>3. CASE ~UNCHANGED call
      <4>1. PICK planned \in SUBSET Calls :
               call' = [call EXCEPT ![r] = [c \in Calls |-> IF c \in planned THEN "planned" ELSE "none"]]
        BY <3>3 DEF Respond
      <4>2. QED
        BY <3>1, <4>1 DEF IInv, TypeOK
    <3>4. QED
      BY <3>2, <3>3
  <2>2. \A q \in Runs : q # r => call'[q] = call[q]
    BY DEF IInv, TypeOK, Respond, At, Up, Go, process, preparation, stops
  <2>3. \A q \in Runs : HeldCalls(q)' = HeldCalls(q)
    BY <2>1, <2>2 DEF HeldCalls
  <2>4. QED
    BY <2>3, CountKept DEF IInv, TypeOK, Respond, At, Up, Go, process, preparation, stops
<1>6. LineInv' /\ AbortInv'
  BY DEF IInv, LineInv, AbortInv, Respond, At, Up, Go, process, preparation, stops
<1>7. QED
  BY <1>1, <1>2, <1>3, <1>4, <1>5, <1>6 DEF IInv

LEMMA BeforeToolIInv == ASSUME NEW r \in Runs, NEW c \in Calls, IInv, BeforeTool(r, c) PROVE IInv'
<1>1. TypeOK'
  <2>1. call' \in [Runs -> [Calls -> CallSteps]]
    <3>1. PICK step \in CallSteps : CallTo(r, c, step)
      BY DEF BeforeTool, CallSteps
    <3>2. QED
      BY <3>1, CallMoved DEF IInv
  <2>2. held' \in [Runs -> Nat]
    BY DEF IInv, TypeOK, BeforeTool, Hold
  <2>3. QED
    BY <2>1, <2>2 DEF IInv, TypeOK, BeforeTool, At, Up, CallTo, Hold, process, preparation, stops
<1>2. CallInv'
  <2>1. PICK step \in CallSteps \ {"running"} : CallTo(r, c, step)
    BY DEF BeforeTool, CallSteps
  <2>2. \A q \in Runs : \A d \in Calls : call'[q][d] = IF q = r /\ d = c THEN step ELSE call[q][d]
    BY <2>1, CallMoved DEF IInv
  <2>3. QED
    BY <2>1, <2>2 DEF IInv, CallInv, BeforeTool, At, tools, preparation
<1>3. HeldCounted'
  <2>1. \A q \in Runs : Cardinality(HeldCalls(q)) \in Nat
    BY CountsAreNumbers
  <2>2. CASE ~aborting[r] /\ GateClosed
    <3>1. \A q \in Runs : HeldCalls(q)' = IF q = r THEN HeldCalls(q) \cup {c} ELSE HeldCalls(q)
      BY <2>2, CallMoved DEF IInv, HeldCalls, CallSteps, BeforeTool
    <3>2. c \notin HeldCalls(r)
      BY DEF HeldCalls, BeforeTool
    <3>3. Cardinality(HeldCalls(r)') = Cardinality(HeldCalls(r)) + 1
      BY <3>1, <3>2, HeldCallsFinite, FS_AddElement
    <3>4. \A q \in Runs : q # r => Cardinality(HeldCalls(q)') = Cardinality(HeldCalls(q))
      BY <3>1
    <3>5. held' = [held EXCEPT ![r] = @ + 1] /\ UNCHANGED <<stage, holding>>
      BY <2>2 DEF BeforeTool, Hold, preparation
    <3>6. held'[r] = held[r] + 1 /\ \A q \in Runs \ {r} : held'[q] = held[q]
      BY <3>5 DEF IInv, TypeOK
    <3>7. Cardinality(HeldCalls(r)') + One(holding'[r]) = Cardinality(HeldCalls(r)) + One(holding[r]) + 1
      BY <2>1, <3>3, <3>5 DEF One
    <3> QED BY <3>4, <3>5, <3>6, <3>7, CountMoved DEF IInv
  <2>3. CASE aborting[r] \/ ~GateClosed
    <3>1. PICK step \in CallSteps \ {"held"} : CallTo(r, c, step)
      BY <2>3 DEF BeforeTool, CallSteps
    <3>2. \A q \in Runs : HeldCalls(q)' = HeldCalls(q)
      BY <3>1, CallMoved DEF IInv, HeldCalls, BeforeTool
    <3>3. QED
      BY <2>3, <3>2, CountKept DEF IInv, BeforeTool, At, Up, CallTo, Hold, process, preparation, stops
  <2>4. QED
    BY <2>2, <2>3
<1>4. PrepInv' /\ LineInv' /\ AbortInv' /\ PromptSent'
  BY DEF IInv, PrepInv, LineInv, AbortInv, PromptSent, BeforeTool, At, Up, CallTo, Hold,
     process, preparation, stops
<1>5. QED
  BY <1>1, <1>2, <1>3, <1>4 DEF IInv

LEMMA ReleaseToolIInv == ASSUME NEW r \in Runs, NEW c \in Calls, IInv, ReleaseTool(r, c) PROVE IInv'
<1>1. TypeOK'
  <2>1. call' \in [Runs -> [Calls -> CallSteps]]
    BY CallMoved DEF IInv, CallSteps, ReleaseTool, At, Up, CallTo, Release, process, preparation, stops
  <2>2. held' \in [Runs -> Nat]
    BY HeldIsPositive DEF IInv, TypeOK, ReleaseTool, At, Up, CallTo, Release, process, preparation, stops
  <2>3. QED
    BY <2>1, <2>2 DEF IInv, TypeOK, ReleaseTool, At, Up, CallTo, Release, process, preparation, stops
<1>2. CallInv'
  BY DEF IInv, TypeOK, CallInv, ReleaseTool, At, Up, CallTo, Release, process, preparation,
     stops
<1>3. HeldCounted'
  <2>1. \A q \in Runs : Cardinality(HeldCalls(q)) \in Nat
    BY CountsAreNumbers
  <2>2. \A q \in Runs : HeldCalls(q)' = IF q = r THEN HeldCalls(q) \ {c} ELSE HeldCalls(q)
    BY CallMoved DEF IInv, HeldCalls, CallSteps, ReleaseTool
  <2>3. c \in HeldCalls(r)
    BY DEF HeldCalls, ReleaseTool
  <2>4. Cardinality(HeldCalls(r)') = Cardinality(HeldCalls(r)) - 1
    BY <2>2, <2>3, HeldCallsFinite, FS_RemoveElement
  <2>5. \A q \in Runs : q # r => Cardinality(HeldCalls(q)') = Cardinality(HeldCalls(q))
    BY <2>2
  <2>6. held' = [held EXCEPT ![r] = @ - 1] /\ UNCHANGED <<stage, holding>>
    BY DEF ReleaseTool, Release, preparation
  <2>7. held'[r] = held[r] + (-1) /\ \A q \in Runs \ {r} : held'[q] = held[q]
    BY <2>6 DEF IInv, TypeOK
  <2>8. Cardinality(HeldCalls(r)') + One(holding'[r]) = Cardinality(HeldCalls(r)) + One(holding[r]) + (-1)
    BY <2>1, <2>4, <2>6 DEF One
  <2> QED BY <2>5, <2>6, <2>7, <2>8, CountMoved DEF IInv
<1>4. PrepInv' /\ LineInv' /\ AbortInv' /\ PromptSent'
  BY DEF IInv, PrepInv, LineInv, AbortInv, PromptSent, ReleaseTool, At, Up, CallTo, Release,
     process, preparation, stops
<1>5. QED
  BY <1>1, <1>2, <1>3, <1>4 DEF IInv

LEMMA ToolStartIInv == ASSUME NEW r \in Runs, NEW c \in Calls, IInv, ToolStart(r, c) PROVE IInv'
<1>1. TypeOK'
  BY DEF IInv, TypeOK, ToolStart, At, Up, CallTo, process, preparation, stops, Stages,
     Preps, CallSteps
<1>2. CallInv'
  BY DEF IInv, TypeOK, CallInv, ToolStart, At, Up, CallTo, process, preparation, stops
<1>3. HeldCounted'
  BY CountKept DEF IInv, TypeOK, ToolStart, At, Up, CallTo, process, preparation, stops,
     HeldCalls
<1>4. PrepInv' /\ LineInv' /\ AbortInv' /\ PromptSent'
  BY DEF IInv, PrepInv, LineInv, AbortInv, PromptSent, ToolStart, At, Up, CallTo, process,
     preparation, stops
<1>5. QED
  BY <1>1, <1>2, <1>3, <1>4 DEF IInv

LEMMA ToolEndIInv == ASSUME NEW r \in Runs, NEW c \in Calls, IInv, ToolEnd(r, c) PROVE IInv'
<1>1. TypeOK'
  BY DEF IInv, TypeOK, ToolEnd, At, Up, CallTo, process, preparation, stops, Stages, Preps,
     CallSteps
<1>2. CallInv'
  BY DEF IInv, TypeOK, CallInv, ToolEnd, At, Up, CallTo, process, preparation, stops
<1>3. HeldCounted'
  BY CountKept DEF IInv, TypeOK, ToolEnd, At, Up, CallTo, process, preparation, stops,
     HeldCalls
<1>4. PrepInv' /\ LineInv' /\ AbortInv' /\ PromptSent'
  BY DEF IInv, PrepInv, LineInv, AbortInv, PromptSent, ToolEnd, At, Up, CallTo, process,
     preparation, stops
<1>5. QED
  BY <1>1, <1>2, <1>3, <1>4 DEF IInv

LEMMA ToolsDoneIInv == ASSUME NEW r \in Runs, IInv, ToolsDone(r) PROVE IInv'
<1>1. TypeOK'
  BY DEF IInv, TypeOK, ToolsDone, At, Up, Go, process, preparation, stops, Stages, Preps,
     CallSteps
<1>2. PrepInv'
  BY DEF IInv, TypeOK, PrepInv, ToolsDone, At, Up, Go, process, preparation, stops
<1>3. CallInv'
  BY DEF IInv, TypeOK, CallInv, ToolsDone, At, Up, Go, process, preparation, stops
<1>4. PromptSent'
  BY DEF IInv, TypeOK, PrepInv, AbortInv, PromptSent, ToolsDone, At, Up, Go, process,
     preparation, stops
<1>5. HeldCounted'
  BY CountKept DEF IInv, TypeOK, ToolsDone, At, Up, Go, process, preparation, stops,
     HeldCalls
<1>6. LineInv' /\ AbortInv'
  BY DEF IInv, LineInv, AbortInv, ToolsDone, At, Up, Go, process, preparation, stops
<1>7. QED
  BY <1>1, <1>2, <1>3, <1>4, <1>5, <1>6 DEF IInv

LEMMA EndIInv == ASSUME NEW r \in Runs, IInv, End(r) PROVE IInv'
<1>1. TypeOK'
  BY DEF IInv, TypeOK, End, At, Up, Go, process, Stages, Preps, CallSteps
<1>2. PrepInv'
  BY DEF IInv, TypeOK, PrepInv, End, At, Up, Go, process
<1>3. LineInv'
  BY DEF IInv, TypeOK, PrepInv, LineInv, End, At, Up, Go, process
<1>4. CallInv'
  BY DEF IInv, TypeOK, CallInv, End, At, Up, Go, process
<1>5. AbortInv'
  BY DEF IInv, TypeOK, PrepInv, AbortInv, End, At, Up, Go, process
<1>6. PromptSent'
  BY DEF IInv, TypeOK, PrepInv, AbortInv, PromptSent, End, At, Up, Go, process
<1>7. HeldCounted'
  BY CountKept DEF IInv, TypeOK, End, At, Up, Go, process, HeldCalls
<1>8. QED
  BY <1>1, <1>2, <1>3, <1>4, <1>5, <1>6, <1>7 DEF IInv

LEMMA AbortIInv == ASSUME NEW r \in Runs, IInv, Abort(r) PROVE IInv'
<1>1. TypeOK'
  BY DEF IInv, TypeOK, Abort, Up, Driven, process, preparation, tools, Stages, Preps,
     CallSteps
<1>2. AbortInv'
  BY DEF IInv, TypeOK, PrepInv, AbortInv, Abort, Up, Driven, process, preparation, tools
<1>3. PrepInv' /\ LineInv' /\ CallInv' /\ PromptSent' /\ HeldCounted'
  BY DEF IInv, PrepInv, LineInv, CallInv, PromptSent, HeldCounted, HeldCalls, One, Abort,
     Up, Driven, process, preparation, tools
<1>4. QED
  BY <1>1, <1>2, <1>3 DEF IInv

LEMMA AbortRequestedIInv == ASSUME NEW r \in Runs, IInv, AbortRequested(r) PROVE IInv'
<1>1. TypeOK'
  BY DEF IInv, TypeOK, AbortRequested, Up, StopPreparation, process, preparation, tools,
     Stages, Preps, CallSteps
<1>2. AbortInv'
  BY DEF IInv, TypeOK, PrepInv, AbortInv, AbortRequested, Up, StopPreparation, process,
     preparation, tools
<1>3. PrepInv' /\ LineInv' /\ CallInv' /\ PromptSent' /\ HeldCounted'
  BY DEF IInv, PrepInv, LineInv, CallInv, PromptSent, HeldCounted, HeldCalls, One,
     AbortRequested, Up, StopPreparation, process, preparation, tools
<1>4. QED
  BY <1>1, <1>2, <1>3 DEF IInv

LEMMA CloseIInv == ASSUME NEW r \in Runs, IInv, Close(r) PROVE IInv'
<1>1. TypeOK'
  BY DEF IInv, TypeOK, Close, Up, StopPreparation, Driven, process, preparation, tools,
     Stages, Preps, CallSteps
<1>2. AbortInv'
  BY DEF IInv, TypeOK, PrepInv, AbortInv, Close, Up, StopPreparation, Driven, process,
     preparation, tools
<1>3. PrepInv' /\ LineInv' /\ CallInv' /\ PromptSent' /\ HeldCounted'
  BY DEF IInv, PrepInv, LineInv, CallInv, PromptSent, HeldCounted, HeldCalls, One, Close,
     Up, StopPreparation, Driven, process, preparation, tools
<1>4. QED
  BY <1>1, <1>2, <1>3 DEF IInv

LEMMA CloseAbortIInv == ASSUME NEW r \in Runs, IInv, CloseAbort(r) PROVE IInv'
<1>1. TypeOK'
  BY DEF IInv, TypeOK, CloseAbort, Up, process, preparation, tools, Stages, Preps, CallSteps
<1>2. AbortInv'
  BY DEF IInv, TypeOK, PrepInv, AbortInv, CloseAbort, Up, process, preparation, tools
<1>3. PrepInv' /\ LineInv' /\ CallInv' /\ PromptSent' /\ HeldCounted'
  BY DEF IInv, PrepInv, LineInv, CallInv, PromptSent, HeldCounted, HeldCalls, One,
     CloseAbort, Up, process, preparation, tools
<1>4. QED
  BY <1>1, <1>2, <1>3 DEF IInv

LEMMA CloseGateIInv == ASSUME IInv, CloseGate PROVE IInv'
<1>1. TypeOK'
  BY DEF IInv, TypeOK, CloseGate, preparation, tools, stops, Stages, Preps, CallSteps
<1>2. PrepInv' /\ LineInv' /\ CallInv' /\ AbortInv' /\ PromptSent' /\ HeldCounted'
  BY DEF IInv, PrepInv, LineInv, CallInv, AbortInv, PromptSent, HeldCounted, HeldCalls, One,
     CloseGate, preparation, tools, stops
<1>3. QED
  BY <1>1, <1>2 DEF IInv

LEMMA SuspendIInv == ASSUME IInv, Suspend PROVE IInv'
<1>1. TypeOK'
  BY DEF IInv, TypeOK, Suspend, preparation, tools, stops, Stages, Preps, CallSteps
<1>2. PrepInv' /\ LineInv' /\ CallInv' /\ AbortInv' /\ PromptSent' /\ HeldCounted'
  BY DEF IInv, PrepInv, LineInv, CallInv, AbortInv, PromptSent, HeldCounted, HeldCalls, One,
     Suspend, preparation, tools, stops
<1>3. QED
  BY <1>1, <1>2 DEF IInv

LEMMA DropIInv == ASSUME IInv, Drop PROVE IInv'
<1>1. TypeOK'
  <2>1. drops \in Nat
    BY DEF IInv, TypeOK
  <2>2. drops' = drops + 1 /\ online' = FALSE
    BY Zenon DEF Drop
  <2>3. drops' \in Nat
    BY <2>1, <2>2
  <2>4. online' \in BOOLEAN
    BY <2>2
  <2>5. QED
    BY <2>3, <2>4 DEF IInv, TypeOK, Drop, Up, preparation, tools, stops
<1>2. PrepInv' /\ LineInv' /\ CallInv' /\ AbortInv' /\ PromptSent' /\ HeldCounted'
  BY DEF IInv, PrepInv, LineInv, CallInv, AbortInv, PromptSent, HeldCounted, HeldCalls, One,
     Drop, Up, preparation, tools, stops
<1>3. QED
  BY <1>1, <1>2 DEF IInv

LEMMA ReconnectIInv == ASSUME IInv, Reconnect PROVE IInv'
<1>1. TypeOK'
  BY DEF IInv, TypeOK, Reconnect, Up, preparation, tools, stops, Stages, Preps, CallSteps
<1>2. PrepInv' /\ LineInv' /\ CallInv' /\ AbortInv' /\ PromptSent' /\ HeldCounted'
  BY DEF IInv, PrepInv, LineInv, CallInv, AbortInv, PromptSent, HeldCounted, HeldCalls, One,
     Reconnect, Up, preparation, tools, stops
<1>3. QED
  BY <1>1, <1>2 DEF IInv

LEMMA NextIInv == IInv /\ [Next]_vars => IInv'
<1> SUFFICES ASSUME IInv, [Next]_vars PROVE IInv'
  OBVIOUS
<1>1. CASE UNCHANGED vars
  BY <1>1 DEF IInv, TypeOK, PrepInv, LineInv, CallInv, AbortInv, PromptSent, HeldCounted,
     HeldCalls, One, vars, process, preparation, tools, stops
<1>2. ASSUME NEW r \in Runs, Begin(r) \/ Prompting(r) \/ CannotPrepare(r) PROVE IInv'
  BY <1>2, BeginIInv, AskPromptIInv, StartPreparingIInv, WaitForNodeIInv, NodeBackIInv,
     PreparedIInv, StopPreparingIInv, AbortUnpreparedIInv, PromptAnsweredIInv,
     CannotPrepareIInv DEF Prompting
<1>3. ASSUME NEW r \in Runs, Running(r) \/ Respond(r) \/ \E c \in Calls : ToolEnd(r, c)
      PROVE  IInv'
  BY <1>3, BeforeRequestIInv, ReleaseRequestIInv, ToolsDoneIInv, EndIInv, BeforeToolIInv,
     ReleaseToolIInv, ToolStartIInv, RespondIInv, ToolEndIInv DEF Running
<1>4. ASSUME NEW r \in Runs, Abort(r) \/ AbortRequested(r) \/ Close(r) \/ CloseAbort(r)
      PROVE  IInv'
  BY <1>4, AbortIInv, AbortRequestedIInv, CloseIInv, CloseAbortIInv
<1>5. CASE CloseGate \/ Suspend \/ Drop \/ Reconnect
  BY <1>5, CloseGateIInv, SuspendIInv, DropIInv, ReconnectIInv
<1>6. QED
  BY <1>1, <1>2, <1>3, <1>4, <1>5 DEF Next

LEMMA Invariance == Spec => []IInv
  BY InitIInv, NextIInv, PTL DEF Spec

\* Every reachable state is well typed: in particular no count of holds, kept by hooks
\* that leave in any order, falls below zero.
THEOREM TypeCorrect == Spec => []TypeOK
<1>1. IInv => TypeOK
  BY DEF IInv
<1>2. QED
  BY <1>1, Invariance, PTL

\* A run counts as held once for each hook and wait of it that is held.
THEOREM HoldsCounted == Spec => []HeldCounted
<1>1. IInv => HeldCounted
  BY DEF IInv
<1>2. QED
  BY <1>1, Invariance, PTL

\* The runs of one checkout prepare it one at a time, aborted or not.
THEOREM OnePreparationAtATime == Spec => []OnePreparation
<1>1. IInv => OnePreparation
  BY DEF IInv, LineInv, OnePreparation
<1>2. QED
  BY <1>1, Invariance, PTL

\* A runtime that isPaused() is true of has no request, tool call or preparation that
\* works: a shutdown that finds every runtime paused cuts nothing off.
THEOREM PausesLoseNothing == Spec => []PausedLosesNothing
<1>1. ASSUME IInv, NEW r \in Runs, Up, IsPaused(r)
      PROVE  /\ stage[r] # "asking"
             /\ \A c \in Calls : call[r][c] # "running"
             /\ stage[r] = "prompt" => holding[r]
  <2>1. \A c \in Calls : call[r][c] # "running"
    BY <1>1 DEF IInv, CallInv, IsPaused
  <2>2. ASSUME stage[r] \in {"asking", "prompt"} PROVE held[r] = One(holding[r])
    <3>1. \A c \in Calls : call[r][c] # "held"
      BY <1>1, <2>2 DEF IInv, CallInv
    <3>2. Cardinality(HeldCalls(r)) = 0
      BY <3>1, NoHeldCalls, FS_EmptySet
    <3>3. One(stage[r] = "heldRequest") = 0
      BY <2>2 DEF One
    <3>4. held[r] = 0 + One(holding[r]) + 0
      BY <1>1, <3>2, <3>3 DEF IInv, HeldCounted
    <3>5. QED
      BY <3>4 DEF One
  <2>3. stage[r] \in {"asking", "prompt"} => holding[r]
    BY <1>1, <2>2 DEF IsPaused, Driven, One
  <2>4. stage[r] # "asking"
    BY <1>1, <2>3 DEF IInv, PrepInv
  <2>5. QED
    BY <2>1, <2>3, <2>4
<1>2. IInv => PausedLosesNothing
  BY <1>1 DEF PausedLosesNothing
<1>3. QED
  BY <1>2, Invariance, PTL

\* Short of a close, a request carries the prompt prepared for its run.
THEOREM PromptsPrepared == Spec => []PromptSent
<1>1. IInv => PromptSent
  BY DEF IInv
<1>2. QED
  BY <1>1, Invariance, PTL
-----------------------------------------------------------------------------
Queued(r) == prep[r] \in {"queued", "checkout"}

QueuedNext(r) == prep'[r] \in {"queued", "checkout"}

\* Each checkout's line holds the runs whose preparation waits or has its turn, each once.
LineHolds ==
    /\ \A k \in Checkouts : \A i, j \in DOMAIN line[k] : line[k][i] = line[k][j] => i = j
    /\ \A k \in Checkouts : \A i \in DOMAIN line[k] : CheckoutOf[line[k][i]] = k /\ Queued(line[k][i])
    /\ \A r \in Runs : Queued(r) => \E i \in DOMAIN line[CheckoutOf[r]] : line[CheckoutOf[r]][i] = r

\* The facts about a line that gets one more run, or loses its first.
LEMMA LineAppended ==
    ASSUME NEW s \in Seq(Runs), NEW r \in Runs
    PROVE  /\ Len(s) \in Nat /\ DOMAIN s = 1..Len(s) /\ DOMAIN Append(s, r) = 1..(Len(s) + 1)
           /\ Append(s, r)[Len(s) + 1] = r /\ \A i \in DOMAIN s : Append(s, r)[i] = s[i]
  OBVIOUS

LEMMA LineTaken ==
    ASSUME NEW s \in Seq(Runs), s # <<>>
    PROVE  /\ Head(s) = s[1] /\ 1 \in DOMAIN s /\ DOMAIN s \subseteq Nat
           /\ DOMAIN Tail(s) \subseteq Nat
           /\ \A i \in DOMAIN Tail(s) : i + 1 \in DOMAIN s /\ i + 1 # 1 /\ Tail(s)[i] = s[i + 1]
           /\ \A i \in DOMAIN s : i = 1 \/ (i - 1 \in DOMAIN Tail(s) /\ Tail(s)[i - 1] = s[i])
<1>1. /\ Len(s) \in Nat \ {0} /\ DOMAIN s = 1..Len(s) /\ DOMAIN Tail(s) = 1..(Len(s) - 1)
      /\ Head(s) = s[1] /\ \A i \in 1..(Len(s) - 1) : Tail(s)[i] = s[i + 1]
  OBVIOUS
<1>2. ASSUME NEW i \in DOMAIN s, i # 1 PROVE i - 1 \in DOMAIN Tail(s) /\ Tail(s)[i - 1] = s[i]
  <2>1. i \in Nat /\ i - 1 \in 1..(Len(s) - 1) /\ (i - 1) + 1 = i
    BY <1>1, <1>2
  <2> QED BY <1>1, <2>1
<1>3. ASSUME NEW i \in DOMAIN Tail(s) PROVE i + 1 \in DOMAIN s /\ i + 1 # 1 /\ Tail(s)[i] = s[i + 1]
  BY <1>1, <1>3
<1>4. 1 \in DOMAIN s /\ DOMAIN s \subseteq Nat /\ DOMAIN Tail(s) \subseteq Nat
  BY <1>1
<1> QED BY <1>1, <1>2, <1>3, <1>4

LEMMA RunsInLines ==
    ASSUME TypeOK
    PROVE  \A l \in Checkouts : \A i \in DOMAIN line[l] : line[l][i] \in Runs
<1>1. ASSUME NEW l \in Checkouts, NEW i \in DOMAIN line[l] PROVE line[l][i] \in Runs
  <2>1. line[l] \in Seq(Runs)
    BY DEF TypeOK
  <2> QED BY <2>1
<1> QED BY <1>1

LEMMA LineEntered ==
    ASSUME IInv, LineHolds, NEW r \in Runs, prep[r] = "none", prep' = [prep EXCEPT ![r] = "queued"],
           line' = [line EXCEPT ![CheckoutOf[r]] = Append(@, r)]
    PROVE  LineHolds'
<1> DEFINE k == CheckoutOf[r]  s == line[k]
<1>1. k \in Checkouts /\ s \in Seq(Runs) /\ \A q \in Runs : CheckoutOf[q] \in Checkouts
  BY DEF IInv, TypeOK
<1>2. line'[k] = Append(s, r) /\ \A l \in Checkouts \ {k} : line'[l] = line[l]
  BY <1>1 DEF IInv, TypeOK
<1>3. prep'[r] = "queued" /\ \A q \in Runs \ {r} : prep'[q] = prep[q]
  BY DEF IInv, TypeOK
<1>4. \A l \in Checkouts : \A i \in DOMAIN line[l] : line[l][i] \in Runs /\ line[l][i] # r
  <2>1. \A l \in Checkouts : \A i \in DOMAIN line[l] : line[l][i] \in Runs
    BY RunsInLines DEF IInv
  <2>2. \A l \in Checkouts : \A i \in DOMAIN line[l] : Queued(line[l][i])
    BY DEF LineHolds
  <2> QED BY <2>1, <2>2 DEF Queued
<1>5. /\ Len(s) \in Nat /\ DOMAIN s = 1..Len(s) /\ DOMAIN line'[k] = 1..(Len(s) + 1)
      /\ line'[k][Len(s) + 1] = r /\ \A i \in DOMAIN s : line'[k][i] = s[i]
  BY <1>1, <1>2, LineAppended
<1>6. \A i \in DOMAIN line'[k] : i = Len(s) + 1 \/ i \in DOMAIN s
  BY <1>5
<1>7. \A l \in Checkouts : \A i, j \in DOMAIN line'[l] : line'[l][i] = line'[l][j] => i = j
  BY <1>1, <1>2, <1>4, <1>5, <1>6 DEF LineHolds
<1>8. \A l \in Checkouts : \A i \in DOMAIN line'[l] : CheckoutOf[line'[l][i]] = l /\ QueuedNext(line'[l][i])
  BY <1>1, <1>2, <1>3, <1>4, <1>5, <1>6 DEF LineHolds, Queued, QueuedNext
<1>9. ASSUME NEW q \in Runs, QueuedNext(q)
      PROVE  \E i \in DOMAIN line'[CheckoutOf[q]] : line'[CheckoutOf[q]][i] = q
  <2>1. CASE q = r
    <3>1. Len(s) + 1 \in DOMAIN line'[k]
      BY <1>5
    <3> QED BY <1>5, <2>1, <3>1
  <2>2. CASE q # r
    <3>1. PICK i \in DOMAIN line[CheckoutOf[q]] : line[CheckoutOf[q]][i] = q
      BY <1>3, <1>9, <2>2 DEF LineHolds, Queued, QueuedNext
    <3>2. i \in DOMAIN line'[CheckoutOf[q]] /\ line'[CheckoutOf[q]][i] = q
      <4>1. CASE CheckoutOf[q] = k
        <5>1. i \in DOMAIN s /\ s[i] = q
          BY <3>1, <4>1
        <5>2. i \in DOMAIN line'[k]
          BY <1>5, <5>1
        <5> QED BY <1>5, <4>1, <5>1, <5>2
      <4>2. CASE CheckoutOf[q] # k
        BY <1>1, <1>2, <3>1, <4>2
      <4> QED BY <4>1, <4>2
    <3> QED BY <3>2
  <2> QED BY <2>1, <2>2
<1> QED BY <1>7, <1>8, <1>9 DEF LineHolds, Queued, QueuedNext

LEMMA LineLeft ==
    ASSUME IInv, LineHolds, NEW r \in Runs, prep[r] = "checkout", prep'[r] \notin {"queued", "checkout"},
           \A q \in Runs \ {r} : prep'[q] = prep[q],
           line' = [line EXCEPT ![CheckoutOf[r]] = Tail(@)]
    PROVE  LineHolds'
<1> DEFINE k == CheckoutOf[r]  s == line[k]
<1>1. k \in Checkouts /\ s \in Seq(Runs) /\ \A q \in Runs : CheckoutOf[q] \in Checkouts
  BY DEF IInv, TypeOK
<1>2. line'[k] = Tail(s) /\ \A l \in Checkouts \ {k} : line'[l] = line[l]
  BY <1>1 DEF IInv, TypeOK
<1>3. s # <<>> /\ Head(s) = r
  BY DEF IInv, LineInv
<1>4. /\ s[1] = r /\ 1 \in DOMAIN s /\ DOMAIN s \subseteq Nat /\ DOMAIN line'[k] \subseteq Nat
      /\ \A i \in DOMAIN line'[k] : i + 1 \in DOMAIN s /\ i + 1 # 1 /\ line'[k][i] = s[i + 1]
      /\ \A i \in DOMAIN s : i = 1 \/ (i - 1 \in DOMAIN line'[k] /\ line'[k][i - 1] = s[i])
  <2>1. /\ Head(s) = s[1] /\ 1 \in DOMAIN s /\ DOMAIN s \subseteq Nat /\ DOMAIN Tail(s) \subseteq Nat
        /\ \A i \in DOMAIN Tail(s) : i + 1 \in DOMAIN s /\ i + 1 # 1 /\ Tail(s)[i] = s[i + 1]
        /\ \A i \in DOMAIN s : i = 1 \/ (i - 1 \in DOMAIN Tail(s) /\ Tail(s)[i - 1] = s[i])
    BY <1>1, <1>3, LineTaken
  <2> QED BY <1>2, <1>3, <2>1
<1>5. \A l \in Checkouts : \A i \in DOMAIN line[l] : line[l][i] \in Runs /\ (line[l][i] = r => l = k /\ i = 1)
  <2>1. \A l \in Checkouts : \A i \in DOMAIN line[l] : line[l][i] \in Runs /\ CheckoutOf[line[l][i]] = l
    BY RunsInLines DEF IInv, LineHolds
  <2>2. \A i \in DOMAIN s : s[i] = r => i = 1
    BY <1>1, <1>4 DEF LineHolds
  <2> QED BY <2>1, <2>2
<1>6. \A l \in Checkouts : \A i, j \in DOMAIN line'[l] : line'[l][i] = line'[l][j] => i = j
  <2>1. ASSUME NEW i \in DOMAIN line'[k], NEW j \in DOMAIN line'[k], line'[k][i] = line'[k][j] PROVE i = j
    <3>1. i \in Nat /\ j \in Nat /\ i + 1 \in DOMAIN s /\ j + 1 \in DOMAIN s /\ s[i + 1] = s[j + 1]
      BY <1>4, <2>1
    <3>2. i + 1 = j + 1
      BY <1>1, <3>1 DEF LineHolds
    <3> QED BY <3>1, <3>2
  <2> QED BY <1>2, <2>1 DEF LineHolds
<1>7. \A l \in Checkouts : \A i \in DOMAIN line'[l] : CheckoutOf[line'[l][i]] = l /\ QueuedNext(line'[l][i])
  <2>1. ASSUME NEW l \in Checkouts, NEW i \in DOMAIN line'[l]
        PROVE  \E j \in DOMAIN line[l] : line'[l][i] = line[l][j] /\ line[l][j] # r
    <3>1. CASE l = k
      BY <1>1, <1>4, <1>5, <2>1, <3>1
    <3>2. CASE l # k
      BY <1>2, <1>5, <2>1, <3>2
    <3> QED BY <3>1, <3>2
  <2>2. ASSUME NEW l \in Checkouts, NEW i \in DOMAIN line'[l]
        PROVE  CheckoutOf[line'[l][i]] = l /\ QueuedNext(line'[l][i])
    <3>1. PICK j \in DOMAIN line[l] : line'[l][i] = line[l][j] /\ line[l][j] # r
      BY <2>1
    <3>2. line[l][j] \in Runs /\ CheckoutOf[line[l][j]] = l /\ Queued(line[l][j])
      BY <1>5 DEF LineHolds
    <3>3. prep'[line[l][j]] = prep[line[l][j]]
      BY <3>1, <3>2
    <3> QED BY <3>1, <3>2, <3>3 DEF Queued, QueuedNext
  <2> QED BY <2>2
<1>8. ASSUME NEW q \in Runs, QueuedNext(q)
      PROVE  \E i \in DOMAIN line'[CheckoutOf[q]] : line'[CheckoutOf[q]][i] = q
  <2>1. q # r
    BY <1>8 DEF QueuedNext
  <2>2. PICK i \in DOMAIN line[CheckoutOf[q]] : line[CheckoutOf[q]][i] = q
    BY <1>8, <2>1 DEF LineHolds, Queued, QueuedNext
  <2>3. CASE CheckoutOf[q] = k
    <3>1. i \in DOMAIN s /\ i # 1 /\ s[i] = q
      BY <1>4, <2>1, <2>2, <2>3
    <3>2. i - 1 \in DOMAIN line'[k] /\ line'[k][i - 1] = q
      BY <1>4, <3>1
    <3> QED BY <2>3, <3>2
  <2>4. CASE CheckoutOf[q] # k
    BY <1>1, <1>2, <2>2, <2>4
  <2> QED BY <2>3, <2>4
<1> QED BY <1>6, <1>7, <1>8 DEF LineHolds, Queued, QueuedNext

\* A step that leaves the lines, and who is in them, as they are.
LEMMA LineKept ==
    ASSUME LineHolds, UNCHANGED line, \A q \in Runs : Queued(q)' <=> Queued(q), TypeOK
    PROVE  LineHolds'
<1>1. \A l \in Checkouts : \A i \in DOMAIN line[l] : line[l][i] \in Runs
  BY RunsInLines
<1> QED BY <1>1 DEF LineHolds

LEMMA LineStep == ASSUME IInv, LineHolds, [Next]_vars PROVE LineHolds'
<1>1. TypeOK /\ prep \in [Runs -> Preps]
  BY DEF IInv, TypeOK
<1>2. CASE UNCHANGED <<line, prep>>
  BY <1>1, <1>2, LineKept DEF Queued
<1>3. ASSUME NEW r \in Runs, AskPrompt(r) PROVE LineHolds'
  BY <1>2, <1>3, LineEntered DEF AskPrompt
<1>4. ASSUME NEW r \in Runs, StartPreparing(r) PROVE LineHolds'
  <2>1. UNCHANGED line /\ \A q \in Runs : Queued(q)' <=> Queued(q)
    BY <1>1, <1>4 DEF StartPreparing, Queued
  <2> QED BY <1>1, <2>1, LineKept
<1>5. ASSUME NEW r \in Runs, NEW next \in {"resources", "failing", "plain", "failed", "done"},
             PrepareTo(r, next), prep[r] \in {"checkout", "resources", "failing"}
      PROVE  LineHolds'
  <2>1. prep'[r] = next /\ \A q \in Runs \ {r} : prep'[q] = prep[q]
    BY <1>1, <1>5 DEF PrepareTo
  <2>2. CASE prep[r] = "checkout"
    <3>1. line' = [line EXCEPT ![CheckoutOf[r]] = Tail(@)]
      BY <1>5, <2>2 DEF PrepareTo
    <3> QED BY <2>1, <2>2, <3>1, LineLeft
  <2>3. CASE prep[r] # "checkout"
    <3>1. UNCHANGED line /\ \A q \in Runs : Queued(q)' <=> Queued(q)
      BY <1>5, <2>1, <2>3 DEF PrepareTo, Queued
    <3> QED BY <1>1, <3>1, LineKept
  <2> QED BY <2>2, <2>3
<1>6. ASSUME NEW r \in Runs, Prepared(r) \/ CannotPrepare(r) \/ StopPreparing(r) \/ AbortUnprepared(r)
      PROVE  LineHolds'
  BY <1>5, <1>6 DEF Prepared, CannotPrepare, StopPreparing, AbortUnprepared, Preparing
<1>7. ASSUME NEW r \in Runs, End(r) PROVE LineHolds'
  <2>1. ~Queued(r)
    BY <1>7 DEF End, At, IInv, PrepInv, Queued
  <2>2. UNCHANGED line /\ \A q \in Runs : Queued(q)' <=> Queued(q)
    BY <1>1, <1>7, <2>1 DEF End, Queued
  <2> QED BY <1>1, <2>2, LineKept
<1>8. ASSUME NEW r \in Runs, WaitForNode(r) \/ NodeBack(r) \/ PromptAnswered(r) \/ Begin(r)
      PROVE  UNCHANGED <<line, prep>>
  BY <1>8 DEF WaitForNode, NodeBack, PromptAnswered, Begin, preparation
<1>9. ASSUME NEW r \in Runs, BeforeRequest(r) \/ ReleaseRequest(r) \/ ToolsDone(r) \/ Respond(r)
      PROVE  UNCHANGED <<line, prep>>
  BY <1>9 DEF BeforeRequest, ReleaseRequest, ToolsDone, Respond, preparation
<1>10. ASSUME NEW r \in Runs, NEW c \in Calls,
              BeforeTool(r, c) \/ ReleaseTool(r, c) \/ ToolStart(r, c) \/ ToolEnd(r, c)
       PROVE  UNCHANGED <<line, prep>>
  BY <1>10 DEF BeforeTool, ReleaseTool, ToolStart, ToolEnd, preparation
<1>11. ASSUME NEW r \in Runs, Abort(r) \/ AbortRequested(r) \/ Close(r) \/ CloseAbort(r)
       PROVE  UNCHANGED <<line, prep>>
  BY <1>11 DEF Abort, AbortRequested, Close, CloseAbort, preparation
<1>12. CASE CloseGate \/ Suspend \/ Drop \/ Reconnect \/ UNCHANGED vars
  <2>1. UNCHANGED <<line, prep>>
    BY <1>12 DEF CloseGate, Suspend, Drop, Reconnect, vars, preparation
  <2> QED BY <1>2, <2>1
<1>13. ASSUME NEW r \in Runs, Prompting(r) PROVE LineHolds'
  BY <1>2, <1>3, <1>4, <1>6, <1>8, <1>13 DEF Prompting
<1>14. ASSUME NEW r \in Runs, Running(r) PROVE LineHolds'
  BY <1>2, <1>7, <1>9, <1>10, <1>14 DEF Running
<1> QED BY <1>2, <1>6, <1>8, <1>9, <1>10, <1>11, <1>12, <1>13, <1>14 DEF Next

\* While a preparation waits for its checkout, the first of the line has its turn, or can
\* take it, and its run waits for it.
LineMoves ==
    \A r \in Runs : prep[r] = "queued" =>
        LET first == Head(line[CheckoutOf[r]]) IN
        /\ line[CheckoutOf[r]] # <<>> /\ first \in Runs
        /\ prep[first] \in {"queued", "checkout"} /\ stage[first] = "prompt"

\* The line of a checkout is never stuck: no preparation is forgotten in it, and none stays
\* at its head that is over, whichever of them fail, are stopped or whose runs ended
\* (oneAtATime, environment.ts).
THEOREM LinesMove == Spec => []LineMoves
<1>1. Init => LineHolds
  BY DEF Init, LineHolds, Queued
<1>2. IInv /\ LineHolds /\ [Next]_vars => LineHolds'
  BY LineStep
<1>3. IInv /\ LineHolds => LineMoves
  <2> SUFFICES ASSUME IInv, LineHolds, NEW r \in Runs, prep[r] = "queued"
               PROVE  LET first == Head(line[CheckoutOf[r]]) IN
                      /\ line[CheckoutOf[r]] # <<>> /\ first \in Runs
                      /\ prep[first] \in {"queued", "checkout"} /\ stage[first] = "prompt"
    BY DEF LineMoves
  <2> DEFINE s == line[CheckoutOf[r]]
  <2>1. CheckoutOf[r] \in Checkouts /\ s \in Seq(Runs)
    BY DEF IInv, TypeOK
  <2>2. \E i \in DOMAIN s : s[i] = r
    BY DEF LineHolds, Queued, QueuedNext
  <2>3. s # <<>>
    BY <2>2
  <2>4. Head(s) = s[1] /\ 1 \in DOMAIN s
    BY <2>1, <2>3, LineTaken
  <2>5. Head(s) \in Runs /\ Queued(Head(s))
    BY <2>1, <2>4 DEF LineHolds
  <2> QED BY <2>3, <2>5 DEF Queued, IInv, PrepInv
<1> QED BY <1>1, <1>2, <1>3, Invariance, PTL DEF Spec
=============================================================================
