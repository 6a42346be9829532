------------------------ MODULE LiveSessions_proofs -------------------------
(***************************************************************************)
(* What the live map keeps of a session, for any calls, sources and number  *)
(* of runtimes, apps, moves, removals and rounds.                           *)
(***************************************************************************)
EXTENDS LiveSessions, TLAPS

RuntimeState ==
    [is : {"none", "open", "closing", "closed"},
     binding : Sources \cup {None}, code : Apps \cup {None},
     running : BOOLEAN, late : BOOLEAN, retired : BOOLEAN, faulted : BOOLEAN]

RuntimeOK == runtime \in [Runtimes -> RuntimeState]

CallOK ==
    call \in [Calls -> [at : {"new", "queued", "opening", "got", "over"},
                        on : Runtimes \cup {None}, again : BOOLEAN]]

OpeningOK ==
    opening \in [step : {"none", "closing", "building"}, old : Runtimes \cup {None},
                 binding : Sources \cup {None}, code : Apps \cup {None}]

\* The map's entry is the one runtime that takes calls, and there is none while one is
\* opened. A faulted one drives nothing.
EntryInv ==
    /\ IsOpening => live = None /\ made < MaxRuntimes
    /\ live # None => runtime[live].is = "open"
    /\ NoneLeftBehind
    /\ \A r \in Runtimes : r > made => runtime[r].is = "none" /\ ~runtime[r].running
    /\ \A r \in Runtimes : runtime[r].faulted => ~runtime[r].running

\* What is opened is for the session's place, or will be closed.
PlaceInv ==
    /\ LiveIsCurrent
    /\ IsOpening /\ place # None => opening.binding = place \/ closeNext

\* Only the live runtime drives a run, but for late ones, and it drives none when it is
\* about to be closed.
DriverInv ==
    /\ removed = {} /\ deletion = "none" =>
           \A r \in Runtimes : runtime[r].running => r = live \/ runtime[r].late
    /\ closeNext /\ ~IsOpening /\ live # None => ~runtime[live].running

CallInv == \A c \in Calls : call[c].at = "got" => call[c].on \in Runtimes

IInv == TypeOK /\ EntryInv /\ PlaceInv /\ DriverInv /\ CallInv
-----------------------------------------------------------------------------
USE LiveAssumption

LEMMA NoneIsNone == None \notin Runtimes /\ None \notin Apps /\ None \notin Sources /\ Runtimes \subseteq Nat
BY DEF Runtimes, Apps

LEMMA TypeParts ==
    ASSUME TypeOK
    PROVE  RuntimeOK /\ CallOK /\ OpeningOK /\ live \in Runtimes \cup {None} /\ made \in 0..MaxRuntimes
BY DEF TypeOK, RuntimeOK, RuntimeState, CallOK, OpeningOK

\* One runtime changes.
LEMMA OneRuntime ==
    ASSUME RuntimeOK, NEW r \in Runtimes, NEW s \in RuntimeState, runtime' = [runtime EXCEPT ![r] = s]
    PROVE  RuntimeOK' /\ runtime'[r] = s /\ \A q \in Runtimes \ {r} : runtime'[q] = runtime[q]
BY DEF RuntimeOK

LEMMA UnbuiltFacts ==
    /\ Unbuilt \in RuntimeState
    /\ Unbuilt.is = "none" /\ Unbuilt.running = FALSE /\ Unbuilt.late = FALSE /\ Unbuilt.faulted = FALSE
BY DEF Unbuilt, RuntimeState

LEMMA InitInv == Init => IInv
<1> SUFFICES ASSUME Init PROVE IInv
  OBVIOUS
<1>1. /\ live = None /\ opening.step = "none" /\ made = 0 /\ removed = {} /\ place = Home
      /\ \A r \in Runtimes : runtime[r].is = "none" /\ ~runtime[r].running /\ ~runtime[r].faulted
      /\ \A c \in Calls : call[c].at = "new"
  BY UnbuiltFacts DEF Init, NoOpening
<1>2. TypeOK
  <2>1. RuntimeOK /\ OpeningOK /\ CallOK
    BY UnbuiltFacts DEF Init, RuntimeOK, RuntimeState, OpeningOK, CallOK, NoOpening
  <2>2. /\ app \in Apps /\ apps \in Apps /\ made \in 0..MaxRuntimes /\ round \in 0..Rounds
        /\ moves \in 0..MaxMoves /\ place \in Sources
    BY DEF Init, Apps
  <2> QED BY <2>1, <2>2, <1>1 DEF Init, TypeOK, RuntimeOK, RuntimeState, OpeningOK, CallOK
<1>3. EntryInv
  BY <1>1 DEF EntryInv, NoneLeftBehind, IsOpening
<1>4. PlaceInv
  BY <1>1, NoneIsNone DEF PlaceInv, LiveIsCurrent, IsOpening
<1>5. DriverInv
  BY <1>1 DEF DriverInv
<1>6. CallInv
  BY <1>1 DEF CallInv
<1> QED BY <1>2, <1>3, <1>4, <1>5, <1>6 DEF IInv
-----------------------------------------------------------------------------
(* The steps that close the live runtime. *)

LEMMA CloseLiveFacts ==
    ASSUME RuntimeOK, live \in Runtimes, CloseLive
    PROVE  /\ live' = None /\ RuntimeOK'
           /\ runtime'[live].is = "closing" /\ runtime'[live].running = runtime[live].running
           /\ runtime'[live].faulted = runtime[live].faulted
           /\ \A r \in Runtimes \ {live} : runtime'[r] = runtime[r]
<1> DEFINE closing == [Unbuilt EXCEPT !.is = "closing", !.running = runtime[live].running,
                                  !.faulted = runtime[live].faulted]
<1>1. /\ closing \in [is : {"none", "open", "closing", "closed"},
                      binding : Sources \cup {None}, code : Apps \cup {None},
                      running : BOOLEAN, late : BOOLEAN, retired : BOOLEAN, faulted : BOOLEAN]
      /\ closing.is = "closing" /\ closing.running = runtime[live].running
      /\ closing.faulted = runtime[live].faulted
  BY DEF Unbuilt, RuntimeOK, RuntimeState
<1>2. live' = None /\ runtime' = [runtime EXCEPT ![live] = closing]
  BY DEF CloseLive, Closing
<1> HIDE DEF closing
<1> QED BY <1>1, <1>2 DEF RuntimeOK, RuntimeState

\* Steps that close the live runtime, or leave it, and open none.
LEMMA ClosesInv ==
    ASSUME IInv, UNCHANGED <<made, opening>>,
           (live # None /\ CloseLive) \/ UNCHANGED <<live, runtime>>
    PROVE  /\ RuntimeOK' /\ live' \in {None, live} /\ EntryInv'
           /\ \A r \in Runtimes : runtime'[r].running = runtime[r].running
           /\ \A r \in Runtimes : r = live \/ runtime'[r] = runtime[r]
           /\ live' # None => runtime' = runtime
<1>1. RuntimeOK /\ live \in Runtimes \cup {None}
  BY TypeParts DEF IInv
<1>2. CASE live # None /\ CloseLive
  <2>1. /\ live' = None /\ RuntimeOK'
        /\ runtime'[live].is = "closing" /\ runtime'[live].running = runtime[live].running
        /\ runtime'[live].faulted = runtime[live].faulted
        /\ \A r \in Runtimes \ {live} : runtime'[r] = runtime[r]
    BY <1>1, <1>2, CloseLiveFacts
  <2>2. live \in Runtimes /\ ~(live > made) /\ ~IsOpening
    BY <1>1, <1>2 DEF IInv, EntryInv
  <2>3. EntryInv'
    BY <2>1, <2>2 DEF IInv, EntryInv, NoneLeftBehind, IsOpening
  <2> QED BY <2>1, <2>2, <2>3
<1>3. CASE UNCHANGED <<live, runtime>>
  BY <1>1, <1>3 DEF IInv, EntryInv, NoneLeftBehind, IsOpening, RuntimeOK, RuntimeState
<1> QED BY <1>2, <1>3

\* The sweep, a new app, and an opening that a close waited for.
LEMMA SweepInv ==
    ASSUME IInv, Sweep \/ RegisterApp \/ CloseOpened
    PROVE  IInv'
<1>1. CASE Sweep \/ CloseOpened
  <2>1. /\ UNCHANGED <<place, removed, moves, pending, app, apps, made, opening, call, deletion, awaited, round, ahead>>
        /\ (live # None /\ CloseLive) \/ UNCHANGED <<live, runtime>>
        /\ closeNext' \in {closeNext, FALSE} /\ (closeNext' # closeNext => live' = None /\ ~IsOpening)
        /\ live' # live => ~runtime[live].running
    BY <1>1 DEF Sweep, Streaming, CloseOpened, session, process, deleting, CloseLive, IInv, TypeOK, DriverInv
  <2>2. /\ RuntimeOK' /\ live' \in {None, live} /\ EntryInv'
        /\ \A r \in Runtimes : runtime'[r].running = runtime[r].running
        /\ \A r \in Runtimes : r = live \/ runtime'[r] = runtime[r]
        /\ live' # None => runtime' = runtime
    BY <2>1, ClosesInv
  <2>3. TypeOK'
    <3>1. closeNext' \in BOOLEAN /\ closeNext \in BOOLEAN
      BY <1>1 DEF Sweep, CloseOpened, IInv, TypeOK
    <3> QED BY <2>1, <2>2, <3>1 DEF IInv, TypeOK, RuntimeOK, RuntimeState
  <2>4. PlaceInv'
    BY <2>1, <2>2 DEF IInv, PlaceInv, LiveIsCurrent, IsOpening
  <2>5. DriverInv'
    BY <2>1, <2>2 DEF IInv, DriverInv, IsOpening
  <2>6. CallInv'
    BY <2>1 DEF IInv, CallInv
  <2> QED BY <2>2, <2>3, <2>4, <2>5, <2>6 DEF IInv
<1>2. CASE RegisterApp
  <2>1. /\ UNCHANGED <<place, removed, moves, pending, made, opening, call, closeNext, deletion, awaited, round, ahead>>
        /\ apps < MaxApps /\ apps' = apps + 1 /\ app' = apps + 1
    BY <1>2 DEF RegisterApp, session, deleting
  <2>2. app' \in Apps /\ apps' \in Apps
    BY <2>1 DEF IInv, TypeOK, Apps
  <2>3. CASE live # None /\ Streaming(live)
    <3>1. live' = live /\ runtime' = [runtime EXCEPT ![live].retired = TRUE] /\ live \in Runtimes
      BY <1>2, <2>3, TypeParts DEF RegisterApp, IInv
    <3>2. /\ RuntimeOK' /\ runtime'[live].retired
          /\ runtime'[live].binding = runtime[live].binding
          /\ \A r \in Runtimes : /\ runtime'[r].running = runtime[r].running
                                 /\ runtime'[r].is = runtime[r].is
                                 /\ runtime'[r].late = runtime[r].late
                                 /\ runtime'[r].faulted = runtime[r].faulted
      <4> DEFINE retiring == [runtime[live] EXCEPT !.retired = TRUE]
      <4>1. RuntimeOK /\ runtime[live] \in RuntimeState
        BY <3>1, TypeParts DEF IInv, RuntimeOK
      <4>2. runtime' = [runtime EXCEPT ![live] = retiring]
        BY <3>1, <4>1 DEF RuntimeOK
      <4>3. /\ retiring \in RuntimeState /\ retiring.retired
            /\ retiring.binding = runtime[live].binding /\ retiring.running = runtime[live].running
            /\ retiring.is = runtime[live].is /\ retiring.faulted = runtime[live].faulted
            /\ retiring.late = runtime[live].late
        BY <4>1 DEF RuntimeState
      <4> HIDE DEF retiring
      <4>4. RuntimeOK' /\ runtime'[live] = retiring /\ \A q \in Runtimes \ {live} : runtime'[q] = runtime[q]
        BY <3>1, <4>1, <4>2, <4>3, OneRuntime
      <4> QED BY <4>3, <4>4
    <3>3. TypeOK'
      BY <2>1, <2>2, <3>1, <3>2 DEF IInv, TypeOK, RuntimeOK, RuntimeState
    <3>4. EntryInv'
      BY <2>1, <3>1, <3>2 DEF IInv, EntryInv, NoneLeftBehind, IsOpening
    <3>5. PlaceInv'
      BY <2>1, <3>1, <3>2 DEF IInv, PlaceInv, LiveIsCurrent, IsOpening
    <3>6. DriverInv' /\ CallInv'
      BY <2>1, <3>1, <3>2 DEF IInv, DriverInv, CallInv, IsOpening
    <3> QED BY <3>3, <3>4, <3>5, <3>6 DEF IInv
  <2>4. CASE ~(live # None /\ Streaming(live))
    <3>1. /\ live' = None /\ ((live # None /\ CloseLive) \/ UNCHANGED <<live, runtime>>)
      BY <1>2, <2>4 DEF RegisterApp, CloseLive
    <3>2. /\ RuntimeOK' /\ EntryInv'
          /\ \A r \in Runtimes : runtime'[r].running = runtime[r].running
          /\ \A r \in Runtimes : r = live \/ runtime'[r] = runtime[r]
      BY <2>1, <3>1, ClosesInv
    <3>3. TypeOK'
      BY <2>1, <2>2, <3>1, <3>2 DEF IInv, TypeOK, RuntimeOK, RuntimeState
    <3>4. PlaceInv'
      BY <2>1, <3>1 DEF IInv, PlaceInv, LiveIsCurrent, IsOpening
    <3>5. DriverInv' /\ CallInv'
      BY <2>1, <2>4, <3>1, <3>2, NoneIsNone DEF IInv, DriverInv, CallInv, Streaming
    <3> QED BY <3>2, <3>3, <3>4, <3>5 DEF IInv
  <2> QED BY <2>3, <2>4
<1> QED BY <1>1, <1>2

\* A move and a removal close the live runtime, or have the one being opened closed.
LEMMA MoveInv ==
    ASSUME IInv, NEW s \in Sources, Move(s) \/ Remove(s)
    PROVE  IInv'
<1>1. /\ UNCHANGED <<pending, app, apps, made, opening, call, deletion, awaited, round, ahead>>
      /\ (live # None /\ CloseLive) \/ UNCHANGED <<live, runtime>>
      /\ closeNext' \in BOOLEAN /\ (closeNext => closeNext') /\ (closeNext' # closeNext => IsOpening)
  BY DEF Move, Remove, CloseSessionRuntime, process, deleting, IInv, TypeOK
<1>2. /\ RuntimeOK' /\ live' \in {None, live} /\ EntryInv'
      /\ \A r \in Runtimes : runtime'[r].running = runtime[r].running
      /\ \A r \in Runtimes : r = live \/ runtime'[r] = runtime[r]
      /\ live' # None => runtime' = runtime
  BY <1>1, ClosesInv
<1>3. \/ /\ place' = s /\ place \notin {None, s} /\ removed' = removed /\ ~Busy
         /\ live' = None \/ UNCHANGED <<live, runtime>>
         /\ (IsOpening => closeNext') /\ (~IsOpening => live' = None)
      \/ place' = place /\ removed' = removed \cup {s}
  BY DEF Move, Remove, CloseSessionRuntime, CloseLive
<1>4. TypeOK'
  <2>1. moves' \in 0..MaxMoves
    BY DEF Move, Remove, IInv, TypeOK
  <2>2. place' \in Sources \cup {None} /\ removed' \subseteq Sources
    BY <1>3 DEF IInv, TypeOK
  <2> QED BY <1>1, <1>2, <2>1, <2>2 DEF IInv, TypeOK, RuntimeOK, RuntimeState
<1>5. PlaceInv'
  <2>1. IsOpening' = IsOpening /\ (IsOpening => live = None)
    BY <1>1 DEF IsOpening, IInv, EntryInv
  <2>2. CASE /\ place' = s /\ place \notin {None, s} /\ (IsOpening => closeNext')
             /\ (~IsOpening => live' = None)
    BY <1>1, <1>2, <2>1, <2>2, NoneIsNone DEF IInv, PlaceInv, LiveIsCurrent, IsOpening
  <2>3. CASE place' = place
    <3>1. live' = None \/ (live' = live /\ runtime' = runtime)
      BY <1>2
    <3> QED BY <1>1, <2>1, <2>3, <3>1 DEF IInv, PlaceInv, LiveIsCurrent
  <2> QED BY <1>3, <2>2, <2>3
<1>6. DriverInv'
  <2>1. IsOpening' = IsOpening /\ (IsOpening => live = None)
    BY <1>1 DEF IsOpening, IInv, EntryInv
  <2>2. removed' = {} => removed = {} /\ (live # None => ~runtime[live].running)
    BY <1>3 DEF Busy, Streaming
  <2>3. removed' = {} /\ deletion' = "none" => \A r \in Runtimes : runtime'[r].running => r = live' \/ runtime'[r].late
    BY <1>1, <1>2, <2>2, NoneIsNone DEF IInv, DriverInv
  <2>4. closeNext' /\ ~IsOpening' /\ live' # None => ~runtime'[live'].running
    BY <1>1, <1>2, <2>1 DEF IInv, DriverInv
  <2> QED BY <2>3, <2>4 DEF DriverInv
<1>7. CallInv'
  BY <1>1 DEF IInv, CallInv
<1> QED BY <1>2, <1>4, <1>5, <1>6, <1>7 DEF IInv

\* The session's deletion.
LEMMA DeletionInv ==
    ASSUME IInv, Delete \/ Drained \/ DeletionCloses \/ DeletionClosed
    PROVE  IInv'
<1>1. /\ UNCHANGED <<removed, moves, pending, app, apps, made, opening, call, closeNext>>
      /\ (live # None /\ CloseLive) \/ UNCHANGED <<live, runtime>>
      /\ deletion' \in {"draining", "opening", "closing", "over"}
  BY DEF Delete, Drained, DeletionCloses, DeletionClosed, LookAgain, session, process, entry
<1>2. /\ RuntimeOK' /\ live' \in {None, live} /\ EntryInv'
      /\ \A r \in Runtimes : runtime'[r].running = runtime[r].running
      /\ \A r \in Runtimes : r = live \/ runtime'[r] = runtime[r]
      /\ live' # None => runtime' = runtime
  BY <1>1, ClosesInv
<1>3. \/ place' = place /\ round' = round
      \/ place' = place /\ round # Rounds /\ round' = round + 1 /\ AnythingOpen /\ UNCHANGED <<live, runtime>>
      \/ place' = None /\ round' = round /\ UNCHANGED <<live, runtime>> /\ (~AnythingOpen \/ round = Rounds)
  BY DEF Delete, Drained, DeletionCloses, DeletionClosed, LookAgain, session, entry
<1>4. TypeOK'
  <2>0. place \in Sources \cup {None} /\ round \in 0..Rounds
    BY DEF IInv, TypeOK
  <2>1. place' \in Sources \cup {None} /\ round' \in 0..Rounds
    BY <1>3, <2>0
  <2>2. ahead' \subseteq Submissions
    BY DEF Delete, Drained, DeletionCloses, DeletionClosed, LookAgain, InChain, IInv, TypeOK
  <2>3. awaited' \in Runtimes \cup {None}
    BY DEF Delete, Drained, DeletionCloses, DeletionClosed, IInv, TypeOK
  <2> QED BY <1>1, <1>2, <2>1, <2>2, <2>3 DEF IInv, TypeOK, RuntimeOK, RuntimeState
<1>5. PlaceInv'
  <2>1. IsOpening' = IsOpening /\ (live' = None \/ (live' = live /\ runtime' = runtime))
    BY <1>1, <1>2 DEF IsOpening
  <2>2. place' = None => round' = Rounds \/ (live' = None /\ ~IsOpening')
    <3>1. CASE place' = None /\ round' = round /\ UNCHANGED <<live, runtime>> /\ (~AnythingOpen \/ round = Rounds)
      BY <3>1, <2>1 DEF AnythingOpen
    <3>2. CASE place' = place /\ round' = round
      BY <3>2, <2>1 DEF IInv, PlaceInv, LiveIsCurrent
    <3>3. CASE place' = place /\ round # Rounds /\ AnythingOpen /\ UNCHANGED <<live, runtime>>
      BY <3>3, <1>1, <1>3, <2>1, NoneIsNone DEF IInv, PlaceInv, LiveIsCurrent, AnythingOpen
    <3> QED BY <1>3, <3>1, <3>2, <3>3
  <2>3. place' # None => place' = place
    BY <1>3
  <2> QED BY <1>1, <2>1, <2>2, <2>3 DEF IInv, PlaceInv, LiveIsCurrent
<1>6. DriverInv'
  <2>1. closeNext' /\ ~IsOpening' /\ live' # None => ~runtime'[live'].running
    BY <1>1, <1>2 DEF IInv, DriverInv, IsOpening
  <2> QED BY <1>1, <2>1 DEF DriverInv
<1>7. CallInv'
  BY <1>1 DEF IInv, CallInv
<1> QED BY <1>2, <1>4, <1>5, <1>6, <1>7 DEF IInv
-----------------------------------------------------------------------------
(* The calls, the openings and the runtimes. *)

AtFacts(c, at, r) ==
    /\ call'[c].at = at /\ call'[c].on = r /\ \A d \in Calls \ {c} : call'[d] = call[d]

LEMMA CallFacts ==
    ASSUME CallOK, NEW c \in Calls,
           NEW at \in {"new", "queued", "opening", "got", "over"}, NEW r \in Runtimes \cup {None}
    PROVE  /\ At(c, at, r) => CallOK' /\ AtFacts(c, at, r)
           /\ Over(c) => CallOK' /\ AtFacts(c, "over", None)
<1>1. ASSUME At(c, at, r) PROVE CallOK' /\ AtFacts(c, at, r)
  <2> DEFINE moved == [call[c] EXCEPT !.at = at, !.on = r]
  <2>1. /\ moved \in [at : {"new", "queued", "opening", "got", "over"},
                      on : Runtimes \cup {None}, again : BOOLEAN]
        /\ moved.at = at /\ moved.on = r
    BY DEF CallOK
  <2>2. call' = [call EXCEPT ![c] = moved]
    BY <1>1 DEF At, CallOK
  <2> HIDE DEF moved
  <2> QED BY <2>1, <2>2 DEF CallOK, AtFacts
<1>2. ASSUME Over(c) PROVE CallOK' /\ AtFacts(c, "over", None)
  BY <1>2 DEF Over, CallOK, AtFacts
<1> QED BY <1>1, <1>2

\* A call that opens nothing.
LEMMA CallMoved ==
    ASSUME IInv, NEW c \in Calls,
           NEW at \in {"new", "queued", "opening", "got", "over"}, NEW r \in Runtimes \cup {None},
           At(c, at, r) \/ Over(c), at = "got" => r \in Runtimes,
           UNCHANGED <<place, removed, moves, pending, app, apps, made, runtime, live, opening,
                       closeNext, deletion, awaited, round, ahead>>
    PROVE  IInv'
<1>1. CallOK' /\ (AtFacts(c, at, r) \/ AtFacts(c, "over", None))
  BY CallFacts, TypeParts DEF IInv
<1>2. TypeOK'
  BY <1>1 DEF IInv, TypeOK, CallOK
<1>3. CallInv'
  BY <1>1 DEF IInv, CallInv, AtFacts
<1>4. EntryInv' /\ PlaceInv' /\ DriverInv'
  BY DEF IInv, EntryInv, NoneLeftBehind, IsOpening, PlaceInv, LiveIsCurrent, DriverInv
<1> QED BY <1>2, <1>3, <1>4 DEF IInv

\* An opening begins.
LEMMA OpeningInv ==
    ASSUME IInv, NEW c \in Calls, NEW code \in Apps, BeginOpening(c, code), ~IsOpening, Runnable,
           live # None => ~Streaming(live) \/ runtime[live].faulted,
           UNCHANGED <<place, removed, moves, pending, app, apps, closeNext, deletion, awaited, round, ahead>>
    PROVE  IInv'
<1>1. /\ made < MaxRuntimes /\ made' = made /\ At(c, "opening", None)
      /\ opening' = [step |-> IF live = None THEN "building" ELSE "closing",
                     old |-> live, binding |-> place, code |-> code]
      /\ IF live = None THEN UNCHANGED <<live, runtime>> ELSE CloseLive
  BY DEF BeginOpening
<1>2. CallOK' /\ AtFacts(c, "opening", None)
  BY <1>1, CallFacts, TypeParts DEF IInv
<1>3. OpeningOK' /\ opening'.binding = place /\ opening'.step # "none" /\ live \in Runtimes \cup {None}
  BY <1>1 DEF IInv, TypeOK, OpeningOK
<1>4. live' = None
  BY <1>1 DEF CloseLive
<1>5. /\ RuntimeOK' /\ \A r \in Runtimes : /\ runtime'[r].running = runtime[r].running
                                           /\ runtime'[r].is # "open"
                                           /\ r # live => runtime'[r] = runtime[r]
      /\ live # None => runtime'[live].is = "closing" /\ runtime'[live].faulted = runtime[live].faulted
  <2>1. CASE live = None
    BY <1>1, <2>1, TypeParts, NoneIsNone DEF IInv, EntryInv, NoneLeftBehind, RuntimeOK, RuntimeState
  <2>2. CASE live # None
    <3>1. /\ RuntimeOK'
          /\ runtime'[live].is = "closing" /\ runtime'[live].running = runtime[live].running
          /\ runtime'[live].faulted = runtime[live].faulted
          /\ \A r \in Runtimes \ {live} : runtime'[r] = runtime[r]
      BY <1>1, <1>3, <2>2, CloseLiveFacts, TypeParts DEF IInv
    <3> QED BY <2>2, <3>1 DEF IInv, EntryInv, NoneLeftBehind
  <2> QED BY <2>1, <2>2
<1>6. live # None => live \in Runtimes /\ ~runtime[live].running /\ ~(live > made)
  BY <1>3 DEF IInv, EntryInv, Streaming
<1>7. TypeOK'
  BY <1>1, <1>2, <1>3, <1>4, <1>5 DEF IInv, TypeOK, RuntimeOK, RuntimeState, OpeningOK, CallOK
<1>8. EntryInv'
  <2>1. \A r \in Runtimes : r > made' => runtime'[r].is = "none" /\ ~runtime'[r].running
    BY <1>1, <1>5, <1>6 DEF IInv, EntryInv
  <2>2. \A r \in Runtimes : runtime'[r].faulted => ~runtime'[r].running
    <3>1. \A r \in Runtimes : r = live \/ (runtime'[r] = runtime[r] /\ (runtime[r].faulted => ~runtime[r].running))
      BY <1>5 DEF IInv, EntryInv
    <3>2. live \in Runtimes => runtime'[live].faulted = runtime[live].faulted /\ ~runtime[live].running
      BY <1>5, <1>6, NoneIsNone
    <3> QED BY <1>5, <3>1, <3>2
  <2> QED BY <1>1, <1>4, <1>5, <2>1, <2>2 DEF EntryInv, NoneLeftBehind, IsOpening
<1>9. PlaceInv'
  BY <1>3, <1>4 DEF IInv, PlaceInv, LiveIsCurrent, IsOpening, Runnable
<1>10. DriverInv'
  BY <1>4, <1>5, <1>6 DEF IInv, DriverInv
<1>11. CallInv'
  BY <1>2 DEF IInv, CallInv, AtFacts
<1> QED BY <1>7, <1>8, <1>9, <1>10, <1>11 DEF IInv

LEMMA CallStepInv ==
    ASSUME IInv, NEW c \in Calls, Submit(c) \/ Call(c)
    PROVE  IInv'
<1>1. /\ UNCHANGED <<place, removed, moves, pending, app, apps, closeNext, deletion, awaited, round, ahead>>
      /\ live \in Runtimes \cup {None}
  BY DEF Submit, Call, session, process, deleting, IInv, TypeOK
<1>2. CASE Submit(c)
  BY <1>1, <1>2, CallMoved DEF Submit, entry
<1>3. CASE Call(c)
  <2>1. PICK code \in 1..apps : Open(c, code)
    BY <1>3 DEF Call
  <2>2. code \in Apps
    BY <2>1 DEF IInv, TypeOK, Apps
  <2>3. CASE Over(c) /\ UNCHANGED entry
    BY <1>1, <2>3, CallMoved DEF entry
  <2>4. CASE live # None /\ At(c, "got", live) /\ UNCHANGED entry
    BY <1>1, <2>4, CallMoved DEF entry
  <2>5. CASE At(c, "opening", None) /\ UNCHANGED entry
    BY <1>1, <2>5, CallMoved DEF entry
  <2>6. CASE /\ BeginOpening(c, code) /\ ~IsOpening /\ Runnable
             /\ live # None => ~Streaming(live) \/ runtime[live].faulted
    BY <1>1, <2>2, <2>6, OpeningInv
  <2> QED BY <2>1, <2>3, <2>4, <2>5, <2>6 DEF Open, Usable
<1> QED BY <1>2, <1>3

\* A runtime that takes a call is the live one, and nobody is about to close it, or it is
\* being closed and its run is a late one.
LEMMA UseInv == ASSUME IInv, NEW c \in Calls, Use(c) PROVE IInv'
<1>1. /\ call[c].at = "got" /\ ~(closeNext /\ ~IsOpening) /\ call[c].on \in Runtimes
      /\ UNCHANGED <<place, removed, moves, app, apps, made, live, opening, closeNext, deletion, awaited, round, ahead>>
  BY DEF Use, session, process, deleting, IInv, CallInv
<1>2. CallOK' /\ CallInv'
  <2>1. \/ Over(c)
        \/ call' = [call EXCEPT ![c] = [at |-> "queued", on |-> None, again |-> TRUE]]
    BY DEF Use, Refused
  <2>2. CASE Over(c)
    <3>1. CallOK' /\ AtFacts(c, "over", None)
      BY <2>2, CallFacts, TypeParts DEF IInv
    <3> QED BY <3>1 DEF IInv, CallInv, AtFacts
  <2>3. CASE call' = [call EXCEPT ![c] = [at |-> "queued", on |-> None, again |-> TRUE]]
    BY <2>3, TypeParts DEF IInv, CallOK, CallInv
  <2> QED BY <2>1, <2>2, <2>3
<1>3. CASE UNCHANGED runtime
  <2>1. pending' \in BOOLEAN
    BY DEF Use, Take, IInv, TypeOK
  <2>2. TypeOK'
    BY <1>1, <1>2, <1>3, <2>1 DEF IInv, TypeOK, CallOK
  <2>3. EntryInv' /\ PlaceInv' /\ DriverInv'
    BY <1>1, <1>3 DEF IInv, EntryInv, NoneLeftBehind, IsOpening, PlaceInv, LiveIsCurrent, DriverInv
  <2> QED BY <1>2, <2>2, <2>3 DEF IInv
<1>4. CASE Works(call[c].on) /\ Take(c, call[c].on) /\ runtime' # runtime
  <2> DEFINE r == call[c].on
             driven == [runtime[r] EXCEPT !.running = TRUE, !.late = (runtime[r].is = "closing")]
  <2>0. RuntimeOK /\ r \in Runtimes /\ runtime[r] \in RuntimeState
    BY <1>1, TypeParts DEF IInv, RuntimeOK
  <2>1. /\ runtime' = [runtime EXCEPT ![r] = driven] /\ pending' = TRUE
        /\ runtime[r].is \in {"open", "closing"} /\ ~runtime[r].faulted
    BY <1>4, <2>0 DEF Works, Take, RuntimeOK
  <2>2. /\ driven \in RuntimeState
        /\ driven.is = runtime[r].is /\ driven.faulted = runtime[r].faulted
        /\ driven.binding = runtime[r].binding /\ driven.code = runtime[r].code
        /\ driven.retired = runtime[r].retired /\ driven.late = (runtime[r].is = "closing")
    BY <2>0 DEF RuntimeState
  <2> HIDE DEF driven
  <2>3. /\ RuntimeOK' /\ runtime'[r] = driven /\ \A q \in Runtimes \ {r} : runtime'[q] = runtime[q]
        /\ \A q \in Runtimes : /\ runtime'[q].is = runtime[q].is
                               /\ runtime'[q].faulted = runtime[q].faulted
                               /\ runtime'[q].binding = runtime[q].binding
                               /\ runtime'[q].code = runtime[q].code
                               /\ runtime'[q].retired = runtime[q].retired
    <3>1. RuntimeOK' /\ runtime'[r] = driven /\ \A q \in Runtimes \ {r} : runtime'[q] = runtime[q]
      BY <2>0, <2>1, <2>2, OneRuntime
    <3> QED BY <2>2, <3>1
  <2> HIDE DEF r
  <2>4. runtime[r].is = "open" => r = live /\ ~IsOpening
    BY <2>0, NoneIsNone DEF IInv, EntryInv, NoneLeftBehind
  <2>5. TypeOK'
    <3>1. pending' \in BOOLEAN
      BY <2>1
    <3> QED BY <1>1, <1>2, <2>3, <3>1 DEF IInv, TypeOK, RuntimeOK, RuntimeState, CallOK
  <2>6. EntryInv'
    <3>1. ~(r > made)
      BY <2>0, <2>1 DEF IInv, EntryInv
    <3>2. \A q \in Runtimes : q > made' => runtime'[q].is = "none" /\ ~runtime'[q].running
      BY <1>1, <2>3, <3>1 DEF IInv, EntryInv
    <3>3. \A q \in Runtimes : runtime'[q].faulted => ~runtime'[q].running
      BY <2>1, <2>3 DEF IInv, EntryInv
    <3>4. live # None => live \in Runtimes
      BY DEF IInv, TypeOK
    <3> QED BY <1>1, <2>3, <3>2, <3>3, <3>4 DEF IInv, EntryInv, NoneLeftBehind, IsOpening
  <2>7. PlaceInv'
    <3>1. live # None => live \in Runtimes
      BY DEF IInv, TypeOK
    <3> QED BY <1>1, <2>3, <3>1 DEF IInv, PlaceInv, LiveIsCurrent, IsOpening
  <2>8. DriverInv'
    <3>1. r = live \/ runtime'[r].late
      BY <2>1, <2>2, <2>3, <2>4
    <3>2. closeNext /\ ~IsOpening /\ live # None => r # live
      BY <1>1
    <3>3. live # None => live \in Runtimes
      BY DEF IInv, TypeOK
    <3> QED BY <1>1, <2>3, <3>1, <3>2, <3>3 DEF IInv, DriverInv, IsOpening
  <2> QED BY <1>2, <2>5, <2>6, <2>7, <2>8 DEF IInv
<1> QED BY <1>3, <1>4 DEF Use

\* Openings: the runtime they build is the live one, and the only one open.
LEMMA OpeningStepInv == ASSUME IInv, OpeningStep PROVE IInv'
<1>1. UNCHANGED <<place, removed, moves, pending, app, apps, closeNext, deletion, awaited, round, ahead>>
  BY DEF OpeningStep, OldClosed, Built, BuildFailed, session, process, deleting
<1>2. CASE OldClosed
  <2>1. /\ opening' = [opening EXCEPT !.step = "building"] /\ opening.step # "none"
        /\ UNCHANGED <<made, runtime, live, call>>
    BY <1>2 DEF OldClosed
  <2>2. OpeningOK' /\ opening'.binding = opening.binding /\ opening'.step # "none"
    BY <2>1, TypeParts DEF IInv, OpeningOK
  <2>3. TypeOK'
    BY <1>1, <2>1, <2>2 DEF IInv, TypeOK, OpeningOK
  <2>4. EntryInv' /\ PlaceInv' /\ DriverInv' /\ CallInv'
    BY <1>1, <2>1, <2>2 DEF IInv, EntryInv, NoneLeftBehind, IsOpening, PlaceInv, LiveIsCurrent,
        DriverInv, CallInv
  <2> QED BY <2>3, <2>4 DEF IInv
<1>3. ASSUME NEW at \in {"got", "over"}, NEW r \in Runtimes \cup {None}, EndOpening(at, r),
             at = "got" => r \in Runtimes
      PROVE  OpeningOK' /\ ~IsOpening' /\ CallOK' /\ CallInv'
  <2>1. OpeningOK' /\ ~IsOpening'
    BY <1>3 DEF EndOpening, NoOpening, OpeningOK, IsOpening
  <2>2. \A c \in Calls : call'[c] = IF call[c].at = "opening"
                                    THEN [call[c] EXCEPT !.at = at, !.on = r] ELSE call[c]
    BY <1>3 DEF EndOpening
  <2>3. \A c \in Calls : call[c] \in [at : {"new", "queued", "opening", "got", "over"},
                                      on : Runtimes \cup {None}, again : BOOLEAN]
    BY TypeParts DEF IInv, CallOK
  <2>4. CallOK'
    BY <1>3, <2>3 DEF EndOpening, CallOK
  <2>5. CallInv'
    BY <1>3, <2>2, <2>3 DEF IInv, CallInv
  <2> QED BY <2>1, <2>4, <2>5
<1>4. CASE Built
  <2> DEFINE new == made + 1
             built == [Unbuilt EXCEPT !.is = "open", !.binding = opening.binding, !.code = opening.code,
                                      !.retired = app \notin {None, opening.code}]
  <2>1. /\ opening.step = "building" /\ made' = new /\ live' = new /\ EndOpening("got", new)
        /\ runtime' = [runtime EXCEPT ![new] = built]
    BY <1>4 DEF Built
  <2>2. IsOpening /\ live = None /\ made \in Nat /\ new \in Runtimes /\ made' \in 0..MaxRuntimes /\ new # None
    BY <2>1, NoneIsNone DEF IInv, TypeOK, EntryInv, IsOpening, Runtimes
  <2>3. /\ built \in [is : {"none", "open", "closing", "closed"},
                      binding : Sources \cup {None}, code : Apps \cup {None},
                      running : BOOLEAN, late : BOOLEAN, retired : BOOLEAN, faulted : BOOLEAN]
        /\ built.is = "open" /\ built.binding = opening.binding /\ built.code = opening.code
        /\ built.running = FALSE /\ built.faulted = FALSE
        /\ built.retired = (app \notin {None, opening.code})
    BY TypeParts DEF IInv, OpeningOK, Unbuilt
  <2>4. OpeningOK' /\ ~IsOpening' /\ CallOK' /\ CallInv'
    BY <1>3, <2>1, <2>2
  <2> HIDE DEF built
  <2>5. /\ RuntimeOK' /\ runtime'[new] = built
        /\ \A r \in Runtimes \ {new} : runtime'[r] = runtime[r]
    BY <2>1, <2>2, <2>3, TypeParts DEF IInv, RuntimeOK, RuntimeState
  <2>6. TypeOK'
    BY <1>1, <2>1, <2>2, <2>4, <2>5 DEF IInv, TypeOK, RuntimeOK, RuntimeState, OpeningOK, CallOK
  <2>7. EntryInv'
    <3>1. \A r \in Runtimes \ {new} : runtime[r].is # "open" /\ (r > new => r > made)
      BY <2>2, NoneIsNone DEF IInv, EntryInv, NoneLeftBehind, Runtimes
    <3>2. \A r \in Runtimes : r > made' => r # new
      BY <2>1, <2>2 DEF Runtimes
    <3> QED BY <2>1, <2>3, <2>4, <2>5, <3>1, <3>2 DEF IInv, EntryInv, NoneLeftBehind
  <2>8. PlaceInv'
    BY <1>1, <2>1, <2>2, <2>3, <2>4, <2>5 DEF IInv, PlaceInv, LiveIsCurrent
  <2>9. DriverInv'
    BY <1>1, <2>1, <2>2, <2>3, <2>5, NoneIsNone DEF IInv, DriverInv
  <2> QED BY <2>4, <2>6, <2>7, <2>8, <2>9 DEF IInv
<1>5. CASE BuildFailed
  <2>1. /\ opening.step = "building" /\ EndOpening("over", None)
        /\ UNCHANGED <<made, runtime, live>>
    BY <1>5 DEF BuildFailed
  <2>2. OpeningOK' /\ ~IsOpening' /\ CallOK' /\ CallInv'
    BY <1>3, <2>1
  <2>3. IsOpening /\ live = None
    BY <2>1 DEF IInv, EntryInv, IsOpening
  <2>4. TypeOK'
    BY <1>1, <2>1, <2>2 DEF IInv, TypeOK, OpeningOK, CallOK
  <2>5. EntryInv' /\ PlaceInv' /\ DriverInv'
    BY <1>1, <2>1, <2>2, <2>3 DEF IInv, EntryInv, NoneLeftBehind, PlaceInv, LiveIsCurrent, DriverInv
  <2> QED BY <2>2, <2>4, <2>5 DEF IInv
<1> QED BY <1>2, <1>4, <1>5 DEF OpeningStep

\* A run or a runtime ends, a storage call fails, an app stops.
LEMMA RuntimeStepInv ==
    ASSUME IInv, NEW r \in Runtimes, RuntimeStep(r) \/ Fault(r)
    PROVE  IInv'
<1>1. UNCHANGED <<place, removed, moves, app, apps, made, live, opening, call, closeNext, deletion, awaited, round, ahead>>
  BY DEF RuntimeStep, RunEnd, Closed, Fault, session, process, deleting
<1>2. /\ \/ runtime' = [runtime EXCEPT ![r].running = FALSE]
         \/ runtime[r].is = "closing" /\ runtime' = [runtime EXCEPT ![r] = [Unbuilt EXCEPT !.is = "closed"]]
         \/ runtime[r].is = "open" /\ runtime' = [runtime EXCEPT ![r].faulted = TRUE, ![r].running = FALSE]
      /\ pending' \in BOOLEAN
  BY DEF RuntimeStep, RunEnd, Closed, Fault, IInv, TypeOK
<1>3. /\ RuntimeOK' /\ \A q \in Runtimes \ {r} : runtime'[q] = runtime[q]
      /\ \/ /\ runtime'[r].binding = runtime[r].binding /\ runtime'[r].code = runtime[r].code
            /\ runtime'[r].retired = runtime[r].retired /\ runtime'[r].is = runtime[r].is
         \/ runtime[r].is = "closing" /\ runtime'[r].is = "closed"
      /\ runtime'[r].running => runtime[r].running /\ runtime'[r].late = runtime[r].late
      /\ runtime'[r].faulted => runtime[r].faulted \/ ~runtime'[r].running
  <2>1. CASE runtime' = [runtime EXCEPT ![r].running = FALSE]
    <3> DEFINE ended == [runtime[r] EXCEPT !.running = FALSE]
    <3>1. RuntimeOK /\ runtime[r] \in RuntimeState
      BY TypeParts DEF IInv, RuntimeOK
    <3>2. /\ ended \in RuntimeState
          /\ ended.binding = runtime[r].binding /\ ended.code = runtime[r].code
          /\ ended.retired = runtime[r].retired /\ ended.is = runtime[r].is /\ ended.running = FALSE
      BY <3>1 DEF RuntimeState
    <3>3. runtime' = [runtime EXCEPT ![r] = ended]
      BY <2>1, <3>1 DEF RuntimeOK
    <3> HIDE DEF ended
    <3>4. RuntimeOK' /\ runtime'[r] = ended /\ \A q \in Runtimes \ {r} : runtime'[q] = runtime[q]
      BY <3>1, <3>2, <3>3, OneRuntime
    <3> QED BY <3>2, <3>4
  <2>2. CASE runtime[r].is = "closing" /\ runtime' = [runtime EXCEPT ![r] = [Unbuilt EXCEPT !.is = "closed"]]
    <3> DEFINE shut == [Unbuilt EXCEPT !.is = "closed"]
    <3>1. shut \in RuntimeState /\ shut.is = "closed" /\ shut.running = FALSE
      BY DEF Unbuilt, RuntimeState
    <3> HIDE DEF shut
    <3>2. RuntimeOK' /\ runtime'[r] = shut /\ \A q \in Runtimes \ {r} : runtime'[q] = runtime[q]
      BY <2>2, <3>1, OneRuntime, TypeParts DEF IInv, shut
    <3> QED BY <2>2, <3>1, <3>2
  <2>3. CASE runtime[r].is = "open" /\ runtime' = [runtime EXCEPT ![r].faulted = TRUE, ![r].running = FALSE]
    <3> DEFINE failed == [runtime[r] EXCEPT !.faulted = TRUE, !.running = FALSE]
    <3>1. RuntimeOK /\ runtime[r] \in RuntimeState
      BY TypeParts DEF IInv, RuntimeOK
    <3>2. /\ failed \in RuntimeState
          /\ failed.binding = runtime[r].binding /\ failed.code = runtime[r].code
          /\ failed.retired = runtime[r].retired /\ failed.is = runtime[r].is /\ failed.running = FALSE
      BY <3>1 DEF RuntimeState
    <3>3. runtime' = [runtime EXCEPT ![r] = failed]
      BY <2>3, <3>1 DEF RuntimeOK
    <3> HIDE DEF failed
    <3>4. RuntimeOK' /\ runtime'[r] = failed /\ \A q \in Runtimes \ {r} : runtime'[q] = runtime[q]
      BY <3>1, <3>2, <3>3, OneRuntime
    <3> QED BY <3>2, <3>4
  <2> QED BY <1>2, <2>1, <2>2, <2>3
<1>4. TypeOK'
  BY <1>1, <1>2, <1>3 DEF IInv, TypeOK, RuntimeOK, RuntimeState
<1>5. EntryInv'
  BY <1>1, <1>3, TypeParts DEF IInv, EntryInv, NoneLeftBehind, IsOpening
<1>6. PlaceInv'
  <2>1. live # None => live \in Runtimes /\ runtime[live].is = "open"
    BY DEF IInv, TypeOK, EntryInv
  <2> QED BY <1>1, <1>3, <2>1 DEF IInv, PlaceInv, LiveIsCurrent, IsOpening
<1>7. DriverInv' /\ CallInv'
  BY <1>1, <1>3, TypeParts DEF IInv, DriverInv, CallInv, IsOpening
<1> QED BY <1>4, <1>5, <1>6, <1>7 DEF IInv

LEMMA AppStoppedInv == ASSUME IInv, AppStopped PROVE IInv'
<1>1. /\ app' = None
      /\ UNCHANGED <<place, removed, moves, pending, apps, made, runtime, live, opening, call, closeNext,
                     deletion, awaited, round, ahead>>
  BY DEF AppStopped, session, entry, deleting
<1>2. TypeOK'
  BY <1>1 DEF IInv, TypeOK
<1>3. EntryInv' /\ PlaceInv' /\ DriverInv' /\ CallInv'
  BY <1>1 DEF IInv, EntryInv, NoneLeftBehind, IsOpening, PlaceInv, LiveIsCurrent, DriverInv, CallInv
<1> QED BY <1>2, <1>3 DEF IInv
-----------------------------------------------------------------------------
LEMMA Inductive == IInv /\ [Next]_vars => IInv'
<1> SUFFICES ASSUME IInv, [Next]_vars PROVE IInv'
  OBVIOUS
<1>1. ASSUME NEW c \in Calls, Submit(c) \/ CallStep(c) PROVE IInv'
  BY <1>1, CallStepInv, UseInv DEF CallStep
<1>2. CASE OpeningStep
  BY <1>2, OpeningStepInv
<1>3. CASE CloseOpened \/ Sweep \/ RegisterApp
  BY <1>3, SweepInv
<1>4. CASE AppStopped
  BY <1>4, AppStoppedInv
<1>5. ASSUME NEW r \in Runtimes, RuntimeStep(r) \/ Fault(r) PROVE IInv'
  BY <1>5, RuntimeStepInv
<1>6. ASSUME NEW s \in Sources, Move(s) \/ Remove(s) PROVE IInv'
  BY <1>6, MoveInv
<1>7. CASE Delete \/ Drained \/ DeletionCloses \/ DeletionClosed
  BY <1>7, DeletionInv
<1>8. CASE UNCHANGED vars
  <2>1. UNCHANGED <<place, removed, moves, pending, app, apps, made, runtime, live, opening, call,
                    closeNext, deletion, awaited, round, ahead>>
    BY <1>8 DEF vars, session, process, entry, deleting
  <2>2. TypeOK'
    BY <2>1 DEF IInv, TypeOK
  <2>3. EntryInv' /\ PlaceInv' /\ DriverInv' /\ CallInv'
    BY <2>1 DEF IInv, EntryInv, NoneLeftBehind, IsOpening, PlaceInv, LiveIsCurrent, DriverInv, CallInv
  <2> QED BY <2>2, <2>3 DEF IInv
<1> QED BY <1>1, <1>2, <1>3, <1>4, <1>5, <1>6, <1>7, <1>8 DEF Next

LEMMA InvariantHolds == Spec => []IInv
BY InitInv, Inductive, PTL DEF Spec

\* The state has its type.
THEOREM TypeCorrect == Spec => []TypeOK
<1>1. IInv => TypeOK
  BY DEF IInv
<1> QED BY <1>1, InvariantHolds, PTL

\* A runtime that was not closed is the session's entry in the live map.
THEOREM NoneIsLeftBehind == Spec => []NoneLeftBehind
<1>1. IInv => NoneLeftBehind
  BY DEF IInv, EntryInv
<1> QED BY <1>1, InvariantHolds, PTL

\* The live runtime works where the session is and runs the current app's code, or what
\* makes it close is known; a session is deleted with nothing of it open, unless every
\* round found something.
THEOREM LiveStaysCurrent == Spec => []LiveIsCurrent
<1>1. IInv => LiveIsCurrent
  BY DEF IInv, PlaceInv
<1> QED BY <1>1, InvariantHolds, PTL

\* Two runtimes of a session drive runs at once only when its node was removed, it is being
\* deleted, or one is being closed and was given its call before.
THEOREM DrivesOne == Spec => []OneDriver
<1>1. IInv => OneDriver
  BY DEF IInv, DriverInv, OneDriver
<1> QED BY <1>1, InvariantHolds, PTL

\* A runtime being closed is not opened again, and none starts a run once it is closed.
LEMMA RuntimesOnlyClose ==
    ASSUME IInv, [Next]_vars, NEW r \in Runtimes
    PROVE  /\ runtime[r].is \in {"closing", "closed"} => runtime'[r].is \in {"closing", "closed"}
           /\ runtime'[r].running => runtime[r].running \/ runtime[r].is \in {"open", "closing"}
<1>1. RuntimeOK /\ live \in Runtimes \cup {None} /\ made \in 0..MaxRuntimes
  BY TypeParts DEF IInv
<1>2. CASE UNCHANGED runtime
  BY <1>2
<1>3. CASE live # None /\ CloseLive
  <2>1. live \in Runtimes
    BY <1>1, <1>3
  <2> QED BY <1>1, <1>3, <2>1, CloseLiveFacts
<1>4. CASE Built
  <2>1. made + 1 \in Runtimes /\ made + 1 > made
    BY <1>1, <1>4 DEF Built, IInv, EntryInv, IsOpening, Runtimes
  <2>2. runtime[made + 1].is = "none"
    BY <2>1 DEF IInv, EntryInv
  <2>3. r # made + 1 => runtime'[r] = runtime[r]
    BY <1>1, <1>4 DEF Built, RuntimeOK
  <2>4. runtime'[made + 1].running = FALSE
    BY <1>1, <1>4, <2>1, UnbuiltFacts DEF Built, RuntimeOK, Unbuilt
  <2> QED BY <2>2, <2>3, <2>4
<1>5. ASSUME NEW c \in Calls, Use(c), runtime' # runtime
      PROVE  runtime[call[c].on].is \in {"open", "closing"}
  BY <1>5 DEF Use, Take, Works
<1>6. ASSUME NEW c \in Calls, Use(c), runtime' # runtime
      PROVE  \E late \in BOOLEAN :
                 runtime' = [runtime EXCEPT ![call[c].on].running = TRUE, ![call[c].on].late = late]
  BY <1>6 DEF Use, Take
<1>7. ASSUME NEW q \in Runtimes, runtime[q].is \in {"open", "closing"}, NEW late \in BOOLEAN,
             runtime' = [runtime EXCEPT ![q].running = TRUE, ![q].late = late]
      PROVE  /\ runtime'[r].is = runtime[r].is
             /\ runtime'[r].running => runtime[r].running \/ runtime[r].is \in {"open", "closing"}
  BY <1>1, <1>7 DEF RuntimeOK, RuntimeState
<1>8. ASSUME NEW c \in Calls, Use(c)
      PROVE  /\ runtime'[r].is = runtime[r].is
             /\ runtime'[r].running => runtime[r].running \/ runtime[r].is \in {"open", "closing"}
  <2>1. call[c].on \in Runtimes
    BY <1>8 DEF Use, IInv, CallInv
  <2> QED BY <1>5, <1>6, <1>7, <1>8, <2>1
<1>9. ASSUME NEW q \in Runtimes,
             \/ runtime' = [runtime EXCEPT ![q].running = FALSE]
             \/ runtime' = [runtime EXCEPT ![q].faulted = TRUE, ![q].running = FALSE]
             \/ runtime' = [runtime EXCEPT ![q].retired = TRUE]
      PROVE  runtime'[r].is = runtime[r].is /\ (runtime'[r].running => runtime[r].running)
  BY <1>1, <1>9 DEF RuntimeOK, RuntimeState
<1>10. ASSUME NEW q \in Runtimes, runtime' = [runtime EXCEPT ![q] = [Unbuilt EXCEPT !.is = "closed"]]
       PROVE  /\ runtime'[r].is \in {runtime[r].is, "closed"}
              /\ runtime'[r].running => runtime[r].running
  BY <1>1, <1>10 DEF RuntimeOK, RuntimeState, Unbuilt
<1>11. ASSUME NEW c \in Calls, Submit(c) \/ Call(c)
       PROVE  UNCHANGED runtime \/ (live # None /\ CloseLive)
  BY <1>11 DEF Submit, Call, Open, BeginOpening, entry
<1>12. CASE CloseOpened \/ Sweep \/ AppStopped \/ OldClosed \/ BuildFailed
            \/ Delete \/ Drained \/ DeletionCloses \/ DeletionClosed
  <2>1. UNCHANGED runtime \/ (live # None /\ CloseLive)
    BY <1>12 DEF CloseOpened, Sweep, AppStopped, OldClosed, BuildFailed, Delete, Drained,
                 DeletionCloses, DeletionClosed, entry
  <2> QED BY <1>2, <1>3, <2>1
<1>13. CASE RegisterApp
  <2>1. \/ UNCHANGED runtime \/ (live # None /\ CloseLive)
        \/ live \in Runtimes /\ runtime' = [runtime EXCEPT ![live].retired = TRUE]
    BY <1>1, <1>13 DEF RegisterApp
  <2> QED BY <1>2, <1>3, <1>9, <2>1
<1>14. ASSUME NEW s \in Sources, Move(s) \/ Remove(s)
       PROVE  UNCHANGED runtime \/ (live # None /\ CloseLive)
  BY <1>14 DEF Move, Remove, CloseSessionRuntime
<1>15. ASSUME NEW q \in Runtimes, RunEnd(q) \/ Fault(q) \/ Closed(q)
       PROVE  \/ runtime' = [runtime EXCEPT ![q].running = FALSE]
              \/ runtime' = [runtime EXCEPT ![q].faulted = TRUE, ![q].running = FALSE]
              \/ runtime' = [runtime EXCEPT ![q] = [Unbuilt EXCEPT !.is = "closed"]]
  BY <1>15 DEF RunEnd, Fault, Closed
<1>16. CASE UNCHANGED vars
  BY <1>2, <1>16 DEF vars, entry
<1>17. ASSUME NEW c \in Calls, Submit(c) \/ CallStep(c)
       PROVE  /\ runtime[r].is \in {"closing", "closed"} => runtime'[r].is \in {"closing", "closed"}
              /\ runtime'[r].running => runtime[r].running \/ runtime[r].is \in {"open", "closing"}
  BY <1>2, <1>3, <1>8, <1>11, <1>17 DEF CallStep
<1>18. ASSUME NEW q \in Runtimes, RuntimeStep(q) \/ Fault(q)
       PROVE  /\ runtime[r].is \in {"closing", "closed"} => runtime'[r].is \in {"closing", "closed"}
              /\ runtime'[r].running => runtime[r].running \/ runtime[r].is \in {"open", "closing"}
  BY <1>9, <1>10, <1>15, <1>18 DEF RuntimeStep
<1> QED BY <1>2, <1>3, <1>4, <1>12, <1>13, <1>14, <1>16, <1>17, <1>18 DEF Next, OpeningStep

\* What is waited for is under way: an opening waits for a runtime that is being closed, or
\* was, and a call for an opening that has not ended.
WaitsForWhatComes ==
    /\ opening.step = "closing" => /\ opening.old \in Runtimes
                                   /\ runtime[opening.old].is \in {"closing", "closed"}
    /\ \A c \in Calls : call[c].at = "opening" => IsOpening

LEMMA WaitsStep == ASSUME IInv, WaitsForWhatComes, [Next]_vars PROVE WaitsForWhatComes'
<1>1. RuntimeOK /\ CallOK /\ live \in Runtimes \cup {None}
  BY TypeParts DEF IInv
<1>2. ASSUME UNCHANGED opening, \A c \in Calls : call'[c].at = "opening" => call[c].at = "opening" \/ IsOpening
      PROVE  WaitsForWhatComes'
  BY <1>2, RuntimesOnlyClose DEF WaitsForWhatComes, IsOpening
<1>3. ASSUME NEW c \in Calls, NEW code, BeginOpening(c, code) PROVE WaitsForWhatComes'
  <2>1. opening' = [step |-> IF live = None THEN "building" ELSE "closing",
                    old |-> live, binding |-> place, code |-> code]
    BY <1>3 DEF BeginOpening
  <2>2. opening'.step # "none"
    BY <2>1
  <2>3. CASE live = None
    BY <2>1, <2>3 DEF WaitsForWhatComes, IsOpening
  <2>4. CASE live # None
    <3>1. live \in Runtimes /\ runtime'[live].is = "closing"
      BY <1>1, <1>3, <2>4, CloseLiveFacts DEF BeginOpening
    <3>2. opening'.old = live
      BY <2>1
    <3> QED BY <2>2, <3>1, <3>2 DEF WaitsForWhatComes, IsOpening
  <2> QED BY <2>3, <2>4
<1>4. ASSUME NEW c \in Calls, NEW at \in {"queued", "got"}, NEW r \in Runtimes \cup {None},
             At(c, at, r) \/ Over(c), UNCHANGED opening
      PROVE  WaitsForWhatComes'
  <2>1. AtFacts(c, at, r) \/ AtFacts(c, "over", None)
    BY <1>1, <1>4, CallFacts
  <2> QED BY <1>2, <1>4, <2>1 DEF AtFacts
<1>5. ASSUME NEW c \in Calls, Submit(c) PROVE WaitsForWhatComes'
  BY <1>4, <1>5 DEF Submit, entry
<1>6. ASSUME NEW c \in Calls, Call(c) PROVE WaitsForWhatComes'
  <2>1. PICK code \in 1..apps : Open(c, code)
    BY <1>6 DEF Call
  <2>2. CASE UNCHANGED opening /\ (Over(c) \/ (live # None /\ At(c, "got", live)))
    BY <1>1, <1>4, <2>2
  <2>3. CASE IsOpening /\ UNCHANGED opening
    BY <1>2, <2>3
  <2>4. CASE BeginOpening(c, code)
    BY <1>3, <2>4
  <2> QED BY <2>1, <2>2, <2>3, <2>4 DEF Open, Usable, entry
<1>7. ASSUME NEW c \in Calls, Use(c) PROVE WaitsForWhatComes'
  <2>1. CASE Over(c)
    BY <1>4, <1>7, <2>1 DEF Use
  <2>2. CASE call' = [call EXCEPT ![c] = [at |-> "queued", on |-> None, again |-> TRUE]]
    <3>1. \A d \in Calls : call'[d].at = "opening" => call[d].at = "opening"
      BY <1>1, <2>2 DEF CallOK
    <3> QED BY <1>2, <1>7, <3>1 DEF Use
  <2> QED BY <1>7, <2>1, <2>2 DEF Use, Refused
<1>8. CASE OldClosed
  <2>1. opening'.step = "building" /\ UNCHANGED call
    BY <1>8, TypeParts DEF OldClosed, IInv, OpeningOK
  <2> QED BY <2>1 DEF WaitsForWhatComes, IsOpening
<1>9. ASSUME opening' = NoOpening, NEW at \in {"got", "over"}, NEW r \in Runtimes \cup {None},
             \A c \in Calls : call'[c] = IF call[c].at = "opening"
                                         THEN [call[c] EXCEPT !.at = at, !.on = r] ELSE call[c]
      PROVE  WaitsForWhatComes'
  <2>1. opening'.step = "none"
    BY <1>9 DEF NoOpening
  <2>2. ASSUME NEW c \in Calls PROVE call'[c].at # "opening"
    <3>1. call[c] \in [at : {"new", "queued", "opening", "got", "over"},
                       on : Runtimes \cup {None}, again : BOOLEAN]
      BY <1>1 DEF CallOK
    <3> QED BY <1>9, <3>1
  <2> QED BY <2>1, <2>2 DEF WaitsForWhatComes
<1>10. CASE UNCHANGED <<opening, call>>
  BY <1>2, <1>10
<1>11. ASSUME NEW c \in Calls, Submit(c) \/ CallStep(c) PROVE WaitsForWhatComes'
  BY <1>5, <1>6, <1>7, <1>11 DEF CallStep
<1>12. CASE OpeningStep
  <2>1. CASE Built
    <3>1. made + 1 \in Runtimes
      BY <2>1 DEF Built, IInv, TypeOK, EntryInv, IsOpening, Runtimes
    <3> QED BY <1>9, <2>1, <3>1 DEF Built, EndOpening
  <2>2. CASE BuildFailed
    BY <1>9, <2>2 DEF BuildFailed, EndOpening
  <2> QED BY <1>8, <1>12, <2>1, <2>2 DEF OpeningStep
<1>13. CASE CloseOpened \/ Sweep \/ AppStopped \/ RegisterApp
            \/ Delete \/ Drained \/ DeletionCloses \/ DeletionClosed \/ UNCHANGED vars
  BY <1>10, <1>13 DEF CloseOpened, Sweep, AppStopped, RegisterApp, Delete, Drained, DeletionCloses,
                      DeletionClosed, entry, vars
<1>14. ASSUME NEW r \in Runtimes, RuntimeStep(r) \/ Fault(r) PROVE WaitsForWhatComes'
  BY <1>10, <1>14 DEF RuntimeStep, RunEnd, Closed, Fault
<1>15. ASSUME NEW s \in Sources, Move(s) \/ Remove(s) PROVE WaitsForWhatComes'
  BY <1>10, <1>15 DEF Move, Remove
<1> QED BY <1>11, <1>12, <1>13, <1>14, <1>15 DEF Next

\* An opening waits for no runtime but one that is being closed, and a call for no opening
\* that is over, whoever took what out of the maps (openSessionRuntime, closeSessionRuntime).
THEOREM NobodyWaitsInVain == Spec => []WaitsForWhatComes
<1>1. Init => WaitsForWhatComes
  BY DEF Init, WaitsForWhatComes, NoOpening, IsOpening
<1>2. IInv /\ WaitsForWhatComes /\ [Next]_vars => WaitsForWhatComes'
  BY WaitsStep
<1> QED BY <1>1, <1>2, InvariantHolds, PTL DEF Spec

\* The session's row is deleted and nothing of it is live or being opened.
Gone == place = None /\ live = None /\ ~IsOpening

\* Nor being closed.
AllClosed == \A r \in Runtimes : runtime[r].is # "closing"

\* A run that starts is a late one, of a runtime that was being closed before.
OnlyLateRunsStart ==
    \A r \in Runtimes : runtime'[r].running => runtime[r].running \/ runtime[r].is = "closing"

RunsStop == \A r \in Runtimes : runtime'[r].running => runtime[r].running

LEMMA GoneStep == ASSUME IInv, Gone, [Next]_vars PROVE Gone'
<1>1. ~Runnable
  BY DEF Gone, Runnable
<1>2. CASE UNCHANGED <<place, live, opening>>
  BY <1>2 DEF Gone, IsOpening
<1>3. ASSUME NEW c \in Calls, Submit(c) \/ CallStep(c) PROVE UNCHANGED <<place, live, opening>>
  BY <1>1, <1>3 DEF Submit, CallStep, Call, Open, Use, session, entry
<1>4. ~OpeningStep
  BY DEF OpeningStep, OldClosed, Built, BuildFailed, Gone, IsOpening
<1>5. ASSUME CloseOpened \/ Sweep \/ AppStopped \/ RegisterApp \/ UNCHANGED vars
      PROVE  UNCHANGED <<place, live, opening>>
  BY <1>5 DEF CloseOpened, Sweep, AppStopped, RegisterApp, Gone, session, entry, vars
<1>6. ASSUME NEW r \in Runtimes, RuntimeStep(r) \/ Fault(r) PROVE UNCHANGED <<place, live, opening>>
  BY <1>6 DEF RuntimeStep, RunEnd, Closed, Fault, session
<1>7. ASSUME NEW s \in Sources, Move(s) \/ Remove(s) PROVE UNCHANGED <<place, live, opening>>
  BY <1>7 DEF Move, Remove, CloseSessionRuntime, Gone
<1>8. CASE Delete \/ Drained \/ DeletionCloses \/ DeletionClosed
  <2>1. place' = None /\ UNCHANGED <<live, opening>>
    BY <1>8 DEF Delete, Drained, DeletionCloses, DeletionClosed, LookAgain, Gone, session, entry
  <2> QED BY <2>1 DEF Gone, IsOpening
<1> QED BY <1>2, <1>3, <1>4, <1>5, <1>6, <1>7, <1>8 DEF Next

\* Nothing of a deleted session is there to begin to close.
LEMMA GoneCloses ==
    ASSUME IInv, Gone, [Next]_vars, NEW r \in Runtimes, runtime[r].is # "closing"
    PROVE  runtime'[r].is # "closing"
<1>1. RuntimeOK /\ live = None /\ ~Runnable /\ ~OpeningStep
  BY TypeParts DEF IInv, Gone, Runnable, OpeningStep, OldClosed, Built, BuildFailed, IsOpening
<1>2. CASE UNCHANGED runtime
  BY <1>2
<1>3. ASSUME NEW c \in Calls, Use(c), runtime' # runtime PROVE runtime'[r].is # "closing"
  <2>1. PICK q \in Runtimes : q = call[c].on
    BY <1>3 DEF Use, IInv, CallInv
  <2>2. \E late \in BOOLEAN : runtime' = [runtime EXCEPT ![q].running = TRUE, ![q].late = late]
    BY <1>3, <2>1 DEF Use, Take
  <2> QED BY <1>1, <2>1, <2>2 DEF RuntimeOK, RuntimeState
<1>4. ASSUME NEW c \in Calls, Submit(c) \/ Call(c) PROVE UNCHANGED runtime
  BY <1>1, <1>4 DEF Submit, Call, Open, entry
<1>5. ASSUME NEW q \in Runtimes, RunEnd(q) \/ Fault(q) \/ Closed(q) PROVE runtime'[r].is # "closing"
  BY <1>1, <1>5 DEF RunEnd, Fault, Closed, RuntimeOK, RuntimeState, Unbuilt
<1>6. ASSUME NEW s \in Sources, Move(s) \/ Remove(s) PROVE UNCHANGED runtime
  BY <1>1, <1>6 DEF Move, Remove, CloseSessionRuntime
<1>7. ASSUME \/ CloseOpened \/ Sweep \/ AppStopped \/ RegisterApp \/ Delete \/ Drained \/ DeletionCloses
             \/ DeletionClosed \/ UNCHANGED vars
      PROVE  UNCHANGED runtime
  BY <1>1, <1>7 DEF CloseOpened, Sweep, AppStopped, RegisterApp, Delete, Drained, DeletionCloses,
     DeletionClosed, entry, vars
<1> QED BY <1>1, <1>2, <1>3, <1>4, <1>5, <1>6, <1>7 DEF Next, CallStep, RuntimeStep

\* A deleted session that nothing is live of is never opened again, whatever call, move,
\* reload or sweep comes; what a runtime still being closed was given before may start a
\* run in it, and once all are closed none starts (openSessionRuntime, Tasks.delete).
THEOREM DeletedStaysGone ==
    Spec => [][Gone => /\ Gone' /\ OnlyLateRunsStart
                       /\ AllClosed => AllClosed' /\ RunsStop]_vars
<1>1. IInv /\ [Next]_vars => (Gone => Gone' /\ OnlyLateRunsStart /\ (AllClosed => AllClosed' /\ RunsStop))
  <2> SUFFICES ASSUME IInv, [Next]_vars, Gone
               PROVE  Gone' /\ OnlyLateRunsStart /\ (AllClosed => AllClosed' /\ RunsStop)
    OBVIOUS
  <2>1. \A r \in Runtimes : runtime[r].is # "open"
    BY NoneIsNone DEF IInv, EntryInv, NoneLeftBehind, Gone
  <2>2. OnlyLateRunsStart
    BY <2>1, RuntimesOnlyClose DEF OnlyLateRunsStart
  <2>3. AllClosed => RunsStop
    BY <2>2 DEF OnlyLateRunsStart, AllClosed, RunsStop
  <2>4. AllClosed => AllClosed'
    BY <2>1, GoneCloses DEF AllClosed
  <2> QED BY <2>2, <2>3, <2>4, GoneStep
<1> QED BY <1>1, InvariantHolds, PTL DEF Spec
=============================================================================
