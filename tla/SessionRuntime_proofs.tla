------------------------ MODULE SessionRuntime_proofs ------------------------
(***************************************************************************)
(* The safety of a session's runtime, for any requests, inputs and number  *)
(* of stops.                                                               *)
(***************************************************************************)
EXTENDS SessionRuntime, TLAPS

\* A request past its place in the chain holds the turn.
TurnInv == \A r \in Requests : pc[r] \in {"opening"} \cup Untracked \cup Admission => turn = r

\* Without a harness the runtime remembers nothing and no request is under way in it.
Gone == mode \in {"down", "faulted", "closeFlush"}

GoneInv == Gone => /\ active = {} /\ waiting = 0 /\ trying = 0 /\ begun = {} /\ resuming = FALSE
                   /\ mine = {}
                   /\ \A r \in Requests : pc[r] \notin Untracked \cup Admission

\* The lane holds an input once, queued or in the transcript, or not at all.
CopiesInv == /\ queue \cap entries = {}
             /\ \A i \in Inputs : copies[i] = IF i \in queue \cup entries THEN 1 ELSE 0

\* What a request in turn has looked for and not found is still not there.
FreshInv == \A r \in Requests :
    /\ pc[r] \in {"entries", "admit", "admitSeen", "accept", "steer"} => InputOf[r] \notin queue
    /\ pc[r] \in {"admit", "admitSeen", "accept", "steer"} => InputOf[r] \notin entries

\* What a request in turn has found or committed is there, unless an abort took it.
KeptInv == \A r \in Requests :
    /\ pc[r] \in {"replay", "replaySeen", "redrive", "drive", "inspect", "inspectSeen", "ok"}
    /\ OpOf[r] # "compact"
    => InputOf[r] \in queue \cup entries \cup discarded

\* Only compactions take a compaction's steps.
CompactInv == \A r \in Requests : pc[r] \in {"compact", "acceptCompaction"} => OpOf[r] = "compact"

\* The operation of a submission about to be answered is nobody else's to drive.
AcceptedInv == \A r \in Requests : pc[r] = "drive" =>
    /\ accepted = current /\ current # 0 /\ current # reopened
    /\ current \notin active \cup begun /\ driving # current

\* A replay that drives has found an operation to drive.
RedriveInv == \A r \in Requests : pc[r] \in {"replaySeen", "redrive"} => reopened # 0

\* QueuedHasTaker, in any runtime that works.
TakerInv == Working /\ mine # {} =>
    \/ waiting + trying > 0
    \/ \E r \in Requests : turn = r /\ pc[r] \in {"inspect", "inspectSeen"}

\* NoRunForgotten, in any runtime that works.
ForgottenInv == Working /\ current # 0 =>
    \/ driving = current \/ current = reopened \/ current \in begun
    \/ \E r \in Requests : turn = r /\ pc[r] = "drive" /\ accepted = current

\* What activeOperations says is driven, unless it is over, Pi drives, and what Pi drives is
\* there, but for an unlooked drive.
DrivesInv == /\ current \in active => driving = current
             /\ driving = current /\ current # 0 => current \in active \cup overtaken

IInv == /\ TypeOK /\ TurnInv /\ GoneInv /\ CopiesInv /\ FreshInv /\ KeptInv /\ CompactInv
        /\ AcceptedInv /\ RedriveInv /\ TakerInv /\ ForgottenInv /\ DrivesInv
-----------------------------------------------------------------------------
USE RuntimeAssumption

\* A drive concerns its operation only, and keeps what Pi drives and activeOperations
\* together, whether it found the operation undriven or did not look.
LEMMA DriveKeeps ==
    ASSUME TypeOK, DrivesInv, NEW op \in 1..made, UNCHANGED current,
           DriveUnlooked(op) \/ (DriveLooked(op) /\ op \notin active)
    PROVE  /\ active' \subseteq 1..made /\ driving' \in 0..made /\ overtaken' \subseteq 1..made
           /\ DrivesInv' /\ (driving = current => driving' = current)
           /\ \A c : c # op => (c \in active' <=> c \in active)
           /\ IF op = current THEN driving' = current ELSE driving' = driving
<1>1. CASE op \in active
  <2>1. active' = active \ {op} /\ overtaken' = overtaken \cup {op}
    BY <1>1 DEF DriveUnlooked, Drive
  <2>2. driving' = IF op = current THEN op ELSE driving
    BY <1>1 DEF DriveUnlooked, Drive
  <2> QED BY <1>1, <2>1, <2>2 DEF TypeOK, DrivesInv
<1>2. CASE op \notin active
  <2>1. active' = active \cup {op} \/ (active' = active /\ op = driving)
    BY <1>2 DEF DriveUnlooked, DriveLooked, Drive
  <2>2. driving' = IF op = current THEN op ELSE driving
    BY DEF DriveUnlooked, DriveLooked, Drive
  <2>3. overtaken' = overtaken
    BY <1>2 DEF DriveUnlooked, DriveLooked
  <2> QED BY <1>2, <2>1, <2>2, <2>3 DEF TypeOK, DrivesInv
<1> QED BY <1>1, <1>2

LEMMA InitIInv == Init => IInv
<1> SUFFICES ASSUME Init PROVE IInv
  OBVIOUS
<1>1. TypeOK
  <2>1. aborting \in BOOLEAN /\ resuming \in BOOLEAN
    BY Zenon DEF Init
  <2>2. /\ made \in Nat /\ waiting \in Nat /\ trying \in Nat /\ ends \in Nat /\ stops \in Nat
        /\ current \in 0..made /\ reopened \in 0..made /\ accepted \in 0..made /\ seen \in 0..made
        /\ resumeSeen \in 0..made /\ closeSeen \in 0..made /\ driving \in 0..made
    BY DEF Init
  <2>3. QED
    BY <2>1, <2>2 DEF Init, TypeOK, Modes
<1>2. TurnInv /\ GoneInv /\ CompactInv /\ AcceptedInv /\ RedriveInv /\ DrivesInv
  BY DEF Init, TurnInv, GoneInv, CompactInv, AcceptedInv, RedriveInv, DrivesInv, Untracked, Admission
<1>3. CopiesInv /\ FreshInv /\ KeptInv
  BY DEF Init, CopiesInv, FreshInv, KeptInv
<1>4. TakerInv /\ ForgottenInv
  BY DEF Init, TakerInv, ForgottenInv
<1>5. QED
  BY <1>1, <1>2, <1>3, <1>4 DEF IInv

LEMMA SubmitIInv == ASSUME NEW r \in Requests, IInv, Submit(r) PROVE IInv'
<1>1. TypeOK'
  BY DEF IInv, Submit, lane, drive, starts, subs, phase, resume, TypeOK, Modes, CloseSteps,
     Untracked, Admission, Over
<1>2. TurnInv'
  BY DEF IInv, Submit, lane, drive, starts, subs, phase, resume, TypeOK, TurnInv, Untracked,
     Admission, Over
<1>3. GoneInv'
  BY DEF IInv, Submit, lane, drive, starts, subs, phase, resume, TypeOK, TurnInv, GoneInv, Gone,
     Working, CloseSteps, Untracked, Admission, Over
<1>4. FreshInv'
  BY DEF IInv, Submit, lane, drive, starts, subs, phase, resume, TypeOK, TurnInv, FreshInv,
     CopiesInv, Untracked, Admission, Over
<1>5. KeptInv'
  BY DEF IInv, Submit, lane, drive, starts, subs, phase, resume, TypeOK, TurnInv, KeptInv,
     CompactInv, Untracked, Admission, Over
<1>6. CompactInv'
  BY DEF IInv, Submit, lane, drive, starts, subs, phase, resume, TypeOK, CompactInv, Over
<1>7. AcceptedInv'
  BY DEF IInv, Submit, lane, drive, starts, subs, phase, resume, TypeOK, TurnInv, AcceptedInv,
     GoneInv, Working, Gone, Modes, CloseSteps, Untracked, Admission, Over
<1>8. RedriveInv'
  BY DEF IInv, Submit, lane, drive, starts, subs, phase, resume, TypeOK, TurnInv, RedriveInv,
     GoneInv, Working, Gone, Modes, CloseSteps, Untracked, Admission, Over
<1>9. TakerInv'
  BY DEF IInv, Submit, lane, drive, starts, subs, phase, resume, TypeOK, TurnInv, TakerInv,
     GoneInv, Working, Gone, Modes, CloseSteps, Untracked, Admission, Over
<1>10. ForgottenInv'
  BY DEF IInv, Submit, lane, drive, starts, subs, phase, resume, TypeOK, TurnInv, ForgottenInv,
     AcceptedInv, GoneInv, Working, Gone, Modes, CloseSteps, Untracked, Admission, Over
<1>11. CopiesInv' /\ DrivesInv'
  BY DEF IInv, Submit, lane, drive, starts, subs, phase, resume, CopiesInv, DrivesInv
<1>12. QED
  BY <1>1, <1>2, <1>3, <1>4, <1>5, <1>6, <1>7, <1>8, <1>9, <1>10, <1>11 DEF IInv

LEMMA TakeIInv == ASSUME NEW r \in Requests, IInv, Take(r) PROVE IInv'
<1>1. TypeOK'
  BY DEF IInv, Take, lane, drive, starts, subs, phase, resume, TypeOK, Modes, CloseSteps,
     Untracked, Admission, Over
<1>2. TurnInv'
  BY DEF IInv, Take, lane, drive, starts, subs, phase, resume, TypeOK, TurnInv, Untracked,
     Admission, Over
<1>3. GoneInv'
  BY DEF IInv, Take, lane, drive, starts, subs, phase, resume, TypeOK, TurnInv, GoneInv, Gone,
     Working, CloseSteps, Untracked, Admission, Over
<1>4. FreshInv'
  BY DEF IInv, Take, lane, drive, starts, subs, phase, resume, TypeOK, TurnInv, FreshInv,
     CopiesInv, Untracked, Admission, Over
<1>5. KeptInv'
  BY DEF IInv, Take, lane, drive, starts, subs, phase, resume, TypeOK, TurnInv, KeptInv,
     CompactInv, Untracked, Admission, Over
<1>6. CompactInv'
  BY DEF IInv, Take, lane, drive, starts, subs, phase, resume, TypeOK, CompactInv, Over
<1>7. AcceptedInv'
  BY DEF IInv, Take, lane, drive, starts, subs, phase, resume, TypeOK, TurnInv, AcceptedInv,
     GoneInv, Working, Gone, Modes, CloseSteps, Untracked, Admission, Over
<1>8. RedriveInv'
  BY DEF IInv, Take, lane, drive, starts, subs, phase, resume, TypeOK, TurnInv, RedriveInv,
     GoneInv, Working, Gone, Modes, CloseSteps, Untracked, Admission, Over
<1>9. TakerInv'
  BY DEF IInv, Take, lane, drive, starts, subs, phase, resume, TypeOK, TurnInv, TakerInv,
     GoneInv, Working, Gone, Modes, CloseSteps, Untracked, Admission, Over
<1>10. ForgottenInv'
  BY DEF IInv, Take, lane, drive, starts, subs, phase, resume, TypeOK, TurnInv, ForgottenInv,
     AcceptedInv, GoneInv, Working, Gone, Modes, CloseSteps, Untracked, Admission, Over
<1>11. CopiesInv' /\ DrivesInv'
  BY DEF IInv, Take, lane, drive, starts, subs, phase, resume, CopiesInv, DrivesInv
<1>12. QED
  BY <1>1, <1>2, <1>3, <1>4, <1>5, <1>6, <1>7, <1>8, <1>9, <1>10, <1>11 DEF IInv

LEMMA ObtainIInv == ASSUME NEW r \in Requests, IInv, Obtain(r) PROVE IInv'
<1>1. TypeOK'
  BY DEF IInv, Obtain, Go, Answer, lane, drive, starts, subs, phase, resume, TypeOK, Modes,
     CloseSteps, Untracked, Admission, Over
<1>2. TurnInv'
  BY DEF IInv, Obtain, Go, Answer, lane, drive, starts, subs, phase, resume, TypeOK, TurnInv,
     Untracked, Admission, Over
<1>3. GoneInv'
  BY DEF IInv, Obtain, Go, Answer, lane, drive, starts, subs, phase, resume, TypeOK, TurnInv,
     GoneInv, Gone, Working, CloseSteps, Untracked, Admission, Over
<1>4. FreshInv'
  BY DEF IInv, Obtain, Go, Answer, lane, drive, starts, subs, phase, resume, TypeOK, TurnInv,
     FreshInv, CopiesInv, Untracked, Admission, Over
<1>5. KeptInv'
  BY DEF IInv, Obtain, Go, Answer, lane, drive, starts, subs, phase, resume, TypeOK, TurnInv,
     KeptInv, CompactInv, Untracked, Admission, Over
<1>6. CompactInv'
  BY DEF IInv, Obtain, Go, Answer, lane, drive, starts, subs, phase, resume, TypeOK, CompactInv,
     Over
<1>7. AcceptedInv'
  BY DEF IInv, Obtain, Go, Answer, lane, drive, starts, subs, phase, resume, TypeOK, TurnInv,
     AcceptedInv, GoneInv, Working, Gone, Modes, CloseSteps, Untracked, Admission, Over
<1>8. RedriveInv'
  BY DEF IInv, Obtain, Go, Answer, lane, drive, starts, subs, phase, resume, TypeOK, TurnInv,
     RedriveInv, GoneInv, Working, Gone, Modes, CloseSteps, Untracked, Admission, Over
<1>9. TakerInv'
  BY DEF IInv, Obtain, Go, Answer, lane, drive, starts, subs, phase, resume, TypeOK, TurnInv,
     TakerInv, GoneInv, Working, Gone, Modes, CloseSteps, Untracked, Admission, Over
<1>10. ForgottenInv'
  BY DEF IInv, Obtain, Go, Answer, lane, drive, starts, subs, phase, resume, TypeOK, TurnInv,
     ForgottenInv, AcceptedInv, GoneInv, Working, Gone, Modes, CloseSteps, Untracked, Admission,
     Over
<1>11. CopiesInv' /\ DrivesInv'
  BY DEF IInv, Obtain, Go, Answer, lane, drive, starts, subs, phase, resume, CopiesInv,
     DrivesInv
<1>12. QED
  BY <1>1, <1>2, <1>3, <1>4, <1>5, <1>6, <1>7, <1>8, <1>9, <1>10, <1>11 DEF IInv

LEMMA ExpandIInv == ASSUME NEW r \in Requests, IInv, Expand(r) PROVE IInv'
<1>1. TypeOK'
  BY DEF IInv, Expand, At, Go, Answer, lane, drive, starts, subs, phase, resume, TypeOK, Modes,
     CloseSteps, Untracked, Admission, Over
<1>2. TurnInv'
  BY DEF IInv, Expand, At, Go, Answer, lane, drive, starts, subs, phase, resume, TypeOK,
     TurnInv, Untracked, Admission, Over
<1>3. GoneInv'
  BY DEF IInv, Expand, At, Go, Answer, lane, drive, starts, subs, phase, resume, TypeOK,
     TurnInv, GoneInv, Gone, Working, CloseSteps, Untracked, Admission, Over
<1>4. FreshInv'
  BY DEF IInv, Expand, At, Go, Answer, lane, drive, starts, subs, phase, resume, TypeOK,
     TurnInv, FreshInv, CopiesInv, Untracked, Admission, Over
<1>5. KeptInv'
  BY DEF IInv, Expand, At, Go, Answer, lane, drive, starts, subs, phase, resume, TypeOK,
     TurnInv, KeptInv, CompactInv, Untracked, Admission, Over
<1>6. CompactInv'
  BY DEF IInv, Expand, At, Go, Answer, lane, drive, starts, subs, phase, resume, TypeOK,
     CompactInv, Over
<1>7. AcceptedInv'
  BY DEF IInv, Expand, At, Go, Answer, lane, drive, starts, subs, phase, resume, TypeOK,
     TurnInv, AcceptedInv, GoneInv, Working, Gone, Modes, CloseSteps, Untracked, Admission, Over
<1>8. RedriveInv'
  BY DEF IInv, Expand, At, Go, Answer, lane, drive, starts, subs, phase, resume, TypeOK,
     TurnInv, RedriveInv, GoneInv, Working, Gone, Modes, CloseSteps, Untracked, Admission, Over
<1>9. TakerInv'
  BY DEF IInv, Expand, At, Go, Answer, lane, drive, starts, subs, phase, resume, TypeOK,
     TurnInv, TakerInv, GoneInv, Working, Gone, Modes, CloseSteps, Untracked, Admission, Over
<1>10. ForgottenInv'
  BY DEF IInv, Expand, At, Go, Answer, lane, drive, starts, subs, phase, resume, TypeOK,
     TurnInv, ForgottenInv, AcceptedInv, GoneInv, Working, Gone, Modes, CloseSteps, Untracked,
     Admission, Over
<1>11. CopiesInv' /\ DrivesInv'
  BY DEF IInv, Expand, At, Go, Answer, lane, drive, starts, subs, phase, resume, CopiesInv,
     DrivesInv
<1>12. QED
  BY <1>1, <1>2, <1>3, <1>4, <1>5, <1>6, <1>7, <1>8, <1>9, <1>10, <1>11 DEF IInv

LEMMA FindQueuedIInv == ASSUME NEW r \in Requests, IInv, FindQueued(r) PROVE IInv'
<1>1. TypeOK'
  BY DEF IInv, FindQueued, At, Go, Answer, lane, drive, starts, subs, phase, resume, TypeOK,
     Modes, CloseSteps, Untracked, Admission, Over
<1>2. TurnInv'
  BY DEF IInv, FindQueued, At, Go, Answer, lane, drive, starts, subs, phase, resume, TypeOK,
     TurnInv, Untracked, Admission, Over
<1>3. GoneInv'
  BY DEF IInv, FindQueued, At, Go, Answer, lane, drive, starts, subs, phase, resume, TypeOK,
     TurnInv, GoneInv, Gone, Working, CloseSteps, Untracked, Admission, Over
<1>4. FreshInv'
  BY DEF IInv, FindQueued, At, Go, Answer, lane, drive, starts, subs, phase, resume, TypeOK,
     TurnInv, FreshInv, CopiesInv, Untracked, Admission, Over
<1>5. KeptInv'
  BY DEF IInv, FindQueued, At, Go, Answer, lane, drive, starts, subs, phase, resume, TypeOK,
     TurnInv, KeptInv, CompactInv, Untracked, Admission, Over
<1>6. CompactInv'
  BY DEF IInv, FindQueued, At, Go, Answer, lane, drive, starts, subs, phase, resume, TypeOK,
     CompactInv, Over
<1>7. AcceptedInv'
  BY DEF IInv, FindQueued, At, Go, Answer, lane, drive, starts, subs, phase, resume, TypeOK,
     TurnInv, AcceptedInv, GoneInv, Working, Gone, Modes, CloseSteps, Untracked, Admission, Over
<1>8. RedriveInv'
  BY DEF IInv, FindQueued, At, Go, Answer, lane, drive, starts, subs, phase, resume, TypeOK,
     TurnInv, RedriveInv, GoneInv, Working, Gone, Modes, CloseSteps, Untracked, Admission, Over
<1>9. TakerInv'
  BY DEF IInv, FindQueued, At, Go, Answer, lane, drive, starts, subs, phase, resume, TypeOK,
     TurnInv, TakerInv, GoneInv, Working, Gone, Modes, CloseSteps, Untracked, Admission, Over
<1>10. ForgottenInv'
  BY DEF IInv, FindQueued, At, Go, Answer, lane, drive, starts, subs, phase, resume, TypeOK,
     TurnInv, ForgottenInv, AcceptedInv, GoneInv, Working, Gone, Modes, CloseSteps, Untracked,
     Admission, Over
<1>11. CopiesInv' /\ DrivesInv'
  BY DEF IInv, FindQueued, At, Go, Answer, lane, drive, starts, subs, phase, resume, CopiesInv,
     DrivesInv
<1>12. QED
  BY <1>1, <1>2, <1>3, <1>4, <1>5, <1>6, <1>7, <1>8, <1>9, <1>10, <1>11 DEF IInv

LEMMA FindEntryIInv == ASSUME NEW r \in Requests, IInv, FindEntry(r) PROVE IInv'
<1>1. TypeOK'
  BY DEF IInv, FindEntry, At, Go, Answer, lane, drive, starts, subs, phase, resume, TypeOK,
     Modes, CloseSteps, Untracked, Admission, Over
<1>2. TurnInv'
  BY DEF IInv, FindEntry, At, Go, Answer, lane, drive, starts, subs, phase, resume, TypeOK,
     TurnInv, Untracked, Admission, Over
<1>3. GoneInv'
  BY DEF IInv, FindEntry, At, Go, Answer, lane, drive, starts, subs, phase, resume, TypeOK,
     TurnInv, GoneInv, Gone, Working, CloseSteps, Untracked, Admission, Over
<1>4. FreshInv'
  BY DEF IInv, FindEntry, At, Go, Answer, lane, drive, starts, subs, phase, resume, TypeOK,
     TurnInv, FreshInv, CopiesInv, Untracked, Admission, Over
<1>5. KeptInv'
  BY DEF IInv, FindEntry, At, Go, Answer, lane, drive, starts, subs, phase, resume, TypeOK,
     TurnInv, KeptInv, CompactInv, Untracked, Admission, Over
<1>6. CompactInv'
  BY DEF IInv, FindEntry, At, Go, Answer, lane, drive, starts, subs, phase, resume, TypeOK,
     CompactInv, Over
<1>7. AcceptedInv'
  BY DEF IInv, FindEntry, At, Go, Answer, lane, drive, starts, subs, phase, resume, TypeOK,
     TurnInv, AcceptedInv, GoneInv, Working, Gone, Modes, CloseSteps, Untracked, Admission, Over
<1>8. RedriveInv'
  BY DEF IInv, FindEntry, At, Go, Answer, lane, drive, starts, subs, phase, resume, TypeOK,
     TurnInv, RedriveInv, GoneInv, Working, Gone, Modes, CloseSteps, Untracked, Admission, Over
<1>9. TakerInv'
  BY DEF IInv, FindEntry, At, Go, Answer, lane, drive, starts, subs, phase, resume, TypeOK,
     TurnInv, TakerInv, GoneInv, Working, Gone, Modes, CloseSteps, Untracked, Admission, Over
<1>10. ForgottenInv'
  BY DEF IInv, FindEntry, At, Go, Answer, lane, drive, starts, subs, phase, resume, TypeOK,
     TurnInv, ForgottenInv, AcceptedInv, GoneInv, Working, Gone, Modes, CloseSteps, Untracked,
     Admission, Over
<1>11. CopiesInv' /\ DrivesInv'
  BY DEF IInv, FindEntry, At, Go, Answer, lane, drive, starts, subs, phase, resume, CopiesInv,
     DrivesInv
<1>12. QED
  BY <1>1, <1>2, <1>3, <1>4, <1>5, <1>6, <1>7, <1>8, <1>9, <1>10, <1>11 DEF IInv

LEMMA ReplayLookIInv == ASSUME NEW r \in Requests, IInv, ReplayLook(r) PROVE IInv'
<1>1. TypeOK'
  BY DEF IInv, ReplayLook, At, Look, Answer, lane, drive, starts, subs, phase, resume, TypeOK,
     Modes, CloseSteps, Untracked, Admission, Over
<1>2. TurnInv'
  BY DEF IInv, ReplayLook, At, Look, Answer, lane, drive, starts, subs, phase, resume, TypeOK,
     TurnInv, Untracked, Admission, Over
<1>3. GoneInv'
  BY DEF IInv, ReplayLook, At, Look, Answer, lane, drive, starts, subs, phase, resume, TypeOK,
     TurnInv, GoneInv, Gone, Working, CloseSteps, Untracked, Admission, Over
<1>4. FreshInv'
  BY DEF IInv, ReplayLook, At, Look, Answer, lane, drive, starts, subs, phase, resume, TypeOK,
     TurnInv, FreshInv, CopiesInv, Untracked, Admission, Over
<1>5. KeptInv'
  BY DEF IInv, ReplayLook, At, Look, Answer, lane, drive, starts, subs, phase, resume, TypeOK,
     TurnInv, KeptInv, CompactInv, Untracked, Admission, Over
<1>6. CompactInv'
  BY DEF IInv, ReplayLook, At, Look, Answer, lane, drive, starts, subs, phase, resume, TypeOK,
     CompactInv, Over
<1>7. AcceptedInv'
  BY DEF IInv, ReplayLook, At, Look, Answer, lane, drive, starts, subs, phase, resume, TypeOK,
     TurnInv, AcceptedInv, GoneInv, Working, Gone, Modes, CloseSteps, Untracked, Admission, Over
<1>8. RedriveInv'
  BY DEF IInv, ReplayLook, At, Look, Answer, lane, drive, starts, subs, phase, resume, TypeOK,
     TurnInv, RedriveInv, GoneInv, Working, Gone, Modes, CloseSteps, Untracked, Admission, Over
<1>9. TakerInv'
  BY DEF IInv, ReplayLook, At, Look, Answer, lane, drive, starts, subs, phase, resume, TypeOK,
     TurnInv, TakerInv, GoneInv, Working, Gone, Modes, CloseSteps, Untracked, Admission, Over
<1>10. ForgottenInv'
  BY DEF IInv, ReplayLook, At, Look, Answer, lane, drive, starts, subs, phase, resume, TypeOK,
     TurnInv, ForgottenInv, AcceptedInv, GoneInv, Working, Gone, Modes, CloseSteps, Untracked,
     Admission, Over
<1>11. CopiesInv' /\ DrivesInv'
  BY DEF IInv, ReplayLook, At, Look, Answer, lane, drive, starts, subs, phase, resume,
     CopiesInv, DrivesInv
<1>12. QED
  BY <1>1, <1>2, <1>3, <1>4, <1>5, <1>6, <1>7, <1>8, <1>9, <1>10, <1>11 DEF IInv

LEMMA ReplayIInv == ASSUME NEW r \in Requests, IInv, Replay(r) PROVE IInv'
<1>1. TypeOK'
  BY DEF IInv, Replay, At, Go, Answer, PassivelyReopened, lane, drive, starts, subs, phase,
     resume, TypeOK, Modes, CloseSteps, Untracked, Admission, Over
<1>2. TurnInv'
  BY DEF IInv, Replay, At, Go, Answer, PassivelyReopened, lane, drive, starts, subs, phase,
     resume, TypeOK, TurnInv, Untracked, Admission, Over
<1>3. GoneInv'
  BY DEF IInv, Replay, At, Go, Answer, PassivelyReopened, lane, drive, starts, subs, phase,
     resume, TypeOK, TurnInv, GoneInv, Gone, Working, CloseSteps, Untracked, Admission, Over
<1>4. FreshInv'
  BY DEF IInv, Replay, At, Go, Answer, PassivelyReopened, lane, drive, starts, subs, phase,
     resume, TypeOK, TurnInv, FreshInv, CopiesInv, Untracked, Admission, Over
<1>5. KeptInv'
  BY DEF IInv, Replay, At, Go, Answer, PassivelyReopened, lane, drive, starts, subs, phase,
     resume, TypeOK, TurnInv, KeptInv, CompactInv, Untracked, Admission, Over
<1>6. CompactInv'
  BY DEF IInv, Replay, At, Go, Answer, PassivelyReopened, lane, drive, starts, subs, phase,
     resume, TypeOK, CompactInv, Over
<1>7. AcceptedInv'
  BY DEF IInv, Replay, At, Go, Answer, PassivelyReopened, lane, drive, starts, subs, phase,
     resume, TypeOK, TurnInv, AcceptedInv, GoneInv, Working, Gone, Modes, CloseSteps, Untracked,
     Admission, Over
<1>8. RedriveInv'
  BY DEF IInv, Replay, At, Go, Answer, PassivelyReopened, lane, drive, starts, subs, phase,
     resume, TypeOK, TurnInv, RedriveInv, GoneInv, Working, Gone, Modes, CloseSteps, Untracked,
     Admission, Over
<1>9. TakerInv'
  BY DEF IInv, Replay, At, Go, Answer, PassivelyReopened, lane, drive, starts, subs, phase,
     resume, TypeOK, TurnInv, TakerInv, GoneInv, Working, Gone, Modes, CloseSteps, Untracked,
     Admission, Over
<1>10. ForgottenInv'
  BY DEF IInv, Replay, At, Go, Answer, PassivelyReopened, lane, drive, starts, subs, phase,
     resume, TypeOK, TurnInv, ForgottenInv, AcceptedInv, GoneInv, Working, Gone, Modes, CloseSteps,
     Untracked, Admission, Over
<1>11. CopiesInv' /\ DrivesInv'
  BY DEF IInv, Replay, At, Go, Answer, PassivelyReopened, lane, drive, starts, subs, phase,
     resume, CopiesInv, DrivesInv
<1>12. QED
  BY <1>1, <1>2, <1>3, <1>4, <1>5, <1>6, <1>7, <1>8, <1>9, <1>10, <1>11 DEF IInv

LEMMA RedriveIInv == ASSUME NEW r \in Requests, IInv, Redrive(r) PROVE IInv'
<1>0. reopened \in 1..made
  BY DEF IInv, TypeOK, RedriveInv, Redrive, At
<1>d. /\ active' \subseteq 1..made /\ driving' \in 0..made /\ overtaken' \subseteq 1..made
      /\ DrivesInv' /\ (driving = current => driving' = current)
      /\ \A c : c # reopened => (c \in active' <=> c \in active)
      /\ IF reopened = current THEN driving' = current ELSE driving' = driving
  BY <1>0, DriveKeeps DEF IInv, Redrive, lane
<1>1. TypeOK'
  BY <1>d DEF IInv, Redrive, At, Answer, lane, drive, starts, subs, phase, resume, TypeOK,
     Modes, CloseSteps, Untracked, Admission, Over
<1>2. TurnInv'
  BY <1>d DEF IInv, Redrive, At, Answer, lane, drive, starts, subs, phase, resume, TypeOK,
     TurnInv, Untracked, Admission, Over
<1>3. GoneInv'
  BY <1>d DEF IInv, Redrive, At, Answer, lane, drive, starts, subs, phase, resume, TypeOK,
     TurnInv, GoneInv, Gone, Working, CloseSteps, Untracked, Admission, Over
<1>4. FreshInv'
  BY <1>d DEF IInv, Redrive, At, Answer, lane, drive, starts, subs, phase, resume, TypeOK,
     TurnInv, FreshInv, CopiesInv, Untracked, Admission, Over
<1>5. KeptInv'
  BY <1>d DEF IInv, Redrive, At, Answer, lane, drive, starts, subs, phase, resume, TypeOK,
     TurnInv, KeptInv, CompactInv, Untracked, Admission, Over
<1>6. CompactInv'
  BY <1>d DEF IInv, Redrive, At, Answer, lane, drive, starts, subs, phase, resume, TypeOK,
     CompactInv, Over
<1>7. AcceptedInv'
  BY <1>d DEF IInv, Redrive, At, Answer, lane, drive, starts, subs, phase, resume, TypeOK,
     TurnInv, AcceptedInv, GoneInv, Working, Gone, Modes, CloseSteps, Untracked, Admission, Over
<1>8. RedriveInv'
  BY <1>d DEF IInv, Redrive, At, Answer, lane, drive, starts, subs, phase, resume, TypeOK,
     TurnInv, RedriveInv, GoneInv, Working, Gone, Modes, CloseSteps, Untracked, Admission, Over
<1>9. TakerInv'
  BY <1>d DEF IInv, Redrive, At, Answer, lane, drive, starts, subs, phase, resume, TypeOK,
     TurnInv, TakerInv, GoneInv, Working, Gone, Modes, CloseSteps, Untracked, Admission, Over
<1>10. ForgottenInv'
  BY <1>d DEF IInv, Redrive, At, Answer, lane, drive, starts, subs, phase, resume, TypeOK,
     TurnInv, ForgottenInv, AcceptedInv, GoneInv, Working, Gone, Modes, CloseSteps, Untracked,
     Admission, Over
<1>11. DrivesInv'
  BY <1>d
<1>12. CopiesInv'
  BY DEF IInv, Redrive, At, Answer, lane, drive, starts, subs, phase, resume, CopiesInv
<1>13. QED
  BY <1>1, <1>2, <1>3, <1>4, <1>5, <1>6, <1>7, <1>8, <1>9, <1>10, <1>11, <1>12 DEF IInv

LEMMA AdmitLookIInv == ASSUME NEW r \in Requests, IInv, AdmitLook(r) PROVE IInv'
<1>1. TypeOK'
  BY DEF IInv, AdmitLook, At, Look, Go, lane, drive, starts, subs, phase, resume, TypeOK, Modes,
     CloseSteps, Untracked, Admission, Over
<1>2. TurnInv'
  BY DEF IInv, AdmitLook, At, Look, Go, lane, drive, starts, subs, phase, resume, TypeOK,
     TurnInv, Untracked, Admission, Over
<1>3. GoneInv'
  BY DEF IInv, AdmitLook, At, Look, Go, lane, drive, starts, subs, phase, resume, TypeOK,
     TurnInv, GoneInv, Gone, Working, CloseSteps, Untracked, Admission, Over
<1>4. FreshInv'
  BY DEF IInv, AdmitLook, At, Look, Go, lane, drive, starts, subs, phase, resume, TypeOK,
     TurnInv, FreshInv, CopiesInv, Untracked, Admission, Over
<1>5. KeptInv'
  BY DEF IInv, AdmitLook, At, Look, Go, lane, drive, starts, subs, phase, resume, TypeOK,
     TurnInv, KeptInv, CompactInv, Untracked, Admission, Over
<1>6. CompactInv'
  BY DEF IInv, AdmitLook, At, Look, Go, lane, drive, starts, subs, phase, resume, TypeOK,
     CompactInv, Over
<1>7. AcceptedInv'
  BY DEF IInv, AdmitLook, At, Look, Go, lane, drive, starts, subs, phase, resume, TypeOK,
     TurnInv, AcceptedInv, GoneInv, Working, Gone, Modes, CloseSteps, Untracked, Admission, Over
<1>8. RedriveInv'
  BY DEF IInv, AdmitLook, At, Look, Go, lane, drive, starts, subs, phase, resume, TypeOK,
     TurnInv, RedriveInv, GoneInv, Working, Gone, Modes, CloseSteps, Untracked, Admission, Over
<1>9. TakerInv'
  BY DEF IInv, AdmitLook, At, Look, Go, lane, drive, starts, subs, phase, resume, TypeOK,
     TurnInv, TakerInv, GoneInv, Working, Gone, Modes, CloseSteps, Untracked, Admission, Over
<1>10. ForgottenInv'
  BY DEF IInv, AdmitLook, At, Look, Go, lane, drive, starts, subs, phase, resume, TypeOK,
     TurnInv, ForgottenInv, AcceptedInv, GoneInv, Working, Gone, Modes, CloseSteps, Untracked,
     Admission, Over
<1>11. CopiesInv' /\ DrivesInv'
  BY DEF IInv, AdmitLook, At, Look, Go, lane, drive, starts, subs, phase, resume, CopiesInv,
     DrivesInv
<1>12. QED
  BY <1>1, <1>2, <1>3, <1>4, <1>5, <1>6, <1>7, <1>8, <1>9, <1>10, <1>11 DEF IInv

LEMMA AdmitIInv == ASSUME NEW r \in Requests, IInv, Admit(r) PROVE IInv'
<1>1. TypeOK'
  BY DEF IInv, Admit, At, Go, PassivelyReopened, lane, drive, starts, subs, phase, resume,
     TypeOK, Modes, CloseSteps, Untracked, Admission, Over
<1>2. TurnInv'
  BY DEF IInv, Admit, At, Go, PassivelyReopened, lane, drive, starts, subs, phase, resume,
     TypeOK, TurnInv, Untracked, Admission, Over
<1>3. GoneInv'
  BY DEF IInv, Admit, At, Go, PassivelyReopened, lane, drive, starts, subs, phase, resume,
     TypeOK, TurnInv, GoneInv, Gone, Working, CloseSteps, Untracked, Admission, Over
<1>4. FreshInv'
  BY DEF IInv, Admit, At, Go, PassivelyReopened, lane, drive, starts, subs, phase, resume,
     TypeOK, TurnInv, FreshInv, CopiesInv, Untracked, Admission, Over
<1>5. KeptInv'
  BY DEF IInv, Admit, At, Go, PassivelyReopened, lane, drive, starts, subs, phase, resume,
     TypeOK, TurnInv, KeptInv, CompactInv, Untracked, Admission, Over
<1>6. CompactInv'
  BY DEF IInv, Admit, At, Go, PassivelyReopened, lane, drive, starts, subs, phase, resume,
     TypeOK, CompactInv, Over
<1>7. AcceptedInv'
  BY DEF IInv, Admit, At, Go, PassivelyReopened, lane, drive, starts, subs, phase, resume,
     TypeOK, TurnInv, AcceptedInv, GoneInv, Working, Gone, Modes, CloseSteps, Untracked, Admission,
     Over
<1>8. RedriveInv'
  BY DEF IInv, Admit, At, Go, PassivelyReopened, lane, drive, starts, subs, phase, resume,
     TypeOK, TurnInv, RedriveInv, GoneInv, Working, Gone, Modes, CloseSteps, Untracked, Admission,
     Over
<1>9. TakerInv'
  BY DEF IInv, Admit, At, Go, PassivelyReopened, lane, drive, starts, subs, phase, resume,
     TypeOK, TurnInv, TakerInv, GoneInv, Working, Gone, Modes, CloseSteps, Untracked, Admission,
     Over
<1>10. ForgottenInv'
  BY DEF IInv, Admit, At, Go, PassivelyReopened, lane, drive, starts, subs, phase, resume,
     TypeOK, TurnInv, ForgottenInv, AcceptedInv, GoneInv, Working, Gone, Modes, CloseSteps,
     Untracked, Admission, Over
<1>11. CopiesInv' /\ DrivesInv'
  BY DEF IInv, Admit, At, Go, PassivelyReopened, lane, drive, starts, subs, phase, resume,
     CopiesInv, DrivesInv
<1>12. QED
  BY <1>1, <1>2, <1>3, <1>4, <1>5, <1>6, <1>7, <1>8, <1>9, <1>10, <1>11 DEF IInv

LEMMA AcceptPromptIInv == ASSUME NEW r \in Requests, IInv, AcceptPrompt(r) PROVE IInv'
<1>1. TypeOK'
  BY DEF IInv, AcceptPrompt, At, NewOperation, Add, lane, drive, starts, subs, phase, resume,
     TypeOK, Modes, CloseSteps, Untracked, Admission, Over
<1>2. TurnInv'
  BY DEF IInv, AcceptPrompt, At, NewOperation, Add, lane, drive, starts, subs, phase, resume,
     TypeOK, TurnInv, Untracked, Admission, Over
<1>3. GoneInv'
  BY DEF IInv, AcceptPrompt, At, NewOperation, Add, lane, drive, starts, subs, phase, resume,
     TypeOK, TurnInv, GoneInv, Gone, Working, CloseSteps, Untracked, Admission, Over
<1>4. CopiesInv'
  BY DEF IInv, AcceptPrompt, At, NewOperation, Add, lane, drive, starts, subs, phase, resume,
     TypeOK, CopiesInv, FreshInv
<1>5. FreshInv'
  BY DEF IInv, AcceptPrompt, At, NewOperation, Add, lane, drive, starts, subs, phase, resume,
     TypeOK, TurnInv, FreshInv, CopiesInv, Untracked, Admission, Over
<1>6. KeptInv'
  BY DEF IInv, AcceptPrompt, At, NewOperation, Add, lane, drive, starts, subs, phase, resume,
     TypeOK, TurnInv, KeptInv, CompactInv, Untracked, Admission, Over
<1>7. CompactInv'
  BY DEF IInv, AcceptPrompt, At, NewOperation, Add, lane, drive, starts, subs, phase, resume,
     TypeOK, CompactInv, Over
<1>8. AcceptedInv'
  BY DEF IInv, AcceptPrompt, At, NewOperation, Add, lane, drive, starts, subs, phase, resume,
     TypeOK, TurnInv, AcceptedInv, GoneInv, Working, Gone, Modes, CloseSteps, Untracked, Admission,
     Over
<1>9. RedriveInv'
  BY DEF IInv, AcceptPrompt, At, NewOperation, Add, lane, drive, starts, subs, phase, resume,
     TypeOK, TurnInv, RedriveInv, GoneInv, Working, Gone, Modes, CloseSteps, Untracked, Admission,
     Over
<1>10. TakerInv'
  BY DEF IInv, AcceptPrompt, At, NewOperation, Add, lane, drive, starts, subs, phase, resume,
     TypeOK, TurnInv, TakerInv, GoneInv, Working, Gone, Modes, CloseSteps, Untracked, Admission,
     Over
<1>11. ForgottenInv'
  BY DEF IInv, AcceptPrompt, At, NewOperation, Add, lane, drive, starts, subs, phase, resume,
     TypeOK, TurnInv, ForgottenInv, AcceptedInv, GoneInv, Working, Gone, Modes, CloseSteps,
     Untracked, Admission, Over
<1>12. DrivesInv'
  BY DEF IInv, AcceptPrompt, At, NewOperation, Add, lane, drive, starts, subs, phase, resume,
     TypeOK, DrivesInv
<1>13. QED
  BY <1>1, <1>2, <1>3, <1>4, <1>5, <1>6, <1>7, <1>8, <1>9, <1>10, <1>11, <1>12 DEF IInv

LEMMA LaneBusyIInv == ASSUME NEW r \in Requests, IInv, LaneBusy(r) PROVE IInv'
<1>1. TypeOK'
  BY DEF IInv, LaneBusy, At, Answer, lane, drive, starts, subs, phase, resume, TypeOK, Modes,
     CloseSteps, Untracked, Admission, Over
<1>2. TurnInv'
  BY DEF IInv, LaneBusy, At, Answer, lane, drive, starts, subs, phase, resume, TypeOK, TurnInv,
     Untracked, Admission, Over
<1>3. GoneInv'
  BY DEF IInv, LaneBusy, At, Answer, lane, drive, starts, subs, phase, resume, TypeOK, TurnInv,
     GoneInv, Gone, Working, CloseSteps, Untracked, Admission, Over
<1>4. FreshInv'
  BY DEF IInv, LaneBusy, At, Answer, lane, drive, starts, subs, phase, resume, TypeOK, TurnInv,
     FreshInv, CopiesInv, Untracked, Admission, Over
<1>5. KeptInv'
  BY DEF IInv, LaneBusy, At, Answer, lane, drive, starts, subs, phase, resume, TypeOK, TurnInv,
     KeptInv, CompactInv, Untracked, Admission, Over
<1>6. CompactInv'
  BY DEF IInv, LaneBusy, At, Answer, lane, drive, starts, subs, phase, resume, TypeOK,
     CompactInv, Over
<1>7. AcceptedInv'
  BY DEF IInv, LaneBusy, At, Answer, lane, drive, starts, subs, phase, resume, TypeOK, TurnInv,
     AcceptedInv, GoneInv, Working, Gone, Modes, CloseSteps, Untracked, Admission, Over
<1>8. RedriveInv'
  BY DEF IInv, LaneBusy, At, Answer, lane, drive, starts, subs, phase, resume, TypeOK, TurnInv,
     RedriveInv, GoneInv, Working, Gone, Modes, CloseSteps, Untracked, Admission, Over
<1>9. TakerInv'
  BY DEF IInv, LaneBusy, At, Answer, lane, drive, starts, subs, phase, resume, TypeOK, TurnInv,
     TakerInv, GoneInv, Working, Gone, Modes, CloseSteps, Untracked, Admission, Over
<1>10. ForgottenInv'
  BY DEF IInv, LaneBusy, At, Answer, lane, drive, starts, subs, phase, resume, TypeOK, TurnInv,
     ForgottenInv, AcceptedInv, GoneInv, Working, Gone, Modes, CloseSteps, Untracked, Admission,
     Over
<1>11. CopiesInv' /\ DrivesInv'
  BY DEF IInv, LaneBusy, At, Answer, lane, drive, starts, subs, phase, resume, CopiesInv,
     DrivesInv
<1>12. QED
  BY <1>1, <1>2, <1>3, <1>4, <1>5, <1>6, <1>7, <1>8, <1>9, <1>10, <1>11 DEF IInv

LEMMA DriveAcceptedIInv == ASSUME NEW r \in Requests, IInv, DriveAccepted(r) PROVE IInv'
<1>0. accepted \in 1..made
  BY DEF IInv, TypeOK, AcceptedInv, DriveAccepted, At
<1>d. /\ active' \subseteq 1..made /\ driving' \in 0..made /\ overtaken' \subseteq 1..made
      /\ DrivesInv' /\ (driving = current => driving' = current)
      /\ \A c : c # accepted => (c \in active' <=> c \in active)
      /\ IF accepted = current THEN driving' = current ELSE driving' = driving
  BY <1>0, DriveKeeps DEF IInv, DriveAccepted, At, AcceptedInv, lane
<1>1. TypeOK'
  BY <1>d DEF IInv, DriveAccepted, At, Answer, lane, drive, starts, subs, phase, resume, TypeOK,
     Modes, CloseSteps, Untracked, Admission, Over
<1>2. TurnInv'
  BY <1>d DEF IInv, DriveAccepted, At, Answer, lane, drive, starts, subs, phase, resume, TypeOK,
     TurnInv, Untracked, Admission, Over
<1>3. GoneInv'
  BY <1>d DEF IInv, DriveAccepted, At, Answer, lane, drive, starts, subs, phase, resume, TypeOK,
     TurnInv, GoneInv, Gone, Working, CloseSteps, Untracked, Admission, Over
<1>4. FreshInv'
  BY <1>d DEF IInv, DriveAccepted, At, Answer, lane, drive, starts, subs, phase, resume, TypeOK,
     TurnInv, FreshInv, CopiesInv, Untracked, Admission, Over
<1>5. KeptInv'
  BY <1>d DEF IInv, DriveAccepted, At, Answer, lane, drive, starts, subs, phase, resume, TypeOK,
     TurnInv, KeptInv, CompactInv, Untracked, Admission, Over
<1>6. CompactInv'
  BY <1>d DEF IInv, DriveAccepted, At, Answer, lane, drive, starts, subs, phase, resume, TypeOK,
     CompactInv, Over
<1>7. AcceptedInv'
  BY <1>d DEF IInv, DriveAccepted, At, Answer, lane, drive, starts, subs, phase, resume, TypeOK,
     TurnInv, AcceptedInv, GoneInv, Working, Gone, Modes, CloseSteps, Untracked, Admission, Over
<1>8. RedriveInv'
  BY <1>d DEF IInv, DriveAccepted, At, Answer, lane, drive, starts, subs, phase, resume, TypeOK,
     TurnInv, RedriveInv, GoneInv, Working, Gone, Modes, CloseSteps, Untracked, Admission, Over
<1>9. TakerInv'
  BY <1>d DEF IInv, DriveAccepted, At, Answer, lane, drive, starts, subs, phase, resume, TypeOK,
     TurnInv, TakerInv, GoneInv, Working, Gone, Modes, CloseSteps, Untracked, Admission, Over
<1>10. ForgottenInv'
  BY <1>d DEF IInv, DriveAccepted, At, Answer, lane, drive, starts, subs, phase, resume, TypeOK,
     TurnInv, ForgottenInv, AcceptedInv, GoneInv, Working, Gone, Modes, CloseSteps, Untracked,
     Admission, Over
<1>11. DrivesInv'
  BY <1>d
<1>12. CopiesInv'
  BY DEF IInv, DriveAccepted, At, Answer, lane, drive, starts, subs, phase, resume, CopiesInv
<1>13. QED
  BY <1>1, <1>2, <1>3, <1>4, <1>5, <1>6, <1>7, <1>8, <1>9, <1>10, <1>11, <1>12 DEF IInv

LEMMA SteerIInv == ASSUME NEW r \in Requests, IInv, Steer(r) PROVE IInv'
<1>1. TypeOK'
  BY DEF IInv, Steer, At, Go, Add, lane, drive, starts, subs, phase, resume, TypeOK, Modes,
     CloseSteps, Untracked, Admission, Over
<1>2. TurnInv'
  BY DEF IInv, Steer, At, Go, Add, lane, drive, starts, subs, phase, resume, TypeOK, TurnInv,
     Untracked, Admission, Over
<1>3. GoneInv'
  BY DEF IInv, Steer, At, Go, Add, lane, drive, starts, subs, phase, resume, TypeOK, TurnInv,
     GoneInv, Gone, Working, CloseSteps, Untracked, Admission, Over
<1>4. CopiesInv'
  BY DEF IInv, Steer, At, Go, Add, lane, drive, starts, subs, phase, resume, TypeOK, CopiesInv,
     FreshInv
<1>5. FreshInv'
  BY DEF IInv, Steer, At, Go, Add, lane, drive, starts, subs, phase, resume, TypeOK, TurnInv,
     FreshInv, CopiesInv, Untracked, Admission, Over
<1>6. KeptInv'
  BY DEF IInv, Steer, At, Go, Add, lane, drive, starts, subs, phase, resume, TypeOK, TurnInv,
     KeptInv, CompactInv, Untracked, Admission, Over
<1>7. CompactInv'
  BY DEF IInv, Steer, At, Go, Add, lane, drive, starts, subs, phase, resume, TypeOK, CompactInv,
     Over
<1>8. AcceptedInv'
  BY DEF IInv, Steer, At, Go, Add, lane, drive, starts, subs, phase, resume, TypeOK, TurnInv,
     AcceptedInv, GoneInv, Working, Gone, Modes, CloseSteps, Untracked, Admission, Over
<1>9. RedriveInv'
  BY DEF IInv, Steer, At, Go, Add, lane, drive, starts, subs, phase, resume, TypeOK, TurnInv,
     RedriveInv, GoneInv, Working, Gone, Modes, CloseSteps, Untracked, Admission, Over
<1>10. TakerInv'
  BY DEF IInv, Steer, At, Go, Add, lane, drive, starts, subs, phase, resume, TypeOK, TurnInv,
     TakerInv, GoneInv, Working, Gone, Modes, CloseSteps, Untracked, Admission, Over
<1>11. ForgottenInv'
  BY DEF IInv, Steer, At, Go, Add, lane, drive, starts, subs, phase, resume, TypeOK, TurnInv,
     ForgottenInv, AcceptedInv, GoneInv, Working, Gone, Modes, CloseSteps, Untracked, Admission,
     Over
<1>12. DrivesInv'
  BY DEF IInv, Steer, At, Go, Add, lane, drive, starts, subs, phase, resume, DrivesInv
<1>13. QED
  BY <1>1, <1>2, <1>3, <1>4, <1>5, <1>6, <1>7, <1>8, <1>9, <1>10, <1>11, <1>12 DEF IInv

LEMMA InspectLookIInv == ASSUME NEW r \in Requests, IInv, InspectLook(r) PROVE IInv'
<1>1. TypeOK'
  BY DEF IInv, InspectLook, At, Look, lane, drive, starts, subs, phase, resume, TypeOK, Modes,
     CloseSteps, Untracked, Admission, Over
<1>2. TurnInv'
  BY DEF IInv, InspectLook, At, Look, lane, drive, starts, subs, phase, resume, TypeOK, TurnInv,
     Untracked, Admission, Over
<1>3. GoneInv'
  BY DEF IInv, InspectLook, At, Look, lane, drive, starts, subs, phase, resume, TypeOK, TurnInv,
     GoneInv, Gone, Working, CloseSteps, Untracked, Admission, Over
<1>4. FreshInv'
  BY DEF IInv, InspectLook, At, Look, lane, drive, starts, subs, phase, resume, TypeOK, TurnInv,
     FreshInv, CopiesInv, Untracked, Admission, Over
<1>5. KeptInv'
  BY DEF IInv, InspectLook, At, Look, lane, drive, starts, subs, phase, resume, TypeOK, TurnInv,
     KeptInv, CompactInv, Untracked, Admission, Over
<1>6. CompactInv'
  BY DEF IInv, InspectLook, At, Look, lane, drive, starts, subs, phase, resume, TypeOK,
     CompactInv, Over
<1>7. AcceptedInv'
  BY DEF IInv, InspectLook, At, Look, lane, drive, starts, subs, phase, resume, TypeOK, TurnInv,
     AcceptedInv, GoneInv, Working, Gone, Modes, CloseSteps, Untracked, Admission, Over
<1>8. RedriveInv'
  BY DEF IInv, InspectLook, At, Look, lane, drive, starts, subs, phase, resume, TypeOK, TurnInv,
     RedriveInv, GoneInv, Working, Gone, Modes, CloseSteps, Untracked, Admission, Over
<1>9. TakerInv'
  BY DEF IInv, InspectLook, At, Look, lane, drive, starts, subs, phase, resume, TypeOK, TurnInv,
     TakerInv, GoneInv, Working, Gone, Modes, CloseSteps, Untracked, Admission, Over
<1>10. ForgottenInv'
  BY DEF IInv, InspectLook, At, Look, lane, drive, starts, subs, phase, resume, TypeOK, TurnInv,
     ForgottenInv, AcceptedInv, GoneInv, Working, Gone, Modes, CloseSteps, Untracked, Admission,
     Over
<1>11. CopiesInv' /\ DrivesInv'
  BY DEF IInv, InspectLook, At, Look, lane, drive, starts, subs, phase, resume, CopiesInv,
     DrivesInv
<1>12. QED
  BY <1>1, <1>2, <1>3, <1>4, <1>5, <1>6, <1>7, <1>8, <1>9, <1>10, <1>11 DEF IInv

LEMMA InspectIInv == ASSUME NEW r \in Requests, IInv, Inspect(r) PROVE IInv'
<1>d. /\ active' \subseteq 1..made /\ driving' \in 0..made /\ overtaken' \subseteq 1..made
      /\ DrivesInv' /\ (driving = current => driving' = current)
      /\ \A c : c # seen => (c \in active' <=> c \in active)
      /\ seen # current => driving' = driving
  <2>1. CASE UNCHANGED drive
    BY <2>1 DEF Inspect, IInv, TypeOK, DrivesInv, drive, lane
  <2>2. CASE seen # 0 /\ seen \notin active /\ DriveLooked(seen)
    <3>1. seen \in 1..made
      BY <2>2 DEF IInv, TypeOK
    <3> QED BY <2>2, <3>1, DriveKeeps DEF IInv, Inspect, lane
  <2> QED BY <2>1, <2>2 DEF Inspect, ResumeSeen
<1>1. TypeOK'
  BY <1>d DEF IInv, Inspect, At, Answer, lane, drive, starts, subs, phase, resume, TypeOK,
     Modes, CloseSteps, Untracked, Admission, Over
<1>2. TurnInv'
  BY <1>d DEF IInv, Inspect, At, Answer, lane, drive, starts, subs, phase, resume, TypeOK,
     TurnInv, Untracked, Admission, Over
<1>3. GoneInv'
  BY <1>d DEF IInv, Inspect, At, Answer, lane, drive, starts, subs, phase, resume, TypeOK,
     TurnInv, GoneInv, Gone, Working, CloseSteps, Untracked, Admission, Over
<1>4. FreshInv'
  BY <1>d DEF IInv, Inspect, At, Answer, lane, drive, starts, subs, phase, resume, TypeOK,
     TurnInv, FreshInv, CopiesInv, Untracked, Admission, Over
<1>5. KeptInv'
  BY <1>d DEF IInv, Inspect, At, Answer, lane, drive, starts, subs, phase, resume, TypeOK,
     TurnInv, KeptInv, CompactInv, Untracked, Admission, Over
<1>6. CompactInv'
  BY <1>d DEF IInv, Inspect, At, Answer, lane, drive, starts, subs, phase, resume, TypeOK,
     CompactInv, Over
<1>7. AcceptedInv'
  BY <1>d DEF IInv, Inspect, At, Answer, lane, drive, starts, subs, phase, resume, TypeOK,
     TurnInv, AcceptedInv, GoneInv, Working, Gone, Modes, CloseSteps, Untracked, Admission, Over
<1>8. RedriveInv'
  BY <1>d DEF IInv, Inspect, At, Answer, lane, drive, starts, subs, phase, resume, TypeOK,
     TurnInv, RedriveInv, GoneInv, Working, Gone, Modes, CloseSteps, Untracked, Admission, Over
<1>9. TakerInv'
  BY <1>d DEF IInv, Inspect, At, Answer, lane, drive, starts, subs, phase, resume, TypeOK,
     TurnInv, TakerInv, GoneInv, Working, Gone, Modes, CloseSteps, Untracked, Admission, Over
<1>10. ForgottenInv'
  BY <1>d DEF IInv, Inspect, At, Answer, lane, drive, starts, subs, phase, resume, TypeOK,
     TurnInv, ForgottenInv, AcceptedInv, GoneInv, Working, Gone, Modes, CloseSteps, Untracked,
     Admission, Over
<1>11. DrivesInv'
  BY <1>d
<1>12. CopiesInv'
  BY DEF IInv, Inspect, At, Answer, lane, drive, starts, subs, phase, resume, CopiesInv
<1>13. QED
  BY <1>1, <1>2, <1>3, <1>4, <1>5, <1>6, <1>7, <1>8, <1>9, <1>10, <1>11, <1>12 DEF IInv

LEMMA CompactIInv == ASSUME NEW r \in Requests, IInv, Compact(r) PROVE IInv'
<1>1. TypeOK'
  BY DEF IInv, Compact, At, Go, Answer, lane, drive, starts, subs, phase, resume, TypeOK, Modes,
     CloseSteps, Untracked, Admission, Over
<1>2. TurnInv'
  BY DEF IInv, Compact, At, Go, Answer, lane, drive, starts, subs, phase, resume, TypeOK,
     TurnInv, Untracked, Admission, Over
<1>3. GoneInv'
  BY DEF IInv, Compact, At, Go, Answer, lane, drive, starts, subs, phase, resume, TypeOK,
     TurnInv, GoneInv, Gone, Working, CloseSteps, Untracked, Admission, Over
<1>4. FreshInv'
  BY DEF IInv, Compact, At, Go, Answer, lane, drive, starts, subs, phase, resume, TypeOK,
     TurnInv, FreshInv, CopiesInv, Untracked, Admission, Over
<1>5. KeptInv'
  BY DEF IInv, Compact, At, Go, Answer, lane, drive, starts, subs, phase, resume, TypeOK,
     TurnInv, KeptInv, CompactInv, Untracked, Admission, Over
<1>6. CompactInv'
  BY DEF IInv, Compact, At, Go, Answer, lane, drive, starts, subs, phase, resume, TypeOK,
     CompactInv, Over
<1>7. AcceptedInv'
  BY DEF IInv, Compact, At, Go, Answer, lane, drive, starts, subs, phase, resume, TypeOK,
     TurnInv, AcceptedInv, GoneInv, Working, Gone, Modes, CloseSteps, Untracked, Admission, Over
<1>8. RedriveInv'
  BY DEF IInv, Compact, At, Go, Answer, lane, drive, starts, subs, phase, resume, TypeOK,
     TurnInv, RedriveInv, GoneInv, Working, Gone, Modes, CloseSteps, Untracked, Admission, Over
<1>9. TakerInv'
  BY DEF IInv, Compact, At, Go, Answer, lane, drive, starts, subs, phase, resume, TypeOK,
     TurnInv, TakerInv, GoneInv, Working, Gone, Modes, CloseSteps, Untracked, Admission, Over
<1>10. ForgottenInv'
  BY DEF IInv, Compact, At, Go, Answer, lane, drive, starts, subs, phase, resume, TypeOK,
     TurnInv, ForgottenInv, AcceptedInv, GoneInv, Working, Gone, Modes, CloseSteps, Untracked,
     Admission, Over
<1>11. CopiesInv' /\ DrivesInv'
  BY DEF IInv, Compact, At, Go, Answer, lane, drive, starts, subs, phase, resume, CopiesInv,
     DrivesInv
<1>12. QED
  BY <1>1, <1>2, <1>3, <1>4, <1>5, <1>6, <1>7, <1>8, <1>9, <1>10, <1>11 DEF IInv

LEMMA AcceptCompactionIInv == ASSUME NEW r \in Requests, IInv, AcceptCompaction(r) PROVE IInv'
<1>1. TypeOK'
  BY DEF IInv, AcceptCompaction, At, NewOperation, lane, drive, starts, subs, phase, resume,
     TypeOK, Modes, CloseSteps, Untracked, Admission, Over
<1>2. TurnInv'
  BY DEF IInv, AcceptCompaction, At, NewOperation, lane, drive, starts, subs, phase, resume,
     TypeOK, TurnInv, Untracked, Admission, Over
<1>3. GoneInv'
  BY DEF IInv, AcceptCompaction, At, NewOperation, lane, drive, starts, subs, phase, resume,
     TypeOK, TurnInv, GoneInv, Gone, Working, CloseSteps, Untracked, Admission, Over
<1>4. CopiesInv'
  BY DEF IInv, AcceptCompaction, At, NewOperation, lane, drive, starts, subs, phase, resume,
     TypeOK, CopiesInv, FreshInv
<1>5. FreshInv'
  BY DEF IInv, AcceptCompaction, At, NewOperation, lane, drive, starts, subs, phase, resume,
     TypeOK, TurnInv, FreshInv, CopiesInv, Untracked, Admission, Over
<1>6. KeptInv'
  BY DEF IInv, AcceptCompaction, At, NewOperation, lane, drive, starts, subs, phase, resume,
     TypeOK, TurnInv, KeptInv, CompactInv, Untracked, Admission, Over
<1>7. CompactInv'
  BY DEF IInv, AcceptCompaction, At, NewOperation, lane, drive, starts, subs, phase, resume,
     TypeOK, CompactInv, Over
<1>8. AcceptedInv'
  BY DEF IInv, AcceptCompaction, At, NewOperation, lane, drive, starts, subs, phase, resume,
     TypeOK, TurnInv, AcceptedInv, GoneInv, Working, Gone, Modes, CloseSteps, Untracked, Admission,
     Over
<1>9. RedriveInv'
  BY DEF IInv, AcceptCompaction, At, NewOperation, lane, drive, starts, subs, phase, resume,
     TypeOK, TurnInv, RedriveInv, GoneInv, Working, Gone, Modes, CloseSteps, Untracked, Admission,
     Over
<1>10. TakerInv'
  BY DEF IInv, AcceptCompaction, At, NewOperation, lane, drive, starts, subs, phase, resume,
     TypeOK, TurnInv, TakerInv, GoneInv, Working, Gone, Modes, CloseSteps, Untracked, Admission,
     Over
<1>11. ForgottenInv'
  BY DEF IInv, AcceptCompaction, At, NewOperation, lane, drive, starts, subs, phase, resume,
     TypeOK, TurnInv, ForgottenInv, AcceptedInv, GoneInv, Working, Gone, Modes, CloseSteps,
     Untracked, Admission, Over
<1>12. DrivesInv'
  BY DEF IInv, AcceptCompaction, At, NewOperation, lane, drive, starts, subs, phase, resume,
     TypeOK, DrivesInv
<1>13. QED
  BY <1>1, <1>2, <1>3, <1>4, <1>5, <1>6, <1>7, <1>8, <1>9, <1>10, <1>11, <1>12 DEF IInv

LEMMA NothingToCompactIInv == ASSUME NEW r \in Requests, IInv, NothingToCompact(r) PROVE IInv'
<1>1. TypeOK'
  BY DEF IInv, NothingToCompact, At, Answer, lane, drive, starts, subs, phase, resume, TypeOK,
     Modes, CloseSteps, Untracked, Admission, Over
<1>2. TurnInv'
  BY DEF IInv, NothingToCompact, At, Answer, lane, drive, starts, subs, phase, resume, TypeOK,
     TurnInv, Untracked, Admission, Over
<1>3. GoneInv'
  BY DEF IInv, NothingToCompact, At, Answer, lane, drive, starts, subs, phase, resume, TypeOK,
     TurnInv, GoneInv, Gone, Working, CloseSteps, Untracked, Admission, Over
<1>4. FreshInv'
  BY DEF IInv, NothingToCompact, At, Answer, lane, drive, starts, subs, phase, resume, TypeOK,
     TurnInv, FreshInv, CopiesInv, Untracked, Admission, Over
<1>5. KeptInv'
  BY DEF IInv, NothingToCompact, At, Answer, lane, drive, starts, subs, phase, resume, TypeOK,
     TurnInv, KeptInv, CompactInv, Untracked, Admission, Over
<1>6. CompactInv'
  BY DEF IInv, NothingToCompact, At, Answer, lane, drive, starts, subs, phase, resume, TypeOK,
     CompactInv, Over
<1>7. AcceptedInv'
  BY DEF IInv, NothingToCompact, At, Answer, lane, drive, starts, subs, phase, resume, TypeOK,
     TurnInv, AcceptedInv, GoneInv, Working, Gone, Modes, CloseSteps, Untracked, Admission, Over
<1>8. RedriveInv'
  BY DEF IInv, NothingToCompact, At, Answer, lane, drive, starts, subs, phase, resume, TypeOK,
     TurnInv, RedriveInv, GoneInv, Working, Gone, Modes, CloseSteps, Untracked, Admission, Over
<1>9. TakerInv'
  BY DEF IInv, NothingToCompact, At, Answer, lane, drive, starts, subs, phase, resume, TypeOK,
     TurnInv, TakerInv, GoneInv, Working, Gone, Modes, CloseSteps, Untracked, Admission, Over
<1>10. ForgottenInv'
  BY DEF IInv, NothingToCompact, At, Answer, lane, drive, starts, subs, phase, resume, TypeOK,
     TurnInv, ForgottenInv, AcceptedInv, GoneInv, Working, Gone, Modes, CloseSteps, Untracked,
     Admission, Over
<1>11. CopiesInv' /\ DrivesInv'
  BY DEF IInv, NothingToCompact, At, Answer, lane, drive, starts, subs, phase, resume,
     CopiesInv, DrivesInv
<1>12. QED
  BY <1>1, <1>2, <1>3, <1>4, <1>5, <1>6, <1>7, <1>8, <1>9, <1>10, <1>11 DEF IInv

LEMMA WakeIInv == ASSUME IInv, Wake PROVE IInv'
<1>1. TypeOK'
  BY DEF IInv, Wake, lane, drive, starts, subs, phase, resume, TypeOK, Modes, CloseSteps,
     Untracked, Admission, Over
<1>2. GoneInv'
  BY DEF IInv, Wake, lane, drive, starts, subs, phase, resume, TypeOK, TurnInv, GoneInv, Gone,
     Working, CloseSteps, Untracked, Admission, Over
<1>3. TakerInv'
  BY DEF IInv, Wake, lane, drive, starts, subs, phase, resume, TypeOK, TurnInv, TakerInv,
     GoneInv, Working, Gone, Modes, CloseSteps, Untracked, Admission, Over
<1>4. TurnInv' /\ CopiesInv' /\ FreshInv' /\ KeptInv' /\ CompactInv' /\ AcceptedInv' /\ RedriveInv' /\ ForgottenInv' /\ DrivesInv'
  BY DEF IInv, Wake, lane, drive, starts, subs, phase, resume, TurnInv, CopiesInv, FreshInv,
     KeptInv, CompactInv, AcceptedInv, RedriveInv, ForgottenInv, Working, DrivesInv
<1>5. QED
  BY <1>1, <1>2, <1>3, <1>4 DEF IInv

LEMMA StartQueuedIInv == ASSUME IInv, StartQueued PROVE IInv'
<1>1. TypeOK'
  BY DEF IInv, StartQueued, NewOperation, lane, drive, starts, subs, phase, resume, TypeOK,
     Modes, CloseSteps, Untracked, Admission, Over
<1>2. GoneInv'
  BY DEF IInv, StartQueued, NewOperation, lane, drive, starts, subs, phase, resume, TypeOK,
     TurnInv, GoneInv, Gone, Working, CloseSteps, Untracked, Admission, Over
<1>3. CopiesInv'
  BY DEF IInv, StartQueued, NewOperation, lane, drive, starts, subs, phase, resume, TypeOK,
     CopiesInv, FreshInv
<1>4. FreshInv'
  BY DEF IInv, StartQueued, NewOperation, lane, drive, starts, subs, phase, resume, TypeOK,
     TurnInv, FreshInv, CopiesInv, Untracked, Admission, Over
<1>5. KeptInv'
  BY DEF IInv, StartQueued, NewOperation, lane, drive, starts, subs, phase, resume, TypeOK,
     TurnInv, KeptInv, CompactInv, Untracked, Admission, Over
<1>6. AcceptedInv'
  BY DEF IInv, StartQueued, NewOperation, lane, drive, starts, subs, phase, resume, TypeOK,
     TurnInv, AcceptedInv, GoneInv, Working, Gone, Modes, CloseSteps, Untracked, Admission, Over
<1>7. TakerInv'
  BY DEF IInv, StartQueued, NewOperation, lane, drive, starts, subs, phase, resume, TypeOK,
     TurnInv, TakerInv, GoneInv, Working, Gone, Modes, CloseSteps, Untracked, Admission, Over
<1>8. ForgottenInv'
  BY DEF IInv, StartQueued, NewOperation, lane, drive, starts, subs, phase, resume, TypeOK,
     TurnInv, ForgottenInv, AcceptedInv, GoneInv, Working, Gone, Modes, CloseSteps, Untracked,
     Admission, Over
<1>9. DrivesInv'
  BY DEF IInv, StartQueued, NewOperation, lane, drive, starts, subs, phase, resume, TypeOK,
     DrivesInv
<1>10. TurnInv' /\ CompactInv' /\ RedriveInv'
  BY DEF IInv, StartQueued, NewOperation, lane, drive, starts, subs, phase, resume, TurnInv,
     CompactInv, RedriveInv
<1>11. QED
  BY <1>1, <1>2, <1>3, <1>4, <1>5, <1>6, <1>7, <1>8, <1>9, <1>10 DEF IInv

LEMMA StartDriveIInv == ASSUME IInv, StartDrive PROVE IInv'
<1>p. PICK op \in begun : DriveUnlooked(op) /\ begun' = begun \ {op}
  BY DEF StartDrive
<1>0. op \in 1..made
  BY DEF IInv, TypeOK
<1>d. /\ active' \subseteq 1..made /\ driving' \in 0..made /\ overtaken' \subseteq 1..made
      /\ DrivesInv' /\ (driving = current => driving' = current)
      /\ \A c : c # op => (c \in active' <=> c \in active)
      /\ IF op = current THEN driving' = current ELSE driving' = driving
  BY <1>0, <1>p, DriveKeeps DEF IInv, StartDrive, lane
<1>1. TypeOK'
  BY <1>d, <1>p DEF IInv, StartDrive, lane, drive, starts, subs, phase, resume, TypeOK, Modes,
     CloseSteps, Untracked, Admission, Over
<1>2. GoneInv'
  BY <1>d, <1>p DEF IInv, StartDrive, lane, drive, starts, subs, phase, resume, TypeOK, TurnInv,
     GoneInv, Gone, Working, CloseSteps, Untracked, Admission, Over
<1>3. AcceptedInv'
  BY <1>d, <1>p DEF IInv, StartDrive, lane, drive, starts, subs, phase, resume, TypeOK, TurnInv,
     AcceptedInv, GoneInv, Working, Gone, Modes, CloseSteps, Untracked, Admission, Over
<1>4. ForgottenInv'
  BY <1>d, <1>p DEF IInv, StartDrive, lane, drive, starts, subs, phase, resume, TypeOK, TurnInv,
     ForgottenInv, AcceptedInv, GoneInv, Working, Gone, Modes, CloseSteps, Untracked, Admission,
     Over
<1>5. DrivesInv'
  BY <1>d
<1>6. TurnInv' /\ CopiesInv' /\ FreshInv' /\ KeptInv' /\ CompactInv' /\ RedriveInv' /\ TakerInv'
  BY DEF IInv, StartDrive, lane, drive, starts, subs, phase, resume, TurnInv, CopiesInv,
     FreshInv, KeptInv, CompactInv, RedriveInv, TakerInv, Working
<1>7. QED
  BY <1>1, <1>2, <1>3, <1>4, <1>5, <1>6 DEF IInv

LEMMA NothingQueuedIInv == ASSUME IInv, NothingQueued PROVE IInv'
<1>1. TypeOK'
  BY DEF IInv, NothingQueued, lane, drive, starts, subs, phase, resume, TypeOK, Modes,
     CloseSteps, Untracked, Admission, Over
<1>2. GoneInv'
  BY DEF IInv, NothingQueued, lane, drive, starts, subs, phase, resume, TypeOK, TurnInv,
     GoneInv, Gone, Working, CloseSteps, Untracked, Admission, Over
<1>3. TakerInv'
  BY DEF IInv, NothingQueued, lane, drive, starts, subs, phase, resume, TypeOK, TurnInv,
     TakerInv, GoneInv, Working, Gone, Modes, CloseSteps, Untracked, Admission, Over
<1>4. TurnInv' /\ CopiesInv' /\ FreshInv' /\ KeptInv' /\ CompactInv' /\ AcceptedInv' /\ RedriveInv' /\ ForgottenInv' /\ DrivesInv'
  BY DEF IInv, NothingQueued, lane, drive, starts, subs, phase, resume, TurnInv, CopiesInv,
     FreshInv, KeptInv, CompactInv, AcceptedInv, RedriveInv, ForgottenInv, Working, DrivesInv
<1>5. QED
  BY <1>1, <1>2, <1>3, <1>4 DEF IInv

LEMMA StartBusyIInv == ASSUME IInv, StartBusy PROVE IInv'
<1>1. TypeOK'
  BY DEF IInv, StartBusy, lane, drive, starts, subs, phase, resume, TypeOK, Modes, CloseSteps,
     Untracked, Admission, Over
<1>2. GoneInv'
  BY DEF IInv, StartBusy, lane, drive, starts, subs, phase, resume, TypeOK, TurnInv, GoneInv,
     Gone, Working, CloseSteps, Untracked, Admission, Over
<1>3. TakerInv'
  BY DEF IInv, StartBusy, lane, drive, starts, subs, phase, resume, TypeOK, TurnInv, TakerInv,
     GoneInv, Working, Gone, Modes, CloseSteps, Untracked, Admission, Over
<1>4. TurnInv' /\ CopiesInv' /\ FreshInv' /\ KeptInv' /\ CompactInv' /\ AcceptedInv' /\ RedriveInv' /\ ForgottenInv' /\ DrivesInv'
  BY DEF IInv, StartBusy, lane, drive, starts, subs, phase, resume, TurnInv, CopiesInv,
     FreshInv, KeptInv, CompactInv, AcceptedInv, RedriveInv, ForgottenInv, Working, DrivesInv
<1>5. QED
  BY <1>1, <1>2, <1>3, <1>4 DEF IInv

LEMMA ResumeIInv == ASSUME IInv, Resume PROVE IInv'
<1>1. TypeOK'
  BY DEF IInv, Resume, lane, drive, starts, subs, phase, resume, TypeOK, Modes, CloseSteps,
     Untracked, Admission, Over
<1>2. GoneInv'
  BY DEF IInv, Resume, lane, drive, starts, subs, phase, resume, TypeOK, TurnInv, GoneInv, Gone,
     Working, CloseSteps, Untracked, Admission, Over
<1>3. TurnInv' /\ CopiesInv' /\ FreshInv' /\ KeptInv' /\ CompactInv' /\ AcceptedInv' /\ RedriveInv' /\ TakerInv' /\ ForgottenInv' /\ DrivesInv'
  BY DEF IInv, Resume, lane, drive, starts, subs, phase, resume, TurnInv, CopiesInv, FreshInv,
     KeptInv, CompactInv, AcceptedInv, RedriveInv, TakerInv, Working, ForgottenInv, DrivesInv
<1>4. QED
  BY <1>1, <1>2, <1>3 DEF IInv

LEMMA ResumeLookIInv == ASSUME IInv, ResumeLook PROVE IInv'
<1>1. TypeOK'
  <2>1. resuming' \in BOOLEAN
    BY Zenon DEF ResumeLook
  <2>2. resumeSeen' \in 0..made
    BY DEF IInv, TypeOK, ResumeLook
  <2>3. QED
    BY <2>1, <2>2 DEF IInv, ResumeLook, lane, drive, starts, subs, phase, TypeOK
<1>2. GoneInv'
  BY DEF IInv, ResumeLook, lane, drive, starts, subs, phase, resume, TypeOK, TurnInv, GoneInv,
     Gone, Working, CloseSteps, Untracked, Admission, Over
<1>3. TurnInv' /\ CopiesInv' /\ FreshInv' /\ KeptInv' /\ CompactInv' /\ AcceptedInv' /\ RedriveInv' /\ TakerInv' /\ ForgottenInv' /\ DrivesInv'
  BY DEF IInv, ResumeLook, lane, drive, starts, subs, phase, resume, TurnInv, CopiesInv,
     FreshInv, KeptInv, CompactInv, AcceptedInv, RedriveInv, TakerInv, Working, ForgottenInv,
     DrivesInv
<1>4. QED
  BY <1>1, <1>2, <1>3 DEF IInv

LEMMA ResumeInspectIInv == ASSUME IInv, ResumeInspect PROVE IInv'
<1>d. /\ active' \subseteq 1..made /\ driving' \in 0..made /\ overtaken' \subseteq 1..made
      /\ DrivesInv' /\ (driving = current => driving' = current)
      /\ \A c : c # resumeSeen => (c \in active' <=> c \in active)
      /\ resumeSeen # current => driving' = driving
  <2>1. CASE UNCHANGED drive
    BY <2>1 DEF ResumeInspect, IInv, TypeOK, DrivesInv, drive, lane
  <2>2. CASE resumeSeen # 0 /\ resumeSeen \notin active /\ DriveLooked(resumeSeen)
    <3>1. resumeSeen \in 1..made
      BY <2>2 DEF IInv, TypeOK
    <3> QED BY <2>2, <3>1, DriveKeeps DEF IInv, ResumeInspect, lane
  <2> QED BY <2>1, <2>2 DEF ResumeInspect, ResumeSeen
<1>1. TypeOK'
  <2>1. resuming' \in BOOLEAN
    BY Zenon DEF ResumeInspect
  <2>2. QED
    BY <1>d, <2>1 DEF IInv, ResumeInspect, lane, starts, subs, phase, TypeOK
<1>2. GoneInv'
  BY <1>d DEF IInv, ResumeInspect, lane, drive, starts, subs, phase, resume, TypeOK, TurnInv,
     GoneInv, Gone, Working, CloseSteps, Untracked, Admission, Over
<1>3. AcceptedInv'
  BY <1>d DEF IInv, ResumeInspect, lane, drive, starts, subs, phase, resume, TypeOK, TurnInv,
     AcceptedInv, GoneInv, Working, Gone, Modes, CloseSteps, Untracked, Admission, Over
<1>4. ForgottenInv'
  BY <1>d DEF IInv, ResumeInspect, lane, drive, starts, subs, phase, resume, TypeOK, TurnInv,
     ForgottenInv, AcceptedInv, GoneInv, Working, Gone, Modes, CloseSteps, Untracked, Admission,
     Over
<1>5. DrivesInv'
  BY <1>d
<1>6. TurnInv' /\ CopiesInv' /\ FreshInv' /\ KeptInv' /\ CompactInv' /\ RedriveInv' /\ TakerInv'
  BY DEF IInv, ResumeInspect, lane, drive, starts, subs, phase, resume, TurnInv, CopiesInv,
     FreshInv, KeptInv, CompactInv, RedriveInv, TakerInv, Working
<1>7. QED
  BY <1>1, <1>2, <1>3, <1>4, <1>5, <1>6 DEF IInv

LEMMA RequestAbortIInv == ASSUME IInv, RequestAbort PROVE IInv'
<1>1. TypeOK'
  BY DEF IInv, RequestAbort, lane, drive, starts, subs, phase, resume, TypeOK, Modes,
     CloseSteps, Untracked, Admission, Over
<1>2. TurnInv' /\ GoneInv' /\ CopiesInv' /\ FreshInv' /\ KeptInv' /\ CompactInv' /\ AcceptedInv' /\ RedriveInv' /\ TakerInv' /\ ForgottenInv' /\ DrivesInv'
  BY DEF IInv, RequestAbort, lane, drive, starts, subs, phase, resume, TurnInv, GoneInv, Gone,
     CopiesInv, FreshInv, KeptInv, CompactInv, AcceptedInv, RedriveInv, TakerInv, Working,
     ForgottenInv, DrivesInv
<1>3. QED
  BY <1>1, <1>2 DEF IInv

LEMMA TakeSteeringIInv == ASSUME IInv, TakeSteering PROVE IInv'
<1>1. TypeOK'
  BY DEF IInv, TakeSteering, Driven, lane, drive, starts, subs, phase, resume, TypeOK, Modes,
     CloseSteps, Untracked, Admission, Over
<1>2. GoneInv'
  BY DEF IInv, TakeSteering, Driven, lane, drive, starts, subs, phase, resume, TypeOK, TurnInv,
     GoneInv, Gone, Working, CloseSteps, Untracked, Admission, Over
<1>3. CopiesInv'
  BY DEF IInv, TakeSteering, Driven, lane, drive, starts, subs, phase, resume, TypeOK,
     CopiesInv, FreshInv
<1>4. FreshInv'
  BY DEF IInv, TakeSteering, Driven, lane, drive, starts, subs, phase, resume, TypeOK, TurnInv,
     FreshInv, CopiesInv, Untracked, Admission, Over
<1>5. KeptInv'
  BY DEF IInv, TakeSteering, Driven, lane, drive, starts, subs, phase, resume, TypeOK, TurnInv,
     KeptInv, CompactInv, Untracked, Admission, Over
<1>6. TakerInv'
  BY DEF IInv, TakeSteering, Driven, lane, drive, starts, subs, phase, resume, TypeOK, TurnInv,
     TakerInv, GoneInv, Working, Gone, Modes, CloseSteps, Untracked, Admission, Over
<1>7. TurnInv' /\ CompactInv' /\ AcceptedInv' /\ RedriveInv' /\ ForgottenInv' /\ DrivesInv'
  BY DEF IInv, TakeSteering, Driven, lane, drive, starts, subs, phase, resume, TurnInv,
     CompactInv, AcceptedInv, RedriveInv, ForgottenInv, Working, DrivesInv
<1>8. QED
  BY <1>1, <1>2, <1>3, <1>4, <1>5, <1>6, <1>7 DEF IInv

LEMMA EndIInv == ASSUME IInv, End PROVE IInv'
<1>1. TypeOK'
  <2>1. copies' \in [Inputs -> Nat]
    BY DEF IInv, TypeOK, CopiesInv, End
  <2>2. mode' \in Modes
    BY DEF IInv, TypeOK, End, Modes, CloseSteps
  <2>3. aborting' \in BOOLEAN
    BY Zenon DEF End
  <2>4. QED
    BY <2>1, <2>2, <2>3 DEF IInv, TypeOK, End, Driven, starts, subs, resume
<1>2. GoneInv'
  BY DEF IInv, End, Driven, lane, drive, starts, subs, phase, resume, TypeOK, TurnInv, GoneInv,
     Gone, Working, CloseSteps, Untracked, Admission, Over
<1>3. CopiesInv'
  BY DEF IInv, End, Driven, lane, drive, starts, subs, phase, resume, TypeOK, CopiesInv,
     FreshInv
<1>4. FreshInv'
  BY DEF IInv, End, Driven, lane, drive, starts, subs, phase, resume, TypeOK, TurnInv, FreshInv,
     CopiesInv, Untracked, Admission, Over
<1>5. KeptInv'
  BY DEF IInv, End, Driven, lane, drive, starts, subs, phase, resume, TypeOK, TurnInv, KeptInv,
     CompactInv, Untracked, Admission, Over
<1>6. AcceptedInv'
  BY DEF IInv, End, Driven, lane, drive, starts, subs, phase, resume, TypeOK, TurnInv,
     AcceptedInv, GoneInv, Working, Gone, Modes, CloseSteps, Untracked, Admission, Over
<1>7. TakerInv'
  BY DEF IInv, End, Driven, lane, drive, starts, subs, phase, resume, TypeOK, TurnInv, TakerInv,
     GoneInv, Working, Gone, Modes, CloseSteps, Untracked, Admission, Over
<1>8. ForgottenInv'
  BY DEF IInv, End, Driven, lane, drive, starts, subs, phase, resume, TypeOK, TurnInv,
     ForgottenInv, AcceptedInv, GoneInv, Working, Gone, Modes, CloseSteps, Untracked, Admission,
     Over
<1>9. DrivesInv'
  BY DEF IInv, End, Driven, lane, drive, starts, subs, phase, resume, TypeOK, DrivesInv
<1>10. TurnInv' /\ CompactInv' /\ RedriveInv'
  BY DEF IInv, End, Driven, lane, drive, starts, subs, phase, resume, TurnInv, CompactInv,
     RedriveInv
<1>11. QED
  BY <1>1, <1>2, <1>3, <1>4, <1>5, <1>6, <1>7, <1>8, <1>9, <1>10 DEF IInv

LEMMA DriveSettledIInv == ASSUME IInv, DriveSettled PROVE IInv'
<1>1. TypeOK'
  BY DEF IInv, DriveSettled, lane, drive, starts, subs, phase, resume, TypeOK, Modes,
     CloseSteps, Untracked, Admission, Over
<1>2. GoneInv'
  BY DEF IInv, DriveSettled, lane, drive, starts, subs, phase, resume, TypeOK, TurnInv, GoneInv,
     Gone, Working, CloseSteps, Untracked, Admission, Over
<1>3. AcceptedInv'
  BY DEF IInv, DriveSettled, lane, drive, starts, subs, phase, resume, TypeOK, TurnInv,
     AcceptedInv, GoneInv, Working, Gone, Modes, CloseSteps, Untracked, Admission, Over
<1>4. DrivesInv'
  BY DEF IInv, DriveSettled, lane, drive, starts, subs, phase, resume, TypeOK, DrivesInv
<1>5. TurnInv' /\ CopiesInv' /\ FreshInv' /\ KeptInv' /\ CompactInv' /\ RedriveInv' /\ TakerInv' /\ ForgottenInv'
  BY DEF IInv, DriveSettled, lane, drive, starts, subs, phase, resume, TurnInv, CopiesInv,
     FreshInv, KeptInv, CompactInv, RedriveInv, TakerInv, Working, ForgottenInv
<1>6. QED
  BY <1>1, <1>2, <1>3, <1>4, <1>5 DEF IInv

LEMMA ApplyEndIInv == ASSUME IInv, ApplyEnd PROVE IInv'
<1>1. TypeOK'
  BY DEF IInv, ApplyEnd, lane, drive, starts, subs, phase, resume, TypeOK, Modes, CloseSteps,
     Untracked, Admission, Over
<1>2. TurnInv' /\ GoneInv' /\ CopiesInv' /\ FreshInv' /\ KeptInv' /\ CompactInv' /\ AcceptedInv' /\ RedriveInv' /\ TakerInv' /\ ForgottenInv' /\ DrivesInv'
  BY DEF IInv, ApplyEnd, lane, drive, starts, subs, phase, resume, TurnInv, GoneInv, Gone,
     CopiesInv, FreshInv, KeptInv, CompactInv, AcceptedInv, RedriveInv, TakerInv, Working,
     ForgottenInv, DrivesInv
<1>3. QED
  BY <1>1, <1>2 DEF IInv

LEMMA OpenIInv == ASSUME IInv, Open PROVE IInv'
<1>1. TypeOK'
  BY DEF IInv, Open, lane, drive, starts, subs, phase, resume, TypeOK, Modes, CloseSteps,
     Untracked, Admission, Over
<1>2. GoneInv'
  BY DEF IInv, Open, lane, drive, starts, subs, phase, resume, TypeOK, TurnInv, GoneInv, Gone,
     Working, CloseSteps, Untracked, Admission, Over
<1>3. AcceptedInv'
  BY DEF IInv, Open, lane, drive, starts, subs, phase, resume, TypeOK, TurnInv, AcceptedInv,
     GoneInv, Working, Gone, Modes, CloseSteps, Untracked, Admission, Over
<1>4. RedriveInv'
  BY DEF IInv, Open, lane, drive, starts, subs, phase, resume, TypeOK, TurnInv, RedriveInv,
     GoneInv, Working, Gone, Modes, CloseSteps, Untracked, Admission, Over
<1>5. TakerInv'
  BY DEF IInv, Open, lane, drive, starts, subs, phase, resume, TypeOK, TurnInv, TakerInv,
     GoneInv, Working, Gone, Modes, CloseSteps, Untracked, Admission, Over
<1>6. ForgottenInv'
  BY DEF IInv, Open, lane, drive, starts, subs, phase, resume, TypeOK, TurnInv, ForgottenInv,
     AcceptedInv, GoneInv, Working, Gone, Modes, CloseSteps, Untracked, Admission, Over
<1>7. TurnInv' /\ CopiesInv' /\ FreshInv' /\ KeptInv' /\ CompactInv' /\ DrivesInv'
  BY DEF IInv, Open, lane, drive, starts, subs, phase, resume, TurnInv, CopiesInv, FreshInv,
     KeptInv, CompactInv, DrivesInv
<1>8. QED
  BY <1>1, <1>2, <1>3, <1>4, <1>5, <1>6, <1>7 DEF IInv

LEMMA CrashIInv == ASSUME IInv, Crash PROVE IInv'
<1>1. TypeOK'
  <2>1. pc' \in [Requests -> {"new", "queued", "opening"} \cup Untracked \cup Admission \cup Over]
    BY DEF IInv, TypeOK, Crash, Over
  <2>2. mode' \in Modes
    BY DEF Crash, Modes
  <2>3. resuming' \in BOOLEAN
    BY Zenon DEF Crash, Forget
  <2>4. QED
    BY <2>1, <2>2, <2>3 DEF IInv, TypeOK, Crash, Stop, Forget
<1>2. TurnInv'
  BY DEF IInv, Crash, Stop, Forget, lane, drive, starts, subs, phase, resume, TypeOK, TurnInv,
     Untracked, Admission, Over
<1>3. GoneInv'
  BY DEF IInv, Crash, Stop, Forget, lane, drive, starts, subs, phase, resume, TypeOK, TurnInv,
     GoneInv, Gone, Working, CloseSteps, Untracked, Admission, Over
<1>4. CopiesInv'
  BY DEF IInv, Crash, Stop, Forget, lane, drive, starts, subs, phase, resume, TypeOK, CopiesInv,
     FreshInv
<1>5. FreshInv'
  BY DEF IInv, Crash, Stop, Forget, lane, drive, starts, subs, phase, resume, TypeOK, TurnInv,
     FreshInv, CopiesInv, Untracked, Admission, Over
<1>6. KeptInv'
  BY DEF IInv, Crash, Stop, Forget, lane, drive, starts, subs, phase, resume, TypeOK, TurnInv,
     KeptInv, CompactInv, Untracked, Admission, Over
<1>7. CompactInv'
  BY DEF IInv, Crash, Stop, Forget, lane, drive, starts, subs, phase, resume, TypeOK,
     CompactInv, Over
<1>8. AcceptedInv'
  BY DEF IInv, Crash, Stop, Forget, lane, drive, starts, subs, phase, resume, TypeOK, TurnInv,
     AcceptedInv, GoneInv, Working, Gone, Modes, CloseSteps, Untracked, Admission, Over
<1>9. RedriveInv'
  BY DEF IInv, Crash, Stop, Forget, lane, drive, starts, subs, phase, resume, TypeOK, TurnInv,
     RedriveInv, GoneInv, Working, Gone, Modes, CloseSteps, Untracked, Admission, Over
<1>10. TakerInv'
  BY DEF IInv, Crash, Stop, Forget, lane, drive, starts, subs, phase, resume, TypeOK, TurnInv,
     TakerInv, GoneInv, Working, Gone, Modes, CloseSteps, Untracked, Admission, Over
<1>11. ForgottenInv'
  BY DEF IInv, Crash, Stop, Forget, lane, drive, starts, subs, phase, resume, TypeOK, TurnInv,
     ForgottenInv, AcceptedInv, GoneInv, Working, Gone, Modes, CloseSteps, Untracked, Admission,
     Over
<1>12. DrivesInv'
  BY DEF IInv, Crash, Stop, Forget, lane, drive, starts, subs, phase, resume, TypeOK, DrivesInv
<1>13. QED
  BY <1>1, <1>2, <1>3, <1>4, <1>5, <1>6, <1>7, <1>8, <1>9, <1>10, <1>11, <1>12 DEF IInv

LEMMA FaultIInv == ASSUME IInv, Fault PROVE IInv'
<1>1. TypeOK'
  <2>1. mode' \in Modes
    BY DEF Fault, Modes
  <2>2. /\ pc' \in [Requests -> {"new", "queued", "opening"} \cup Untracked \cup Admission \cup Over]
        /\ turn' \in Requests \cup {None} /\ accepted' \in 0..made' /\ seen' \in 0..made'
        /\ retried' \subseteq Requests
    BY DEF IInv, TypeOK, Fault, Answer, Forget, subs, Over
  <2>3. resuming' \in BOOLEAN
    BY Zenon DEF Fault, Forget
  <2>4. QED
    BY <2>1, <2>2, <2>3 DEF IInv, TypeOK, Fault, Stop, Forget
<1>2. TurnInv'
  BY DEF IInv, Fault, Stop, Forget, Answer, lane, drive, starts, subs, phase, resume, TypeOK,
     TurnInv, Untracked, Admission, Over
<1>3. GoneInv'
  BY DEF IInv, Fault, Stop, Forget, Answer, lane, drive, starts, subs, phase, resume, TypeOK,
     TurnInv, GoneInv, Gone, Working, CloseSteps, Untracked, Admission, Over
<1>4. CopiesInv'
  BY DEF IInv, Fault, Stop, Forget, Answer, lane, drive, starts, subs, phase, resume, TypeOK,
     CopiesInv, FreshInv
<1>5. FreshInv'
  BY DEF IInv, Fault, Stop, Forget, Answer, lane, drive, starts, subs, phase, resume, TypeOK,
     TurnInv, FreshInv, CopiesInv, Untracked, Admission, Over
<1>6. KeptInv'
  BY DEF IInv, Fault, Stop, Forget, Answer, lane, drive, starts, subs, phase, resume, TypeOK,
     TurnInv, KeptInv, CompactInv, Untracked, Admission, Over
<1>7. CompactInv'
  BY DEF IInv, Fault, Stop, Forget, Answer, lane, drive, starts, subs, phase, resume, TypeOK,
     CompactInv, Over
<1>8. AcceptedInv'
  BY DEF IInv, Fault, Stop, Forget, Answer, lane, drive, starts, subs, phase, resume, TypeOK,
     TurnInv, AcceptedInv, GoneInv, Working, Gone, Modes, CloseSteps, Untracked, Admission, Over
<1>9. RedriveInv'
  BY DEF IInv, Fault, Stop, Forget, Answer, lane, drive, starts, subs, phase, resume, TypeOK,
     TurnInv, RedriveInv, GoneInv, Working, Gone, Modes, CloseSteps, Untracked, Admission, Over
<1>10. TakerInv'
  BY DEF IInv, Fault, Stop, Forget, Answer, lane, drive, starts, subs, phase, resume, TypeOK,
     TurnInv, TakerInv, GoneInv, Working, Gone, Modes, CloseSteps, Untracked, Admission, Over
<1>11. ForgottenInv'
  BY DEF IInv, Fault, Stop, Forget, Answer, lane, drive, starts, subs, phase, resume, TypeOK,
     TurnInv, ForgottenInv, AcceptedInv, GoneInv, Working, Gone, Modes, CloseSteps, Untracked,
     Admission, Over
<1>12. DrivesInv'
  BY DEF IInv, Fault, Stop, Forget, Answer, lane, drive, starts, subs, phase, resume, TypeOK,
     DrivesInv
<1>13. QED
  BY <1>1, <1>2, <1>3, <1>4, <1>5, <1>6, <1>7, <1>8, <1>9, <1>10, <1>11, <1>12 DEF IInv

LEMMA CloseIInv == ASSUME IInv, Close PROVE IInv'
<1>1. TypeOK'
  BY DEF IInv, Close, Stop, lane, drive, starts, subs, phase, resume, TypeOK, Modes, CloseSteps,
     Untracked, Admission, Over
<1>2. GoneInv'
  BY DEF IInv, Close, Stop, lane, drive, starts, subs, phase, resume, TypeOK, TurnInv, GoneInv,
     Gone, Working, CloseSteps, Untracked, Admission, Over
<1>3. TakerInv'
  BY DEF IInv, Close, Stop, lane, drive, starts, subs, phase, resume, TypeOK, TurnInv, TakerInv,
     GoneInv, Working, Gone, Modes, CloseSteps, Untracked, Admission, Over
<1>4. ForgottenInv'
  BY DEF IInv, Close, Stop, lane, drive, starts, subs, phase, resume, TypeOK, TurnInv,
     ForgottenInv, AcceptedInv, GoneInv, Working, Gone, Modes, CloseSteps, Untracked, Admission,
     Over
<1>5. TurnInv' /\ CopiesInv' /\ FreshInv' /\ KeptInv' /\ CompactInv' /\ AcceptedInv' /\ RedriveInv' /\ DrivesInv'
  BY DEF IInv, Close, Stop, lane, drive, starts, subs, phase, resume, TurnInv, CopiesInv,
     FreshInv, KeptInv, CompactInv, AcceptedInv, RedriveInv, DrivesInv
<1>6. QED
  BY <1>1, <1>2, <1>3, <1>4, <1>5 DEF IInv

LEMMA ClosingIInv == ASSUME IInv, Closing PROVE IInv'
<1>1. TypeOK'
  <2>1. CASE CloseHarness
    <3>1. mode' \in Modes
      BY <2>1 DEF CloseHarness, Modes, CloseSteps
    <3>2. /\ pc' \in [Requests -> {"new", "queued", "opening"} \cup Untracked \cup Admission \cup Over]
          /\ turn' \in Requests \cup {None} /\ accepted' \in 0..made' /\ seen' \in 0..made'
          /\ retried' \subseteq Requests
      BY <2>1 DEF IInv, TypeOK, CloseHarness, Answer, Forget, subs, Over
    <3>3. aborting' \in BOOLEAN /\ resuming' \in BOOLEAN
      BY <2>1, Zenon DEF IInv, TypeOK, CloseHarness, Forget
    <3>4. QED
      BY <2>1, <3>1, <3>2, <3>3 DEF IInv, TypeOK, CloseHarness, Forget
  <2>2. CASE ~CloseHarness
    <3>0. aborting' \in BOOLEAN
      BY <2>2, Zenon DEF IInv, TypeOK, Closing, CloseLook, CloseAbort
    <3>1. mode' \in Modes /\ closeSeen' \in 0..made
      BY <2>2 DEF IInv, TypeOK, Closing, CloseLook, CloseAbort, CloseStep, Modes, CloseSteps
    <3>2. UNCHANGED <<queue, entries, current, compactions, made, copies, discarded, mine, drive, starts,
                      subs, reopened, resume, ends, stops>>
      BY <2>2 DEF Closing, CloseLook, CloseAbort, CloseStep
    <3>3. QED
      BY <3>0, <3>1, <3>2 DEF IInv, TypeOK, drive, starts, subs, resume
  <2>3. QED
    BY <2>1, <2>2
<1>2. TurnInv'
  BY DEF IInv, Closing, CloseStep, CloseLook, CloseAbort, CloseHarness, Forget, Answer, lane,
     drive, starts, subs, phase, resume, TypeOK, TurnInv, Untracked, Admission, Over
<1>3. GoneInv'
  <2>1. CASE CloseHarness
    <3>1. /\ active' = {} /\ waiting' = 0 /\ trying' = 0 /\ begun' = {} /\ resuming' = FALSE /\ mine' = {}
      BY <2>1 DEF CloseHarness, Forget
    <3>2. \A r \in Requests : pc'[r] \notin Untracked \cup Admission
      BY <2>1 DEF IInv, TypeOK, TurnInv, CloseHarness, Answer, subs, Untracked, Admission, Over
    <3> QED BY <3>1, <3>2 DEF GoneInv
  <2>2. CASE ~CloseHarness
    <3>1. UNCHANGED <<active, waiting, trying, begun, resuming, mine, pc>> /\ (Gone' => Gone)
      BY <2>2 DEF Closing, CloseLook, CloseStep, CloseAbort, drive, starts, subs, resume, Gone, Working, CloseSteps
    <3> QED BY <3>1 DEF IInv, GoneInv
  <2> QED BY <2>1, <2>2
<1>4. CopiesInv'
  BY DEF IInv, Closing, CloseStep, CloseLook, CloseAbort, CloseHarness, Forget, Answer, lane,
     drive, starts, subs, phase, resume, TypeOK, CopiesInv, FreshInv
<1>5. FreshInv'
  BY DEF IInv, Closing, CloseStep, CloseLook, CloseAbort, CloseHarness, Forget, Answer, lane,
     drive, starts, subs, phase, resume, TypeOK, TurnInv, FreshInv, CopiesInv, Untracked,
     Admission, Over
<1>6. KeptInv'
  BY DEF IInv, Closing, CloseStep, CloseLook, CloseAbort, CloseHarness, Forget, Answer, lane,
     drive, starts, subs, phase, resume, TypeOK, TurnInv, KeptInv, CompactInv, Untracked,
     Admission, Over
<1>7. CompactInv'
  BY DEF IInv, Closing, CloseStep, CloseLook, CloseAbort, CloseHarness, Forget, Answer, lane,
     drive, starts, subs, phase, resume, TypeOK, CompactInv, Over
<1>8. AcceptedInv'
  BY DEF IInv, Closing, CloseStep, CloseLook, CloseAbort, CloseHarness, Forget, Answer, lane,
     drive, starts, subs, phase, resume, TypeOK, TurnInv, AcceptedInv, GoneInv, Working, Gone,
     Modes, CloseSteps, Untracked, Admission, Over
<1>9. RedriveInv'
  BY DEF IInv, Closing, CloseStep, CloseLook, CloseAbort, CloseHarness, Forget, Answer, lane,
     drive, starts, subs, phase, resume, TypeOK, TurnInv, RedriveInv, GoneInv, Working, Gone,
     Modes, CloseSteps, Untracked, Admission, Over
<1>10. TakerInv'
  BY DEF IInv, Closing, CloseStep, CloseLook, CloseAbort, CloseHarness, Forget, Answer, lane,
     drive, starts, subs, phase, resume, TypeOK, TurnInv, TakerInv, GoneInv, Working, Gone, Modes,
     CloseSteps, Untracked, Admission, Over
<1>11. ForgottenInv'
  BY DEF IInv, Closing, CloseStep, CloseLook, CloseAbort, CloseHarness, Forget, Answer, lane,
     drive, starts, subs, phase, resume, TypeOK, TurnInv, ForgottenInv, AcceptedInv, GoneInv,
     Working, Gone, Modes, CloseSteps, Untracked, Admission, Over
<1>12. DrivesInv'
  BY DEF IInv, Closing, CloseStep, CloseLook, CloseAbort, CloseHarness, Forget, Answer, lane,
     drive, starts, subs, phase, resume, TypeOK, DrivesInv
<1>13. QED
  BY <1>1, <1>2, <1>3, <1>4, <1>5, <1>6, <1>7, <1>8, <1>9, <1>10, <1>11, <1>12 DEF IInv

LEMMA NextIInv == IInv /\ [Next]_vars => IInv'
<1> SUFFICES ASSUME IInv, [Next]_vars PROVE IInv'
  OBVIOUS
<1>1. CASE \E r \in Requests : Submit(r) \/ Submission(r)
  <2>1. PICK r \in Requests : Submit(r) \/ Submission(r)
    BY <1>1
  <2>2. QED
    BY <2>1, SubmitIInv, TakeIInv, ObtainIInv, ExpandIInv, FindQueuedIInv, FindEntryIInv, ReplayLookIInv,
       ReplayIInv, RedriveIInv, AdmitLookIInv, AdmitIInv, AcceptPromptIInv, LaneBusyIInv,
       DriveAcceptedIInv, SteerIInv, InspectLookIInv, InspectIInv, CompactIInv, AcceptCompactionIInv,
       NothingToCompactIInv DEF Submission
<1>2. CASE QueuedStart \/ Resume \/ ResumeLook \/ ResumeInspect \/ RequestAbort
  BY <1>2, WakeIInv, StartQueuedIInv, StartDriveIInv, NothingQueuedIInv, StartBusyIInv, ResumeIInv,
     ResumeLookIInv, ResumeInspectIInv, RequestAbortIInv DEF QueuedStart
<1>3. CASE TakeSteering \/ End \/ DriveSettled \/ ApplyEnd
  BY <1>3, TakeSteeringIInv, EndIInv, DriveSettledIInv, ApplyEndIInv
<1>4. CASE Open \/ Crash \/ Fault \/ Close \/ Closing
  BY <1>4, OpenIInv, CrashIInv, FaultIInv, CloseIInv, ClosingIInv
<1>5. CASE UNCHANGED vars
  <2>1. TypeOK' /\ TurnInv' /\ GoneInv' /\ CopiesInv' /\ FreshInv' /\ KeptInv' /\ CompactInv'
    BY <1>5 DEF vars, lane, drive, starts, subs, phase, resume, IInv, TypeOK, TurnInv, Gone, GoneInv,
       CopiesInv, FreshInv, KeptInv, CompactInv
  <2>2. AcceptedInv' /\ RedriveInv' /\ TakerInv' /\ ForgottenInv' /\ DrivesInv'
    BY <1>5 DEF vars, lane, drive, starts, subs, phase, resume, IInv, AcceptedInv, RedriveInv, TakerInv,
       ForgottenInv, DrivesInv, Working
  <2>3. QED
    BY <2>1, <2>2 DEF IInv
<1>6. QED
  BY <1>1, <1>2, <1>3, <1>4, <1>5 DEF Next

LEMMA AlwaysIInv == Spec => []IInv
  BY InitIInv, NextIInv, PTL DEF Spec
-----------------------------------------------------------------------------
\* Every variable keeps its type, whatever happens in what order.
THEOREM TypeCorrect == Spec => []TypeOK
<1>1. IInv => TypeOK
  BY DEF IInv
<1>2. QED
  BY <1>1, AlwaysIInv, PTL

\* An input is admitted at most once, as a prompt or a steer, through crashes,
\* faults, closes and any number of replays: findAdmitted misses nothing.
THEOREM InputsAdmittedOnce == Spec => []AdmittedOnce
<1>1. IInv => AdmittedOnce
  BY DEF IInv, CopiesInv, AdmittedOnce
<1>2. QED
  BY <1>1, AlwaysIInv, PTL

\* An acknowledged input is in the lane, unless an abort discarded it there.
THEOREM AcknowledgedInputsKept == Spec => []AcknowledgedKept
<1>1. IInv => AcknowledgedKept
  BY DEF IInv, KeptInv, AcknowledgedKept
<1>2. QED
  BY <1>1, AlwaysIInv, PTL

\* No run is left undriven in an open runtime but the one it reopened.
THEOREM RunsRemembered == Spec => []NoRunForgotten
<1>1. IInv => NoRunForgotten
  BY DEF IInv, ForgottenInv, NoRunForgotten, Driven, Working
<1>2. QED
  BY <1>1, AlwaysIInv, PTL

\* What an open runtime queued always has a start that waits to take it.
THEOREM QueuedInputsHaveTaker == Spec => []QueuedHasTaker
<1>1. IInv => QueuedHasTaker
  BY DEF IInv, TakerInv, QueuedHasTaker, Working
<1>2. QED
  BY <1>1, AlwaysIInv, PTL

\* What Pi drives reads as driven, so that an abort finds it and the runtime is busy, in
\* every race of prompts, steers, resumes, replays and queued starts: only a drive that
\* looks at nothing, coming after another's, takes it out of activeOperations.
THEOREM DrivenRunsKnown == Spec => []DrivesKnown
<1>1. IInv => DrivesKnown
  BY DEF IInv, DrivesInv, DrivesKnown, Driven
<1>2. QED
  BY <1>1, AlwaysIInv, PTL
-----------------------------------------------------------------------------
\* What a queued-steering start waits for is driven, or was accepted and is about to be.
StartsMove == Starting /\ current # 0 =>
    \/ Driven
    \/ current \in begun
    \/ \E r \in Requests : turn = r /\ pc[r] = "drive" /\ accepted = current

\* What close() waits for the lane to go idle of is driven, and its abort is requested.
CloseMoves == mode \in {"closeIdle", "closeIdleAgain"} => Driven /\ aborting

\* A steer that looked at the lane saw the run an interruption left there, if it still is.
LookInv == \A r \in Requests :
    pc[r] = "inspectSeen" /\ current # 0 /\ current = reopened => seen = current

MovesInv == StartsMove /\ CloseMoves /\ LookInv

\* A step of the request in turn that leaves alone what is in progress and what is begun.
LEMMA TurnMoves ==
    ASSUME IInv, MovesInv, UNCHANGED <<current, aborting, mode, begun, reopened>>,
           Driven => Driven', Starting' => Starting \/ current = 0,
           NEW r \in Requests, turn = r, pc[r] # "drive",
           \A q \in Requests : q # r => pc'[q] = pc[q],
           pc'[r] = "inspectSeen" => seen' = current
    PROVE  MovesInv'
<1>1. StartsMove'
  BY DEF MovesInv, StartsMove
<1>2. CloseMoves'
  BY DEF MovesInv, CloseMoves
<1>3. \A q \in Requests : q # r => pc[q] # "inspectSeen"
  BY DEF IInv, TurnInv, Admission
<1> QED BY <1>1, <1>2, <1>3 DEF MovesInv, LookInv

\* A step that concerns no request.
LEMMA OthersMove ==
    ASSUME IInv, MovesInv, UNCHANGED <<current, aborting, mode, subs, reopened>>,
           Driven => Driven', Starting' => Starting \/ current = 0,
           current \in begun => current \in begun' \/ Driven'
    PROVE  MovesInv'
  BY DEF MovesInv, StartsMove, CloseMoves, LookInv, subs

LEMMA SubmissionMoves ==
    ASSUME IInv, MovesInv, NEW r \in Requests, Submit(r) \/ Submission(r) PROVE MovesInv'
<1>t. pc \in [Requests -> {"new", "queued", "opening"} \cup Untracked \cup Admission \cup Over]
  BY DEF IInv, TypeOK
<1>1. CASE Submit(r) \/ Take(r)
  <2>1. UNCHANGED <<current, aborting, mode, driving, waiting, trying, begun, reopened, accepted, seen>>
    BY <1>1 DEF Submit, Take, lane, starts, drive, phase
  <2>2. \A q \in Requests : /\ pc'[q] = "inspectSeen" <=> pc[q] = "inspectSeen"
                            /\ turn = q /\ pc[q] = "drive" => turn' = q /\ pc'[q] = "drive"
    BY <1>1, <1>t, RuntimeAssumption DEF Submit, Take
  <2> QED BY <2>1, <2>2 DEF MovesInv, StartsMove, Starting, CloseMoves, LookInv, Driven, Working
<1>2. CASE \/ Obtain(r) \/ Expand(r) \/ FindQueued(r) \/ FindEntry(r) \/ ReplayLook(r) \/ Replay(r)
           \/ AdmitLook(r) \/ Admit(r) \/ LaneBusy(r) \/ Steer(r) \/ InspectLook(r) \/ Compact(r)
           \/ NothingToCompact(r)
  <2>1. /\ UNCHANGED <<current, aborting, mode, driving, waiting, trying, begun, reopened>>
        /\ turn = r /\ pc[r] # "drive"
    BY <1>2 DEF Obtain, Expand, FindQueued, FindEntry, ReplayLook, Replay, AdmitLook, Admit, LaneBusy,
       Steer, InspectLook, Compact, NothingToCompact, At, lane, drive, starts, phase
  <2>2. \E step : pc' = [pc EXCEPT ![r] = step] /\ (step = "inspectSeen" => seen' = current)
    BY <1>2 DEF Obtain, Expand, FindQueued, FindEntry, ReplayLook, Replay, AdmitLook, Admit, LaneBusy,
       Steer, InspectLook, Compact, NothingToCompact, Go, Look, Answer
  <2>3. /\ \A q \in Requests : q # r => pc'[q] = pc[q]
        /\ pc'[r] = "inspectSeen" => seen' = current
    BY <2>2, <1>t
  <2> QED BY <2>1, <2>3, TurnMoves DEF Driven, Working, Starting
<1>3. CASE Redrive(r)
  <2>1. /\ UNCHANGED <<current, aborting, mode, waiting, trying, begun, reopened>>
        /\ turn = r /\ pc[r] = "redrive" /\ pc' = [pc EXCEPT ![r] = "ok"] /\ DriveUnlooked(reopened)
    BY <1>3 DEF Redrive, At, Answer, lane, starts, phase
  <2>2. reopened \in 1..made
    BY <2>1 DEF IInv, TypeOK, RedriveInv
  <2>3. Driven => Driven'
    BY <2>1, <2>2, DriveKeeps DEF IInv, Driven, Working
  <2> QED BY <2>1, <2>3, <1>t, TurnMoves DEF Starting
<1>4. CASE AcceptPrompt(r) \/ AcceptCompaction(r)
  <2>1. /\ current = 0 /\ current' = made + 1 /\ UNCHANGED <<mode, waiting, trying, begun, reopened>>
        /\ turn = r /\ turn' = r /\ accepted' = made + 1 /\ pc' = [pc EXCEPT ![r] = "drive"]
    BY <1>4 DEF AcceptPrompt, AcceptCompaction, At, NewOperation, starts, phase
  <2>2. \A q \in Requests : pc'[q] = "drive" => q = r
    BY <2>1, <1>t DEF IInv, TurnInv, Admission
  <2>3. StartsMove'
    BY <2>1, <1>t DEF StartsMove
  <2>4. CloseMoves'
    BY <2>1 DEF MovesInv, CloseMoves, Driven
  <2>5. reopened # made + 1
    BY DEF IInv, TypeOK
  <2> QED BY <2>1, <2>3, <2>4, <2>5 DEF MovesInv, LookInv
<1>5. CASE DriveAccepted(r)
  <2>1. /\ UNCHANGED <<current, aborting, mode, waiting, trying, begun, reopened>> /\ Working
        /\ turn = r /\ pc[r] = "drive" /\ pc' = [pc EXCEPT ![r] = "ok"] /\ DriveLooked(accepted)
    BY <1>5 DEF DriveAccepted, At, Answer, lane, starts, phase
  <2>2. accepted = current /\ current # 0
    BY <2>1 DEF IInv, AcceptedInv
  <2>3. Driven'
    BY <2>1, <2>2 DEF DriveLooked, Drive, Driven, Working
  <2>4. \A q \in Requests : pc'[q] # "inspectSeen"
    BY <2>1, <1>t DEF IInv, TurnInv, Admission
  <2> QED BY <2>1, <2>3, <2>4 DEF MovesInv, StartsMove, CloseMoves, LookInv
<1>6. CASE Inspect(r)
  <2>1. /\ UNCHANGED <<current, aborting, mode, begun, reopened>> /\ Working
        /\ turn = r /\ pc[r] = "inspectSeen" /\ pc' = [pc EXCEPT ![r] = "ok"] /\ ResumeSeen(seen)
    BY <1>6 DEF Inspect, At, Answer, lane, starts, phase
  <2>2. (driving = current => driving' = current) /\ (seen = current /\ current # 0 => driving' = current)
    <3>1. CASE UNCHANGED drive /\ ~(seen # 0 /\ seen \notin active)
      BY <3>1 DEF drive, IInv, DrivesInv
    <3>2. CASE DriveLooked(seen)
      BY <3>2 DEF DriveLooked, Drive
    <3> QED BY <2>1, <3>1, <3>2 DEF ResumeSeen
  <2>3. current # 0 => Driven' \/ current \in begun
    <3>1. \A q \in Requests : turn = q => pc[q] # "drive"
      BY <2>1
    <3>2. current # 0 => driving = current \/ current = reopened \/ current \in begun
      BY <2>1, <3>1 DEF IInv, ForgottenInv
    <3>3. current # 0 /\ current = reopened => seen = current
      BY <2>1 DEF MovesInv, LookInv
    <3> QED BY <2>1, <2>2, <3>2, <3>3 DEF Driven, Working
  <2>4. CloseMoves'
    BY <2>1, <2>2 DEF MovesInv, CloseMoves, Driven, Working
  <2>5. \A q \in Requests : pc'[q] # "inspectSeen"
    BY <2>1, <1>t DEF IInv, TurnInv, Admission
  <2> QED BY <2>1, <2>3, <2>4, <2>5 DEF MovesInv, StartsMove, LookInv
<1> QED BY <1>1, <1>2, <1>3, <1>4, <1>5, <1>6 DEF Submission

LEMMA StopMoves == ASSUME IInv, MovesInv, Open \/ Crash \/ Fault \/ Close \/ Closing PROVE MovesInv'
<1>1. CASE Open \/ Crash \/ Fault \/ CloseHarness
  <2>1. CASE Open
    <3>1. ~Starting' /\ mode' = "open" /\ \A q \in Requests : pc'[q] # "inspectSeen"
      BY <2>1 DEF Open, IInv, GoneInv, Gone, starts, subs, Starting, Admission
    <3> QED BY <3>1 DEF MovesInv, StartsMove, CloseMoves, LookInv
  <2>2. CASE Crash \/ Fault \/ CloseHarness
    <3>1. ~Starting' /\ mode' \in {"down", "faulted", "closeFlush"} /\ reopened' = 0
      BY <2>2 DEF Crash, Fault, CloseHarness, Forget, Starting
    <3>2. current' # 0 => current' # reopened'
      BY <3>1
    <3> QED BY <3>1, <3>2 DEF MovesInv, StartsMove, CloseMoves, LookInv
  <2> QED BY <1>1, <2>1, <2>2
<1>2. CASE Close
  <2>1. /\ UNCHANGED <<current, driving, waiting, trying, begun, turn, pc, accepted, seen, reopened>>
        /\ mode = "open" /\ mode' = "closeAdmissions"
    BY <1>2 DEF Close, lane, drive, starts, subs
  <2>2. Driven => Driven'
    BY <2>1 DEF Driven, Working, CloseSteps
  <2> QED BY <2>1, <2>2 DEF MovesInv, StartsMove, Starting, CloseMoves, LookInv
<1>3. CASE Closing /\ ~CloseHarness
  <2>1. /\ UNCHANGED <<current, driving, active, waiting, trying, begun, turn, pc, accepted, seen, reopened>>
        /\ mode \in CloseSteps /\ mode' \in CloseSteps \cup {"down"}
    BY <1>3 DEF Closing, CloseLook, CloseAbort, CloseStep, CloseSteps, drive, starts, subs
  <2>2. CASE mode = "closeFlush"
    <3>1. ~Starting' /\ mode' = "down"
      BY <1>3, <2>1, <2>2 DEF Closing, CloseLook, CloseAbort, CloseStep, IInv, GoneInv, Gone, Starting
    <3> QED BY <2>1, <3>1 DEF MovesInv, StartsMove, CloseMoves, LookInv
  <2>3. CASE mode # "closeFlush"
    <3>1. mode' \in CloseSteps \ {"closeFlush"}
      BY <1>3, <2>3 DEF Closing, CloseLook, CloseAbort, CloseStep, CloseSteps
    <3>2. Driven => Driven'
      BY <2>1, <3>1 DEF Driven, Working
    <3>3. StartsMove' /\ LookInv'
      BY <2>1, <3>2 DEF MovesInv, StartsMove, Starting, LookInv
    <3>4. mode' \in {"closeIdle", "closeIdleAgain"} => current \in active /\ aborting' = TRUE
      BY <1>3, <2>3, Zenon DEF Closing, CloseLook, CloseAbort, CloseStep
    <3>5. current \in active => Driven'
      BY <2>1, <3>1 DEF Driven, Working, IInv, TypeOK, DrivesInv
    <3> QED BY <3>3, <3>4, <3>5 DEF MovesInv, CloseMoves
  <2> QED BY <2>2, <2>3
<1> QED BY <1>1, <1>2, <1>3

LEMMA NextMoves == ASSUME IInv, MovesInv, [Next]_vars PROVE MovesInv'
<1>1. CASE Wake \/ NothingQueued \/ StartBusy
  <2>1. UNCHANGED <<current, aborting, driving, begun, mode, subs, reopened>>
    BY <1>1 DEF Wake, NothingQueued, StartBusy, lane, drive, phase
  <2>2. Starting' => Starting
    BY <1>1 DEF Wake, NothingQueued, StartBusy, Starting, IInv, TypeOK
  <2> QED BY <2>1, <2>2, OthersMove DEF Driven, Working
<1>2. CASE StartQueued
  <2>1. /\ current = 0 /\ current' = made + 1 /\ current' \in begun' /\ UNCHANGED <<mode, subs, reopened>>
    BY <1>2 DEF StartQueued, NewOperation, phase
  <2>2. reopened # made + 1
    BY DEF IInv, TypeOK
  <2> QED BY <2>1, <2>2 DEF MovesInv, StartsMove, CloseMoves, LookInv, Driven
<1>3. CASE StartDrive
  <2>1. PICK op \in begun : DriveUnlooked(op) /\ begun' = begun \ {op}
    BY <1>3 DEF StartDrive
  <2>2. UNCHANGED <<current, aborting, mode, subs, reopened, waiting, trying>> /\ Working
    BY <1>3 DEF StartDrive, lane, phase
  <2>3. op \in 1..made
    BY DEF IInv, TypeOK
  <2>4. /\ driving = current => driving' = current
        /\ op = current => driving' = current
    BY <2>1, <2>2, <2>3, DriveKeeps DEF IInv
  <2>5. (Driven => Driven') /\ (op = current => Driven')
    BY <2>2, <2>3, <2>4 DEF Driven, Working
  <2>6. Starting' => Starting
    BY <2>1, <2>2 DEF Starting
  <2> QED BY <2>1, <2>2, <2>5, <2>6, OthersMove
<1>4. CASE Resume \/ ResumeLook \/ TakeSteering \/ ApplyEnd \/ UNCHANGED vars
  <2>1. UNCHANGED <<current, aborting, driving, waiting, trying, begun, mode, subs, reopened>>
    BY <1>4 DEF Resume, ResumeLook, TakeSteering, ApplyEnd, vars, lane, drive, starts, phase
  <2> QED BY <2>1, OthersMove DEF Driven, Working, Starting
<1>5. CASE ResumeInspect
  <2>1. UNCHANGED <<current, aborting, waiting, trying, begun, mode, subs, reopened>>
    BY <1>5 DEF ResumeInspect, lane, starts, phase
  <2>2. driving = current => driving' = current
    BY <1>5 DEF ResumeInspect, ResumeSeen, DriveLooked, Drive, drive
  <2> QED BY <2>1, <2>2, OthersMove DEF Driven, Working, Starting
<1>6. CASE RequestAbort
  <2>1. /\ UNCHANGED <<current, driving, waiting, trying, begun, turn, pc, accepted, seen, mode, reopened>>
        /\ mode = "open"
    BY <1>6 DEF RequestAbort, drive, starts, subs, phase
  <2> QED BY <2>1 DEF MovesInv, StartsMove, Starting, CloseMoves, LookInv, Driven, Working
<1>7. CASE End
  <2>1. current' = 0 /\ mode' \notin {"closeIdle", "closeIdleAgain"}
    BY <1>7 DEF End
  <2> QED BY <2>1 DEF MovesInv, StartsMove, CloseMoves, LookInv
<1>8. CASE DriveSettled
  <2>1. UNCHANGED <<current, aborting, driving, waiting, trying, begun, mode, subs, reopened>>
    BY <1>8 DEF DriveSettled, lane, starts, phase
  <2> QED BY <2>1, OthersMove DEF Driven, Working, Starting
<1> QED BY <1>1, <1>2, <1>3, <1>4, <1>5, <1>6, <1>7, <1>8, SubmissionMoves, StopMoves DEF Next, QueuedStart

\* Nothing in the runtime waits for an operation that nobody drives, whichever prompts, steers
\* and resumes raced for it: no start for the lane to go idle, and no close() but for a
\* run that it aborted (startQueuedSteeringWhenIdle, abort).
THEOREM WaitsForDrivenRuns == Spec => [](StartsMove /\ CloseMoves)
<1>1. Init => MovesInv
  BY DEF Init, MovesInv, StartsMove, CloseMoves, LookInv
<1>2. IInv /\ MovesInv /\ [Next]_vars => MovesInv'
  BY NextMoves
<1>3. MovesInv => StartsMove /\ CloseMoves
  BY DEF MovesInv
<1> QED BY <1>1, <1>2, <1>3, AlwaysIInv, PTL DEF Spec
=============================================================================
