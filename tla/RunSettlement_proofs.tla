------------------------ MODULE RunSettlement_proofs ------------------------
(***************************************************************************)
(* What is known of a session's ended runs, for any number of runs,         *)
(* runtimes, exits and faults.                                              *)
(***************************************************************************)
EXTENDS RunSettlement, SequenceTheorems, TLAPS

\* What Pi has in progress is the newest operation, newer than any it ended; only it is
\* driven, by an open runtime, which keeps it as in progress, or a compaction that ended.
OpsInv ==
    /\ current \in {0, made} /\ (current # 0 => result < current)
    /\ driving \in {0, current} /\ (driving # 0 => live = "open" /\ driving = openRun)
    /\ live # "none" => up /\ runtime # 0
    /\ live = "open" => openRun \in compactions \cup {0, driving}

Settling(a) == step[a] \in {"reported", "unheard"}

\* Appliers take turns: one with nothing to apply is idle, one in the parent's chain is in
\* it once, and one at a time is between its report and the settlement.
ChainInv ==
    /\ \A i, j \in DOMAIN chain : chain[i] = chain[j] => i = j
    /\ \A a \in Appliers : step[a] = "queued" <=> \E i \in DOMAIN chain : chain[i] = a
    /\ \A a \in Appliers : step[a] = "idle" <=> reports[a] = <<>>
    /\ \A a, b \in Appliers : Settling(a) /\ Settling(b) => a = b
    /\ \A a \in Appliers : reports[a] # <<>> => child /\ up

\* An applier past its report told its first end.
HeardInv == EndHeard /\ \A a \in Appliers : step[a] = "reported" => told[reports[a][1]] = 1

\* An end that is to be applied: Pi's is of a run that ended; Reins' is recovery's, or of a
\* compaction, or of the run a faulted runtime left in progress, and replaces no end of Pi's.
EndOK(a, e) ==
    /\ e[1] <= made
    /\ e[2] = "pi" => e[1] # current /\ e[1] \notin compactions /\ a # 0
    /\ e[2] = "reins" => /\ record # <<e[1], "pi">>
                         /\ \/ a = 0 \/ e[1] \in compactions
                            \/ a = runtime /\ live = "faulted" /\ e[1] = current

\* Recovery applies one end at most, and none while it is resuming.
EndsInv ==
    /\ \A a \in Appliers : \A i \in DOMAIN reports[a] : EndOK(a, reports[a][i])
    /\ record[1] <= made
    /\ record[2] = "pi" => record[1] = 0 \/ (record[1] # current /\ record[1] \notin compactions)
    /\ \A i \in DOMAIN reports[0] : i = 1
    /\ resuming # 0 => up /\ reports[0] = <<>>

\* Recovery gave a run up before Pi ended it, when it did: its end is applied first.
OrderInv ==
    \A b \in Appliers : \A k \in DOMAIN reports[b] :
        /\ reports[b][k][2] = "pi" /\ reports[0] # <<>> /\ reports[0][1][1] = reports[b][k][1]
        => \/ Settling(0) \/ k > 1
           \/ step[b] = "queued" /\ \A i, j \in DOMAIN chain : chain[i] = b /\ chain[j] = 0 => j < i

IInv == TypeOK /\ OpsInv /\ ChainInv /\ HeardInv /\ EndsInv /\ OrderInv
-----------------------------------------------------------------------------
USE SettlementAssumption

LEMMA EndParts ==
    /\ NoEnd[1] = 0 /\ NoEnd[2] = "pi"
    /\ \A e \in Ends : e[1] \in Runs /\ e[1] # 0 /\ e[2] \in {"pi", "reins"} /\ e = <<e[1], e[2]>>
    /\ \A r \in Runs : \A w \in {"pi", "reins"} : <<r, w>> \in Ends /\ <<r, w>>[1] = r /\ <<r, w>>[2] = w
BY DEF NoEnd, Ends, Runs

LEMMA EmptyLen == ASSUME NEW S, NEW s \in Seq(S) PROVE s = <<>> <=> Len(s) = 0
  OBVIOUS

LEMMA TailFacts ==
    ASSUME NEW S, NEW s \in Seq(S), s # <<>>
    PROVE  /\ Head(s) = s[1] /\ Head(s) \in S /\ 1 \in DOMAIN s /\ Tail(s) \in Seq(S)
           /\ DOMAIN Tail(s) = 1..(Len(s) - 1) /\ DOMAIN s = 1..Len(s) /\ Len(s) \in Nat \ {0}
           /\ \A i \in DOMAIN Tail(s) : i + 1 \in DOMAIN s /\ i + 1 # 1 /\ Tail(s)[i] = s[i + 1]
           /\ \A i \in DOMAIN s : i = 1 \/ (i - 1 \in DOMAIN Tail(s) /\ Tail(s)[i - 1] = s[i])
           /\ (Tail(s) = <<>> <=> Len(s) = 1)
<1>1. /\ Head(s) = s[1] /\ Head(s) \in S /\ 1 \in DOMAIN s /\ Tail(s) \in Seq(S)
      /\ DOMAIN Tail(s) = 1..(Len(s) - 1) /\ DOMAIN s = 1..Len(s) /\ Len(s) \in Nat \ {0}
      /\ Len(Tail(s)) = Len(s) - 1
      /\ \A i \in DOMAIN Tail(s) : i + 1 \in DOMAIN s /\ i + 1 # 1 /\ Tail(s)[i] = s[i + 1]
  OBVIOUS
<1>2. Tail(s) = <<>> <=> Len(Tail(s)) = 0
  BY <1>1, EmptyLen
<1> QED BY <1>1, <1>2

LEMMA AppendFacts ==
    ASSUME NEW S, NEW s \in Seq(S), NEW e \in S
    PROVE  /\ Append(s, e) \in Seq(S) /\ Len(s) \in Nat /\ Append(s, e) # <<>>
           /\ DOMAIN s = 1..Len(s) /\ DOMAIN Append(s, e) = 1..(Len(s) + 1)
           /\ Append(s, e)[Len(s) + 1] = e
           /\ \A i \in DOMAIN s : Append(s, e)[i] = s[i]
           /\ (s = <<>> <=> Len(s) = 0)
<1>1. s = <<>> <=> Len(s) = 0
  OBVIOUS
<1>2. /\ Append(s, e) \in Seq(S) /\ Len(s) \in Nat
      /\ DOMAIN s = 1..Len(s) /\ DOMAIN Append(s, e) = 1..(Len(s) + 1)
      /\ Append(s, e)[Len(s) + 1] = e
      /\ \A i \in DOMAIN s : Append(s, e)[i] = s[i]
  OBVIOUS
<1>3. Append(s, e) # <<>>
  BY <1>2
<1> QED BY <1>1, <1>2, <1>3

\* The types the steps are about.
LEMMA Typed ==
    ASSUME TypeOK
    PROVE  /\ \A a \in Appliers : reports[a] \in Seq(Ends)
           /\ chain \in Seq(Appliers) /\ 0 \in Appliers /\ runtime \in Appliers
           /\ made \in Nat /\ 0 \in 0..made /\ current \in Nat /\ driving \in Nat /\ result \in Nat
           /\ 1..made \subseteq Runs
           /\ \A a \in Appliers : \A i \in DOMAIN reports[a] : reports[a][i] \in Ends
BY DEF TypeOK, Appliers, Runs

LEMMA RecordTyped ==
    ASSUME TypeOK
    PROVE  record[1] \in Nat /\ made \in Nat
<1>1. record \in Ends \cup {NoEnd}
  BY DEF TypeOK
<1>2. made \in Nat
  BY Typed
<1>3. \A r \in Runs : r \in Nat
  BY DEF Runs
<1>4. CASE record = NoEnd
  BY <1>2, <1>4, EndParts
<1>5. CASE record \in Ends
  BY <1>2, <1>3, <1>5, EndParts
<1> QED BY <1>1, <1>4, <1>5

LEMMA InitInv == Init => IInv
<1> SUFFICES ASSUME Init PROVE IInv
  OBVIOUS
<1>1. /\ \A a \in Appliers : reports[a] = <<>> /\ step[a] = "idle"
      /\ \A e \in Ends : told[e] = 0
      /\ chain = <<>> /\ record = NoEnd /\ 0 \in Appliers
  BY DEF Init, Appliers
<1>2. TypeOK
  <2>1. reports \in [Appliers -> Seq(Ends)] /\ chain \in Seq(Appliers) /\ told \in [Ends -> Nat]
        /\ step \in [Appliers -> {"idle", "queued", "reported", "unheard"}]
    BY DEF Init
  <2>2. /\ made \in 0..MaxRuns /\ resumes \in 0..ResumeLimit /\ stops \in Nat /\ runtime \in Appliers
        /\ compactions \subseteq 1..made /\ current \in 0..made /\ result \in 0..made /\ driving \in 0..made
        /\ openRun \in 0..made /\ resuming \in 0..made /\ cut \in 0..made
    BY DEF Init, Appliers
  <2> QED BY <2>1, <2>2, <1>1 DEF Init, TypeOK
<1>3. OpsInv
  BY DEF Init, OpsInv
<1>4. ChainInv
  BY <1>1 DEF ChainInv, Settling
<1>5. HeardInv
  BY <1>1 DEF HeardInv, EndHeard
<1>6. EndsInv
  BY <1>1, EndParts DEF Init, EndsInv
<1>7. OrderInv
  BY <1>1 DEF OrderInv
<1> QED BY <1>2, <1>3, <1>4, <1>5, <1>6, <1>7 DEF IInv
-----------------------------------------------------------------------------
(* What appliers do. *)

\* Nothing is applied.
LEMMA Quiet ==
    ASSUME IInv, UNCHANGED <<child, reports, step, chain, told, record, unread>>, up => up'
    PROVE  ChainInv' /\ HeardInv' /\ OrderInv'
<1>1. ChainInv'
  BY DEF IInv, ChainInv, Settling
<1>2. HeardInv'
  BY DEF IInv, HeardInv, EndHeard
<1>3. OrderInv'
  BY DEF IInv, OrderInv, Settling
<1> QED BY <1>1, <1>2, <1>3

\* An end is given to an applier to report it.
LEMMA Pushed ==
    ASSUME TypeOK, NEW a \in Appliers, NEW end \in Ends,
           reports' = [reports EXCEPT ![a] = Append(@, end)]
    PROVE  /\ reports' \in [Appliers -> Seq(Ends)] /\ reports'[a] # <<>>
           /\ Len(reports[a]) \in Nat /\ (reports[a] = <<>> <=> Len(reports[a]) = 0)
           /\ DOMAIN reports[a] = 1..Len(reports[a])
           /\ DOMAIN reports'[a] = 1..(Len(reports[a]) + 1)
           /\ reports'[a][Len(reports[a]) + 1] = end
           /\ \A i \in DOMAIN reports[a] : reports'[a][i] = reports[a][i]
           /\ \A b \in Appliers \ {a} : reports'[b] = reports[b]
<1> DEFINE s == reports[a]  t == Append(s, end)
<1>1. s \in Seq(Ends) /\ reports \in [Appliers -> Seq(Ends)]
  BY DEF TypeOK
<1>2. /\ t \in Seq(Ends) /\ Len(s) \in Nat /\ t # <<>>
      /\ DOMAIN s = 1..Len(s) /\ DOMAIN t = 1..(Len(s) + 1) /\ t[Len(s) + 1] = end
      /\ \A i \in DOMAIN s : t[i] = s[i]
      /\ s = <<>> <=> Len(s) = 0
  BY <1>1, AppendFacts
<1>3. reports' = [reports EXCEPT ![a] = t]
  OBVIOUS
<1> HIDE DEF t
<1>4. reports'[a] = t
  BY <1>1, <1>3
<1> QED BY <1>1, <1>2, <1>3, <1>4

\* An applier enters the parent's chain.
LEMMA Entered ==
    ASSUME TypeOK, NEW a \in Appliers, chain' = Append(chain, a)
    PROVE  /\ chain' \in Seq(Appliers) /\ Len(chain) \in Nat /\ DOMAIN chain = 1..Len(chain)
           /\ DOMAIN chain' = 1..(Len(chain) + 1) /\ chain'[Len(chain) + 1] = a
           /\ \A i \in DOMAIN chain : chain'[i] = chain[i]
BY AppendFacts DEF TypeOK

LEMMA EnteredInv ==
    ASSUME IInv, NEW a \in Appliers, step[a] # "queued", chain' = Append(chain, a),
           step' = [step EXCEPT ![a] = "queued"]
    PROVE  /\ chain' \in Seq(Appliers) /\ step' \in [Appliers -> {"idle", "queued", "reported", "unheard"}]
           /\ step'[a] = "queued" /\ \A b \in Appliers \ {a} : step'[b] = step[b]
           /\ \A i, j \in DOMAIN chain' : chain'[i] = chain'[j] => i = j
           /\ \A b \in Appliers : step'[b] = "queued" <=> \E i \in DOMAIN chain' : chain'[i] = b
           /\ \A i, j \in DOMAIN chain' : chain'[i] = a /\ chain'[j] = 0 => j < i \/ a = 0
           /\ \A i, j \in DOMAIN chain : \A k, l \in DOMAIN chain' :
                  chain[i] # chain[j] /\ chain'[k] = chain[i] /\ chain'[l] = chain[j]
                      => k = i /\ l = j
<1>1. /\ chain' \in Seq(Appliers) /\ Len(chain) \in Nat /\ DOMAIN chain = 1..Len(chain)
      /\ DOMAIN chain' = 1..(Len(chain) + 1) /\ chain'[Len(chain) + 1] = a
      /\ \A i \in DOMAIN chain : chain'[i] = chain[i]
  BY Entered DEF IInv
<1>2. \A i \in DOMAIN chain : chain[i] # a
  BY DEF IInv, ChainInv
<1>3. /\ step' \in [Appliers -> {"idle", "queued", "reported", "unheard"}]
      /\ step'[a] = "queued" /\ \A b \in Appliers \ {a} : step'[b] = step[b]
  BY DEF IInv, TypeOK
<1>4. \A i, j \in DOMAIN chain' : chain'[i] = chain'[j] => i = j
  BY <1>1, <1>2 DEF IInv, ChainInv
<1>5. \A b \in Appliers : step'[b] = "queued" <=> \E i \in DOMAIN chain' : chain'[i] = b
  <2>1. \A b \in Appliers \ {a} :
            (\E i \in DOMAIN chain' : chain'[i] = b) <=> (\E i \in DOMAIN chain : chain[i] = b)
    BY <1>1
  <2>2. Len(chain) + 1 \in DOMAIN chain'
    BY <1>1
  <2> QED BY <1>1, <1>3, <2>1, <2>2 DEF IInv, ChainInv
<1>6. \A i, j \in DOMAIN chain' : chain'[i] = a /\ chain'[j] = 0 => j < i \/ a = 0
  BY <1>1, <1>2
<1>7. \A i, j \in DOMAIN chain : \A k, l \in DOMAIN chain' :
          chain[i] # chain[j] /\ chain'[k] = chain[i] /\ chain'[l] = chain[j] => k = i /\ l = j
  BY <1>1, <1>2 DEF IInv, ChainInv
<1> QED BY <1>1, <1>3, <1>4, <1>5, <1>6, <1>7

\* The sink takes an end: what it changes, and that the appliers' turns and the order of
\* recovery's ends and Pi's are kept.
LEMMA ReportInv ==
    ASSUME IInv, NEW a \in Appliers, NEW end \in Ends, Report(a, end), up',
           UNCHANGED <<child, told>>,
           end[2] = "pi" => a # 0,
           a = 0 => /\ reports[0] = <<>>
                    /\ \A b \in Appliers : \A k \in DOMAIN reports[b] :
                           reports[b][k][2] = "pi" => reports[b][k][1] # end[1]
    PROVE  /\ ChainInv' /\ HeardInv' /\ OrderInv'
           /\ reports' \in [Appliers -> Seq(Ends)] /\ chain' \in Seq(Appliers)
           /\ step' \in [Appliers -> {"idle", "queued", "reported", "unheard"}]
           /\ record' \in Ends \cup {NoEnd} /\ unread' \in BOOLEAN /\ cut' \in 0..made
           /\ record' = record \/ (record' = end /\ \A b \in Appliers : reports'[b] = <<>>)
           /\ \A b \in Appliers : \A i \in DOMAIN reports'[b] :
                  \/ i \in DOMAIN reports[b] /\ reports'[b][i] = reports[b][i]
                  \/ b = a /\ reports'[b][i] = end
           /\ \A i \in DOMAIN reports'[0] : i = 1
           /\ a # 0 => reports'[0] = reports[0]
<1>1. CASE ~child
  <2>1. /\ UNCHANGED <<reports, step, chain>> /\ record' = end /\ unread' = TRUE
        /\ cut' \in {0, cut}
    BY <1>1 DEF Report, Settle, applying
  <2>2. \A b \in Appliers : reports[b] = <<>> /\ reports'[b] = <<>> /\ step[b] = "idle"
    BY <1>1, <2>1 DEF IInv, ChainInv
  <2>3. ChainInv'
    BY <2>1, <2>2 DEF IInv, ChainInv, Settling
  <2>4. HeardInv'
    BY <2>1, <2>2 DEF IInv, HeardInv, EndHeard
  <2>5. OrderInv'
    BY <2>2 DEF OrderInv
  <2>6. cut' \in 0..made
    BY <2>1 DEF IInv, TypeOK
  <2>7. 0 \in Appliers
    BY Typed DEF IInv
  <2> QED BY <2>1, <2>2, <2>3, <2>4, <2>5, <2>6, <2>7 DEF IInv, TypeOK
<1>2. CASE child
  <2>1. /\ reports' = [reports EXCEPT ![a] = Append(@, end)] /\ UNCHANGED <<record, unread, cut>>
        /\ IF step[a] = "idle" THEN step' = [step EXCEPT ![a] = "queued"] /\ chain' = Append(chain, a)
           ELSE UNCHANGED <<step, chain>>
    BY <1>2 DEF Report, row
  <2>2. /\ reports' \in [Appliers -> Seq(Ends)] /\ reports'[a] # <<>>
        /\ Len(reports[a]) \in Nat /\ (reports[a] = <<>> <=> Len(reports[a]) = 0)
        /\ DOMAIN reports[a] = 1..Len(reports[a])
        /\ DOMAIN reports'[a] = 1..(Len(reports[a]) + 1)
        /\ reports'[a][Len(reports[a]) + 1] = end
        /\ \A i \in DOMAIN reports[a] : reports'[a][i] = reports[a][i]
        /\ \A b \in Appliers \ {a} : reports'[b] = reports[b]
    BY <2>1, Pushed DEF IInv
  <2>3. 0 \in Appliers
    BY Typed DEF IInv
  <2>4. \A b \in Appliers : \A i \in DOMAIN reports'[b] :
            \/ i \in DOMAIN reports[b] /\ reports'[b][i] = reports[b][i]
            \/ b = a /\ reports'[b][i] = end /\ i = Len(reports[a]) + 1
    <3>1. \A b \in Appliers \ {a} : \A i \in DOMAIN reports'[b] :
              i \in DOMAIN reports[b] /\ reports'[b][i] = reports[b][i]
      BY <2>2
    <3>2. \A i \in DOMAIN reports'[a] : i \in DOMAIN reports[a] \/ i = Len(reports[a]) + 1
      BY <2>2
    <3> QED BY <2>2, <3>1, <3>2
  <2>5. (\A i \in DOMAIN reports'[0] : i = 1) /\ (a # 0 => reports'[0] = reports[0])
    BY <2>2, <2>3 DEF IInv, EndsInv
  <2>6. /\ chain' \in Seq(Appliers) /\ step' \in [Appliers -> {"idle", "queued", "reported", "unheard"}]
        /\ \A i, j \in DOMAIN chain' : chain'[i] = chain'[j] => i = j
        /\ \A b \in Appliers : step'[b] = "queued" <=> \E i \in DOMAIN chain' : chain'[i] = b
        /\ \A b \in Appliers : Settling(b)' <=> Settling(b)
        /\ step'[a] # "idle" /\ \A b \in Appliers \ {a} : step'[b] = step[b]
    <3>1. CASE step[a] = "idle"
      BY <2>1, <3>1, EnteredInv DEF Settling
    <3>2. CASE step[a] # "idle"
      BY <2>1, <3>2 DEF IInv, ChainInv, TypeOK, Settling
    <3> QED BY <3>1, <3>2
  <2>7. ChainInv'
    <3>1. \A b, c \in Appliers : Settling(b)' /\ Settling(c)' => b = c
      BY <2>6 DEF IInv, ChainInv
    <3>2. \A b \in Appliers : step'[b] = "idle" <=> reports'[b] = <<>>
      <4>1. \A b \in Appliers : step[b] = "idle" <=> reports[b] = <<>>
        BY DEF IInv, ChainInv
      <4>2. 1 \in DOMAIN reports'[a]
        BY <2>2
      <4>3. step'[a] # "idle" /\ reports'[a] # <<>>
        BY <2>6, <4>2
      <4>4. \A b \in Appliers \ {a} : step'[b] = step[b] /\ reports'[b] = reports[b]
        BY <2>2, <2>6
      <4> QED BY <4>1, <4>3, <4>4
    <3>3. child' /\ up'
      BY <1>2
    <3> QED BY <2>6, <3>1, <3>2, <3>3 DEF ChainInv
  <2>8. HeardInv'
    <3>1. EndHeard'
      BY <2>1 DEF IInv, HeardInv, EndHeard
    <3>2. ASSUME NEW b \in Appliers, step'[b] = "reported" PROVE told'[reports'[b][1]] = 1
      <4>1. step[b] = "reported"
        BY <2>1, <3>2, <2>6 DEF IInv, TypeOK
      <4>2. reports[b] # <<>> /\ reports[b] \in Seq(Ends)
        BY <4>1 DEF IInv, ChainInv, TypeOK
      <4>3. reports'[b][1] = reports[b][1]
        BY <4>2, <2>2
      <4> QED BY <4>1, <4>3 DEF IInv, HeardInv
    <3> QED BY <3>1, <3>2 DEF HeardInv
  <2>9. OrderInv'
    <3> SUFFICES ASSUME NEW b \in Appliers, NEW k \in DOMAIN reports'[b], reports'[b][k][2] = "pi",
                        reports'[0] # <<>>, reports'[0][1][1] = reports'[b][k][1],
                        ~Settling(0)', ~(k > 1)
                 PROVE  /\ step'[b] = "queued"
                        /\ \A i, j \in DOMAIN chain' : chain'[i] = b /\ chain'[j] = 0 => j < i
      BY DEF OrderInv
    <3>1. k = 1 /\ reports'[b] \in Seq(Ends) /\ DOMAIN reports'[b] = 1..Len(reports'[b])
      BY <2>2
    <3>2. ~Settling(0) /\ 0 \in Appliers
      BY <2>3, <2>6
    <3>3. CASE a = 0
      <4>1. reports'[0][1] = end /\ reports[0] = <<>>
        BY <2>2, <3>3
      <4>2. b # 0
        BY <4>1, <3>1, <3>3
      <4>3. reports[b] = reports'[b]
        BY <2>2, <3>3, <4>2
      <4> QED BY <4>1, <4>3, <3>3
    <3>4. CASE a # 0 /\ reports[b] = <<>>
      <4>1. b = a /\ step[a] = "idle"
        BY <3>4, <3>1, <2>4 DEF IInv, ChainInv
      <4>2. step'[a] = "queued" /\ \A i, j \in DOMAIN chain' : chain'[i] = a /\ chain'[j] = 0 => j < i
        BY <2>1, <3>4, <4>1, EnteredInv
      <4> QED BY <4>1, <4>2
    <3>5. CASE a # 0 /\ reports[b] # <<>>
      <4>1. reports[0] = reports'[0] /\ 1 \in DOMAIN reports[b] /\ reports'[b][1] = reports[b][1]
        BY <3>5, <2>2, <2>3, Typed, TailFacts DEF IInv
      <4>2. /\ step[b] = "queued"
            /\ \A i, j \in DOMAIN chain : chain[i] = b /\ chain[j] = 0 => j < i
        BY <3>1, <3>2, <4>1 DEF IInv, OrderInv
      <4>3. step[a] = "idle" => b # a
        BY <4>2
      <4>4. CASE step[a] = "idle"
        <5>1. step'[b] = "queued"
          BY <4>4, <4>3, <2>6, <4>2
        <5>2. b # 0
          BY <4>2, <3>2, <4>1, <3>1, Typed DEF IInv, EndsInv, EndOK
        <5>3. /\ DOMAIN chain = 1..Len(chain) /\ Len(chain) \in Nat
              /\ DOMAIN chain' = 1..(Len(chain) + 1) /\ chain'[Len(chain) + 1] = a
              /\ \A i \in DOMAIN chain : chain'[i] = chain[i]
          BY <2>1, <4>4, Entered DEF IInv
        <5> QED BY <5>1, <5>3, <4>2, <4>3, <4>4, <3>5
      <4>5. CASE step[a] # "idle"
        BY <2>1, <4>5, <4>2
      <4> QED BY <4>4, <4>5
    <3> QED BY <3>3, <3>4, <3>5
  <2>10. /\ record' \in Ends \cup {NoEnd} /\ unread' \in BOOLEAN /\ cut' \in 0..made
         /\ record' = record
    BY <2>1 DEF IInv, TypeOK
  <2> QED BY <2>2, <2>4, <2>5, <2>6, <2>7, <2>8, <2>9, <2>10
<1> QED BY <1>1, <1>2

\* The first in the parent's chain has told it, or could not.
LEMMA TellInv ==
    ASSUME IInv, NEW a \in Appliers, Tell(a)
    PROVE  ChainInv' /\ HeardInv' /\ EndsInv' /\ OrderInv' /\ TypeOK' /\ OpsInv'
<1>1. /\ up /\ chain # <<>> /\ Head(chain) = a /\ NoneSettling /\ chain' = Tail(chain)
      /\ UNCHANGED <<child, pi, row, resumes, up, runs, resuming, reports, stops, cut, skipped>>
      /\ \/ /\ told' = [told EXCEPT ![Head(reports[a])] = IF @ = 0 THEN 1 ELSE @]
            /\ step' = [step EXCEPT ![a] = "reported"]
         \/ UNCHANGED told /\ step' = [step EXCEPT ![a] = "unheard"]
  BY DEF Tell, Receive
<1>2. /\ chain[1] = a /\ 1 \in DOMAIN chain /\ chain' \in Seq(Appliers)
      /\ DOMAIN chain' = 1..(Len(chain) - 1) /\ DOMAIN chain = 1..Len(chain) /\ Len(chain) \in Nat \ {0}
      /\ \A i \in DOMAIN chain' : i + 1 \in DOMAIN chain /\ i + 1 # 1 /\ chain'[i] = chain[i + 1]
      /\ \A i \in DOMAIN chain : i = 1 \/ (i - 1 \in DOMAIN chain' /\ chain'[i - 1] = chain[i])
  BY <1>1, TailFacts DEF IInv, TypeOK
<1>3. step[a] = "queued" /\ reports[a] # <<>> /\ child
  BY <1>2 DEF IInv, ChainInv
<1>4. Head(reports[a]) = reports[a][1] /\ reports[a][1] \in Ends
  BY <1>3, TailFacts, Typed DEF IInv
<1>5. /\ step'[a] \in {"reported", "unheard"} /\ \A b \in Appliers \ {a} : step'[b] = step[b]
      /\ step' \in [Appliers -> {"idle", "queued", "reported", "unheard"}]
      /\ \A b \in Appliers : ~Settling(b)
  BY <1>1 DEF IInv, TypeOK, NoneSettling, Settling
<1>6. \A i \in DOMAIN chain' : chain'[i] # a
  BY <1>2 DEF IInv, ChainInv
<1>7. ChainInv'
  <2>1. \A i, j \in DOMAIN chain' : chain'[i] = chain'[j] => i = j
    BY <1>2 DEF IInv, ChainInv
  <2>2. \A b \in Appliers \ {a} : step[b] = "queued" <=> \E i \in DOMAIN chain' : chain'[i] = b
    BY <1>2 DEF IInv, ChainInv
  <2>3. \A b \in Appliers : step'[b] = "queued" <=> \E i \in DOMAIN chain' : chain'[i] = b
    BY <2>2, <1>5, <1>6
  <2>4. \A b, c \in Appliers : Settling(b)' /\ Settling(c)' => b = c
    BY <1>5 DEF Settling
  <2>5. \A b \in Appliers : step'[b] = "idle" <=> reports'[b] = <<>>
    BY <1>1, <1>3, <1>5 DEF IInv, ChainInv
  <2> QED BY <1>1, <1>3, <2>1, <2>3, <2>4, <2>5 DEF ChainInv
<1>8. /\ told' \in [Ends -> Nat]
      /\ \A e \in Ends : told'[e] <= 1 /\ (told[e] = 1 => told'[e] = 1)
      /\ step'[a] = "reported" => told'[reports[a][1]] = 1
  <2>1. told \in [Ends -> Nat] /\ \A e \in Ends : told[e] <= 1
    BY DEF IInv, TypeOK, HeardInv, EndHeard
  <2> DEFINE e == reports[a][1]
  <2>2. \/ told' = [told EXCEPT ![e] = IF @ = 0 THEN 1 ELSE @]
        \/ told' = told /\ step'[a] = "unheard"
    BY <1>1, <1>4 DEF IInv, TypeOK
  <2>3. e \in Ends
    BY <1>4
  <2> HIDE DEF e
  <2>4. CASE told' = [told EXCEPT ![e] = IF @ = 0 THEN 1 ELSE @]
    <3>1. told[e] \in Nat /\ told[e] <= 1
      BY <2>1, <2>3
    <3>2. told'[e] = 1 /\ told' \in [Ends -> Nat] /\ \A d \in Ends \ {e} : told'[d] = told[d]
      BY <2>1, <2>3, <2>4, <3>1
    <3> QED BY <2>1, <3>2 DEF e
  <2>5. CASE told' = told /\ step'[a] = "unheard"
    BY <2>1, <2>5
  <2> QED BY <2>2, <2>4, <2>5
<1>9. HeardInv'
  <2>1. \A b \in Appliers : step[b] # "reported"
    BY <1>5 DEF Settling
  <2>2. record # NoEnd => record \in Ends
    BY DEF IInv, TypeOK
  <2>3. EndHeard'
    BY <1>1, <1>8, <2>2 DEF IInv, HeardInv, EndHeard, row
  <2> QED BY <1>1, <1>5, <1>8, <2>1, <2>3 DEF HeardInv
<1>10. EndsInv'
  BY <1>1 DEF IInv, EndsInv, EndOK, row, runs, pi
<1>11. OrderInv'
  <2> SUFFICES ASSUME NEW b \in Appliers, NEW k \in DOMAIN reports[b], reports[b][k][2] = "pi",
                      reports[0] # <<>>, reports[0][1][1] = reports[b][k][1],
                      ~Settling(0)', ~(k > 1)
               PROVE  /\ step'[b] = "queued"
                      /\ \A i, j \in DOMAIN chain' : chain'[i] = b /\ chain'[j] = 0 => j < i
    BY <1>1 DEF OrderInv
  <2>1. 0 \in Appliers /\ a # 0
    BY Typed, <1>5 DEF IInv, Settling
  <2>2. /\ step[b] = "queued"
        /\ \A i, j \in DOMAIN chain : chain[i] = b /\ chain[j] = 0 => j < i
    BY <1>5, <2>1 DEF IInv, OrderInv
  <2>3. PICK j \in DOMAIN chain : chain[j] = 0
    BY <1>5, <2>1 DEF IInv, ChainInv, TypeOK, Settling
  <2>4. b # a
    BY <1>2, <2>2, <2>3
  <2> QED BY <1>2, <1>5, <2>2, <2>4
<1>12. TypeOK' /\ OpsInv'
  BY <1>1, <1>2, <1>5, <1>8 DEF IInv, TypeOK, OpsInv, row, runs, pi
<1> QED BY <1>7, <1>9, <1>10, <1>11, <1>12

LEMMA Popped ==
    ASSUME TypeOK, NEW a \in Appliers, reports[a] # <<>>, ApplyNext(a)
    PROVE  /\ reports' \in [Appliers -> Seq(Ends)] /\ Len(reports[a]) \in Nat \ {0}
           /\ Head(reports[a]) = reports[a][1] /\ reports[a][1] \in Ends /\ 1 \in DOMAIN reports[a]
           /\ DOMAIN reports[a] = 1..Len(reports[a])
           /\ DOMAIN reports'[a] = 1..(Len(reports[a]) - 1)
           /\ (reports'[a] = <<>> <=> Len(reports[a]) = 1)
           /\ \A i \in DOMAIN reports'[a] : i + 1 \in DOMAIN reports[a] /\ reports'[a][i] = reports[a][i + 1]
           /\ \A b \in Appliers \ {a} : reports'[b] = reports[b]
<1> DEFINE s == reports[a]  t == Tail(s)
<1>1. s \in Seq(Ends) /\ reports \in [Appliers -> Seq(Ends)]
  BY DEF TypeOK
<1>2. /\ Head(s) = s[1] /\ Head(s) \in Ends /\ 1 \in DOMAIN s /\ t \in Seq(Ends)
      /\ DOMAIN t = 1..(Len(s) - 1) /\ DOMAIN s = 1..Len(s) /\ Len(s) \in Nat \ {0}
      /\ \A i \in DOMAIN t : i + 1 \in DOMAIN s /\ i + 1 # 1 /\ t[i] = s[i + 1]
      /\ (t = <<>> <=> Len(s) = 1)
  BY <1>1, TailFacts
<1>3. reports' = [reports EXCEPT ![a] = t]
  BY DEF ApplyNext
<1> HIDE DEF t
<1>4. reports'[a] = t /\ \A b \in Appliers \ {a} : reports'[b] = reports[b]
  BY <1>1, <1>3
<1>5. reports' \in [Appliers -> Seq(Ends)]
  BY <1>1, <1>2, <1>3
<1> QED BY <1>1, <1>2, <1>4, <1>5

\* An end of Pi's is not applied while recovery has yet to apply its own end of that run.
LEMMA AppliedInOrder ==
    ASSUME IInv, NEW a \in Appliers, Settling(a), NEW b \in Appliers, NEW i \in DOMAIN reports[b],
           1 \in DOMAIN reports[a], reports[a][1][2] = "pi", reports[b][i][2] = "reins"
    PROVE  reports[b][i][1] # reports[a][1][1]
<1> SUFFICES ASSUME reports[b][i][1] = reports[a][1][1] PROVE FALSE
  OBVIOUS
<1>1. EndOK(a, reports[a][1]) /\ EndOK(b, reports[b][i])
  BY DEF IInv, EndsInv
<1>2. a # 0 /\ b = 0
  BY <1>1 DEF EndOK
<1>3. i = 1 /\ reports[0] # <<>>
  BY <1>2 DEF IInv, EndsInv
<1>4. Settling(0) \/ step[a] = "queued"
  <2>1. reports[0][1][1] = reports[a][1][1] /\ ~(1 > 1)
    BY <1>2, <1>3
  <2> QED BY <1>3, <2>1 DEF IInv, OrderInv
<1> QED BY <1>2, <1>4 DEF IInv, ChainInv, Settling

\* The settlement is recorded, and the applier goes on to its next end.
LEMMA RecordInv ==
    ASSUME IInv, NEW a \in Appliers, Record(a)
    PROVE  IInv'
<1>1. /\ up /\ Settling(a) /\ ApplyNext(a)
      /\ record' = Head(reports[a]) /\ unread' = (step[a] = "unheard") /\ cut' \in {0, cut}
      /\ UNCHANGED <<child, pi, resumes, told, up, runs, resuming, stops, skipped>>
  BY DEF Record, Settle, Settling
<1>2. reports[a] # <<>> /\ child
  BY <1>1 DEF IInv, ChainInv, Settling
<1>3. /\ reports' \in [Appliers -> Seq(Ends)] /\ Len(reports[a]) \in Nat \ {0}
      /\ Head(reports[a]) = reports[a][1] /\ reports[a][1] \in Ends /\ 1 \in DOMAIN reports[a]
      /\ DOMAIN reports[a] = 1..Len(reports[a])
      /\ DOMAIN reports'[a] = 1..(Len(reports[a]) - 1)
      /\ (reports'[a] = <<>> <=> Len(reports[a]) = 1)
      /\ \A i \in DOMAIN reports'[a] : i + 1 \in DOMAIN reports[a] /\ reports'[a][i] = reports[a][i + 1]
      /\ \A b \in Appliers \ {a} : reports'[b] = reports[b]
  BY <1>1, <1>2, Popped DEF IInv
<1>4. IF Len(reports[a]) > 1
      THEN step' = [step EXCEPT ![a] = "queued"] /\ chain' = Append(chain, a)
      ELSE step' = [step EXCEPT ![a] = "idle"] /\ UNCHANGED chain
  BY <1>1 DEF ApplyNext
<1>5. step[a] # "queued" /\ \A b \in Appliers \ {a} : ~Settling(b)
  BY <1>1 DEF IInv, ChainInv, Settling
<1>6. /\ chain' \in Seq(Appliers) /\ step' \in [Appliers -> {"idle", "queued", "reported", "unheard"}]
      /\ step'[a] = (IF Len(reports[a]) > 1 THEN "queued" ELSE "idle")
      /\ \A b \in Appliers \ {a} : step'[b] = step[b]
      /\ \A i, j \in DOMAIN chain' : chain'[i] = chain'[j] => i = j
      /\ \A b \in Appliers : step'[b] = "queued" <=> \E i \in DOMAIN chain' : chain'[i] = b
  <2>1. CASE Len(reports[a]) > 1
    BY <1>4, <1>5, <2>1, EnteredInv
  <2>2. CASE ~(Len(reports[a]) > 1)
    BY <1>4, <1>5, <2>2 DEF IInv, TypeOK, ChainInv
  <2> QED BY <2>1, <2>2
<1>7. ChainInv'
  <2>1. \A b \in Appliers : ~Settling(b)'
    BY <1>5, <1>6 DEF Settling
  <2>2. step'[a] = "idle" <=> reports'[a] = <<>>
    BY <1>3, <1>6
  <2>3. \A b \in Appliers \ {a} : step'[b] = step[b] /\ reports'[b] = reports[b]
    BY <1>3, <1>6
  <2>4. \A b \in Appliers : step'[b] = "idle" <=> reports'[b] = <<>>
    BY <2>2, <2>3 DEF IInv, ChainInv
  <2> QED BY <1>1, <1>2, <1>6, <2>1, <2>4 DEF ChainInv
<1>8. HeardInv'
  <2>1. \A b \in Appliers : step'[b] # "reported"
    BY <1>5, <1>6 DEF Settling
  <2>2. unread' \/ (child' /\ told'[record'] = 1)
    BY <1>1, <1>2, <1>3 DEF IInv, HeardInv, Settling
  <2>3. EndHeard'
    BY <1>1, <2>2 DEF IInv, HeardInv, EndHeard
  <2> QED BY <2>1, <2>3 DEF HeardInv
<1>20. a = 0 => reports'[0] = <<>>
  <2>1. a = 0 => Len(reports[a]) = 1
    BY <1>3 DEF IInv, EndsInv
  <2> QED BY <1>3, <2>1
<1>21. 0 \in Appliers
  BY Typed DEF IInv
<1>9. \A b \in Appliers : \A i \in DOMAIN reports'[b] :
          \E k \in DOMAIN reports[b] : reports'[b][i] = reports[b][k]
  <2> SUFFICES ASSUME NEW b \in Appliers, NEW i \in DOMAIN reports'[b]
               PROVE  \E k \in DOMAIN reports[b] : reports'[b][i] = reports[b][k]
    OBVIOUS
  <2>1. CASE b = a
    <3>1. i + 1 \in DOMAIN reports[b] /\ reports'[b][i] = reports[b][i + 1]
      BY <1>3, <2>1
    <3> QED BY <3>1
  <2>2. CASE b # a
    <3>1. reports'[b] = reports[b]
      BY <1>3, <2>2
    <3> QED BY <3>1
  <2> QED BY <2>1, <2>2
<1>10. EndsInv'
  <2>1. EndOK(a, reports[a][1])
    BY <1>3 DEF IInv, EndsInv
  <2>2. ASSUME NEW b \in Appliers, NEW i \in DOMAIN reports'[b] PROVE EndOK(b, reports[b][i])'
    <3>1. PICK k \in DOMAIN reports[b] : reports'[b][i] = reports[b][k]
      BY <1>9
    <3>2. EndOK(b, reports[b][k]) /\ reports[b][k] \in Ends
      BY Typed DEF IInv, EndsInv
    <3>3. reports[b][k][2] = "reins" => record' # <<reports[b][k][1], "pi">>
      <4> SUFFICES ASSUME reports[b][k][2] = "reins", record' = <<reports[b][k][1], "pi">> PROVE FALSE
        OBVIOUS
      <4>1. reports[a][1][2] = "pi" /\ reports[a][1][1] = reports[b][k][1]
        BY <1>1, <1>3
      <4> QED BY <1>1, <1>3, <4>1, AppliedInOrder
    <3>4. UNCHANGED <<made, current, compactions, runtime, live>>
      BY <1>1 DEF runs, pi
    <3> QED BY <3>1, <3>2, <3>3, <3>4 DEF EndOK
  <2>3. record'[1] <= made' /\ (record'[2] = "pi" => record'[1] # current' /\ record'[1] \notin compactions')
    BY <1>1, <1>3, <2>1 DEF EndOK, pi
  <2>4. \A i \in DOMAIN reports'[0] : i = 1
    BY <1>3, <1>20, <1>21 DEF IInv, EndsInv
  <2>5. resuming' # 0 => up' /\ reports'[0] = <<>>
    BY <1>1, <1>2, <1>3, Typed DEF IInv, EndsInv
  <2> QED BY <2>2, <2>3, <2>4, <2>5 DEF EndsInv
<1>11. OrderInv'
  <2> SUFFICES ASSUME NEW b \in Appliers, NEW k \in DOMAIN reports'[b], reports'[b][k][2] = "pi",
                      reports'[0] # <<>>, reports'[0][1][1] = reports'[b][k][1],
                      ~Settling(0)', ~(k > 1)
               PROVE  /\ step'[b] = "queued"
                      /\ \A i, j \in DOMAIN chain' : chain'[i] = b /\ chain'[j] = 0 => j < i
    BY DEF OrderInv
  <2>1. a # 0 /\ 0 \in Appliers
    BY <1>20, <1>21
  <2>2. k = 1 /\ reports'[0] = reports[0] /\ ~Settling(0)
    <3>1. reports'[b] \in Seq(Ends)
      BY <1>3
    <3> QED BY <1>3, <1>5, <2>1, <3>1
  <2>3. CASE b = a
    <3>1. Len(reports[a]) > 1
      BY <1>3, <2>3
    <3>2. step'[a] = "queued" /\ \A i, j \in DOMAIN chain' : chain'[i] = a /\ chain'[j] = 0 => j < i
      BY <1>4, <1>5, <2>1, <3>1, EnteredInv
    <3> QED BY <2>3, <3>2
  <2>4. CASE b # a
    <3>1. reports'[b] = reports[b] /\ step'[b] = step[b]
      BY <1>3, <1>6, <2>4
    <3>2. /\ step[b] = "queued"
          /\ \A i, j \in DOMAIN chain : chain[i] = b /\ chain[j] = 0 => j < i
      BY <2>2, <3>1 DEF IInv, OrderInv
    <3>3. CASE Len(reports[a]) > 1
      <4>1. /\ DOMAIN chain = 1..Len(chain) /\ Len(chain) \in Nat
            /\ DOMAIN chain' = 1..(Len(chain) + 1) /\ chain'[Len(chain) + 1] = a
            /\ \A i \in DOMAIN chain : chain'[i] = chain[i]
        BY <1>4, <3>3, Entered DEF IInv
      <4> QED BY <2>1, <2>4, <3>1, <3>2, <4>1
    <3>4. CASE ~(Len(reports[a]) > 1)
      BY <1>4, <3>1, <3>2, <3>4
    <3> QED BY <3>3, <3>4
  <2> QED BY <2>3, <2>4
<1>12. TypeOK' /\ OpsInv'
  <2>1. cut' \in 0..made /\ record' \in Ends /\ unread' \in BOOLEAN
    BY <1>1, <1>3 DEF IInv, TypeOK
  <2> QED BY <1>1, <1>3, <1>6, <2>1 DEF IInv, TypeOK, OpsInv, runs, pi
<1> QED BY <1>7, <1>8, <1>10, <1>11, <1>12 DEF IInv
-----------------------------------------------------------------------------
(* What the session and its process do. *)

\* Steps that apply nothing and leave the session's operations as they are.
LEMMA IdleInv ==
    ASSUME IInv,
           \/ Submit \/ OpenRuntime \/ SubmissionDone \/ CloseRuntime \/ WindowPasses
    PROVE  IInv'
<1>1. UNCHANGED <<child, made, compactions, current, result, driving, resuming, record, unread, told,
                  reports, step, chain, cut, skipped, stops, up>>
  BY DEF Submit, OpenRuntime, SubmissionDone, CloseRuntime, WindowPasses, pi, row, applying, runs
<1>2. ChainInv' /\ HeardInv' /\ OrderInv'
  BY <1>1, Quiet
<1>3. TypeOK'
  <2>1. runtime' \in Appliers /\ live' \in {"none", "open", "faulted"} /\ openRun' \in {0, openRun}
    <3>1. CASE OpenRuntime
      BY <3>1 DEF OpenRuntime, IInv, TypeOK, Appliers
    <3>2. CASE Submit \/ SubmissionDone \/ CloseRuntime \/ WindowPasses
      BY <3>2 DEF Submit, SubmissionDone, CloseRuntime, WindowPasses, IInv, TypeOK, runs
    <3> QED BY <3>1, <3>2
  <2>2. submitting' \in BOOLEAN /\ resumes' \in 0..ResumeLimit
    <3>1. CASE WindowPasses
      BY <3>1 DEF WindowPasses, IInv, TypeOK, runs
    <3>2. CASE Submit \/ SubmissionDone \/ CloseRuntime \/ OpenRuntime
      BY <3>2 DEF Submit, SubmissionDone, CloseRuntime, OpenRuntime, IInv, TypeOK
    <3> QED BY <3>1, <3>2
  <2> QED BY <1>1, <2>1, <2>2 DEF IInv, TypeOK
<1>4. OpsInv'
  <2>1. CASE OpenRuntime
    BY <1>1, <2>1, Typed DEF OpenRuntime, IInv, OpsInv, Appliers
  <2>2. CASE CloseRuntime
    BY <1>1, <2>2 DEF CloseRuntime, IInv, OpsInv
  <2>3. CASE Submit \/ SubmissionDone \/ WindowPasses
    BY <1>1, <2>3 DEF Submit, SubmissionDone, WindowPasses, IInv, OpsInv, runs
  <2> QED BY <2>1, <2>2, <2>3
<1>5. EndsInv'
  <2>1. ASSUME NEW a \in Appliers, NEW i \in DOMAIN reports[a], reports[a][i][2] = "reins"
        PROVE  \/ a = 0 \/ reports[a][i][1] \in compactions
               \/ a = runtime' /\ live' = "faulted" /\ reports[a][i][1] = current
    <3>1. \/ a = 0 \/ reports[a][i][1] \in compactions
          \/ a = runtime /\ live = "faulted" /\ reports[a][i][1] = current
      BY <2>1 DEF IInv, EndsInv, EndOK
    <3>2. a = runtime /\ live = "faulted" => runtime' = runtime /\ live' = live
      <4>1. reports[a] # <<>>
        BY Typed DEF IInv
      <4> QED BY <4>1 DEF Submit, OpenRuntime, SubmissionDone, CloseRuntime, WindowPasses, runs
    <3> QED BY <3>1, <3>2
  <2>2. \A a \in Appliers : \A i \in DOMAIN reports[a] : EndOK(a, reports[a][i])'
    BY <1>1, <2>1 DEF IInv, EndsInv, EndOK
  <2> QED BY <1>1, <2>2 DEF IInv, EndsInv
<1> QED BY <1>2, <1>3, <1>4, <1>5 DEF IInv

\* A new operation is the newest: no end of it is anywhere.
LEMMA StartOperationInv == ASSUME IInv, StartRun \/ StartCompaction PROVE IInv'
<1>1. /\ UNCHANGED <<child, result, record, unread, resumes, told, up, live, runtime, resuming,
                     reports, step, chain, stops, cut, skipped>>
      /\ up /\ live = "open" /\ driving = 0 /\ current = 0 /\ made < MaxRuns
      /\ made' = made + 1 /\ current' = made + 1 /\ driving' = made + 1 /\ openRun' = made + 1
      /\ submitting' = FALSE
      /\ compactions' \in {compactions, compactions \cup {made + 1}}
  BY DEF StartRun, StartCompaction, StartOperation, row, applying
<1>2. ChainInv' /\ HeardInv' /\ OrderInv'
  BY <1>1, Quiet
<1>3. TypeOK'
  <2>1. made \in Nat /\ MaxRuns \in Nat /\ made' \in 0..MaxRuns /\ 0..made \subseteq 0..made'
        /\ 1..made \subseteq 1..made' /\ made + 1 \in 1..made' /\ made + 1 \in 0..made'
    BY <1>1 DEF IInv, TypeOK
  <2>2. /\ compactions' \subseteq 1..made' /\ current' \in 0..made' /\ result' \in 0..made'
        /\ driving' \in 0..made' /\ openRun' \in 0..made' /\ resuming' \in 0..made' /\ cut' \in 0..made'
    BY <1>1, <2>1 DEF IInv, TypeOK
  <2> QED BY <1>1, <2>1, <2>2 DEF IInv, TypeOK
<1>4. OpsInv'
  BY <1>1, Typed DEF IInv, OpsInv, TypeOK
<1>5. EndsInv'
  <2>1. ASSUME NEW a \in Appliers, NEW i \in DOMAIN reports[a] PROVE EndOK(a, reports[a][i])'
    <3>1. EndOK(a, reports[a][i])
      BY DEF IInv, EndsInv
    <3>2. reports[a][i] \in Ends /\ made \in Nat
      BY Typed DEF IInv
    <3>3. reports[a][i][1] \in Nat
      BY <3>2, EndParts DEF Runs
    <3> QED BY <1>1, <3>1, <3>2, <3>3 DEF EndOK
  <2>2. record[1] \in Nat /\ made \in Nat
    BY RecordTyped DEF IInv
  <2>3. record'[1] <= made'
        /\ (record'[2] = "pi" => record'[1] = 0 \/ (record'[1] # current' /\ record'[1] \notin compactions'))
    BY <1>1, <2>2 DEF IInv, EndsInv
  <2> QED BY <1>1, <2>1, <2>3 DEF IInv, EndsInv
<1> QED BY <1>2, <1>3, <1>4, <1>5 DEF IInv

\* What Pi has in progress is driven again, or a compaction is over.
LEMMA DriveInv == ASSUME IInv, Drive \/ Resume \/ CompactionEnd PROVE IInv'
<1>1. UNCHANGED <<child, made, compactions, result, record, unread, resumes, told, up, live, runtime,
                  reports, step, chain, stops, skipped>>
  BY DEF Drive, Resume, CompactionEnd, pi, row, applying
<1>2. ChainInv' /\ HeardInv' /\ OrderInv'
  BY <1>1, Quiet
<1>3. TypeOK'
  <2>1. /\ current' \in {0, current} /\ driving' \in {0, current, driving}
        /\ openRun' \in {current, openRun} /\ cut' \in {0, cut}
        /\ submitting' \in {submitting, FALSE} /\ resuming' \in {0, resuming}
    BY DEF Drive, Resume, CompactionEnd, DriveAgain, Seen, pi
  <2>2. /\ current' \in 0..made /\ driving' \in 0..made /\ openRun' \in 0..made /\ cut' \in 0..made
        /\ submitting' \in BOOLEAN /\ resuming' \in 0..made
    <3>1. /\ current \in 0..made /\ driving \in 0..made /\ openRun \in 0..made /\ cut \in 0..made
          /\ submitting \in BOOLEAN /\ resuming \in 0..made /\ 0 \in 0..made
      BY Typed DEF IInv, TypeOK
    <3> QED BY <2>1, <3>1
  <2> QED BY <1>1, <2>2 DEF IInv, TypeOK
<1>4. OpsInv'
  <2>1. CASE Drive \/ Resume
    BY <1>1, <2>1 DEF Drive, Resume, DriveAgain, IInv, OpsInv, pi
  <2>2. CASE CompactionEnd
    <3>1. driving # 0
      BY <2>2 DEF CompactionEnd, IInv, TypeOK
    <3> QED BY <1>1, <2>2, <3>1 DEF CompactionEnd, IInv, OpsInv
  <2> QED BY <2>1, <2>2
<1>5. EndsInv'
  <2>1. CASE Drive \/ Resume
    <3>1. current' = current /\ (resuming' # 0 => resuming # 0)
      BY <2>1 DEF Drive, Resume, pi
    <3> QED BY <1>1, <3>1 DEF IInv, EndsInv, EndOK
  <2>2. CASE CompactionEnd
    <3>1. /\ current' = 0 /\ resuming' = resuming /\ live = "open"
      BY <2>2 DEF CompactionEnd, IInv, OpsInv, TypeOK
    <3>2. ASSUME NEW a \in Appliers, NEW i \in DOMAIN reports[a] PROVE EndOK(a, reports[a][i])'
      <4>1. EndOK(a, reports[a][i]) /\ reports[a][i][1] # 0
        BY Typed, EndParts DEF IInv, EndsInv
      <4> QED BY <1>1, <3>1, <4>1 DEF EndOK
    <3> QED BY <1>1, <3>1, <3>2 DEF IInv, EndsInv
  <2> QED BY <2>1, <2>2
<1> QED BY <1>2, <1>3, <1>4, <1>5 DEF IInv

\* An exit loses what was to be applied, the end of a run included.
LEMMA ExitInv == ASSUME IInv, Crash \/ EndUnsettled PROVE IInv'
<1>1. /\ up' = FALSE /\ live' = "none" /\ runtime' = 0 /\ driving' = 0 /\ openRun' = 0
      /\ submitting' = FALSE /\ resuming' = 0 /\ chain' = <<>> /\ cut' \in {driving, cut}
      /\ UNCHANGED <<current, result>> \/ (current' = 0 /\ result' = driving)
      /\ reports' = [a \in Appliers |-> <<>>] /\ step' = [a \in Appliers |-> "idle"]
      /\ UNCHANGED <<child, made, compactions, record, unread, resumes, told>>
      /\ stops' = stops + 1 /\ skipped' = FALSE
  BY DEF Crash, EndUnsettled, Exit, pi, row
<1>2. \A a \in Appliers : reports'[a] = <<>> /\ step'[a] = "idle"
  BY <1>1
<1>3. 0 \in Appliers
  BY Typed DEF IInv
<1>4. TypeOK'
  <2>1. reports' \in [Appliers -> Seq(Ends)] /\ chain' \in Seq(Appliers)
        /\ step' \in [Appliers -> {"idle", "queued", "reported", "unheard"}]
    BY <1>1
  <2>2. 0 \in 0..made /\ stops' \in Nat
    BY <1>1 DEF IInv, TypeOK
  <2> QED BY <1>1, <1>3, <2>1, <2>2 DEF IInv, TypeOK
<1>5. OpsInv'
  BY <1>1 DEF IInv, OpsInv
<1>6. ChainInv'
  BY <1>1, <1>2 DEF ChainInv, Settling
<1>7. HeardInv'
  BY <1>1, <1>2 DEF IInv, HeardInv, EndHeard
<1>8. EndsInv'
  BY <1>1, <1>2, <1>3 DEF IInv, EndsInv
<1>9. OrderInv'
  BY <1>2 DEF OrderInv
<1> QED BY <1>4, <1>5, <1>6, <1>7, <1>8, <1>9 DEF IInv

\* Pi ends a run.
LEMMA RunEndInv == ASSUME IInv, RunEnd PROVE IInv'
<1> DEFINE end == <<driving, "pi">>
<1>1. /\ up /\ driving # 0 /\ driving \notin compactions
      /\ current' = 0 /\ result' = driving /\ driving' = 0 /\ openRun' = 0
      /\ Report(runtime, <<driving, "pi">>)
      /\ UNCHANGED <<child, made, compactions, resumes, told, up, live, runtime, submitting, resuming,
                     stops, skipped>>
  BY DEF RunEnd
<1>2. /\ live = "open" /\ driving = current /\ current = made /\ runtime # 0
  BY <1>1 DEF IInv, OpsInv
<1>3. driving \in Runs /\ end \in Ends /\ end[1] = driving /\ end[2] = "pi" /\ runtime \in Appliers
  <2>1. driving \in 1..made /\ runtime \in Appliers
    BY <1>1, Typed DEF IInv, TypeOK
  <2>2. driving \in Runs
    BY <2>1, Typed DEF IInv
  <2> QED BY <2>1, <2>2, EndParts
<1> HIDE DEF end
<1>4. /\ ChainInv' /\ HeardInv' /\ OrderInv'
      /\ reports' \in [Appliers -> Seq(Ends)] /\ chain' \in Seq(Appliers)
      /\ step' \in [Appliers -> {"idle", "queued", "reported", "unheard"}]
      /\ record' \in Ends \cup {NoEnd} /\ unread' \in BOOLEAN /\ cut' \in 0..made
      /\ record' = record \/ (record' = end /\ \A b \in Appliers : reports'[b] = <<>>)
      /\ \A b \in Appliers : \A i \in DOMAIN reports'[b] :
             \/ i \in DOMAIN reports[b] /\ reports'[b][i] = reports[b][i]
             \/ b = runtime /\ reports'[b][i] = end
      /\ \A i \in DOMAIN reports'[0] : i = 1
      /\ runtime # 0 => reports'[0] = reports[0]
  <2>1. Report(runtime, end) /\ up' /\ UNCHANGED <<child, told>> /\ runtime # 0
    BY <1>1, <1>2 DEF end
  <2> QED BY <1>3, <2>1, ReportInv
<1>5. TypeOK'
  BY <1>1, <1>4 DEF IInv, TypeOK
<1>6. OpsInv'
  BY <1>1, <1>2 DEF IInv, OpsInv
<1>7. EndsInv'
  <2>1. \A b \in Appliers : \A i \in DOMAIN reports[b] : reports[b][i][1] # 0 /\ EndOK(b, reports[b][i])
    BY Typed, EndParts DEF IInv, EndsInv
  <2>2. ASSUME NEW b \in Appliers, NEW i \in DOMAIN reports'[b] PROVE EndOK(b, reports[b][i])'
    <3>1. CASE i \in DOMAIN reports[b] /\ reports'[b][i] = reports[b][i]
      <4>1. \A k \in DOMAIN reports'[b] : record' = record
        BY <1>4
      <4>2. record' = record
        BY <2>2, <4>1
      <4> QED BY <1>1, <1>2, <2>1, <3>1, <4>2 DEF EndOK
    <3>2. CASE b = runtime /\ reports'[b][i] = end
      BY <1>1, <1>2, <1>3, <3>2, Typed DEF EndOK, IInv
    <3> QED BY <3>1, <3>2, <1>4
  <2>3. record'[1] <= made'
        /\ (record'[2] = "pi" => record'[1] = 0 \/ (record'[1] # current' /\ record'[1] \notin compactions'))
    <3>1. CASE record' = record
      <4>1. record[1] # 0 \/ record[1] = 0
        OBVIOUS
      <4> QED BY <1>1, <3>1 DEF IInv, EndsInv
    <3>2. CASE record' = end
      BY <1>1, <1>2, <1>3, <3>2, Typed DEF IInv
    <3> QED BY <1>4, <3>1, <3>2
  <2> QED BY <1>1, <1>2, <1>4, <2>2, <2>3 DEF IInv, EndsInv
<1> QED BY <1>4, <1>5, <1>6, <1>7 DEF IInv

\* Reins gives an operation up: a runtime whose storage failed the run it keeps as in
\* progress, recovery the one it could not resume. It replaces no end of Pi's.
LEMMA ReinsReportInv ==
    ASSUME IInv, NEW a \in Appliers, NEW r \in Runs, Report(a, <<r, "reins">>), up',
           UNCHANGED <<child, made, compactions, current, told, runtime>>, r <= made,
           r = current \/ r \in compactions,
           a = 0 => reports[0] = <<>> /\ r = current /\ resuming' = 0,
           resuming' \in {0, resuming},
           live = "faulted" => live' = live,
           a # 0 => a = runtime /\ live' = "faulted"
    PROVE  /\ ChainInv' /\ HeardInv' /\ OrderInv' /\ EndsInv'
           /\ reports' \in [Appliers -> Seq(Ends)] /\ chain' \in Seq(Appliers)
           /\ step' \in [Appliers -> {"idle", "queued", "reported", "unheard"}]
           /\ record' \in Ends \cup {NoEnd} /\ unread' \in BOOLEAN /\ cut' \in 0..made
           /\ record' # record => record # <<record'[1], "pi">>
<1> DEFINE end == <<r, "reins">>
<1>1. end \in Ends /\ end[1] = r /\ end[2] = "reins" /\ Report(a, end) /\ r # 0
  BY EndParts DEF Runs
<1> HIDE DEF end
<1>2. \A b \in Appliers : \A i \in DOMAIN reports[b] : EndOK(b, reports[b][i])
  BY DEF IInv, EndsInv
<1>3. r = current => \A b \in Appliers : \A i \in DOMAIN reports[b] :
          reports[b][i][2] = "pi" => reports[b][i][1] # end[1]
  BY <1>1, <1>2 DEF EndOK
<1>4. /\ ChainInv' /\ HeardInv' /\ OrderInv'
      /\ reports' \in [Appliers -> Seq(Ends)] /\ chain' \in Seq(Appliers)
      /\ step' \in [Appliers -> {"idle", "queued", "reported", "unheard"}]
      /\ record' \in Ends \cup {NoEnd} /\ unread' \in BOOLEAN /\ cut' \in 0..made
      /\ record' = record \/ (record' = end /\ \A b \in Appliers : reports'[b] = <<>>)
      /\ \A b \in Appliers : \A i \in DOMAIN reports'[b] :
             \/ i \in DOMAIN reports[b] /\ reports'[b][i] = reports[b][i]
             \/ b = a /\ reports'[b][i] = end
      /\ \A i \in DOMAIN reports'[0] : i = 1
      /\ a # 0 => reports'[0] = reports[0]
  BY <1>1, <1>3, ReportInv
<1>5. record # <<r, "pi">>
  <2> SUFFICES ASSUME record = <<r, "pi">> PROVE FALSE
    OBVIOUS
  <2>1. record[1] = r /\ record[2] = "pi"
    OBVIOUS
  <2> QED BY <1>1, <2>1 DEF IInv, EndsInv
<1>6. ASSUME NEW b \in Appliers, NEW i \in DOMAIN reports'[b] PROVE EndOK(b, reports[b][i])'
  <2>1. record' = record
    BY <1>4, <1>6
  <2>2. CASE i \in DOMAIN reports[b] /\ reports'[b][i] = reports[b][i]
    BY <1>2, <2>1, <2>2 DEF EndOK
  <2>3. CASE b = a /\ reports'[b][i] = end
    BY <1>1, <1>5, <2>1, <2>3 DEF EndOK
  <2> QED BY <2>2, <2>3, <1>4
<1>7. record'[1] <= made'
      /\ (record'[2] = "pi" => record'[1] = 0 \/ (record'[1] # current' /\ record'[1] \notin compactions'))
  <2>1. CASE record' = record
    BY <2>1 DEF IInv, EndsInv
  <2>2. CASE record' = end
    BY <1>1, <2>2
  <2> QED BY <1>4, <2>1, <2>2
<1>8. resuming' # 0 => up' /\ reports'[0] = <<>>
  BY <1>4 DEF IInv, EndsInv
<1>9. EndsInv'
  BY <1>4, <1>6, <1>7, <1>8 DEF EndsInv
<1>10. record' # record => record # <<record'[1], "pi">>
  BY <1>1, <1>4, <1>5
<1> QED BY <1>4, <1>9, <1>10

LEMMA StorageFailedInv ==
    ASSUME IInv, StorageFailed
    PROVE  IInv' /\ (record' # record => record # <<record'[1], "pi">>)
<1>1. /\ up /\ live = "open" /\ stops' = stops + 1
      /\ live' = "faulted" /\ driving' = 0
      /\ IF openRun = 0 THEN UNCHANGED <<record, unread, reports, step, chain, cut>>
         ELSE Report(runtime, <<openRun, "reins">>)
      /\ UNCHANGED <<child, made, compactions, current, result, resumes, told, up, runtime, openRun,
                     submitting, resuming, skipped>>
  BY DEF StorageFailed, row, applying, pi
<1>2. /\ runtime # 0 /\ openRun \in compactions \cup {0, current} /\ runtime \in Appliers
      /\ stops' \in Nat
  BY <1>1, Typed DEF IInv, OpsInv, TypeOK
<1>3. OpsInv'
  BY <1>1 DEF IInv, OpsInv
<1>4. CASE openRun = 0
  <2>1. ChainInv' /\ HeardInv' /\ OrderInv'
    BY <1>1, <1>4, Quiet
  <2>2. EndsInv'
    BY <1>1, <1>4 DEF IInv, EndsInv, EndOK
  <2>3. TypeOK'
    BY <1>1, <1>2, <1>4, Typed DEF IInv, TypeOK
  <2> QED BY <1>1, <1>3, <1>4, <2>1, <2>2, <2>3 DEF IInv
<1>5. CASE openRun # 0
  <2>1. openRun \in Runs /\ openRun <= made
    BY <1>5, Typed DEF IInv, TypeOK, Runs
  <2>2. /\ ChainInv' /\ HeardInv' /\ OrderInv' /\ EndsInv'
        /\ reports' \in [Appliers -> Seq(Ends)] /\ chain' \in Seq(Appliers)
        /\ step' \in [Appliers -> {"idle", "queued", "reported", "unheard"}]
        /\ record' \in Ends \cup {NoEnd} /\ unread' \in BOOLEAN /\ cut' \in 0..made
        /\ record' # record => record # <<record'[1], "pi">>
    BY <1>1, <1>2, <1>5, <2>1, ReinsReportInv
  <2>3. TypeOK'
    BY <1>1, <1>2, <2>2, Typed DEF IInv, TypeOK
  <2> QED BY <1>3, <2>2, <2>3 DEF IInv
<1> QED BY <1>4, <1>5

LEMMA StartInv ==
    ASSUME IInv, Start
    PROVE  IInv' /\ (record' # record => record # <<record'[1], "pi">>)
<1>1. /\ ~up /\ up' = TRUE
      /\ \/ UNCHANGED <<record, unread, reports, step, chain, cut>> /\ resuming' \in {resuming, current}
            /\ resumes' \in 0..ResumeLimit
         \/ /\ current # 0 /\ Report(0, <<current, "reins">>) /\ UNCHANGED <<resumes, resuming>>
      /\ UNCHANGED <<child, made, compactions, current, result, told, live, runtime, driving, openRun,
                     submitting, stops, skipped>>
  BY DEF Start, Interrupted, TakeAutoResume, row, applying, runs, pi, IInv, TypeOK
<1>2. resuming = 0 /\ 0 \in Appliers /\ reports[0] = <<>>
  <2>1. 0 \in Appliers /\ resuming \in 0..made
    BY Typed DEF IInv, TypeOK
  <2> QED BY <1>1, <2>1 DEF IInv, EndsInv, ChainInv
<1>3. OpsInv'
  BY <1>1 DEF IInv, OpsInv
<1>4. CASE /\ UNCHANGED <<record, unread, reports, step, chain, cut>> /\ resuming' \in {resuming, current}
           /\ resumes' \in 0..ResumeLimit
  <2>1. ChainInv' /\ HeardInv' /\ OrderInv'
    BY <1>1, <1>4, Quiet
  <2>2. EndsInv'
    BY <1>1, <1>2, <1>4 DEF IInv, EndsInv, EndOK
  <2>3. TypeOK'
    BY <1>1, <1>4 DEF IInv, TypeOK
  <2> QED BY <1>3, <1>4, <2>1, <2>2, <2>3 DEF IInv
<1>5. CASE current # 0 /\ Report(0, <<current, "reins">>) /\ UNCHANGED <<resumes, resuming>>
  <2>1. current \in Runs /\ current <= made
    BY <1>5, Typed DEF IInv, TypeOK, Runs
  <2>2. /\ ChainInv' /\ HeardInv' /\ OrderInv' /\ EndsInv'
        /\ reports' \in [Appliers -> Seq(Ends)] /\ chain' \in Seq(Appliers)
        /\ step' \in [Appliers -> {"idle", "queued", "reported", "unheard"}]
        /\ record' \in Ends \cup {NoEnd} /\ unread' \in BOOLEAN /\ cut' \in 0..made
        /\ record' # record => record # <<record'[1], "pi">>
    BY <1>1, <1>2, <1>5, <2>1, ReinsReportInv
  <2>3. TypeOK'
    BY <1>1, <1>5, <2>2 DEF IInv, TypeOK
  <2> QED BY <1>3, <2>2, <2>3 DEF IInv
<1> QED BY <1>1, <1>4, <1>5

LEMMA ResumeFailedInv ==
    ASSUME IInv, ResumeFailed
    PROVE  IInv' /\ (record' # record => record # <<record'[1], "pi">>)
<1>1. /\ up /\ resuming # 0 /\ resuming' = 0 /\ skipped' \in BOOLEAN
      /\ \/ UNCHANGED <<record, unread, reports, step, chain, cut>>
         \/ current = resuming /\ Report(0, <<resuming, "reins">>)
      /\ UNCHANGED <<child, made, compactions, current, result, resumes, told, up, live, runtime, driving,
                     openRun, submitting, stops>>
  BY DEF ResumeFailed, row, applying, runs, pi
<1>2. 0 \in Appliers /\ reports[0] = <<>> /\ resuming \in Runs /\ resuming <= made
  BY <1>1, Typed DEF IInv, TypeOK, EndsInv, Runs
<1>3. OpsInv'
  BY <1>1 DEF IInv, OpsInv
<1>4. CASE UNCHANGED <<record, unread, reports, step, chain, cut>>
  <2>1. ChainInv' /\ HeardInv' /\ OrderInv'
    BY <1>1, <1>4, Quiet
  <2>2. EndsInv'
    BY <1>1, <1>4 DEF IInv, EndsInv, EndOK
  <2>3. TypeOK'
    BY <1>1, <1>4, Typed DEF IInv, TypeOK
  <2> QED BY <1>3, <1>4, <2>1, <2>2, <2>3 DEF IInv
<1>5. CASE current = resuming /\ Report(0, <<resuming, "reins">>)
  <2>1. /\ ChainInv' /\ HeardInv' /\ OrderInv' /\ EndsInv'
        /\ reports' \in [Appliers -> Seq(Ends)] /\ chain' \in Seq(Appliers)
        /\ step' \in [Appliers -> {"idle", "queued", "reported", "unheard"}]
        /\ record' \in Ends \cup {NoEnd} /\ unread' \in BOOLEAN /\ cut' \in 0..made
        /\ record' # record => record # <<record'[1], "pi">>
    BY <1>1, <1>2, <1>5, ReinsReportInv
  <2>2. TypeOK'
    <3>1. resuming' \in 0..made
      BY <1>1, Typed DEF IInv
    <3> QED BY <1>1, <2>1, <3>1 DEF IInv, TypeOK
  <2> QED BY <1>3, <2>1, <2>2 DEF IInv
<1> QED BY <1>1, <1>4, <1>5
-----------------------------------------------------------------------------
LEMMA Inductive == IInv /\ [Next]_vars => IInv'
<1> SUFFICES ASSUME IInv, [Next]_vars PROVE IInv'
  OBVIOUS
<1>1. CASE Submit \/ OpenRuntime \/ SubmissionDone \/ CloseRuntime \/ WindowPasses
  BY <1>1, IdleInv
<1>2. CASE StartRun \/ StartCompaction
  BY <1>2, StartOperationInv
<1>3. CASE Drive \/ Resume \/ CompactionEnd
  BY <1>3, DriveInv
<1>4. CASE RunEnd
  BY <1>4, RunEndInv
<1>5. CASE StorageFailed
  BY <1>5, StorageFailedInv
<1>6. ASSUME NEW a \in Appliers, Tell(a) PROVE IInv'
  BY <1>6, TellInv DEF IInv
<1>7. ASSUME NEW a \in Appliers, Record(a) PROVE IInv'
  BY <1>7, RecordInv
<1>8. CASE Crash \/ EndUnsettled
  BY <1>8, ExitInv
<1>9. CASE Start
  BY <1>9, StartInv
<1>10. CASE ResumeFailed
  BY <1>10, ResumeFailedInv
<1>11. CASE UNCHANGED vars
  <2>1. UNCHANGED <<child, made, compactions, current, result, record, unread, resumes, told, up, live,
                    runtime, driving, openRun, submitting, resuming, reports, step, chain, stops, cut,
                    skipped>>
    BY <1>11 DEF vars, pi, row, runs, applying
  <2>2. ChainInv' /\ HeardInv' /\ OrderInv'
    BY <2>1, Quiet
  <2> QED BY <2>1, <2>2 DEF IInv, TypeOK, OpsInv, EndsInv, EndOK
<1> QED
  BY <1>1, <1>2, <1>3, <1>4, <1>5, <1>6, <1>7, <1>8, <1>9, <1>10, <1>11 DEF Next

LEMMA InvariantHolds == Spec => []IInv
BY InitInv, Inductive, PTL DEF Spec

\* The state has its type.
THEOREM TypeCorrect == Spec => []TypeOK
<1>1. IInv => TypeOK
  BY DEF IInv
<1> QED BY <1>1, InvariantHolds, PTL

\* A run's end is reported at most once, and the end a session is settled with last was
\* heard of, whatever exits cut off (reportToParent, runSettled).
THEOREM EndsHeard == Spec => []EndHeard
<1>1. IInv => EndHeard
  BY DEF IInv, HeardInv
<1> QED BY <1>1, InvariantHolds, PTL

\* A wait that finds the session at rest answers with Pi's end of its newest run, or with
\* Reins' end of a later one, unless Reins had given that run up (lastRunOutcome).
THEOREM WaitsAnswerTrue == Spec => []WaitTruthUnlessGivenUp
<1>1. IInv => WaitTruthUnlessGivenUp
  <2> SUFFICES ASSUME IInv, result # 0, ~GivenUp(result)
               PROVE  LastRunEnd = <<result, "pi">> \/ LastRunEnd[1] > result
    BY DEF WaitTruthUnlessGivenUp, WaitTruth
  <2>1. CASE ~(record[1] # 0 /\ record[1] \in {result, current})
    BY <2>1 DEF LastRunEnd
  <2>2. CASE record[1] # 0 /\ record[1] \in {result, current}
    <3>1. LastRunEnd = record /\ record \in Ends
      BY <2>2, EndParts DEF LastRunEnd, IInv, TypeOK
    <3>2. CASE record[1] = result
      BY <3>1, <3>2, EndParts DEF GivenUp
    <3>3. CASE record[1] = current
      BY <2>2, <3>1, <3>3, Typed DEF IInv, OpsInv
    <3> QED BY <2>2, <3>2, <3>3
  <2> QED BY <2>1, <2>2
<1> QED BY <1>1, InvariantHolds, PTL

\* Pi's end of a run is never replaced by Reins' end of it, by a recovery that looked at
\* the run before it ended (recoverInterruptedRuns, lifecycle.ts).
THEOREM PiEndsKept == Spec => PiEndKept
<1>1. IInv /\ [Next]_vars => [record[2] = "pi" => record' # <<record[1], "reins">>]_vars
  <2> SUFFICES ASSUME IInv, Next, record[2] = "pi", record' = <<record[1], "reins">> PROVE FALSE
    OBVIOUS
  <2>1. /\ record' # record /\ record'[1] = record[1] /\ record = <<record'[1], "pi">> /\ record'[2] = "reins"
    <3>1. record \in Ends \cup {NoEnd}
      BY DEF IInv, TypeOK
    <3>2. record = <<record[1], record[2]>>
      BY <3>1, EndParts DEF NoEnd
    <3> QED BY <3>2
  <2>2. CASE StorageFailed \/ Start \/ ResumeFailed
    BY <2>1, <2>2, StorageFailedInv, StartInv, ResumeFailedInv
  <2>3. CASE RunEnd
    <3>1. record' \in {record, <<driving, "pi">>}
      BY <2>3 DEF RunEnd, Report, Settle, row
    <3> QED BY <2>1, <3>1
  <2>4. ASSUME NEW a \in Appliers, Record(a) PROVE FALSE
    <3>1. reports[a] # <<>> /\ record' = Head(reports[a])
      BY <2>4 DEF Record, Settle, IInv, ChainInv
    <3>2. record' = reports[a][1] /\ 1 \in DOMAIN reports[a]
      BY <3>1, Typed, TailFacts DEF IInv
    <3>3. EndOK(a, reports[a][1])
      BY <3>2 DEF IInv, EndsInv
    <3> QED BY <2>1, <3>2, <3>3 DEF EndOK
  <2>5. record' = record \/ StorageFailed \/ Start \/ ResumeFailed \/ RunEnd
        \/ \E a \in Appliers : Record(a)
    BY DEF Next, Submit, OpenRuntime, StartRun, StartCompaction, StartOperation, Drive, SubmissionDone,
           CompactionEnd, CloseRuntime, Tell, Crash, EndUnsettled, Exit, Resume, WindowPasses, row
  <2> QED BY <2>1, <2>2, <2>3, <2>4, <2>5
<1> QED BY <1>1, InvariantHolds, PTL DEF Spec, PiEndKept

\* While an end is to be applied the process is up, and either an applier is between its
\* report and the settlement, or the first of the parent's chain has an end to report and
\* its turn has come.
ReportsMove ==
    \A a \in Appliers : reports[a] # <<>> =>
        /\ up
        /\ \/ \E b \in Appliers : Settling(b) /\ reports[b] # <<>>
           \/ NoneSettling /\ chain # <<>> /\ reports[Head(chain)] # <<>>

\* No end of a child's run is left unapplied behind a turn that never comes, whichever runtimes
\* were closed or faulted and however often the process exited (onSettled, reportToParent).
THEOREM ReportsKeepMoving == Spec => []ReportsMove
<1>1. IInv => ReportsMove
  <2> SUFFICES ASSUME IInv, NEW a \in Appliers, reports[a] # <<>>
               PROVE  /\ up
                      /\ \/ \E b \in Appliers : Settling(b) /\ reports[b] # <<>>
                         \/ NoneSettling /\ chain # <<>> /\ reports[Head(chain)] # <<>>
    BY DEF ReportsMove
  <2>1. chain \in Seq(Appliers)
    BY Typed DEF IInv
  <2>2. \A b \in Appliers : step[b] \in {"idle", "queued", "reported", "unheard"}
    BY DEF IInv, TypeOK
  <2>3. up /\ \A b \in Appliers : step[b] # "idle" => reports[b] # <<>>
    BY DEF IInv, ChainInv
  <2>4. CASE NoneSettling
    <3>1. step[a] = "queued"
      BY <2>4 DEF IInv, ChainInv, NoneSettling
    <3>2. PICK i \in DOMAIN chain : chain[i] = a
      BY <3>1 DEF IInv, ChainInv
    <3>3. chain # <<>>
      BY <3>2
    <3>4. Head(chain) \in Appliers /\ Head(chain) = chain[1] /\ 1 \in DOMAIN chain
      BY <2>1, <3>3, TailFacts
    <3>5. step[Head(chain)] = "queued"
      BY <3>4 DEF IInv, ChainInv
    <3> QED BY <2>3, <2>4, <3>3, <3>4, <3>5
  <2>5. CASE ~NoneSettling
    <3>1. PICK b \in Appliers : Settling(b)
      BY <2>2, <2>5 DEF NoneSettling, Settling
    <3> QED BY <2>3, <3>1 DEF Settling
  <2> QED BY <2>4, <2>5
<1> QED BY <1>1, InvariantHolds, PTL
=============================================================================
