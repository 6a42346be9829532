------------------------------- MODULE Command -------------------------------
(***************************************************************************)
(* What a shell command run on a node promises its caller, whatever happens *)
(* to the links between them: the command is started once, its output is    *)
(* seen without a gap or a repetition, and its exit is returned only once   *)
(* all of it was seen.                                                      *)
(***************************************************************************)
EXTENDS Naturals, Sequences

CONSTANTS MaxOutput  \* bound: output records, the exit included

VARIABLES proc,    \* the command's process
          output,  \* the records it has put out; the last one is its exit
          shown,   \* those its caller has seen
          result   \* how the call ended

vars == <<proc, output, shown, result>>

Prefix(n) == [i \in 1..n |-> i]

Init == proc = "notrun" /\ output = 0 /\ shown = <<>> /\ result = "none"

Start == proc = "notrun" /\ proc' = "running" /\ UNCHANGED <<output, shown, result>>

Output ==
    /\ proc = "running" /\ output < MaxOutput - 1 /\ output' = output + 1
    /\ UNCHANGED <<proc, shown, result>>

\* It exits or is killed; its exit is a record unless nobody asks for it any more.
Exit ==
    /\ proc = "running" /\ proc' = "ended" /\ output' \in {output, output + 1}
    /\ UNCHANGED <<shown, result>>

\* The caller sees more of the output: the next record, or all there is by now.
Show ==
    /\ result = "none" /\ \E n \in (Len(shown) + 1)..output : shown' = Prefix(n)
    /\ UNCHANGED <<proc, output, result>>

\* The caller was restarted, and asks for the command again.
NewCaller == result = "none" /\ shown' = <<>> /\ UNCHANGED <<proc, output, result>>

\* The call ends: with the exit once all was seen, as not started when it was not; or it
\* is aborted, or its outcome is unknown.
Return ==
    /\ result = "none"
    /\ \/ result' = "exit" /\ proc = "ended" /\ Len(shown) = output
       \/ result' = "failed" /\ proc = "notrun"
       \/ result' \in {"aborted", "unknown"}
    /\ UNCHANGED <<proc, output, shown>>

\* The last record is seen as the call returns.
ShowAndReturn ==
    /\ result = "none" /\ proc = "ended" /\ output > 0 /\ shown' = Prefix(output)
    /\ result' \in {"exit", "aborted"}
    /\ UNCHANGED <<proc, output>>

Next == Start \/ Output \/ Exit \/ Show \/ NewCaller \/ Return \/ ShowAndReturn

Spec == Init /\ [][Next]_vars
=============================================================================
