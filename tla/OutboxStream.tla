----------------------------- MODULE OutboxStream -----------------------------
(*****************************************************************************)
(* What the delivery of one outbox stream promises, with nothing of how: the *)
(* worker submits commands, the control plane decides them one after the     *)
(* other, each once, and a decided command either has its public effect at   *)
(* that moment or never has it.                                              *)
(*****************************************************************************)
EXTENDS Integers, Sequences

VARIABLES
    stream,    \* commands submitted by the worker, [kind, stamp]
    consumed,  \* positions decided so far
    effects    \* the decided positions that had a public effect, in order

vars == <<stream, consumed, effects>>

Init == stream = <<>> /\ consumed = 0 /\ effects = <<>>

Submit ==
    /\ Len(stream') = Len(stream) + 1
    /\ \A n \in 1..Len(stream) : stream'[n] = stream[n]
    /\ UNCHANGED <<consumed, effects>>

\* Nothing touches the Pod after its finalization, and a status is shown only
\* when it is newer than every status shown before it.
MayTakeEffect(n) ==
    \A i \in 1..Len(effects) :
        LET earlier == stream[effects[i]]
        IN  /\ earlier.kind # "finalize"
            /\ earlier.kind = "status" /\ stream[n].kind = "status"
               => earlier.stamp < stream[n].stamp

Decide ==
    /\ consumed < Len(stream)
    /\ consumed' = consumed + 1
    /\ \/ effects' = effects
       \/ MayTakeEffect(consumed + 1) /\ effects' = Append(effects, consumed + 1)
    /\ UNCHANGED stream

Next == Submit \/ Decide

Spec == Init /\ [][Next]_vars
==============================================================================
